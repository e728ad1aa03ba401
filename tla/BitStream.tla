----------------------------- MODULE BitStream -----------------------------
(***************************************************************************)
(* Bits, bytes and two's complement, as the codecs use them.  A stream is  *)
(* a sequence of bytes; a reader of it is [pos, nbits]: `pos' bytes are    *)
(* loaded and `nbits' of them are not yet consumed, so the next bit is the *)
(* stream's bit 8 * pos - nbits.                                           *)
(***************************************************************************)
EXTENDS Integers, Sequences, SequencesExt

Byte == 8

\* `body' of a value. A name bound by LET stands for its definition wherever it is
\* used; the parameter of `body' stands for the value, worked out once.
With(value, body(_)) == body(value)

CeilDiv(a, b) == (a + b - 1) \div b

MinOf(a, b) == IF a < b THEN a ELSE b
MaxOf(a, b) == IF a > b THEN a ELSE b
AbsOf(a) == IF a < 0 THEN -a ELSE a

\* The low n bits of v, most significant first.
Bits(v, n) == [i \in 1..n |-> (v \div 2^(n - i)) % 2]

\* The number a sequence of bits spells, most significant first.
Number(bits) == FoldLeft(LAMBDA acc, b : 2 * acc + b, 0, bits)

Zeros(n) == [i \in 1..n |-> 0]

\* Bits packed into bytes, the last byte's unused low bits zero.
Packed(bits) ==
    [k \in 1..CeilDiv(Len(bits), Byte) |->
        Number([i \in 1..Byte |->
            IF Byte * (k - 1) + i <= Len(bits) THEN bits[Byte * (k - 1) + i] ELSE 0])]

\* The stream's bit at a place counted from zero.
BitAt(bytes, at) == Bits(bytes[at \div Byte + 1], Byte)[(at % Byte) + 1]

\* The next n bits of a reader of `bytes', as a number.
Peek(bytes, r, n) ==
    Number([i \in 1..n |-> BitAt(bytes, Byte * r.pos - r.nbits + i - 1)])

\* The w-bit two's complement value of a residue, and back.
Signed(v, w) == IF v % 2^w >= 2^(w - 1) THEN (v % 2^w) - 2^w ELSE v % 2^w
Unsigned(v, w) == v % 2^w

=============================================================================
