------------------------------- MODULE Checksum -------------------------------
(***************************************************************************)
(* The ones'-complement sum of CHECKSUM and DATASUM (checksum/mod.rs) and   *)
(* the sum of bytes fed in pieces (checksum/running.rs).  A word has        *)
(* WordBytes bytes, 4 in the code; the arithmetic is that of the code for   *)
(* every width.                                                             *)
(***************************************************************************)
EXTENDS Integers, SequencesExt

CONSTANT WordBytes

ASSUME ChecksumAssumption == WordBytes \in Nat \ {0}

\* 0xFFFF_FFFF.
AllOnes == 256 ^ WordBytes - 1

\* u32::from_be_bytes.
BeWord(bytes) == FoldLeft(LAMBDA w, b : w * 256 + b, 0, bytes)

BeWords(bytes) ==
    [k \in 1..Len(bytes) \div WordBytes |->
        BeWord(SubSeq(bytes, (k - 1) * WordBytes + 1, k * WordBytes))]

\* fold: the end-around carries added back until none is left.
FoldCarries[total \in Nat] ==
    IF total <= AllOnes THEN total
    ELSE FoldCarries[(total % (AllOnes + 1)) + total \div (AllOnes + 1)]

\* combine: one addition's carry.
Combine(left, right) ==
    LET carry == IF left + right > AllOnes THEN 1 ELSE 0
    IN  (left + right + carry) % (AllOnes + 1)

\* accumulate: the words added in a wide total, whose carries fold in once.
Accumulate(bytes, seed) == FoldCarries[FoldLeft(LAMBDA t, w : t + w, seed, BeWords(bytes))]

-----------------------------------------------------------------------------
(* Running: [sum, partial], partial the bytes of a word still short. *)

NewRunning == [sum |-> 0, partial |-> <<>>]

\* Mutant: a piece completes the word held, however short it is.
RunningUpdateEager(r, bytes) ==
    LET fill == IF r.partial = <<>> THEN 0
                ELSE Min({WordBytes - Len(r.partial), Len(bytes)})
        word == r.partial \o SubSeq(bytes, 1, fill)
        rest == SubSeq(bytes, fill + 1, Len(bytes))
        whole == Len(rest) - (Len(rest) % WordBytes)
    IN  [sum |-> Accumulate(SubSeq(rest, 1, whole),
                            IF word = <<>> THEN r.sum ELSE Combine(r.sum, BeWord(word))),
         partial |-> SubSeq(rest, whole + 1, Len(rest))]

\* update: the bytes complete the word held before whole words are added.
RunningUpdate(r, bytes) ==
    LET fill == IF r.partial = <<>> THEN 0
                ELSE Min({WordBytes - Len(r.partial), Len(bytes)})
        word == r.partial \o SubSeq(bytes, 1, fill)
        rest == SubSeq(bytes, fill + 1, Len(bytes))
        sum == IF word = <<>> THEN r.sum ELSE Combine(r.sum, BeWord(word))
        whole == Len(rest) - (Len(rest) % WordBytes)
    IN  IF word # <<>> /\ Len(word) < WordBytes THEN [r EXCEPT !.partial = word]
        ELSE [sum |-> Accumulate(SubSeq(rest, 1, whole), sum),
              partial |-> SubSeq(rest, whole + 1, Len(rest))]

-----------------------------------------------------------------------------
(* encode: the complement of a sum as 4 * WordBytes characters. *)

\* The 13 characters between the digits and the letters: 58..64 and 91..96.
Punctuation == [k \in 1..13 |-> IF k <= 7 THEN 57 + k ELSE 83 + k]

Alphanumeric == (48..57) \cup (65..90) \cup (97..122)

\* One pass over the punctuation in order: a pair that holds the character moves
\* its first up and its second down.
NudgedPass(ch) ==
    LET nudge(c, ex) ==
            LET by(j) == IF ex \in {c[j], c[j + 1]} THEN 1 ELSE 0
            IN  <<c[1] + by(1), c[2] - by(1), c[3] + by(3), c[4] - by(3)>>
    IN  FoldLeft(nudge, ch, Punctuation)

Quads == [1..4 -> Int]

\* The passes until one changes nothing.
NudgedOff[ch \in Quads] == IF NudgedPass(ch) = ch THEN ch ELSE NudgedOff[NudgedPass(ch)]

\* The four characters of one byte.
EncodeByte(byte) ==
    LET quarter == byte \div 4 + 48
    IN  NudgedOff[<<quarter + (byte % 4), quarter, quarter, quarter>>]

\* The sum's bytes, big-endian.
WordToBytes(sum) == [k \in 1..WordBytes |-> (sum \div (256 ^ (WordBytes - k))) % 256]

\* encode: the j-th characters of all bytes form the j-th word, then the whole is
\* rotated one character right, to where a card's value begins.
EncodeSum(sum) ==
    LET bytes == WordToBytes(AllOnes - sum)
        asc == [k \in 1..4 * WordBytes |->
                    EncodeByte(bytes[((k - 1) % WordBytes) + 1])[((k - 1) \div WordBytes) + 1]]
    IN  <<asc[Len(asc)]>> \o SubSeq(asc, 1, Len(asc) - 1)

=============================================================================
