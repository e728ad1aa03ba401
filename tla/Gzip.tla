-------------------------------- MODULE Gzip --------------------------------
(***************************************************************************)
(* GZIP_1 and GZIP_2 (compression/gzip/mod.rs).  Deflate is flate2's, so a *)
(* gzip member is a record of what gunzip_into and member_body tell apart: *)
(*   magic, reserved, fields, hcrc   the fixed header, a reserved flag, the *)
(*                  announced optional fields being whole, the header CRC  *)
(*   deflate        how the deflate data ends: "end", "cut" or "bad"       *)
(*   data           the bytes inflated before that end                     *)
(*   trailer        the eight bytes being there                            *)
(*   crc, size      the bytes the CRC-32 stands for, and ISIZE             *)
(* A buffer is [held, cap]: its contents and its capacity, which a reused  *)
(* buffer keeps.                                                           *)
(***************************************************************************)
EXTENDS BitStream

NoBuffer == [held |-> <<>>, cap |-> 0]

\* allocation::try_grow_to and try_reserve_exact: never below what is there.
GrowTo(buffer, cap) == [buffer EXCEPT !.cap = MaxOf(@, cap)]

\* Mutant: a reused buffer is appended to.
Appended(buffer) == buffer

Cleared(buffer) == [buffer EXCEPT !.held = <<>>]

\* What a cleared buffer holds once `values' are appended to it.
Filled(buffer, values) ==
    LET held == buffer.held \o values
    IN  [held |-> held, cap |-> MaxOf(buffer.cap, Len(held))]

\* room: a byte past the size shows an expansion bomb.
Room(expected) == expected + 1

\* The byte planes of `width' bytes an element.
ShuffleBytes(raw, width) ==
    LET n == Len(raw) \div width
    IN  IF width <= 1 THEN raw
        ELSE [k \in DOMAIN raw |->
                IF k > n * width THEN 0
                ELSE raw[((k - 1) % n) * width + (k - 1) \div n + 1]]

\* Mutant: the planes of an eight-byte element only.
UnshuffleWide(planes, width) == IF width < 8 THEN planes ELSE ShuffleBytes(planes, width)

\* interleave, for the widths the unshuffle is compiled for.
UnshuffleBytes(planes, width) ==
    LET n == Len(planes) \div width
    IN  IF width \notin {2, 4, 8} THEN planes
        ELSE [k \in 1..Len(planes) |->
                IF k > n * width THEN 0
                ELSE planes[((k - 1) % width) * n + (k - 1) \div width + 1]]

\* member_header, deflate and the trailer of `raw'.
Member(raw) ==
    [magic |-> TRUE, reserved |-> FALSE, fields |-> TRUE, hcrc |-> TRUE,
     deflate |-> "end", data |-> raw, trailer |-> TRUE, crc |-> raw, size |-> Len(raw)]

GzipEncode(raw, shuffle) == Member(ShuffleBytes(raw, shuffle))

MemberBodyOk(member) ==
    /\ member.magic
    /\ ~member.reserved
    /\ member.fields
    /\ member.hcrc

\* gunzip_into: inflating stops at the buffer's capacity, which a reused buffer
\* may have past the room; the errors come in the code's order.  Corrupt data is met
\* only where the bytes before it leave room.
GunzipInto(buffer, member, expected) ==
    LET empty == GrowTo(Cleared(buffer), Room(expected))
    IN  With([empty EXCEPT !.held = @ \o SubSeq(member.data, 1, MinOf(Len(member.data), empty.cap))], LAMBDA out :
    LET ended == member.deflate = "end" /\ Len(member.data) <= empty.cap
        result(error) == [error |-> error, buffer |-> out]
    IN  IF ~MemberBodyOk(member) THEN [error |-> "GzipHeader", buffer |-> buffer]
        ELSE IF member.deflate = "bad" /\ Len(member.data) < empty.cap
        THEN result("GzipStream")
        ELSE IF Len(out.held) > expected THEN result("GzipOverrun")
        ELSE IF ~ended \/ ~member.trailer THEN result("GzipTruncated")
        ELSE IF member.crc # out.held \/ member.size # Len(out.held)
        THEN result("GzipChecksum")
        ELSE IF Len(out.held) # expected THEN result("SizeMismatch")
        ELSE result("none"))

\* Codec::decode: GZIP_2 inflates into `reordered' and unshuffles into `bytes'.
GzipDecode(scratch, member, expected, shuffle) ==
    With(GunzipInto(IF shuffle <= 1 THEN scratch.bytes ELSE scratch.reordered,
                    member, expected), LAMBDA g :
        With(Filled(Cleared(scratch.bytes), UnshuffleBytes(g.buffer.held, shuffle)), LAMBDA bytes :
        IF shuffle <= 1
        THEN [error |-> g.error, scratch |-> [scratch EXCEPT !.bytes = g.buffer]]
        ELSE IF g.error # "none"
        THEN [error |-> g.error, scratch |-> [scratch EXCEPT !.reordered = g.buffer]]
        ELSE [error |-> "none",
              scratch |-> [scratch EXCEPT !.reordered = g.buffer, !.bytes = bytes]]))

\* Codec::decode_capacities; the inflate state is a constant of flate2's.
GzipCapacities(expected, shuffle) ==
    IF shuffle <= 1 THEN [bytes |-> Room(expected), reordered |-> 0]
    ELSE [bytes |-> expected, reordered |-> Room(expected)]

=============================================================================
