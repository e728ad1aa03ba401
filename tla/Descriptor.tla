------------------------------ MODULE Descriptor ------------------------------
(***************************************************************************)
(* The elements of a binary table's column (bintable/element_kind.rs,      *)
(* tform, tdim) and the descriptor of an array on its heap                 *)
(* (bintable/descriptor).  PMax and QMax are the largest numbers a P and a *)
(* Q descriptor hold, 2^31 - 1 and 2^63 - 1; UsizeMax is usize::MAX, past  *)
(* which checked arithmetic refuses.                                       *)
(***************************************************************************)
EXTENDS ImageModel

CONSTANTS PMax, QMax, UsizeMax

ASSUME DescriptorAssumption ==
    /\ PMax \in Nat /\ QMax \in Nat /\ UsizeMax \in Nat
    /\ PMax < QMax /\ QMax < UsizeMax

\* checked_add and checked_mul: {} is an overflow.
Checked(v) == IF v > UsizeMax THEN {} ELSE {v}

ElementKinds ==
    {"Logical", "Bit", "U8", "I16", "I32", "I64", "Character", "F32", "F64",
     "ComplexF32", "ComplexF64"}

\* ElementKind::bitpix: the kinds that are samples.
KindBitpix(kind) == {kind} \cap Bitpixes

KindSize(kind) ==
    CASE kind \in {"Logical", "Bit", "Character"} -> 1
      [] kind = "ComplexF32" -> 8
      [] kind = "ComplexF64" -> 16
      [] OTHER -> ElemSize(kind)

\* payload_len: bits are packed eight to a byte.
PayloadLen(kind, count) ==
    IF kind = "Bit" THEN {CeilDiv(count, 8)} ELSE Checked(count * KindSize(kind))

-----------------------------------------------------------------------------
(* TFORMn: [repeat, element, storage], storage "Fixed", "P" or "Q". *)

Tform(repeat, element, storage) == [repeat |-> repeat, element |-> element, storage |-> storage]

\* FromStr: a letter of no kind, and an array column of more than one descriptor,
\* are refused.
TformOk(tform) ==
    /\ tform.element \in ElementKinds
    /\ tform.storage # "Fixed" => tform.repeat <= 1

DescriptorBytes(width) == IF width = "P" THEN 8 ELSE 16

\* byte_width saturates where the product overflows.
ByteWidth(tform) ==
    IF tform.storage = "Fixed" THEN OrElse(PayloadLen(tform.element, tform.repeat), UsizeMax)
    ELSE tform.repeat * DescriptorBytes(tform.storage)

\* tdim::validate_shape and validate_extent: [error, dims] of a TDIMn that parses.
TdimError(dims, elementCount) ==
    IF dims = <<>> \/ Empty(dims) THEN "Range"
    ELSE IF Product(dims) > elementCount THEN "Structure" ELSE "none"

\* validate_vla_extent: an array of no elements has any shape.
VlaTdimError(dims, elementCount) == IF elementCount = 0 THEN "none" ELSE TdimError(dims, elementCount)

-----------------------------------------------------------------------------
(* Descriptors: [count, offset]. *)

EmptyDescriptor == [count |-> 0, offset |-> 0]

\* DescriptorWidth::addressing: the narrowest that reaches the heap's end.
Addressing(heapLen, maxCount) == IF heapLen > PMax \/ maxCount > PMax THEN "Q" ELSE "P"

FieldMax(width) == IF width = "P" THEN PMax ELSE QMax

\* PqDescriptor::integers, validate and write.
DescriptorError(d, width) ==
    IF d.count > FieldMax(width) \/ d.offset > FieldMax(width) THEN "DescriptorOutOfRange"
    ELSE "none"

WriteDescriptor(d, width) ==
    BeBytes(d.count, DescriptorBytes(width) \div 2) \o BeBytes(d.offset, DescriptorBytes(width) \div 2)

\* PqDescriptor::decode: the offset of an array of no elements is not read.
DecodeDescriptor(bytes) ==
    LET half == Len(bytes) \div 2
        count == FromBe(SubSeq(bytes, 1, half))
        offset == FromBe(SubSeq(bytes, half + 1, 2 * half))
    IN  IF count < 0 \/ (count > 0 /\ offset < 0) THEN [error |-> "InvalidPqDescriptor"]
        ELSE [error |-> "none",
              d |-> [count |-> count, offset |-> IF count = 0 THEN 0 ELSE offset]]

\* Mutant: the end wraps.
HeapRangeWraps(d, kind, heapStart, heapEnd) ==
    LET len == OrElse(PayloadLen(kind, d.count), 0)
        end == (heapStart + d.offset + len) % (UsizeMax + 1)
    IN  IF end > heapEnd THEN {} ELSE {[lo |-> heapStart + d.offset, hi |-> end]}

\* heap_range: the bytes of the array in the table, if they lie in its heap.
HeapRange(d, kind, heapStart, heapEnd) ==
    {[lo |-> heapStart, hi |-> heapStart] : len \in PayloadLen(kind, d.count) \cap {0}}
    \cup
    {[lo |-> heapStart + d.offset, hi |-> end] :
        end \in {e \in UNION {Checked(start + len) : start \in Checked(heapStart + d.offset),
                                                     len \in PayloadLen(kind, d.count) \ {0}} :
                    e <= heapEnd}}

=============================================================================
