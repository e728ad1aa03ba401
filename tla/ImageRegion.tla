----------------------------- MODULE ImageRegion -----------------------------
(***************************************************************************)
(* The part of an image a read covers (image_model/region.rs): a range of  *)
(* places [lo, hi) for each axis, and the byte runs a plain image's        *)
(* section is read in.  Axis 1 of a sequence is the fastest; places count  *)
(* from zero.                                                              *)
(***************************************************************************)
EXTENDS BitStream

Product(s) == FoldLeft(LAMBDA a, b : a * b, 1, s)

Places(n) == [i \in 1..n |-> i - 1]

Empty(dims) == \E i \in DOMAIN dims : dims[i] = 0

EmptyRange(r) == r.lo >= r.hi

\* validate_image_region: one range an axis, inside it.
RegionError(ranges, dims) ==
    IF Len(ranges) # Len(dims) THEN "RankMismatch"
    ELSE IF \E i \in DOMAIN dims : ranges[i].lo > ranges[i].hi \/ ranges[i].hi > dims[i]
    THEN "RegionOutOfBounds" ELSE "none"

RegionShape(ranges) == [i \in DOMAIN ranges |-> ranges[i].hi - ranges[i].lo]

\* The place of a section's row in the image: the higher axes peeled off one by one.
RowStart(dims, ranges, row) ==
    FoldLeft(LAMBDA s, i :
                [rest |-> s.rest \div (ranges[i].hi - ranges[i].lo),
                 at |-> s.at + (ranges[i].lo + (s.rest % (ranges[i].hi - ranges[i].lo))) * s.stride,
                 stride |-> s.stride * dims[i]],
             [rest |-> row, at |-> ranges[1].lo, stride |-> dims[1]],
             [k \in 1..Len(dims) - 1 |-> k + 1]).at

\* SectionRuns::visit: the section's rows in order, a row that starts where the
\* pending run ends joined to it.  A run is [at, len] in samples.
SectionRuns(dims, ranges) ==
    LET shape == RegionShape(ranges)
        join(s, row) ==
            LET next == [at |-> RowStart(dims, ranges, row), len |-> shape[1]]
                tail == s[Len(s)]
            IN  IF s # <<>> /\ tail.at + tail.len = next.at
                THEN [s EXCEPT ![Len(s)].len = @ + next.len]
                ELSE Append(s, next)
    IN  IF shape = <<>> \/ Empty(shape) THEN <<>>
        ELSE FoldLeft(join, <<>>, Places(Product(Tail(shape))))

\* The stored bytes of a run of samples of `size' bytes.
RunBytes(bytes, run, size) == SubSeq(bytes, run.at * size + 1, (run.at + run.len) * size)

\* What a section is: the sample at each place of the section, by its coordinates.
Crop(values, dims, ranges) ==
    LET shape == RegionShape(ranges)
        coord(p, i) == ((p \div Product(SubSeq(shape, 1, i - 1))) % shape[i]) + ranges[i].lo
        from(p) == FoldLeft(LAMBDA a, i : a + coord(p, i) * Product(SubSeq(dims, 1, i - 1)),
                            0, [i \in DOMAIN dims |-> i])
    IN  [k \in 1..(IF shape = <<>> THEN 0 ELSE Product(shape)) |-> values[from(k - 1) + 1]]

=============================================================================
