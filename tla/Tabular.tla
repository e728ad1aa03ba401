-------------------------------- MODULE Tabular --------------------------------
(***************************************************************************)
(* Tabular (-TAB) world coordinates (world_coordinates/tabular/mod.rs):    *)
(* the descriptors a header gives, the transform built from a table's      *)
(* arrays, and the transform both ways.                                    *)
(*                                                                         *)
(* The code's f64 values are exact fractions here, a fraction <<n, d>> in  *)
(* lowest terms with d > 0, so the tolerance the search allows for         *)
(* rounding is none.  A transform is [axes, references, lengths, indices,  *)
(* coordinates]: the image axis, the reference index and the length of     *)
(* each table axis, its index vector as a set of at most one [values,      *)
(* increasing], and the coordinates, those of one point together.          *)
(* Positions count from zero.                                              *)
(***************************************************************************)
EXTENDS BinTable

\* The halvings of a cell the search makes (31), the work it may do (2^22), and
\* the axes of a table at most (7).
CONSTANTS SearchLevels, MaxInverseWork, MaxTableAxes

ASSUME TabularAssumption ==
    /\ SearchLevels \in Nat /\ MaxInverseWork \in Nat /\ MaxTableAxes \in Nat \ {0}

-----------------------------------------------------------------------------
(* Fractions. *)

GcdOf[p \in Nat \X Nat] == IF p[2] = 0 THEN p[1] ELSE GcdOf[<<p[2], p[1] % p[2]>>]

Fraction(n, d) ==
    LET g == GcdOf[<<AbsOf(n), AbsOf(d)>>]
        sign == IF d < 0 THEN -1 ELSE 1
    IN  <<sign * (n \div g), AbsOf(d) \div g>>

Whole(n) == <<n, 1>>
Half == <<1, 2>>
Plus(a, b) == Fraction(a[1] * b[2] + b[1] * a[2], a[2] * b[2])
Minus(a, b) == Fraction(a[1] * b[2] - b[1] * a[2], a[2] * b[2])
Times(a, b) == Fraction(a[1] * b[1], a[2] * b[2])
Over(a, b) == Fraction(a[1] * b[2], a[2] * b[1])
Leq(a, b) == a[1] * b[2] <= b[1] * a[2]
Less(a, b) == a[1] * b[2] < b[1] * a[2]
Between(lo, v, hi) == Leq(lo, v) /\ Leq(v, hi)
FloorOf(a) == a[1] \div a[2]

\* first + f * (second - first), as first * (1 - f) + second * f.
Interpolated(first, second, f) == Plus(Times(first, Minus(Whole(1), f)), Times(second, f))

-----------------------------------------------------------------------------
(* descriptors.  An axis of the header is [tab, extension, column, version,   *)
(* level, tableAxis, crval, index, scale], keywords sets of at most one.      *)

\* integer_parameter.
Parameter(option) == OrElse(option, 1)

\* TabularReference, and identifies_same_array.
ReferenceOf(axis) ==
    [extension |-> OrElse(axis.extension, ""), version |-> Parameter(axis.version),
     level |-> Parameter(axis.level), column |-> OrElse(axis.column, "")]

\* required_text and the checks of one axis.
AxisError(axis, axisCount) ==
    IF axis.extension \in {{}, {""}} THEN "MissingExtension"
    ELSE IF axis.column \in {{}, {""}} THEN "MissingCoordinateColumn"
    ELSE IF \E p \in axis.version \cup axis.level \cup axis.tableAxis : p < 1
    THEN "NonPositiveParameter"
    ELSE IF Parameter(axis.tableAxis) > axisCount THEN "TableAxisPastCount"
    ELSE IF NotFinite \in axis.crval THEN "NonFiniteReference"
    ELSE "none"

\* descriptors: one a coordinate array, its axes by their place in the table.
Descriptors(axes) ==
    LET tabs == SelectSeq([k \in DOMAIN axes |-> k], LAMBDA k : axes[k].tab)
        axisError(k) == IF AxisError(axes[k], Len(axes)) # "none" THEN AxisError(axes[k], Len(axes))
                        ELSE IF \E j \in 1..k - 1 :
                                    /\ axes[j].tab
                                    /\ ReferenceOf(axes[j]) = ReferenceOf(axes[k])
                                    /\ Parameter(axes[j].tableAxis) = Parameter(axes[k].tableAxis)
                        THEN "DuplicateTableAxis" ELSE "none"
        firsts == SelectSeq(tabs, LAMBDA k : \A j \in 1..k - 1 :
                    ~axes[j].tab \/ ReferenceOf(axes[j]) # ReferenceOf(axes[k]))
        members(k) == {j \in DOMAIN axes : axes[j].tab /\ ReferenceOf(axes[j]) = ReferenceOf(axes[k])}
        places(k) == {Parameter(axes[j].tableAxis) : j \in members(k)}
        at(k, p) == CHOOSE j \in members(k) : Parameter(axes[j].tableAxis) = p
        described(k) ==
            IF places(k) # 1..Cardinality(places(k)) THEN Err("IncompleteTableAxes")
            ELSE Ok([reference |-> ReferenceOf(axes[k]),
                     axes |-> [p \in 1..Cardinality(places(k)) |->
                        LET axis == axes[at(k, p)]
                        IN  [imageAxis |-> at(k, p), reference |-> OrElse(axis.crval, 0),
                             index |-> axis.index, scale |-> axis.scale]]])
    IN  With(Collected([n \in DOMAIN tabs |->
               IF axisError(tabs[n]) # "none" THEN Err(axisError(tabs[n])) ELSE Ok(0)]), LAMBDA errors :
        Then(errors, LAMBDA none : Collected([n \in DOMAIN firsts |-> described(firsts[n])])))

\* referenced_columns.
ReferencedColumns(descriptor) ==
    {descriptor.reference.column} \cup UNION {descriptor.axes[p].index : p \in DOMAIN descriptor.axes}

-----------------------------------------------------------------------------
(* The arrays, and from_arrays. *)

\* tabular_arrays' first_row: [shape, values].
FirstRow(view, name) ==
    IF view.schema.rowCount = 0 THEN Err("EmptyTable")
    ELSE Then(IndexOfColumn(view.schema.columns, name), LAMBDA index :
        LET col == view.schema.columns[index + 1]
        IN  With(IF IsFixed(col)
                 THEN Then(PhysicalOf(view, col, <<>>), LAMBDA v : Ok(SubSeq(v, 1, col.tform.repeat)))
                 ELSE Then(VlaPhysical(view, col), LAMBDA v : Ok(SubSeq(v.values, 1, v.ends[1]))), LAMBDA rows :
            Then(rows, LAMBDA values :
                Asked(col, {"TDIM"}, Ok([shape |-> OrElse(col.tdim, <<Len(values)>>),
                                         values |-> values])))))

TabularArrays(descriptor, view) ==
    Then(FirstRow(view, descriptor.reference.column), LAMBDA coordinates :
    Then(Collected([p \in DOMAIN descriptor.axes |->
            IF descriptor.axes[p].index = {} THEN Ok({})
            ELSE Then(FirstRow(view, OrElse(descriptor.axes[p].index, "")), LAMBDA a : Ok({a}))]),
         LAMBDA indices : Ok([coordinates |-> coordinates, indices |-> indices])))

\* validate_index: values that never turn.
IndexError(values) ==
    LET up == \E k \in 1..Len(values) - 1 : values[k] < values[k + 1]
        down == \E k \in 1..Len(values) - 1 : values[k] > values[k + 1]
    IN  IF \E k \in DOMAIN values : values[k] = NotFinite THEN "NonFiniteIndex"
        ELSE IF up /\ down THEN "NonMonotonicIndex"
        ELSE IF Len(values) > 1 /\ ~up /\ ~down THEN "ConstantIndex" ELSE "none"

IndexVector(values) ==
    [values |-> [k \in DOMAIN values |-> Whole(values[k])],
     increasing |-> \A k \in 1..Len(values) - 1 : values[k] <= values[k + 1]]

\* from_arrays; an array of one axis may leave out its length of one.
TransformOf(descriptor, arrays) ==
    LET n == Len(descriptor.axes)
        given == arrays.coordinates.shape
        shape == IF n = 1 /\ Len(given) = 1 THEN <<1>> \o given ELSE given
        lengths == Tail(shape)
        values == arrays.coordinates.values
        index(p) == CHOOSE a \in arrays.indices[p] : TRUE
    IN  With(Collected([p \in 1..n |->
              IF arrays.indices[p] = {} THEN Ok({})
              ELSE IF Len(index(p).shape) > 1 \/ Len(index(p).values) # lengths[p]
              THEN Err("IndexLength")
              ELSE IF IndexError(index(p).values) # "none" THEN Err(IndexError(index(p).values))
              ELSE Ok({IndexVector(index(p).values)})]), LAMBDA indices :
        IF n > MaxTableAxes THEN Err("TooManyAxes")
        ELSE IF Len(shape) # n + 1 THEN Err("CoordinateShape")
        ELSE IF shape[1] # n THEN Err("CoordinateShape")
        ELSE IF Empty(lengths) THEN Err("EmptyAxis")
        ELSE IF Checked(Product(shape)) = {} THEN Err("CoordinateArrayTooLarge")
        ELSE IF Len(values) # Product(shape) THEN Err("CoordinateCount")
        ELSE IF \E k \in DOMAIN values : values[k] = NotFinite THEN Err("NonFiniteCoordinate")
        ELSE Then(indices, LAMBDA vectors :
                Ok([axes |-> [p \in 1..n |-> descriptor.axes[p].imageAxis],
                    references |-> [p \in 1..n |-> Whole(descriptor.axes[p].reference)],
                    lengths |-> lengths, indices |-> vectors,
                    coordinates |-> [k \in DOMAIN values |->
                        Whole(values[k] * descriptor.axes[((k - 1) % n) + 1].scale)]])))

-----------------------------------------------------------------------------
(* Pixel to world. *)

\* partition_point of values in order: how many come before the target.
Preceding(values, target, increasing) ==
    Cardinality({k \in DOMAIN values : IF increasing THEN Less(values[k], target)
                                       ELSE Less(target, values[k])})

\* index_to_array: the array position of an index value, by the segment that holds
\* it or, past an end, the end's own within half a step.
IndexToArray(t, p, psi) ==
    LET index == CHOOSE i \in t.indices[p] : TRUE
        v == index.values
        last == Len(v)
        step(k) == IF Less(v[k], v[k + 1]) THEN Minus(v[k + 1], v[k]) ELSE Minus(v[k], v[k + 1])
        before(a, b) == IF index.increasing THEN Less(a, b) ELSE Less(b, a)
        off(a, s) == IF index.increasing THEN Plus(a, Times(Half, s)) ELSE Minus(a, Times(Half, s))
        lower == Preceding(v, psi, index.increasing)
        notAfter == Cardinality({k \in DOMAIN v : ~before(psi, v[k])})
        segment == IF before(psi, v[1]) THEN 1
                   ELSE IF before(v[last], psi) THEN last - 1
                   ELSE IF lower # 0 THEN lower ELSE notAfter
    IN  IF t.indices[p] = {} THEN Ok(psi)
        ELSE IF last = 1
        THEN IF Between(Minus(v[1], Half), psi, Plus(v[1], Half))
             THEN Ok(Plus(Minus(psi, v[1]), Whole(1))) ELSE Err("domain")
        ELSE IF before(psi, off(v[1], Minus(Whole(0), step(1))))
                \/ before(off(v[last], step(last - 1)), psi)
        THEN Err("domain")
        ELSE IF v[segment] = v[segment + 1] THEN Err("domain")
        ELSE Ok(Plus(Whole(segment), Over(Minus(psi, v[segment]), Minus(v[segment + 1], v[segment]))))

\* Mutant: before the first value its segment is extended from the end of it.
ArrayToIndexBefore(t, p, upsilon) ==
    LET v == (CHOOSE i \in t.indices[p] : TRUE).values
        floor == MinOf(FloorOf(upsilon), Len(v) - 1)
        lower == MaxOf(floor, 1)
    IN  IF t.indices[p] = {} THEN upsilon
        ELSE IF Len(v) = 1 THEN Minus(Plus(upsilon, v[1]), Whole(1))
        ELSE Plus(v[lower], Times(Minus(upsilon, Whole(floor)), Minus(v[lower + 1], v[lower])))

\* array_to_index.
ArrayToIndex(t, p, upsilon) ==
    LET v == (CHOOSE i \in t.indices[p] : TRUE).values
        lower == MinOf(MaxOf(FloorOf(upsilon) - 1, 0), Len(v) - 2) + 1
    IN  IF t.indices[p] = {} THEN upsilon
        ELSE IF Len(v) = 1 THEN Minus(Plus(upsilon, v[1]), Whole(1))
        ELSE Plus(v[lower], Times(Minus(upsilon, Whole(lower)), Minus(v[lower + 1], v[lower])))

InAxis(t, p, upsilon) == Between(Half, upsilon, Plus(Whole(t.lengths[p]), Half))

\* axis_interval: [position, fraction] of an intermediate coordinate; before the
\* first and after the last point the end interval is extended.
AxisInterval(t, p, x) ==
    Then(IndexToArray(t, p, Plus(x, t.references[p])), LAMBDA upsilon :
        LET one == FloorOf(upsilon)
            length == t.lengths[p]
            shift == IF one = 0 THEN 1 ELSE IF one = length /\ length > 1 THEN -1 ELSE 0
        IN  IF ~InAxis(t, p, upsilon) THEN Err("domain")
            ELSE Ok([position |-> one - 1 + shift,
                     fraction |-> Minus(upsilon, Whole(one + shift))]))

\* variable_axes: the axes a point lies between two places of.
VariableAxes(t) == {p \in DOMAIN t.lengths : t.lengths[p] > 1}

\* coordinate_offset: the first coordinate of a point.
CoordinateOffset(t, places) ==
    LET n == Len(t.axes)
        point == FoldLeft(LAMBDA a, k : a * t.lengths[n + 1 - k] + places[n + 1 - k], 0,
                          [k \in 1..n |-> k])
    IN  point * n

\* for_each_interpolation_vertex and to_world's sum: one coordinate of a place
\* among the points around it.
InterpolatedAxis(t, intervals, p) ==
    LET weight(upper) ==
            FoldSet(LAMBDA q, w : Times(w, IF q \in upper THEN intervals[q].fraction
                                           ELSE Minus(Whole(1), intervals[q].fraction)),
                    Whole(1), VariableAxes(t))
        point(upper) == [q \in DOMAIN t.axes |->
                            intervals[q].position + (IF q \in upper THEN 1 ELSE 0)]
    IN  FoldSet(LAMBDA upper, sum :
                    Plus(sum, Times(t.coordinates[CoordinateOffset(t, point(upper)) + p], weight(upper))),
                Whole(0), SUBSET VariableAxes(t))

\* to_world of the coordinates of the transform's axes; one axis needs no weights.
ToWorld(t, xs) ==
    With(Collected([p \in DOMAIN t.axes |-> AxisInterval(t, p, xs[p])]), LAMBDA intervals :
    LET one(i) == IF t.lengths[1] = 1 THEN t.coordinates[1]
                  ELSE Interpolated(t.coordinates[i.position + 1], t.coordinates[i.position + 2],
                                    i.fraction)
    IN  Then(intervals, LAMBDA is :
            IF Len(t.axes) = 1 THEN Ok(<<one(is[1])>>)
            ELSE Ok([p \in DOMAIN t.axes |-> InterpolatedAxis(t, is, p)])))

-----------------------------------------------------------------------------
(* World to pixel. *)

\* intermediate.
Intermediate(t, p, interval) ==
    LET upsilon == Plus(Whole(interval.position + 1), interval.fraction)
    IN  IF ~InAxis(t, p, upsilon) THEN Err("domain")
        ELSE Ok(Minus(ArrayToIndex(t, p, upsilon), t.references[p]))

\* monotonic_runs: [start, end] of the longest runs of usable intervals that rise
\* or that fall.
MonotonicRuns(t) ==
    LET c == t.coordinates
        usable(k) == /\ c[k + 1] # c[k + 2]
                     /\ \A i \in t.indices[1] : i.values[k + 1] # i.values[k + 2]
        rising(k) == Less(c[k + 1], c[k + 2])
        joins(k) == usable(k) /\ usable(k + 1) /\ rising(k) = rising(k + 1)
    IN  With(SelectSeq([k \in 1..Len(c) - 1 |-> k - 1],
                       LAMBDA k : usable(k) /\ (k = 0 \/ ~joins(k - 1))), LAMBDA starts :
    LET end(k) == CHOOSE e \in k..Len(c) - 2 :
                    /\ \A j \in k..e - 1 : joins(j)
                    /\ e = Len(c) - 2 \/ ~joins(e)
    IN  [r \in DOMAIN starts |-> [start |-> starts[r], end |-> end(starts[r]) + 1,
                                  increasing |-> rising(starts[r])]])

\* locate_one_dimensional: the first interval in array order that holds the target.
LocateOneDimensional(t, target) ==
    LET c == t.coordinates
    IN  With(MonotonicRuns(t), LAMBDA runs :
    LET holds(r) == IF runs[r].increasing
                    THEN Between(c[runs[r].start + 1], target, c[runs[r].end + 1])
                    ELSE Between(c[runs[r].end + 1], target, c[runs[r].start + 1])
        hits == {r \in DOMAIN runs : holds(r)}
        run == runs[CHOOSE r \in hits : \A q \in hits : r <= q]
        below == Preceding(SubSeq(c, run.start + 1, run.end + 1), target, run.increasing)
        at(k) == [position |-> k, fraction |-> Over(Minus(target, c[k + 1]), Minus(c[k + 2], c[k + 1]))]
    IN  With(/\ Len(c) > 1 /\ c[1] # c[2]
             /\ Between(Minus(Whole(0), Half), at(0).fraction, Whole(0)), LAMBDA first :
    LET last == Len(c) - 2
    IN  IF target = c[1] THEN Ok([position |-> 0, fraction |-> Whole(0)])
        ELSE IF hits # {} THEN Ok(at(run.start + MaxOf(below - 1, 0)))
        ELSE IF first THEN Ok(at(0))
        ELSE IF /\ last > 0 /\ c[last + 1] # c[last + 2]
                /\ Between(Whole(1), at(last).fraction, Plus(Whole(1), Half))
        THEN Ok(at(last))
        ELSE Err("domain")))

-----------------------------------------------------------------------------
(* World to pixel of several axes: a search of the cells between the points.  *)
(* A cell is [base, start, extent] by axis; a voxel of it at a level is its    *)
(* place in each axis among the 2^level the extent is cut into.                *)

\* The corners of a cell in the order of their numbers: the axes on whose far
\* side each lies.
Vertices(t) ==
    LET axes == SetToSortSeq(VariableAxes(t), LAMBDA p, q : p < q)
        far(v) == {b \in DOMAIN axes : ((v - 1) \div 2 ^ (b - 1)) % 2 = 1}
    IN  [v \in 1..2 ^ Len(axes) |-> {axes[b] : b \in far(v)}]

CellLengths(t) == [p \in DOMAIN t.lengths |-> MaxOf(t.lengths[p] - 1, 1)]

\* enter_cell: an end cell reaches half an interval past the points.
EnterCell(t, cell) ==
    LET lengths == CellLengths(t)
        base == [p \in DOMAIN lengths |-> (cell \div Product(SubSeq(lengths, 1, p - 1))) % lengths[p]]
        start(p) == IF base[p] = 0 THEN Fraction(-1, 2) ELSE Whole(0)
        end(p) == IF base[p] = t.lengths[p] - 2 THEN Fraction(3, 2) ELSE Whole(1)
    IN  [base |-> base, start |-> [p \in DOMAIN base |-> start(p)],
         extent |-> [p \in DOMAIN base |->
            IF t.lengths[p] = 1 THEN Whole(1) ELSE Minus(end(p), start(p))]]

\* fill_corners: the place of a voxel's corner in its cell, and the world there.
CornerPlace(cell, level, voxel, upper) ==
    [p \in DOMAIN voxel |->
        Plus(cell.start[p], Times(cell.extent[p],
                Fraction(voxel[p] + (IF p \in upper THEN 1 ELSE 0), 2 ^ level)))]

Corner(t, cell, level, voxel, upper) ==
    With(CornerPlace(cell, level, voxel, upper), LAMBDA place :
        [p \in DOMAIN voxel |->
            InterpolatedAxis(t, [q \in DOMAIN voxel |->
                                    [position |-> cell.base[q], fraction |-> place[q]]], p)])

\* The target lies between the corners in every axis.
Possible(corners, target) ==
    \A p \in DOMAIN target :
        \/ \E v \in DOMAIN corners : corners[v][p] = target[p]
        \/ /\ \E v \in DOMAIN corners : Less(corners[v][p], target[p])
           /\ \E v \in DOMAIN corners : Less(target[p], corners[v][p])

NodeWork(t) == Len(t.axes) * Len(t.axes) * 2 ^ Cardinality(VariableAxes(t))

\* The halves of a voxel on the axes `upper', and the others' lower halves.
ChildVoxel(t, voxel, upper) ==
    [p \in DOMAIN voxel |-> IF p \notin VariableAxes(t) THEN voxel[p]
                            ELSE 2 * voxel[p] + (IF p \in upper THEN 1 ELSE 0)]

\* locate: [error, found, work], found a set of at most one place in the cell: a
\* corner that is the target, or the middle of a voxel of the last level.
Locate(t, cell, target, whole, budget) ==
    LET vertices == Vertices(t)
        from[n \in [level : Nat, voxel : Seq(Nat), work : Int]] ==
            With([v \in DOMAIN vertices |-> Corner(t, cell, n.level, n.voxel, vertices[v])], LAMBDA corners :
            LET exact == {v \in DOMAIN vertices : corners[v] = target}
                left == n.work - NodeWork(t)
                along(p) == Times(cell.extent[p], Fraction(2 * n.voxel[p] + 1, 2 ^ (n.level + 1)))
                down(s, upper) ==
                    IF s.error # "none" \/ s.found # {} THEN s
                    ELSE from[[level |-> n.level + 1, voxel |-> ChildVoxel(t, n.voxel, upper),
                               work |-> s.work]]
            IN  IF NodeWork(t) > n.work THEN [error |-> "WcsNoConvergence", found |-> {}, work |-> n.work]
                ELSE IF exact # {}
                THEN [error |-> "none", work |-> left,
                      found |-> {CornerPlace(cell, n.level, n.voxel,
                                             vertices[CHOOSE v \in exact : \A u \in exact : v <= u])}]
                ELSE IF ~Possible(corners, target) THEN [error |-> "none", found |-> {}, work |-> left]
                ELSE IF n.level = SearchLevels
                THEN [error |-> "none", work |-> left,
                      found |-> {[p \in DOMAIN n.voxel |-> Plus(cell.start[p], along(p))]}]
                ELSE FoldLeft(down, [error |-> "none", found |-> {}, work |-> left], vertices))
    IN  from[[level |-> 0, voxel |-> whole, work |-> budget]]

\* cell_bounds and the test of them.
OutsideCell(t, cell, target) ==
    LET vertices == Vertices(t)
        zero == [p \in DOMAIN target |-> 0]
    IN  With({Corner(t, cell, 0, zero, vertices[v]) : v \in DOMAIN vertices}, LAMBDA corners :
        \E p \in DOMAIN target : \/ \A c \in corners : Less(c[p], target[p])
                                 \/ \A c \in corners : Less(target[p], c[p]))

\* invert_multidimensional: the first cell in array order where the search ends.
InvertMultidimensional(t, target) ==
    LET count == Product(CellLengths(t))
        zero == [p \in DOMAIN target |-> 0]
        enter(s, k) ==
            With(EnterCell(t, k - 1), LAMBDA cell :
                IF s.error # "none" \/ s.found # {} \/ OutsideCell(t, cell, target) THEN s
                ELSE With(Locate(t, cell, target, zero, s.work), LAMBDA r :
                         [r EXCEPT !.found = {[base |-> cell.base, place |-> f] : f \in r.found}]))
    IN  With(FoldLeft(enter, [error |-> "none", found |-> {}, work |-> MaxInverseWork],
                      [k \in 1..count |-> k]), LAMBDA search :
    LET hit == CHOOSE f \in search.found : TRUE
    IN  IF search.error # "none" THEN Err(search.error)
        ELSE IF search.found = {} THEN Err("domain")
        ELSE Collected([p \in DOMAIN target |->
                Intermediate(t, p, [position |-> hit.base[p], fraction |-> hit.place[p]])]))

\* to_intermediate.
ToIntermediate(t, world) ==
    IF Len(t.axes) # 1 THEN InvertMultidimensional(t, world)
    ELSE Then(LocateOneDimensional(t, world[1]), LAMBDA interval :
            Then(Intermediate(t, 1, interval), LAMBDA x : Ok(<<x>>)))

=============================================================================
