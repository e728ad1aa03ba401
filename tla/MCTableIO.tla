------------------------------ MODULE MCTableIO ------------------------------
(***************************************************************************)
(* TableIO on small tables of every element kind: three rows, compressed in *)
(* tiles of two, refused columns and tables, ASCII tables, and coordinate   *)
(* tables of one and of two axes.                                          *)
(***************************************************************************)
EXTENDS TableIO

MCRandom == <<1, 3, 2, 1, 3, 2, 1>>

Kind(kind) == [kind |-> kind]
Config(kind, tiles) == [compression |-> Kind(kind), tiles |-> tiles, quantization |-> {}]

Hdu(name, version, store, config, rows, columns) ==
    [name |-> name, version |-> version, store |-> store, config |-> config, rows |-> rows,
     columns |-> columns]

Fixed(name, kind, repeat, values) == WriteColumn(name, kind, "Fixed", repeat, values, <<>>)
Arrays(name, kind, storage, values, ends) == RaggedColumn(name, kind, storage, values, ends).column

-----------------------------------------------------------------------------
(* Binary tables. *)

Numbers ==
    <<[Fixed("A", "I16", 1, <<1, -2, -99>>) EXCEPT !.scaling = {[bscale |-> 2, bzero |-> 1]},
                                                 !.tnull = {-99}],
      Fixed("SHORT", "U8", 1, <<1, 2>>),
      Fixed("L", "Logical", 2, <<1, 0, Null, 1, 0, 0>>),
      Arrays("V", "U8", "P", <<5, 5, 9, 8, 8, 8>>, <<2, 3, 6>>),
      BitField("X", <<<<1, 0, 1>>, <<1, 1, 0>>, <<0, 0, 1>>>>, 3).column>>

Wide ==
    <<[Fixed("U", "I16", 1, <<-5, 7, 9>>) EXCEPT !.scaling = {[bscale |-> 1, bzero |-> 2 ^ 15]}],
      Arrays("W", "I16", "Q", <<300, 301, 302, 303>>, <<0, 4, 4>>),
      Arrays("B", "Bit", "P", <<1, 0, 1>>, <<1, 1, 3>>),
      Characters("A", <<<<65>>, <<66, 67>>, <<>>>>, 2).column>>

Floats ==
    <<Fixed("F", "F32", 1, <<4, NotFinite, -8>>),
      [Fixed("C", "ComplexF32", 1, <<<<1, 2>>, <<3, 4>>, <<5, 6>>>>) EXCEPT
            !.scaling = {[bscale |-> 2, bzero |-> 5]}],
      Fixed("A", "U8", 1, <<7, 8, 9>>)>>

\* One row and one array of a byte: the second piece does not complete the word that
\* the first left short.
Short == <<Arrays("A", "U8", "P", <<9>>, <<1>>), Fixed("S", "U8", 2, <<200, 201>>)>>

Bad == <<Fixed("A", "Character", 1, <<7>>)>>

-----------------------------------------------------------------------------
(* ASCII tables. *)

W(word, len) == [word |-> word, len |-> len]
Text(lead, word, len) == {[lead |-> lead, text |-> W(word, len)]}
Marker(text) == {[lead |-> 0, text |-> text]}
Real(m, e) == {[m |-> m, e |-> e]}

Ascii ==
    <<[AsciiWriteColumn("T", AsciiTform("A", 4, 0),
                        <<Text(0, "ab", 2), {}, Text(1, "c", 1), Text(0, "", 0)>>)
            EXCEPT !.tnull = Marker(W("nul", 3))],
      [AsciiWriteColumn("I", AsciiTform("I", 3, 0), <<{-12}, {}, {0}, {123}>>)
            EXCEPT !.tnull = Marker(IntegerText(-9)), !.scaling = {[bscale |-> 2, bzero |-> 1]}],
      AsciiWriteColumn("F", AsciiTform("F", 6, 1), <<Real(1234, -2), Real(-4, -2), Real(0, 0), Real(995, -1)>>),
      AsciiWriteColumn("E", AsciiTform("E", 9, 1), <<Real(996, -1), Real(-5, 3), Real(12, -3), Real(0, 0)>>),
      AsciiWriteColumn("G", AsciiTform("D", 7, 0), <<Real(7, 0), Real(96, 1), Real(3, -2), Real(1, 0)>>)>>

AsciiOne(column) == Hdu("ASC", 1, "ascii", Kind("none"), {}, <<column>>)

MarkedValue ==
    [AsciiWriteColumn("I", AsciiTform("I", 3, 0), <<{-9}>>) EXCEPT !.tnull = Marker(IntegerText(-9))]
TooWide == AsciiWriteColumn("I", AsciiTform("I", 2, 0), <<{-12}>>)
Unmarked == AsciiWriteColumn("I", AsciiTform("I", 2, 0), <<{}>>)

-----------------------------------------------------------------------------
(* Coordinate tables. *)

Coordinates ==
    <<Arrays("C1", "I16", "P", <<10, 20, 40, 40, 30>>, <<5>>),
      Fixed("I1", "U8", 5, <<1, 2, 4, 5, 9>>),
      [Fixed("C2", "U8", 8, <<0, 0, 4, 1, 0, 8, 4, 9>>) EXCEPT !.tdim = {<<2, 2, 2>>}],
      Fixed("P", "U8", 2, <<3, 7>>),
      Fixed("S", "U8", 1, <<6>>),
      Fixed("D1", "U8", 2, <<3, 2>>)>>

Axis(tab, column, index, place, crval) ==
    [tab |-> tab, extension |-> {"TAB"}, column |-> {column}, version |-> {}, level |-> {},
     tableAxis |-> place, crval |-> crval, index |-> index, scale |-> 1]
Linear == Axis(FALSE, "", {}, {}, {})

MCWcsHeaders ==
    {<<Linear, Axis(TRUE, "C1", {"I1"}, {}, {1})>>,
     <<Axis(TRUE, "C1", {}, {}, {})>>,
     <<Axis(TRUE, "C2", {"D1"}, {2}, {}), Axis(TRUE, "P", {}, {}, {}), Axis(TRUE, "C2", {}, {1}, {})>>,
     <<Axis(TRUE, "S", {"S"}, {}, {})>>,
     <<Axis(TRUE, "C2", {}, {2}, {}), Linear>>,
     <<Axis(TRUE, "NONE", {}, {}, {})>>}

MCProbes == {Fraction(n, 4) : n \in {-2, 0, 2, 3, 4, 5, 8, 9, 10, 12, 14, 17, 22, 34}}

-----------------------------------------------------------------------------

Included(n) == [kind |-> "Included", at |-> n]
Excluded(n) == [kind |-> "Excluded", at |-> n]
Unbounded == [kind |-> "Unbounded"]
Bounds(start, end) == [start |-> start, end |-> end]

MCRowRanges ==
    {Bounds(Included(0), Excluded(1)), Bounds(Excluded(0), Included(1)), Bounds(Included(2), Unbounded),
     Bounds(Unbounded, Unbounded), Bounds(Included(0), Excluded(0)), Bounds(Included(2), Excluded(1))}

EmptyRanges ==
    {Bounds(Included(n), Excluded(n)) : n \in {0, 2}} \cup {Bounds(Included(2), Excluded(3))}

MCSelections ==
    {<<[name |-> "A"]>>, <<[index |-> 3], [name |-> "A"], [index |-> 3]>>, <<[index |-> 1]>>}

MCCellsRead ==
    {[row |-> 0, column |-> [index |-> 3]], [row |-> 0, column |-> [name |-> "W"]],
     [row |-> 1, column |-> [index |-> 1]],
     [row |-> 2, column |-> [name |-> "A"]], [row |-> 3, column |-> [index |-> 0]]}

MCFiles ==
    {<<Hdu("T", 1, "plain", Kind("none"), {}, Numbers), Hdu("T", 2, "tiled", Config("Rice", <<2>>), {}, Numbers)>>,
     <<Hdu("W", 1, "plain", Kind("none"), {}, Wide), Hdu("W", 1, "tiled", Config("Gzip2", <<2>>), {}, Wide)>>,
     <<Hdu("T", 1, "tiled", Config("Gzip1", <<>>), {}, Floats), Hdu("B", 1, "plain", Kind("none"), {1}, Bad),
       Hdu("B", 1, "tiled", Config("None", <<>>), {}, Floats), Hdu("T", 1, "plain", Kind("none"), {3}, Floats)>>,
     <<Hdu("S", 1, "plain", Kind("none"), {}, Short)>>,
     <<Hdu("TAB", 1, "plain", Kind("none"), {}, Coordinates)>>,
     <<Hdu("TAB", 1, "tiled", Config("Gzip1", <<1>>), {}, Coordinates)>>,
     <<Hdu("ASC", 1, "ascii", Kind("none"), {}, Ascii), AsciiOne(MarkedValue), AsciiOne(TooWide), AsciiOne(Unmarked)>>}

EmptyFiles == {<<Hdu("T", 1, "tiled", Config("Rice", <<2>>), {}, Numbers)>>}

\* Another descriptor in row 0 of Wide's W: one that ends past the heap by a byte,
\* and one whose end passes the largest offset; and in row 0 of its B, a negative count.
Foreign(lo, width, count, offset) ==
    [kind |-> "descriptor", store |-> "plain", name |-> "W",
     slot |-> [lo |-> lo, hi |-> lo + DescriptorBytes(width)],
     bytes |-> WriteDescriptor([count |-> count, offset |-> offset], width)]

NoDamages == {}

MCDamages ==
    {[kind |-> "cut", store |-> "plain", name |-> name, by |-> 2] : name \in {"T", "W"}}
    \cup {[kind |-> "stream", store |-> "tiled", name |-> "T", which |-> 1]}
    \cup {Foreign(2, "Q", 1, 9), Foreign(2, "Q", 250, 420), Foreign(18, "P", -1, 0)}

=============================================================================
