------------------------------ MODULE AsciiTable ------------------------------
(***************************************************************************)
(* ASCII tables: the writer (fits_writer/ascii_builder.rs) and the reader   *)
(* (ascii/).                                                                *)
(*                                                                          *)
(* A text without blanks around it is [word, len] or a number as it is      *)
(* written, [neg, digits, point, exp]: its sign, all its digits as one      *)
(* natural, the digits after the point and the exponent, each a set of at   *)
(* most one.  A field is [lead, text, trail], blanks counted.  A value of a *)
(* cell is a set of at most one: [lead, text] in a text column, an integer  *)
(* in an integer one, and in a float one [m, e] for m * 10^e, or NotFinite. *)
(***************************************************************************)
EXTENDS BinTable

Blank == [word |-> "", len |-> 0]

IsWord(text) == "word" \in DOMAIN text

DigitsOf[n \in Nat] == IF n < 10 THEN 1 ELSE 1 + DigitsOf[n \div 10]

\* The characters of a text; at least one digit stands before the point, and at
\* least two in an exponent, after its letter and sign.
TextLen(text) ==
    IF IsWord(text) THEN text.len
    ELSE (IF text.neg THEN 1 ELSE 0)
         + MaxOf(DigitsOf[text.digits], OrElse({d + 1 : d \in text.point}, 1))
         + (IF text.point = {} THEN 0 ELSE 1)
         + OrElse({2 + MaxOf(2, DigitsOf[AbsOf(x)]) : x \in text.exp}, 0)

-----------------------------------------------------------------------------
(* Formats: [letter, width, decimals]. *)

AsciiTform(letter, width, decimals) == [letter |-> letter, width |-> width, decimals |-> decimals]

IsReal(tform) == tform.letter \in {"F", "E", "D"}

\* minimum_width.
MinimumWidth(tform) == tform.decimals + (IF tform.letter = "F" THEN 2 ELSE 6)

\* m * 10^e with so many decimals, the nearest, a tie to the even.
Rounded(m, e, decimals) ==
    LET by == 10 ^ AbsOf(e + decimals)
        low == m \div by
        rest == m % by
    IN  IF e + decimals >= 0 THEN m * by
        ELSE IF 2 * rest > by \/ (2 * rest = by /\ low % 2 = 1) THEN low + 1 ELSE low

\* AsciiFloatFormat::write: a fixed point, or one digit before the point and the
\* exponent that puts it there, which rounding up may raise.
FloatText(tform, value) ==
    LET m == AbsOf(value.m)
        d == tform.decimals
        top == IF m = 0 THEN 0 ELSE DigitsOf[m] - 1 + value.e
        r == Rounded(m, value.e, d - top)
        raised == r >= 10 ^ (d + 1)
    IN  IF tform.letter = "F"
        THEN [neg |-> value.m < 0, digits |-> Rounded(m, value.e, d), point |-> {d}, exp |-> {}]
        ELSE [neg |-> value.m < 0, digits |-> IF raised THEN r \div 10 ELSE r, point |-> {d},
              exp |-> {IF raised THEN top + 1 ELSE top}]

IntegerText(n) == [neg |-> n < 0, digits |-> AbsOf(n), point |-> {}, exp |-> {}]

-----------------------------------------------------------------------------
(* The builder: columns [name, tform, values, scaling, tnull]. *)

AsciiWriteColumn(name, tform, values) ==
    [name |-> name, tform |-> tform, values |-> values, scaling |-> {}, tnull |-> {}]

HasNull(col) == \E r \in DOMAIN col.values : col.values[r] = {}

\* AsciiBuilder::push: a column implies the rows of its values.
AsciiPush(builder, col) ==
    LET accepted == AcceptRowCount(builder.rows, {Len(col.values)})
    IN  IF accepted.error # "none" THEN [error |-> accepted.error, builder |-> builder]
        ELSE [error |-> "none",
              builder |-> [rows |-> accepted.rows, columns |-> Append(builder.columns, col)]]

\* AsciiWriteColumn::validate.
AsciiColumnError(col) ==
    IF \E t \in col.tnull : t.text = Blank \/ t.lead + TextLen(t.text) > col.tform.width THEN "Range"
    ELSE IF col.scaling # {} /\ col.tform.letter = "A" THEN "Structure"
    ELSE IF \E s \in col.scaling : NotFinite \in {s.bscale, s.bzero} THEN "Range"
    ELSE IF HasNull(col) /\ col.tnull = {} THEN "Range"
    ELSE IF IsReal(col.tform) /\ MinimumWidth(col.tform) > col.tform.width
    THEN "AsciiFloatFormatTooNarrow"
    ELSE "none"

\* AsciiField: Text and Null stand left in their width, a Number right.
CellText(col, row) ==
    LET v == CHOOSE x \in col.values[row] : TRUE
    IN  IF col.values[row] = {}
        THEN LET t == CHOOSE t \in col.tnull : TRUE
             IN  [form |-> "Null", lead |-> t.lead, text |-> t.text]
        ELSE IF col.tform.letter = "A" THEN [form |-> "Text", lead |-> v.lead, text |-> v.text]
        ELSE [form |-> "Number", lead |-> 0,
              text |-> IF IsReal(col.tform) THEN FloatText(col.tform, v) ELSE IntegerText(v)]

\* Mutant: a value that reads as the null marker is written.
AsciiFieldUnmarked(col, row) ==
    With(CellText(col, row), LAMBDA cell :
    LET pad == col.tform.width - cell.lead - TextLen(cell.text)
    IN  IF pad < 0 THEN Err("AsciiFieldTooWide")
        ELSE Ok([lead |-> cell.lead + (IF cell.form = "Number" THEN pad ELSE 0),
                 text |-> cell.text, trail |-> IF cell.form = "Number" THEN 0 ELSE pad]))

\* AsciiWriteColumn::field and append_field.
AsciiField(col, row) ==
    With(CellText(col, row), LAMBDA cell :
    LET pad == col.tform.width - cell.lead - TextLen(cell.text)
    IN  IF IsReal(col.tform) /\ NotFinite \in col.values[row] THEN Err("NonFinite")
        ELSE IF pad < 0 THEN Err("AsciiFieldTooWide")
        ELSE IF cell.form # "Null" /\ \E t \in col.tnull : t.text = cell.text THEN Err("NullMarker")
        ELSE Ok([lead |-> cell.lead + (IF cell.form = "Number" THEN pad ELSE 0),
                 text |-> cell.text, trail |-> IF cell.form = "Number" THEN 0 ELSE pad]))

\* AsciiBuilder::layout.
AsciiLayout(builder) ==
    LET widths == [i \in DOMAIN builder.columns |-> builder.columns[i].tform.width]
    IN  With(Collected([i \in DOMAIN builder.columns |->
               IF AsciiColumnError(builder.columns[i]) # "none"
               THEN Err(AsciiColumnError(builder.columns[i]))
               ELSE IF Checked(HeapOffsets(widths)[i] + widths[i]) = {} THEN Err("DataUnitOverflow")
               ELSE Ok(HeapOffsets(widths)[i] + 1)]), LAMBDA errors :
        IF Len(builder.columns) > MaxFields THEN Err("Range")
        ELSE Then(errors, LAMBDA tbcols :
                Ok([rowCount |-> RowCount(builder), rowLen |-> HeapLen(widths), tbcols |-> tbcols])))

\* AsciiBuilder::header: text of a card loses its leading blanks.
AsciiHeader(builder, layout) ==
    [bitpix |-> 8, naxis |-> 2, rowLen |-> layout.rowLen, rowCount |-> layout.rowCount,
     pcount |-> 0, gcount |-> 1,
     columns |-> [i \in DOMAIN builder.columns |->
        LET col == builder.columns[i]
        IN  [tbcol |-> layout.tbcols[i], tform |-> col.tform, name |-> {col.name},
             tscale |-> {s.bscale : s \in col.scaling}, tzero |-> {s.bzero : s \in col.scaling},
             tnull |-> {t.text : t \in col.tnull}, unread |-> {}]]]

\* AsciiBuilder::encode: [header, rows, len, ascii], a row the fields by the byte
\* they begin at.
EncodeAscii(builder) ==
    Then(AsciiLayout(builder), LAMBDA layout :
        LET row(r) == Collected([i \in DOMAIN builder.columns |->
                        Then(AsciiField(builder.columns[i], r), LAMBDA f :
                            Ok([at |-> layout.tbcols[i] - 1, field |-> f]))])
        IN  Then(Collected([r \in 1..layout.rowCount |-> row(r)]), LAMBDA rows :
                Ok([header |-> AsciiHeader(builder, layout), rows |-> rows,
                    len |-> layout.rowCount * layout.rowLen, ascii |-> TRUE])))

-----------------------------------------------------------------------------
(* The reader. *)

\* AsciiSchema::parse: every field lies in the row.
ParseAscii(h) ==
    IF h.bitpix # 8 \/ h.naxis # 2 \/ h.gcount # 1 THEN Err("Structure")
    ELSE IF Len(h.columns) > MaxFields THEN Err("Range")
    ELSE IF h.pcount # 0 THEN Err("Structure")
    ELSE Then(Collected([i \in DOMAIN h.columns |->
                LET c == h.columns[i]
                IN  IF c.tbcol = 0 THEN Err("Range")
                    ELSE IF Checked(c.tbcol - 1 + c.tform.width) = {}
                         \/ c.tbcol - 1 + c.tform.width > h.rowLen
                    THEN Err("Structure")
                    ELSE Ok([tform |-> c.tform, offset |-> c.tbcol - 1, name |-> c.name,
                             bscale |-> OrElse(c.tscale, 1), bzero |-> OrElse(c.tzero, 0),
                             tnull |-> c.tnull, unread |-> c.unread])]), LAMBDA columns :
             Ok([rowCount |-> h.rowCount, rowLen |-> h.rowLen, columns |-> columns]))

\* Ascii::new.
AsciiOf(schema, unit) ==
    LET total == schema.rowCount * schema.rowLen
    IN  IF Checked(total) = {} THEN Err("DataUnitOverflow")
        ELSE IF unit.len < total THEN Err("UnexpectedEof")
        ELSE IF ~unit.ascii THEN Err("InvalidAscii")
        ELSE Ok([schema |-> schema, rows |-> unit.rows])

\* Ascii::field.
FieldAt(table, col, row) ==
    LET fields == table.rows[row]
    IN  fields[CHOOSE k \in DOMAIN fields : fields[k].at = col.offset].field

\* defined_field: what a field holds, {} for the null marker.
DefinedText(table, col, row) ==
    LET text == FieldAt(table, col, row).text
    IN  IF text \in col.tnull THEN {} ELSE {text}

\* parse_integer: an i64, blank is 0.
ParseInteger(text) ==
    LET n == IF text.neg THEN -text.digits ELSE text.digits
    IN  IF text = Blank THEN Ok(0)
        ELSE IF IsWord(text) \/ text.point # {} \/ text.exp # {} \/ n > QMax THEN Err("InvalidAsciiField")
        ELSE Ok(n)

\* parse_float: without a point the format's decimals are implied.
ParseFloat(text, decimals) ==
    IF text = Blank THEN Ok([m |-> 0, e |-> 0])
    ELSE IF IsWord(text) THEN Err("InvalidAsciiField")
    ELSE Ok([m |-> IF text.neg THEN -text.digits ELSE text.digits,
             e |-> OrElse(text.exp, 0) - OrElse(text.point, decimals)])

\* One cell of raw_into: the text with its trailing blanks trimmed, or the number.
RawCell(table, col, row) ==
    LET field == FieldAt(table, col, row)
        defined == DefinedText(table, col, row)
        parse(text) == IF IsReal(col.tform) THEN ParseFloat(text, col.tform.decimals)
                       ELSE ParseInteger(text)
    IN  IF defined = {} THEN Ok({})
        ELSE IF col.tform.letter = "A"
        THEN Ok({[lead |-> IF field.text = Blank THEN 0 ELSE field.lead, text |-> field.text]})
        ELSE Then(parse(field.text), LAMBDA v : Ok({v}))

\* raw_into of the column.
AsciiRaw(table, index) ==
    LET col == table.schema.columns[index + 1]
    IN  Asked(col, {"TNULL"},
              Collected([r \in 1..table.schema.rowCount |-> RawCell(table, col, r)]))

\* m * 10^e scaled by whole numbers.
ScaledDecimal(v, bscale, bzero) ==
    IF v.e >= 0 THEN [m |-> bscale * v.m * 10 ^ v.e + bzero, e |-> 0]
    ELSE [m |-> bscale * v.m + bzero * 10 ^ (-v.e), e |-> v.e]

\* physical_into appends; a null is not a number.
AsciiPhysical(table, index, out) ==
    LET col == table.schema.columns[index + 1]
        decimal(v) == IF IsReal(col.tform) THEN v ELSE [m |-> v, e |-> 0]
    IN  IF col.tform.letter = "A" THEN Err("ColumnKindMismatch")
        ELSE Asked(col, ScalingKeywords,
                Then(Collected([r \in 1..table.schema.rowCount |-> RawCell(table, col, r)]),
                     LAMBDA cells : Ok(out \o [r \in DOMAIN cells |->
                        OrElse({ScaledDecimal(decimal(v), col.bscale, col.bzero) : v \in cells[r]},
                               NotFinite)])))

=============================================================================
