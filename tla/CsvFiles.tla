------------------------------- MODULE CsvFiles -------------------------------
(***************************************************************************)
(* CSV files (files/csv.ts): the tokenizer, the columns a mapping profile  *)
(* or the built-in names pick, the rows that are taken, the kind an        *)
(* endpoint's file is of (files/poller.ts, ingestFile), and the dry run of *)
(* a sample before a mapping is saved (routes/admin.ts).  What happens to  *)
(* the rows is Ingest's.                                                   *)
(***************************************************************************)
EXTENDS Texts

CONSTANTS
  Sheets,       (* what suppliers write: [lead, headers, records, meant]   *)
  Profiles,     (* mapping profiles                                        *)
  FileTypes,    (* what endpoints declare                                  *)
  Spelled,      (* headers that are another name, once in lower case       *)
  Folded        (* and values that are another value                       *)

ASSUME CsvAssumption ==
  /\ \A s \in Sheets : /\ s.lead \in Seq(STRING)
                       /\ s.headers \in Seq(Seq(STRING)) \ {<<>>}
                       /\ s.records \in Seq(Seq(Seq(STRING)) \ {<<>>})
  /\ \A m \in Profiles : m.delimiter \in STRING

VARIABLES
  sheet, mapping, fileType,
  file,         \* the sheet as the supplier wrote it
  sample,       \* as much of it as the wizard previews
  fetched,      \* as much of it as the poller got
  shown, taken  \* the dry run's outcome, the ingestion's; {} before

csvVars == <<sheet, mapping, fileType, file, sample, fetched, shown, taken>>

Quote == "quote"
Blank == "blank"

\* trim()
Trim(v) ==
  LET solid == {i \in DOMAIN v : v[i] \notin {Blank, NL}}
  IN SubSeq(v, IF solid = {} THEN 1 ELSE CHOOSE i \in solid : \A k \in solid : i <= k,
               IF solid = {} THEN 0 ELSE CHOOSE i \in solid : \A k \in solid : k <= i)
TrimStart(s) == SubSeq(s, SelectInSeq(Append(s, "end"), LAMBDA t : t \notin {Blank, NL}), Len(s))

HeaderName(h) == LET t == Trim(h) IN IF t \in DOMAIN Spelled THEN Spelled[t] ELSE t
LowerCase(v) == IF v \in DOMAIN Folded THEN Folded[v] ELSE v

-----------------------------------------------------------------------------
(* parseCsv.  "quoted": a quote was met in quotes, and is text if another  *)
(* one follows.                                                            *)

PushRow(acc) ==
  LET row == Append(acc.row, acc.field)
  IN [acc EXCEPT !.row = <<>>, !.field = <<>>, !.rows = IF row = << <<>> >> THEN @ ELSE Append(@, row)]

TakeToken(acc, t, delimiter) ==
  LET plain == [acc EXCEPT !.mode = "plain"] IN
  IF acc.mode = "in" /\ t = Quote THEN [acc EXCEPT !.mode = "quoted"]
  ELSE IF acc.mode = "in" THEN [acc EXCEPT !.field = Append(@, t)]
  ELSE IF acc.mode = "quoted" /\ t = Quote THEN [acc EXCEPT !.mode = "in", !.field = Append(@, t)]
  ELSE IF t = Quote THEN [acc EXCEPT !.mode = "in"]
  ELSE IF t = delimiter THEN [plain EXCEPT !.row = Append(@, acc.field), !.field = <<>>]
  ELSE IF t = NL THEN PushRow(plain)
  ELSE [plain EXCEPT !.field = Append(@, t)]

Fresh == [rows |-> <<>>, row |-> <<>>, field |-> <<>>, mode |-> "plain"]

\* What is read when the first tokens are.
Reads(text, delimiter) ==
  LET read[i \in 0..Len(text)] ==
        IF i = 0 THEN Fresh ELSE TakeToken(read[i - 1], text[i], delimiter)
  IN read

ParseCsv(text, delimiter) ==
  LET end == Reads(text, delimiter)[Len(text)]
  IN IF end.field # <<>> \/ end.row # <<>> THEN PushRow(end).rows ELSE end.rows

-----------------------------------------------------------------------------
(* Columns.  Values stand for lower-case names with underscores.           *)

SkuNames == << <<"sku">>, <<"part_number">>, <<"item">> >>
PriceNames == << <<"price">>, <<"unit_price">>, <<"list_price">>, <<"list">> >>
QtyNames == << <<"qty">>, <<"quantity">>, <<"stock">>, <<"stock_qty">>, <<"qty_on_hand">>, <<"on_hand">> >>

\* The first of the names that is a header, or the header a profile asks for
\* and no other; 0: none.
HeaderIndex(headers, names, override) ==
  LET column(name) == SelectInSeq(headers, LAMBDA h : HeaderName(h) = name)
      present == SelectSeq(names, LAMBDA n : column(n) # 0)
  IN IF override # <<>> THEN column(HeaderName(override))
     ELSE IF present = <<>> THEN 0 ELSE column(Head(present))

\* The first entry whose key is the value, whatever their case.
ApplyXref(v, xref) ==
  LET hits == SelectSeq(xref, LAMBDA x : LowerCase(x[1]) = LowerCase(v)) IN IF hits = <<>> THEN v ELSE hits[1][2]

Cell(row, i) == IF i <= Len(row) THEN Trim(row[i]) ELSE <<>>

\* A cell's number, {} if the row is to be skipped: prices may have a dollar
\* sign and no minus.
Amount(kind, cell) ==
  LET digits == IF kind = "csv_prices" /\ cell # <<>> /\ Head(cell) = "$" THEN Tail(cell) ELSE cell
  IN IF digits = <<>> THEN {} ELSE {n \in NumberOf(digits) : kind = "csv_inventory" \/ n >= 0}

Unusable(kind, row, sku, value) == Cell(row, sku) = <<>> \/ Amount(kind, Cell(row, value)) = {}

Record(kind, row, sku, value, m) ==
  [sku |-> ApplyXref(Cell(row, sku), m.xref),
   amount |-> m.multiplier * (CHOOSE n \in Amount(kind, Cell(row, value)) : TRUE)]

\* Mutant: the records come the last row first.
TakeRowFirst(out, kind, row, sku, value, m) ==
  IF Unusable(kind, row, sku, value) THEN out ELSE <<Record(kind, row, sku, value, m)>> \o out

\* A row that is no good is skipped without a word.
TakeRow(out, kind, row, sku, value, m) ==
  IF Unusable(kind, row, sku, value) THEN out ELSE Append(out, Record(kind, row, sku, value, m))

\* The records of the rows after the header.
Records(kind, rows, sku, value, m) ==
  LET out[i \in 0..(Len(rows) - 1)] ==
        IF i = 0 THEN <<>> ELSE TakeRow(out[i - 1], kind, rows[i + 1], sku, value, m)
  IN out

\* parseInventoryCsv, parsePriceCsv; {}: a CsvFormatError.
ParseRows(kind, text, m) ==
  LET rows == ParseCsv(text, m.delimiter)
      sku == HeaderIndex(rows[1], SkuNames, m.sku)
      value == IF kind = "csv_inventory" THEN HeaderIndex(rows[1], QtyNames, m.qty)
               ELSE HeaderIndex(rows[1], PriceNames, m.price)
  IN IF rows = <<>> THEN {} ELSE IF sku = 0 \/ value = 0 THEN {}
     ELSE {Records(kind, rows, sku, value, m)[Len(rows) - 1]}

\* parseGenericCsv: every row as a record; of two headers with one name the
\* last counts.
ParseGeneric(text, m, match) ==
  LET rows == ParseCsv(text, m.delimiter)
      names == [i \in DOMAIN rows[1] |-> HeaderName(rows[1][i])]
      cell(row, name) == Cell(row, SelectLastInSeq(names, LAMBDA n : n = name))
  IN IF rows = <<>> THEN {}
     ELSE {[k \in 1..(Len(rows) - 1) |-> [name \in ToSet(names) |->
             IF name = HeaderName(match) THEN ApplyXref(cell(rows[k + 1], name), m.xref) ELSE cell(rows[k + 1], name)]]}

-----------------------------------------------------------------------------
(* Routing.                                                                *)

\* classifyContent has lists of its own.
SniffedPrices == {<<"price">>, <<"unit_price">>, <<"list_price">>, <<"list">>}

\* Mutant: a name is added here and not to the list that finds the column.
SniffedQtysWider ==
  {<<"qty">>, <<"quantity">>, <<"stock">>, <<"stock_qty">>, <<"qty_on_hand">>, <<"on_hand">>, <<"available">>}

SniffedQtys == {<<"qty">>, <<"quantity">>, <<"stock">>, <<"stock_qty">>, <<"qty_on_hand">>, <<"on_hand">>}

Sniffed(names) ==
  IF names \cap SniffedPrices # {} THEN {"csv_prices"}
  ELSE IF names \cap SniffedQtys # {} THEN {"csv_inventory"} ELSE {}

IsEdi(text) == TrimStart(text) # <<>> /\ Head(TrimStart(text)) = "ISA"

HeaderLine(text) ==
  LET start == TrimStart(text)
  IN SubSeq(start, 1, SelectInSeq(Append(start, NL), LAMBDA t : t = NL) - 1)

\* The header line of an auto endpoint's file is read with commas, whatever
\* the profile says.
Classify(text, declared) ==
  LET header == ParseCsv(HeaderLine(text), ",")
  IN IF IsEdi(text) THEN {"edi"}
     ELSE IF declared \in {"csv_inventory", "csv_prices"} THEN {declared}
     ELSE IF declared = "edi" THEN {}
     ELSE Sniffed(IF header = <<>> THEN {} ELSE {HeaderName(h) : h \in ToSet(header[1])})

\* ingestFile, as far as the rows: which parser, and what it makes of the
\* file.  A target takes everything but EDI.
Outcome(text, declared, m) ==
  IF m.target # <<>> /\ ~IsEdi(text)
  THEN {[kind |-> "dynamic", rows |-> r] : r \in ParseGeneric(text, m, m.target)}
  ELSE UNION {IF kind = "edi" THEN {[kind |-> kind, rows |-> <<>>]}
              ELSE {[kind |-> kind, rows |-> r] : r \in ParseRows(kind, text, m)} : kind \in Classify(text, declared)}

-----------------------------------------------------------------------------
(* A file, from the supplier to its rows.                                  *)

\* RFC 4180: a cell with a separator, a quote or a line feed in it is
\* quoted, its quotes doubled.
Quoted(cell, delimiter) ==
  IF ToSet(cell) \cap {delimiter, Quote, NL} = {} THEN cell
  ELSE <<Quote>> \o FlattenSeq([i \in DOMAIN cell |-> IF cell[i] = Quote THEN <<Quote, Quote>> ELSE <<cell[i]>>])
       \o <<Quote>>
LineOf(row, delimiter) == Join([i \in DOMAIN row |-> Quoted(row[i], delimiter)], delimiter) \o <<NL>>
WriteCsv(s, delimiter) ==
  s.lead \o FlattenSeq([i \in 1..(Len(s.records) + 1) |->
              LineOf(IF i = 1 THEN s.headers ELSE s.records[i - 1], delimiter)])

\* The first row of a sheet has something in it; one of blanks is no header,
\* and no EDI comes after it.
Solid(v) == \E i \in DOMAIN v : v[i] \notin {Blank, NL}
Headed(text, m) ==
  LET rows == ParseCsv(text, m.delimiter)
  IN rows # <<>> => \/ \E i \in DOMAIN rows[1] : Solid(rows[1][i])
                    \/ ~IsEdi(text) /\ (m.target # <<>> \/ HeaderIndex(rows[1], SkuNames, m.sku) = 0)

ASSUME HeadedAssumption == \A s \in Sheets, m \in Profiles : Headed(WriteCsv(s, m.delimiter), m)

CsvInit ==
  /\ sheet \in Sheets /\ mapping \in Profiles /\ fileType \in FileTypes
  /\ file = <<>> /\ sample = <<>> /\ fetched = <<>> /\ shown = {} /\ taken = {}

Upload ==
  /\ file = <<>>
  /\ file' = WriteCsv(sheet, mapping.delimiter)
  /\ UNCHANGED <<sheet, mapping, fileType, sample, fetched, shown, taken>>

\* The wizard fetches the head of the file and parses that.
Preview ==
  /\ file # <<>> /\ sample = <<>>
  /\ \E text \in Prefixes(file) \ {<<>>} : sample' = text /\ shown' = Outcome(text, fileType, mapping)
  /\ UNCHANGED <<sheet, mapping, fileType, file, fetched, taken>>

\* The poller downloads what is there: nothing tells it that the supplier is
\* not done.
IngestFile ==
  /\ file # <<>> /\ fetched = <<>>
  /\ \E text \in Prefixes(file) \ {<<>>} : fetched' = text /\ taken' = Outcome(text, fileType, mapping)
  /\ UNCHANGED <<sheet, mapping, fileType, file, sample, shown>>

CsvNext == Upload \/ Preview \/ IngestFile

CsvSpec == CsvInit /\ [][CsvNext]_csvVars

-----------------------------------------------------------------------------
(* Properties.                                                             *)

CsvTypeOK ==
  /\ sheet \in Sheets /\ mapping \in Profiles /\ fileType \in FileTypes
  /\ file \in Seq(STRING) /\ IsPrefix(sample, file) /\ IsPrefix(fetched, file)
  /\ \A o \in shown \cup taken :
       /\ o.kind \in {"edi", "csv_inventory", "csv_prices", "dynamic"}
       /\ o.kind # "dynamic" => o.rows \in Seq([sku : Seq(STRING), amount : Int])

\* What the supplier meant: the columns of the sheet that hold sku and
\* amount; rows without either are no rows.
MeantRows(kind) ==
  LET at(r, i) == IF i <= Len(r) THEN Trim(r[i]) ELSE <<>>
      number(v) == {n \in Numerals : v = Str(n) \/ (kind = "csv_prices" /\ v = <<"$">> \o Str(n))}
      valid == SelectSeq(sheet.records, LAMBDA r :
        /\ at(r, sheet.meant.sku) # <<>>
        /\ \E n \in number(at(r, sheet.meant.amount)) : kind = "csv_prices" => n >= 0)
      internal(v) == {x[2] : x \in {y \in ToSet(mapping.xref) : LowerCase(y[1]) = LowerCase(v)}}
  IN [i \in DOMAIN valid |->
       LET sku == at(valid[i], sheet.meant.sku) IN
       [sku |-> IF internal(sku) = {} THEN sku ELSE CHOOSE v \in internal(sku) : TRUE,
        amount |-> mapping.multiplier * (CHOOSE n \in number(at(valid[i], sheet.meant.amount)) : TRUE)]]

\* A whole file gives the rows its sheet holds, with the skus the profile
\* translates, in its order: whatever the order of the columns, the cells
\* quoted, the lines skipped and the rows cut short, a bad row costs itself
\* and no other.
RowsAsMeant ==
  fetched # <<>> /\ fetched = file =>
    \A o \in taken : o.kind \in {"csv_inventory", "csv_prices"} => o.rows = MeantRows(o.kind)

\* A part of a file, a sample or what was there when the poller came, gives
\* rows of the whole file, in its order, but for the last: that one may be
\* cut off anywhere, in the middle of its number too.
CutHarmsLast ==
  \A o \in shown \cup taken, w \in Outcome(file, fileType, mapping) :
    o.rows # <<>> => o.kind = w.kind /\ IsPrefix(Front(o.rows), w.rows)

\* The two lists of headers, the one that tells what a file is (csv.ts:181-182)
\* and the one that finds its columns (:88-92, :118), agree: a file of an auto
\* endpoint that is sniffed
\* as stock or prices has the column for it, unless a profile asks for
\* another, delimits otherwise, or a line of blanks comes first.
SniffedReadable ==
  \A text \in {sample, fetched} :
    \A kind \in Classify(text, "auto") :
      kind # "edi" /\ mapping.delimiter = "," /\ sheet.lead = <<>> /\ mapping.qty = <<>> /\ mapping.price = <<>> =>
        HeaderIndex(ParseCsv(text, ",")[1], IF kind = "csv_inventory" THEN QtyNames ELSE PriceNames, <<>>) # 0

\* A supplier's file gives what the supplier meant, however it is recognised.
SheetRead == CsvTypeOK /\ RowsAsMeant /\ SniffedReadable
=============================================================================
