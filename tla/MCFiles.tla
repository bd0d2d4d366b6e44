------------------------------ MODULE MCFiles ------------------------------
(***************************************************************************)
(* Files for model checking, from the endpoint to the tables, in one run.  *)
(* A cast, drawn in the initial state, is the requests that poll or edit   *)
(* one endpoint (FilePoller), the jobs that come over two products, one of *)
(* them new, and a third sku that is a pattern for the first (Ingest), or  *)
(* nobody: then one sheet is written, uploaded and read (CsvFiles).        *)
(***************************************************************************)
EXTENDS MCFilePoller, Ingest, CsvFiles

CONSTANTS a, b, w, k1, k2  \* skus and keys
CONSTANTS JobCasts         \* sets of jobs that come together

R(s, v, k) == [sku |-> s, val |-> v, key |-> k]

MCRowsOf ==
  [stock |-> <<R(a, 1, k1), R(b, 2, k1), R(a, 3, k1)>>,
   stock2 |-> <<R(b, 4, k1), R(a, 5, k1)>>,
   price |-> <<R(a, 1, k1), R(b, 2, k1), R(a, 3, k1)>>,
   price2 |-> <<R(a, 4, k1)>>,
   upsert |-> <<R(b, 6, k1)>>,
   upsert2 |-> <<R(b, 7, k1)>>,
   pattern |-> <<R(w, 8, k1)>>,
   nameless |-> <<R(b, 9, k1)>>,
   catalog |-> <<R(a, 10, k1), R(b, 11, k1)>>,
   dynamic |-> <<R(a, 1, k1), R(b, 2, k1)>>,
   dynamic2 |-> <<R(b, 3, k2), R(a, 4, k2)>>,
   insert |-> <<R(a, 5, k2), R(b, 6, k2)>>]

MCKind == [j \in Jobs |->
  CASE j \in {"stock", "stock2"} -> "stock" [] j \in {"price", "price2"} -> "price"
    [] j \in {"upsert", "upsert2", "pattern", "nameless"} -> "upsert"
    [] j = "catalog" -> "catalog" [] OTHER -> "dynamic"]

MCRows == [j \in Jobs |-> MCRowsOf[j]]
MCWild == {<<w, a>>}

MCNumerals == 0..9 \cup {-1, 12}

Sheet == [lead |-> <<>>, headers |-> << <<"SKU">>, <<"name">>, <<"On", "Hand">> >>,
          records |-> << << <<"a1">>, <<"x", ",", Quote, "y">>, <<"3">> >>, << <<"V9", Blank>>, <<NL>>, <<"-1">> >>,
                         << <<"b2">>, <<>>, <<"many">> >>, << <<"c3">> >>, << <<>>, <<"z">>, <<"5">> >>,
                         << <<"d4">>, <<>>, <<Blank, "7">> >> >>,
          meant |-> [sku |-> 1, amount |-> 3]]
MCSheets ==
  {Sheet, [Sheet EXCEPT !.lead = <<NL>>], [Sheet EXCEPT !.lead = <<Blank, NL>>], [Sheet EXCEPT !.headers[3] = <<"price">>],
   [Sheet EXCEPT !.headers[3] = <<"price">>, !.records[1][3] = <<"$", "3">>],
   [Sheet EXCEPT !.headers = << <<"qty">>, <<"name">>, <<"item">> >>, !.meant = [sku |-> 3, amount |-> 1],
                 !.records = << << <<"3">>, <<>>, <<"V9">> >>, << <<"4">> >>, << <<"6">>, <<"n">>, <<"c3">> >>,
                                 << <<"5">>, <<>>, <<"V9">> >> >>],
   [Sheet EXCEPT !.headers[1] = <<"stock">>, !.headers[2] = <<"item">>, !.headers[3] = <<"quantity">>,
                 !.meant = [sku |-> 2, amount |-> 3]],
   [Sheet EXCEPT !.headers[3] = <<"available">>], [Sheet EXCEPT !.headers[1] = <<"ISA">>], [Sheet EXCEPT !.records = <<>>]}
Profile == [delimiter |-> ",", sku |-> <<>>, qty |-> <<>>, price |-> <<>>, xref |-> <<>>, multiplier |-> 1, target |-> <<>>]
MCProfiles ==
  {Profile, [Profile EXCEPT !.delimiter = ";"], [Profile EXCEPT !.sku = <<"none">>], [Profile EXCEPT !.target = <<"SKU">>],
   [Profile EXCEPT !.xref = << << <<"v9">>, <<"a1">> >>, << <<"zz">>, <<"a2">> >> >>, !.multiplier = 4]}
MCFileTypes == {"auto", "edi", "csv_inventory", "csv_prices"}
MCSpelled == (<<"SKU">> :> <<"sku">>) @@ (<<"On", "Hand">> :> <<"on_hand">>)
MCFolded == <<"V9">> :> <<"v9">>

filesVars == <<mcvars, vars, csvVars>>

FilesInit ==
  /\ cast \in Casts \cup JobCasts \cup {{}}
  /\ PollInit /\ Init /\ CsvInit
  /\ cast # {} => sheet = Sheet /\ mapping = Profile /\ fileType = "auto"

Polls == cast \in Casts /\ MCNext /\ UNCHANGED <<vars, csvVars>>

\* Bounds: only the cast's jobs come, and the more of them the fewer faults:
\* MaxFaults for a job that is alone.
JobsRun ==
  /\ cast \in JobCasts /\ Next
  /\ \A j \in Jobs \ cast : pc'[j] = "idle"
  /\ faults' + Cardinality(cast) <= MaxFaults + 1
  /\ UNCHANGED <<mcvars, csvVars>>

\* Bound: a file is cut off by the preview or by the poll, not by both.
SheetTravels ==
  /\ cast = {} /\ CsvNext
  /\ sample' = <<>> \/ fetched' \in {<<>>, file}
  /\ UNCHANGED <<mcvars, vars>>

FilesNext == Polls \/ JobsRun \/ SheetTravels

FilesSpec == FilesInit /\ [][FilesNext]_filesVars /\ MCFairness
=============================================================================
