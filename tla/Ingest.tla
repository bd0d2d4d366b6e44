------------------------------- MODULE Ingest -------------------------------
(***************************************************************************)
(* The writers of the products and product_prices tables: stock and price  *)
(* files and inventory pushes (domain/inventory.ts), config-driven rows    *)
(* (dynamic.ts), product upserts (domain/resources.ts) and the catalog     *)
(* sync (hub/connector.ts).  None of them holds a transaction: each reads, *)
(* then writes row by row in separate calls, fails in the middle, and is   *)
(* tried again as a whole.                                                 *)
(***************************************************************************)
EXTENDS Integers, SequencesExt

CONSTANTS
  Skus,           (* skus, case folded                                     *)
  Wild,           (* <<p, s>>: p, read as an ILIKE pattern, also matches s *)
  Keys,           (* keys of the jsonb column a dynamic target merges      *)
  Listed,         (* the products there are at first                       *)
  Jobs, Kind,     (* what is ingested, and how                             *)
  RowsOf,         (* its rows: sku, value, jsonb key                       *)
  InsertMissing,  (* dynamic jobs whose target inserts unmatched rows      *)
  Nameless,       (* upserts without a name                                *)
  Connected,      (* the org has a hub connection                          *)
  MaxFaults,      (* bound: failed calls and restarts                      *)
  MaxRepeats      (* bound: finished jobs that come again                  *)

Kinds == {"stock", "price", "dynamic", "upsert", "catalog"}
Row == [sku : Skus, val : Nat \ {0}, key : Keys]

ASSUME IngestAssumption ==
  /\ Wild \subseteq Skus \X Skus
  /\ IsFiniteSet(Listed) /\ Listed \subseteq Skus
  /\ Kind \in [Jobs -> Kinds]
  /\ RowsOf \in [Jobs -> Seq(Row)]
  /\ \A j \in Jobs : Kind[j] = "upsert" => RowsOf[j] # <<>>
  /\ Connected \in BOOLEAN
  /\ MaxFaults \in Nat /\ MaxRepeats \in Nat

VARIABLES
  products, prices,   \* the tables; a row's id is its place
  pc, at,             \* each job's step and the row it is at
  ids, docs,          \* what it read of the products when it began
  hit,                \* the row its last look-up found, 0 for none
  bad,                \* errors it collected
  lost,               \* rows of this attempt whose error was ignored
  again,              \* the attempt follows one that failed
  forwards,           \* deliveries it queued for the hub
  log,                \* finished attempts, in order
  book,               \* the tables, had each of them been applied whole
  overlapped,         \* kinds of two jobs that ran at the same time
  mixed,              \* a job ran between a failure of another and its retry
  blind,              \* a failed look-up was taken for an empty one
  faults, repeats

tables == <<products, prices>>
view == <<ids, docs, hit, again>>
history == <<log, book, overlapped, mixed, blind>>
bounds == <<faults, repeats>>
vars == <<tables, pc, at, view, bad, lost, forwards, history, bounds>>

Doc == [Keys -> Nat]
NoDoc == [k \in Keys |-> 0]
NoIds == [s \in Skus |-> 0]
Product == [sku : Skus, qty : Nat, doc : Doc]
Price == [product : Nat, val : Nat]
Item == [qty : Nat \cup {-1}, doc : Doc, price : Nat]

TypeOK ==
  /\ products \in Seq(Product) /\ prices \in Seq(Price)
  /\ \A i \in DOMAIN prices : prices[i].product \in DOMAIN products
  /\ pc \in [Jobs -> {"idle", "row", "write", "forward", "failed", "done"}]
  /\ \A j \in Jobs : at[j] \in 1..(Len(RowsOf[j]) + 1)
  /\ \A j \in Jobs, s \in Skus : ids[j][s] \in {0} \cup DOMAIN products
  /\ docs \in [Jobs -> [Skus -> Doc]]
  /\ \A j \in Jobs : hit[j] \in {0} \cup DOMAIN (IF Kind[j] = "price" THEN prices ELSE products)
  /\ bad \in [Jobs -> BOOLEAN]
  /\ \A j \in Jobs : lost[j] \subseteq DOMAIN RowsOf[j]
  /\ again \in [Jobs -> BOOLEAN]
  /\ forwards \in [Jobs -> Nat]
  /\ book \in [Skus -> Item]
  /\ overlapped \subseteq SUBSET Kinds /\ {mixed, blind} \subseteq BOOLEAN
  /\ faults \in 0..MaxFaults /\ repeats \in 0..MaxRepeats

Init ==
  /\ products \in {ps \in [1..Cardinality(Listed) -> [sku : Listed, qty : {0}, doc : {NoDoc}]] :
                     \A s \in Listed : \E i \in DOMAIN ps : ps[i].sku = s}
  /\ prices = <<>>
  /\ pc = [j \in Jobs |-> "idle"]
  /\ at = [j \in Jobs |-> 1]
  /\ ids = [j \in Jobs |-> NoIds]
  /\ docs = [j \in Jobs |-> [s \in Skus |-> NoDoc]]
  /\ hit = [j \in Jobs |-> 0]
  /\ bad = [j \in Jobs |-> FALSE]
  /\ lost = [j \in Jobs |-> {}]
  /\ again = [j \in Jobs |-> FALSE]
  /\ forwards = [j \in Jobs |-> 0]
  /\ book = [s \in Skus |-> [qty |-> IF s \in Listed THEN 0 ELSE -1, doc |-> NoDoc, price |-> 0]]
  /\ log = <<>> /\ overlapped = {} /\ mixed = FALSE /\ blind = FALSE
  /\ faults = 0 /\ repeats = 0

-----------------------------------------------------------------------------
(* Beginning.                                                              *)

Running(j) == pc[j] \in {"row", "write", "forward"}

\* Reads all products first; upserts and the catalog sync look each one up.
Snapshots(j) == Kind[j] \in {"stock", "price", "dynamic"}
LooksUp(j) == Kind[j] \in {"price", "upsert", "catalog"}

Matching(s) == {i \in DOMAIN products : products[i].sku = s}

\* The map from sku to id; of several rows with the sku the last one read.
SkuMaps == {m \in [Skus -> {0} \cup DOMAIN products] :
              \A s \in Skus : IF Matching(s) = {} THEN m[s] = 0 ELSE m[s] \in Matching(s)}

Begin(j) ==
  /\ pc[j] \in {"idle", "failed"}
  /\ pc' = [pc EXCEPT ![j] = "row"]
  /\ at' = [at EXCEPT ![j] = 1]
  /\ \E m \in (IF Snapshots(j) THEN SkuMaps ELSE {NoIds}) :
       /\ ids' = [ids EXCEPT ![j] = m]
       /\ docs' = [docs EXCEPT ![j] =
                     [s \in Skus |-> IF m[s] = 0 THEN NoDoc ELSE products[m[s]].doc]]
  /\ hit' = [hit EXCEPT ![j] = 0]
  /\ bad' = [bad EXCEPT ![j] = FALSE]
  /\ lost' = [lost EXCEPT ![j] = {}]
  /\ again' = [again EXCEPT ![j] = pc[j] = "failed"]
  /\ overlapped' = overlapped \cup {{Kind[j], Kind[k]} : k \in {k \in Jobs \ {j} : Running(k)}}
  /\ mixed' = (mixed \/ \E k \in Jobs \ {j} : pc[k] = "failed")
  /\ UNCHANGED <<tables, forwards, log, book, blind, bounds>>

-----------------------------------------------------------------------------
(* One row.                                                                *)

AtRow(j) == pc[j] = "row" /\ at[j] <= Len(RowsOf[j])

\* Mutant: the rows are applied from the last to the first.
ThisFromBehind(j) == RowsOf[j][Len(RowsOf[j]) + 1 - at[j]]

This(j) == RowsOf[j][at[j]]
Id(j) == ids[j][This(j).sku]
Next1(f, j) == [f EXCEPT ![j] = @ + 1]

\* No product has the sku: it is reported, and the row skipped.
Unknown(j) ==
  Snapshots(j) /\ Id(j) = 0 /\ ~(Kind[j] = "dynamic" /\ j \in InsertMissing)

Skip(j) ==
  /\ AtRow(j) /\ Unknown(j)
  /\ at' = Next1(at, j)
  /\ UNCHANGED <<tables, pc, view, bad, lost, forwards, history, bounds>>

\* sku ILIKE p, with whatever p holds.
Like(p, s) == p = s \/ <<p, s>> \in Wild

Candidates(j) ==
  IF Kind[j] = "price" THEN {i \in DOMAIN prices : prices[i].product = Id(j)}
                       ELSE {i \in DOMAIN products : Like(This(j).sku, products[i].sku)}

\* Mutant: the active list price is not looked for.
FindNothing(j) ==
  /\ AtRow(j) /\ LooksUp(j) /\ ~Unknown(j)
  /\ pc' = [pc EXCEPT ![j] = "write"]
  /\ hit' = [hit EXCEPT ![j] = 0]
  /\ UNCHANGED <<tables, at, ids, docs, again, bad, lost, forwards, history, bounds>>

\* The look-up before the write: any one of the candidates (limit 1).
Find(j) ==
  /\ AtRow(j) /\ LooksUp(j) /\ ~Unknown(j)
  /\ pc' = [pc EXCEPT ![j] = "write"]
  /\ \E i \in (IF Candidates(j) = {} THEN {0} ELSE Candidates(j)) : hit' = [hit EXCEPT ![j] = i]
  /\ UNCHANGED <<tables, at, ids, docs, again, bad, lost, forwards, history, bounds>>

Writing(j) == IF LooksUp(j) THEN pc[j] = "write" ELSE AtRow(j) /\ ~Unknown(j)

\* upsertProduct: "name is required to create a product".
Refused(j) == Kind[j] = "upsert" /\ hit[j] = 0 /\ j \in Nameless

\* Mutant: the patch holds only the row's own keys.
MergedAlone(doc, row) == [NoDoc EXCEPT ![row.key] = row.val]

\* buildPatch: the document as read, with the row's key.
Merged(doc, row) == [doc EXCEPT ![row.key] = row.val]

\* A row becomes a new product.
Creates(j) == IF Kind[j] = "dynamic" THEN Id(j) = 0
              ELSE Kind[j] \in {"upsert", "catalog"} /\ hit[j] = 0

Created(row, dynamic) ==
  [sku |-> row.sku, qty |-> IF dynamic THEN 0 ELSE row.val,
   doc |-> IF dynamic THEN Merged(NoDoc, row) ELSE NoDoc]

WrittenProducts(j) ==
  IF Kind[j] = "price" THEN products
  ELSE IF Creates(j) THEN Append(products, Created(This(j), Kind[j] = "dynamic"))
  ELSE IF Kind[j] = "dynamic"
       THEN [products EXCEPT ![Id(j)].doc = Merged(docs[j][This(j).sku], This(j))]
  ELSE [products EXCEPT ![IF Kind[j] = "stock" THEN Id(j) ELSE hit[j]].qty = This(j).val]

WrittenPrices(j) ==
  IF Kind[j] # "price" THEN prices
  ELSE IF hit[j] = 0 THEN Append(prices, [product |-> Id(j), val |-> This(j).val])
  ELSE [prices EXCEPT ![hit[j]].val = This(j).val]

Apply(j) ==
  /\ products' = WrittenProducts(j)
  /\ prices' = WrittenPrices(j)

\* Mutant: only new products are forwarded.
ForwardsNew(j) == Kind[j] = "upsert" /\ Connected /\ hit[j] = 0

\* A product upsert goes on to queue a delivery for the hub.
Forwards(j) == Kind[j] = "upsert" /\ Connected

Write(j) ==
  /\ Writing(j) /\ ~Refused(j)
  /\ Apply(j)
  /\ IF Forwards(j) THEN /\ pc' = [pc EXCEPT ![j] = "forward"]
                         /\ UNCHANGED at
                    ELSE /\ pc' = [pc EXCEPT ![j] = "row"]
                         /\ at' = Next1(at, j)
  /\ UNCHANGED <<view, bad, lost, forwards, history, bounds>>

\* The delivery is queued; whether the hub gets it is the outbox's concern.
Forward(j) ==
  /\ pc[j] = "forward"
  /\ pc' = [pc EXCEPT ![j] = "row"]
  /\ at' = Next1(at, j)
  /\ forwards' = Next1(forwards, j)
  /\ UNCHANGED <<tables, view, bad, lost, history, bounds>>

-----------------------------------------------------------------------------
(* Failures.  A call answers with an error although its write may have     *)
(* been done.  Stock, price and upsert throw; a dynamic job goes on and    *)
(* fails at its end; the catalog sync only does not count the row.         *)

\* Mutant: the next attempt goes on after the row that failed.
GiveUpAndSkip(j, applied) ==
  /\ pc' = [pc EXCEPT ![j] = "row"]
  /\ at' = Next1(at, j)
  /\ UNCHANGED <<bad, lost>>

\* What the error of a write does to the attempt.
GiveUp(j, applied) ==
  IF Kind[j] \in {"dynamic", "catalog"}
  THEN /\ pc' = [pc EXCEPT ![j] = "row"]
       /\ at' = Next1(at, j)
       /\ bad' = [bad EXCEPT ![j] = @ \/ Kind[j] = "dynamic"]
       /\ lost' = [lost EXCEPT ![j] = IF applied THEN @ ELSE @ \cup {at[j]}]
  ELSE /\ pc' = [pc EXCEPT ![j] = "failed"]
       /\ UNCHANGED <<at, bad, lost>>

WriteFails(j, applied) ==
  /\ Writing(j) /\ ~Refused(j)
  /\ faults < MaxFaults
  /\ faults' = faults + 1
  /\ IF applied THEN Apply(j) ELSE UNCHANGED tables
  /\ GiveUp(j, applied)
  /\ UNCHANGED <<view, forwards, history, repeats>>

\* The look-up fails.  The catalog sync does not read the error: it goes on as
\* if there were no such product.
FindFails(j) ==
  /\ AtRow(j) /\ LooksUp(j) /\ ~Unknown(j)
  /\ faults < MaxFaults
  /\ faults' = faults + 1
  /\ pc' = [pc EXCEPT ![j] = IF Kind[j] = "catalog" THEN "write" ELSE "failed"]
  /\ hit' = [hit EXCEPT ![j] = 0]
  /\ blind' = (blind \/ Kind[j] = "catalog")
  /\ UNCHANGED <<tables, at, ids, docs, again, bad, lost, forwards, log, book, overlapped, mixed, repeats>>

ForwardFails(j) ==
  /\ pc[j] = "forward"
  /\ faults < MaxFaults
  /\ faults' = faults + 1
  /\ pc' = [pc EXCEPT ![j] = "failed"]
  /\ UNCHANGED <<tables, at, view, bad, lost, forwards, history, repeats>>

Refuse(j) ==
  /\ Writing(j) /\ Refused(j)
  /\ pc' = [pc EXCEPT ![j] = "failed"]
  /\ UNCHANGED <<tables, at, view, bad, lost, forwards, history, bounds>>

Crash ==
  /\ faults < MaxFaults
  /\ faults' = faults + 1
  /\ pc' = [j \in Jobs |-> IF Running(j) THEN "failed" ELSE pc[j]]
  /\ UNCHANGED <<tables, at, view, bad, lost, forwards, history, repeats>>

-----------------------------------------------------------------------------
(* Reference: what a whole job does, with no other job and no failure      *)
(* around, to the tables as seen by sku (a product there is not has the    *)
(* quantity -1, a price there is not is 0).                                *)

Inserts(j) == Kind[j] \in {"upsert", "catalog"} \/ (Kind[j] = "dynamic" /\ j \in InsertMissing)

Put(item, j, row) ==
  IF item.qty < 0 /\ ~Inserts(j) THEN item
  ELSE IF Kind[j] = "price" THEN [item EXCEPT !.price = row.val]
  ELSE IF Kind[j] = "dynamic"
       THEN [item EXCEPT !.qty = IF item.qty < 0 THEN 0 ELSE item.qty, !.doc = Merged(item.doc, row)]
  ELSE [item EXCEPT !.qty = row.val]

Naming(j, s) == {i \in DOMAIN RowsOf[j] : RowsOf[j][i].sku = s}

\* The last row that names a sku counts, but for the rows that are gone.
Whole(tab, j, gone) ==
  [s \in Skus |-> LET its == Naming(j, s) \ gone
                  IN  IF its = {} THEN tab[s] ELSE Put(tab[s], j, RowsOf[j][Max(its)])]

-----------------------------------------------------------------------------
(* Ending.  A poll's memory can be lost, and a client can send a request   *)
(* again: a finished job may come once more.                               *)

Finish(j) ==
  /\ pc[j] = "row" /\ at[j] > Len(RowsOf[j])
  /\ IF bad[j] THEN /\ pc' = [pc EXCEPT ![j] = "failed"]
                    /\ UNCHANGED <<log, book>>
               ELSE /\ pc' = [pc EXCEPT ![j] = "done"]
                    /\ log' = Append(log, [job |-> j, torn |-> again[j] /\ lost[j] # {}])
                    /\ book' = Whole(book, j, lost[j])
  /\ UNCHANGED <<tables, at, view, bad, lost, forwards, overlapped, mixed, blind, bounds>>

Repeat(j) ==
  /\ pc[j] = "done"
  /\ repeats < MaxRepeats
  /\ repeats' = repeats + 1
  /\ pc' = [pc EXCEPT ![j] = "idle"]
  /\ UNCHANGED <<tables, at, view, bad, lost, forwards, history, faults>>

Step(j) ==
  \/ Begin(j) \/ Skip(j) \/ Find(j) \/ Write(j) \/ Forward(j) \/ Refuse(j)
  \/ \E applied \in BOOLEAN : WriteFails(j, applied)
  \/ FindFails(j) \/ ForwardFails(j) \/ Finish(j) \/ Repeat(j)

Next == Crash \/ \E j \in Jobs : Step(j)

Spec == Init /\ [][Next]_vars

-----------------------------------------------------------------------------
(* Properties.                                                             *)

\* The tables seen by sku, where there is one row for each.
Seen(s) ==
  LET p == CHOOSE p \in Matching(s) : TRUE
      its == {i \in DOMAIN prices : prices[i].product = p}
  IN  IF Matching(s) = {} THEN [qty |-> -1, doc |-> NoDoc, price |-> 0]
      ELSE [qty |-> products[p].qty, doc |-> products[p].doc,
            price |-> IF its = {} THEN 0 ELSE prices[CHOOSE i \in its : TRUE].val]

Quiet == \A j \in Jobs : pc[j] \in {"idle", "done"}

\* No row's sku is a pattern for another, and a dynamic job has one row for
\* a sku: it writes documents as it read them before its first row.
Ordinary(j) ==
  \A i \in DOMAIN RowsOf[j] :
    /\ \A s \in Skus : <<RowsOf[j][i].sku, s>> \notin Wild
    /\ Kind[j] = "dynamic" =>
         \A k \in DOMAIN RowsOf[j] \ {i} : RowsOf[j][k].sku # RowsOf[j][i].sku

\* The jobs that have begun.
Came == {j \in Jobs : pc[j] # "idle" \/ \E n \in DOMAIN log : log[n].job = j}

\* Where jobs do not run at the same time, nor between a failure of another
\* and its retry, each is atomic in effect: however often it failed half way,
\* crashed, or came again, the tables are those of the finished jobs applied
\* whole, in the order they finished.  (inventory.ts, dynamic.ts and
\* resources.ts write row by row without a transaction, and rely on it.)  But
\* not where a catalog sync ignored an error after an attempt of it had failed:
\* the row may hold what that attempt wrote.
AtomicIngest ==
  /\ Quiet /\ overlapped = {} /\ ~mixed /\ ~blind
  /\ \A n \in DOMAIN log : ~log[n].torn
  /\ \A j \in Came : Ordinary(j)
  => \A s \in Skus : Seen(s) = book[s]

\* A product has one list price, whatever overlaps and fails, unless two
\* price jobs ran at the same time (inventory.ts:98 looks, then inserts).
OneListPrice ==
  {"price"} \notin overlapped =>
    \A i, k \in DOMAIN prices : prices[i].product = prices[k].product => i = k

Creating == {"upsert", "catalog", "dynamic"}

\* A sku has one product row, whatever overlaps and fails, unless two jobs
\* that create products ran at the same time, a dynamic job that inserts had
\* the sku twice, or the catalog sync took a failed look-up for an empty one.
OneProduct ==
  /\ ~blind /\ \A o \in overlapped : ~(o \subseteq Creating)
  /\ \A j \in Came \cap InsertMissing : Ordinary(j)
  => \A i, k \in DOMAIN products : products[i].sku = products[k].sku => i = k

\* Whatever overlaps and fails, once the jobs are through a quantity is a
\* job's last word on that sku: rows land in the order of the file, on the
\* product they name (or, through ILIKE, one whose sku they match).
LastRowWins ==
  Quiet /\ ~blind /\ (\A o \in overlapped : ~(o \subseteq Creating)) =>
    \A p \in DOMAIN products : products[p].qty # 0 =>
      \E j \in Jobs : \E i \in DOMAIN RowsOf[j] :
        /\ Kind[j] \notin {"price", "dynamic"}
        /\ RowsOf[j][i].val = products[p].qty
        /\ IF Kind[j] = "stock" THEN RowsOf[j][i].sku = products[p].sku
                               ELSE Like(RowsOf[j][i].sku, products[p].sku)
        /\ \A k \in DOMAIN RowsOf[j] : k > i => RowsOf[j][k].sku # RowsOf[j][i].sku

\* A finished upsert of a connected org has a delivery queued for the hub, one
\* for every time it finished (resources.ts:126: a failed enqueue fails the
\* request, whose retry queues it).
UpsertForwarded ==
  \A j \in Jobs : Connected /\ Kind[j] = "upsert" =>
    forwards[j] >= Cardinality({n \in DOMAIN log : log[n].job = j})

\* A key of a jsonb document, once written, is never lost, unless two dynamic
\* jobs ran at the same time or one has a sku twice (dynamic.ts merges into
\* the document as it was before its first row).
KeysKept ==
  [][{"dynamic"} \notin overlapped' /\ (\A j \in Came : Ordinary(j)) =>
       \A p \in DOMAIN products, k \in Keys :
         products[p].doc[k] # 0 => products'[p].doc[k] # 0]_vars

\* The tables are sound: well-formed, a product with one list price, a sku with
\* one product row, but for the overlaps named above.
TablesSound == TypeOK /\ OneListPrice /\ OneProduct
=============================================================================
