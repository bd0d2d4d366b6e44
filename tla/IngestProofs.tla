----------------------------- MODULE IngestProofs -----------------------------
(***************************************************************************)
(* Proofs about Ingest, for any skus, keys, jobs, rows and bounds: the     *)
(* tables are sound, quantities are a job's last word, documents keep      *)
(* their keys and upserts are forwarded, whatever overlaps and fails but   *)
(* for the overlaps the properties name; and a job that runs alone is      *)
(* atomic in effect, however often it failed or came again.                *)
(***************************************************************************)
EXTENDS Ingest, FiniteSetTheorems, WellFoundedInduction, TLAPS

-----------------------------------------------------------------------------
(* Sequences.                                                              *)

LEMMA AppendIs ==
  ASSUME NEW S, NEW s \in Seq(S), NEW x \in S
  PROVE  /\ Append(s, x) \in Seq(S) /\ Len(s) \in Nat /\ Len(Append(s, x)) = Len(s) + 1
         /\ DOMAIN s = 1..Len(s) /\ DOMAIN Append(s, x) = 1..(Len(s) + 1)
         /\ \A i \in DOMAIN s : i \in DOMAIN Append(s, x) /\ Append(s, x)[i] = s[i]
         /\ Append(s, x)[Len(s) + 1] = x
  OBVIOUS

LEMMA ChangeIs ==
  ASSUME NEW S, NEW s \in Seq(S), NEW p \in DOMAIN s, NEW x \in S
  PROVE  LET t == [s EXCEPT ![p] = x]
         IN  /\ t \in Seq(S) /\ DOMAIN t = DOMAIN s /\ t[p] = x
             /\ \A i \in DOMAIN s : i # p => t[i] = s[i]
<1>1. DOMAIN s = 1..Len(s) /\ s \in [1..Len(s) -> S] /\ Len(s) \in Nat
  OBVIOUS
<1> DEFINE t == [s EXCEPT ![p] = x]
<1>2. t \in [1..Len(s) -> S]
  BY <1>1
<1>3. t \in Seq(S)
  BY <1>1, <1>2
<1> QED
  BY <1>1, <1>3

-----------------------------------------------------------------------------
(* Induction: a set of natural numbers with 0 and, with a number, the next  *)
(* one has them all; and the largest element of a finite set of numbers.    *)

LEMMA NatLess == \A x, y \in Nat : <<x, y>> \in OpToRel(<, Nat) <=> x < y
  BY DEF OpToRel

LEMMA SetInduction ==
  ASSUME NEW S, 0 \in S, \A n \in Nat : n \in S => n + 1 \in S
  PROVE  \A n \in Nat : n \in S
<1> DEFINE T == Nat \ S
<1> SUFFICES ASSUME T # {} PROVE FALSE
  OBVIOUS
<1>1. T \subseteq Nat
  OBVIOUS
<1>2. PICK x \in T : \A y \in T : <<y, x>> \notin OpToRel(<, Nat)
  <2> HIDE DEF T
  <2> QED
    BY <1>1, NatLessThanWellFounded, WFMin
<1>3. x \in Nat /\ x \notin S
  BY <1>2
<1>4. x # 0
  BY <1>3
<1>5. x - 1 \in Nat /\ x - 1 < x /\ (x - 1) + 1 = x
  BY <1>3, <1>4
<1>6. x - 1 \notin T
  <2> HIDE DEF T
  <2> QED
    BY <1>2, <1>3, <1>5, NatLess
<1>7. x - 1 \in S
  BY <1>5, <1>6
<1> QED
  BY <1>3, <1>5, <1>7

LEMMA MaxIs ==
  ASSUME NEW n \in Nat, NEW I \in SUBSET (1..n), I # {}
  PROVE  Max(I) \in I /\ \A k \in I : k <= Max(I)
<1> DEFINE Has(m) == \A J \in SUBSET (1..m) : J # {} => \E x \in J : \A y \in J : x >= y
           S == {m \in Nat : Has(m)}
<1>1. 0 \in S
  <2>1. 1..0 = {}
    OBVIOUS
  <2> QED
    BY <2>1
<1>2. ASSUME NEW m \in Nat, m \in S PROVE m + 1 \in S
  <2>1. ASSUME NEW J \in SUBSET (1..(m + 1)), J # {} PROVE \E x \in J : \A y \in J : x >= y
    <3>1. CASE m + 1 \in J
      BY <3>1
    <3>2. CASE m + 1 \notin J
      <4>1. J \in SUBSET (1..m)
        BY <3>2
      <4> QED
        BY <1>2, <2>1, <4>1
    <3> QED
      BY <3>1, <3>2
  <2> QED
    BY <2>1
<1>3. n \in S
  <2> HIDE DEF S
  <2> QED
    BY <1>1, <1>2, SetInduction
<1>4. \E x \in I : \A y \in I : x >= y
  BY <1>3
<1>5. Max(I) \in I /\ \A y \in I : Max(I) >= y
  BY <1>4 DEF Max
<1> QED
  BY <1>5

-----------------------------------------------------------------------------
(* Types.  What a job read of the tables is there: rows are only added.     *)

TablesType ==
  /\ products \in Seq(Product) /\ prices \in Seq(Price)
  /\ \A i \in DOMAIN prices : prices[i].product \in DOMAIN products

Steps == {"idle", "row", "write", "forward", "failed", "done"}

JobsType ==
  /\ pc \in [Jobs -> Steps] /\ at \in [Jobs -> Nat]
  /\ ids \in [Jobs -> [Skus -> Nat]] /\ docs \in [Jobs -> [Skus -> Doc]] /\ hit \in [Jobs -> Nat]
  /\ bad \in [Jobs -> BOOLEAN] /\ lost \in [Jobs -> SUBSET Nat] /\ forwards \in [Jobs -> Nat]
  /\ again \in [Jobs -> BOOLEAN]

\* What a job read is there, and what it is about to write it has looked up.
JobOK(j) ==
  /\ at[j] \in 1..(Len(RowsOf[j]) + 1)
  /\ \A s \in Skus : ids[j][s] = 0 \/ (ids[j][s] \in DOMAIN products /\ products[ids[j][s]].sku = s)
  /\ hit[j] = 0 \/ hit[j] \in DOMAIN (IF Kind[j] = "price" THEN prices ELSE products)
  /\ lost[j] \subseteq DOMAIN RowsOf[j]
  /\ pc[j] \in {"write", "forward"} => LooksUp(j) /\ at[j] <= Len(RowsOf[j]) /\ ~Unknown(j)
  /\ pc[j] = "write" /\ hit[j] # 0 /\ Kind[j] # "price" => Like(This(j).sku, products[hit[j]].sku)

JobsOK == \A j \in Jobs : JobOK(j)

LogType ==
  /\ log \in Seq([job : Jobs, torn : BOOLEAN]) /\ book \in [Skus -> Item]
  /\ \A j \in Jobs : pc[j] = "done" => \E n \in DOMAIN log : log[n].job = j
  /\ overlapped \subseteq SUBSET Kinds /\ mixed \in BOOLEAN /\ blind \in BOOLEAN
  /\ faults \in 0..MaxFaults /\ repeats \in 0..MaxRepeats

TypeInv == TablesType /\ JobsType /\ JobsOK /\ LogType

LEMMA TypeInvIsEnough == TypeInv => TypeOK
<1> SUFFICES ASSUME TypeInv PROVE TypeOK
  OBVIOUS
<1>1. TablesType /\ JobsType /\ LogType /\ \A j \in Jobs : JobOK(j)
  BY DEF TypeInv, JobsOK
<1>2. ASSUME NEW j \in Jobs
      PROVE  /\ at[j] \in 1..(Len(RowsOf[j]) + 1) /\ lost[j] \subseteq DOMAIN RowsOf[j]
             /\ \A s \in Skus : ids[j][s] \in {0} \cup DOMAIN products
             /\ hit[j] \in {0} \cup DOMAIN (IF Kind[j] = "price" THEN prices ELSE products)
  BY <1>1 DEF JobOK
<1>3. {mixed, blind} \subseteq BOOLEAN
  BY <1>1 DEF LogType
<1> QED
  BY <1>1, <1>2, <1>3 DEF TypeOK, TablesType, JobsType, LogType, Steps

LEMMA RowsType ==
  ASSUME NEW j \in Jobs
  PROVE  /\ RowsOf[j] \in Seq(Row) /\ Len(RowsOf[j]) \in Nat /\ DOMAIN RowsOf[j] = 1..Len(RowsOf[j])
         /\ Kind[j] \in Kinds
         /\ \A i \in 1..Len(RowsOf[j]) : RowsOf[j][i] \in Row
  BY IngestAssumption

LEMMA ThisType ==
  ASSUME TypeInv, NEW j \in Jobs, at[j] <= Len(RowsOf[j])
  PROVE  /\ This(j) \in Row /\ This(j).sku \in Skus /\ This(j).val \in Nat /\ This(j).val # 0
         /\ This(j).key \in Keys /\ at[j] \in DOMAIN RowsOf[j] /\ at[j] \in Nat
<1>1. at[j] \in 1..(Len(RowsOf[j]) + 1)
  BY DEF TypeInv, JobsOK, JobOK
<1>2. at[j] \in 1..Len(RowsOf[j])
  BY <1>1, RowsType
<1>3. This(j) \in Row
  BY <1>2, RowsType DEF This
<1> QED
  BY <1>2, <1>3, RowsType DEF Row

\* A row that is added or updated is one.
LEMMA ProductIs ==
  ASSUME NEW s \in Skus, NEW n \in Nat, NEW d \in Doc
  PROVE  [sku |-> s, qty |-> n, doc |-> d] \in Product
  BY DEF Product

LEMMA MergedIs ==
  ASSUME NEW d \in Doc, NEW x \in Row
  PROVE  /\ Merged(d, x) \in Doc /\ Merged(d, x)[x.key] # 0
         /\ \A k \in Keys : k # x.key => Merged(d, x)[k] = d[k]
<1>1. x.key \in Keys /\ x.val \in Nat /\ x.val # 0
  BY DEF Row
<1> QED
  BY <1>1 DEF Merged, Doc

LEMMA NoDocIs == NoDoc \in Doc
  BY DEF NoDoc, Doc

LEMMA PutType ==
  ASSUME NEW it \in Item, NEW j \in Jobs, NEW x \in Row
  PROVE  Put(it, j, x) \in Item
<1>1. x.val \in Nat /\ it.doc \in Doc /\ it.qty \in Nat \cup {-1} /\ it.price \in Nat
  BY DEF Row, Item
<1>2. Merged(it.doc, x) \in Doc
  BY <1>1, MergedIs
<1>3. (IF it.qty < 0 THEN 0 ELSE it.qty) \in Nat \cup {-1}
  BY <1>1
<1> QED
  BY <1>1, <1>2, <1>3 DEF Put, Item

\* The last row that names a sku, but for some.
LEMMA LastIs ==
  ASSUME NEW j \in Jobs, NEW s, NEW gone, Naming(j, s) \ gone # {}
  PROVE  /\ Max(Naming(j, s) \ gone) \in Naming(j, s) \ gone
         /\ \A k \in Naming(j, s) \ gone : k <= Max(Naming(j, s) \ gone)
<1>1. Len(RowsOf[j]) \in Nat /\ Naming(j, s) \ gone \in SUBSET (1..Len(RowsOf[j]))
  BY RowsType DEF Naming
<1> QED
  BY <1>1, MaxIs

LEMMA WholeType ==
  ASSUME NEW tab \in [Skus -> Item], NEW j \in Jobs, NEW gone
  PROVE  Whole(tab, j, gone) \in [Skus -> Item]
<1>1. ASSUME NEW s \in Skus, Naming(j, s) \ gone # {}
      PROVE  Put(tab[s], j, RowsOf[j][Max(Naming(j, s) \ gone)]) \in Item
  <2>1. Max(Naming(j, s) \ gone) \in DOMAIN RowsOf[j]
    BY <1>1, LastIs DEF Naming
  <2>2. RowsOf[j][Max(Naming(j, s) \ gone)] \in Row
    BY <2>1, RowsType
  <2> QED
    BY <2>2, PutType
<1> QED
  BY <1>1 DEF Whole

-----------------------------------------------------------------------------
(* What a write does to the tables.                                        *)

\* Rows stay, with their skus.
Grows ==
  /\ \A p \in DOMAIN products : p \in DOMAIN products' /\ products'[p].sku = products[p].sku
  /\ \A i \in DOMAIN prices : i \in DOMAIN prices' /\ prices'[i].product = prices[i].product

\* The kinds of writes there are.
NewPrice(j) ==
  /\ Kind[j] = "price" /\ hit[j] = 0 /\ Id(j) # 0 /\ UNCHANGED products
  /\ \E x \in Price : x.product = Id(j) /\ prices' = Append(prices, x)
Repriced(j) ==
  /\ Kind[j] = "price" /\ hit[j] \in DOMAIN prices /\ UNCHANGED products
  /\ \E x \in Price : x.product = prices[hit[j]].product /\ prices' = [prices EXCEPT ![hit[j]] = x]
NewProduct(j) ==
  /\ UNCHANGED prices
  /\ \/ Kind[j] = "dynamic" /\ j \in InsertMissing /\ Id(j) = 0
     \/ Kind[j] \in {"upsert", "catalog"} /\ hit[j] = 0
  /\ \E x \in Product :
       /\ x.sku = This(j).sku /\ products' = Append(products, x)
       /\ x.qty = IF Kind[j] = "dynamic" THEN 0 ELSE This(j).val
Documented(j) ==
  /\ Kind[j] = "dynamic" /\ Id(j) # 0 /\ UNCHANGED prices
  /\ \E x \in Product :
       /\ x.sku = products[Id(j)].sku /\ x.qty = products[Id(j)].qty
       /\ x.doc = Merged(docs[j][This(j).sku], This(j)) /\ products' = [products EXCEPT ![Id(j)] = x]
Counted(j, p) ==
  /\ \/ Kind[j] = "stock" /\ p = Id(j)
     \/ Kind[j] \in {"upsert", "catalog"} /\ p = hit[j]
  /\ p # 0 /\ UNCHANGED prices
  /\ \E x \in Product :
       /\ x.sku = products[p].sku /\ x.qty = This(j).val /\ x.doc = products[p].doc
       /\ products' = [products EXCEPT ![p] = x]

\* Where a job writes, it is at a row, and knows where to.
LEMMA WritingAt ==
  ASSUME TypeInv, NEW j \in Jobs, Writing(j)
  PROVE  /\ at[j] <= Len(RowsOf[j]) /\ ~Unknown(j)
         /\ pc[j] \in {"row", "write"} /\ Running(j) /\ (LooksUp(j) => pc[j] = "write")
         /\ (Kind[j] \in {"stock", "dynamic"} => pc[j] = "row")
         /\ (Id(j) = 0 \/ (Id(j) \in DOMAIN products /\ products[Id(j)].sku = This(j).sku))
         /\ (Kind[j] \in {"price", "stock"} => Id(j) # 0)
         /\ (Kind[j] = "dynamic" /\ Id(j) = 0 => j \in InsertMissing)
<1>1. at[j] <= Len(RowsOf[j]) /\ ~Unknown(j) /\ pc[j] \in {"row", "write"} /\ (LooksUp(j) => pc[j] = "write")
  BY DEF Writing, AtRow, TypeInv, JobsOK, JobOK
<1>2. Id(j) = 0 \/ (Id(j) \in DOMAIN products /\ products[Id(j)].sku = This(j).sku)
  BY <1>1, ThisType DEF Id, TypeInv, JobsOK, JobOK
<1>3. ~LooksUp(j) => pc[j] = "row"
  BY DEF Writing, AtRow
<1> QED
  BY <1>1, <1>2, <1>3 DEF Unknown, Snapshots, LooksUp, Running

LEMMA WriteCases ==
  ASSUME TypeInv, NEW j \in Jobs, Writing(j), Apply(j)
  PROVE  NewPrice(j) \/ Repriced(j) \/ NewProduct(j) \/ Documented(j) \/ \E p \in DOMAIN products : Counted(j, p)
<1>0. /\ Kind[j] \in Kinds /\ products \in Seq(Product) /\ prices \in Seq(Price)
      /\ DOMAIN products = 1..Len(products) /\ DOMAIN prices = 1..Len(prices)
      /\ hit[j] = 0 \/ hit[j] \in DOMAIN (IF Kind[j] = "price" THEN prices ELSE products)
      /\ docs[j] \in [Skus -> Doc]
  BY RowsType DEF TypeInv, TablesType, JobsType, JobsOK, JobOK
<1>1. /\ This(j) \in Row /\ This(j).sku \in Skus /\ This(j).val \in Nat
      /\ ~Unknown(j) /\ (Id(j) = 0 \/ Id(j) \in DOMAIN products)
      /\ (Kind[j] \in {"price", "stock"} => Id(j) # 0)
      /\ (Kind[j] = "dynamic" /\ Id(j) = 0 => j \in InsertMissing)
  BY WritingAt, ThisType
<1>2. CASE Kind[j] = "price" /\ hit[j] = 0
  <2> DEFINE x == [product |-> Id(j), val |-> This(j).val]
  <2>1. x \in Price /\ x.product = Id(j)
    BY <1>0, <1>1, <1>2 DEF Price
  <2>2. prices' = Append(prices, x) /\ products' = products
    BY <1>2 DEF Apply, WrittenProducts, WrittenPrices
  <2> QED
    BY <1>1, <1>2, <2>1, <2>2 DEF NewPrice
<1>3. CASE Kind[j] = "price" /\ hit[j] # 0
  <2> DEFINE x == [prices[hit[j]] EXCEPT !.val = This(j).val]
  <2>1. hit[j] \in DOMAIN prices /\ prices[hit[j]] \in Price
    BY <1>0, <1>3
  <2>2. x \in Price /\ x.product = prices[hit[j]].product
    BY <1>1, <2>1 DEF Price
  <2>3. prices' = [prices EXCEPT ![hit[j]] = x] /\ products' = products
    BY <1>3 DEF Apply, WrittenProducts, WrittenPrices
  <2> QED
    BY <1>3, <2>1, <2>2, <2>3 DEF Repriced
<1>4. CASE Kind[j] = "dynamic"
  <2>0. prices' = prices
    BY <1>4 DEF Apply, WrittenPrices
  <2>1. CASE Id(j) = 0
    <3> DEFINE x == Created(This(j), TRUE)
    <3>1. x \in Product /\ x.sku = This(j).sku /\ x.qty = 0
      BY <1>1, MergedIs, NoDocIs, ProductIs DEF Created
    <3>2. products' = Append(products, x)
      BY <1>4, <2>1 DEF Apply, WrittenProducts, Creates
    <3> QED
      BY <1>1, <1>4, <2>0, <2>1, <3>1, <3>2 DEF NewProduct
  <2>2. CASE Id(j) # 0
    <3> DEFINE d == Merged(docs[j][This(j).sku], This(j))
               x == [products[Id(j)] EXCEPT !.doc = d]
    <3>1. products[Id(j)] \in Product /\ d \in Doc
      BY <1>0, <1>1, <2>2, MergedIs
    <3>2. x \in Product /\ x.sku = products[Id(j)].sku /\ x.qty = products[Id(j)].qty /\ x.doc = d
      BY <3>1 DEF Product
    <3>3. products' = [products EXCEPT ![Id(j)] = x]
      BY <1>4, <2>2 DEF Apply, WrittenProducts, Creates
    <3> QED
      BY <1>4, <2>0, <2>2, <3>2, <3>3 DEF Documented
  <2> QED
    BY <2>1, <2>2
<1>5. CASE Kind[j] \in {"upsert", "catalog"} /\ hit[j] = 0
  <2> DEFINE x == Created(This(j), FALSE)
  <2>1. x \in Product /\ x.sku = This(j).sku /\ x.qty = This(j).val
    BY <1>1, NoDocIs, ProductIs DEF Created
  <2>2. products' = Append(products, x) /\ prices' = prices
    BY <1>5 DEF Apply, WrittenProducts, WrittenPrices, Creates
  <2> QED
    BY <1>5, <2>1, <2>2 DEF NewProduct
<1>6. CASE Kind[j] = "stock" \/ (Kind[j] \in {"upsert", "catalog"} /\ hit[j] # 0)
  <2> DEFINE p == IF Kind[j] = "stock" THEN Id(j) ELSE hit[j]
             x == [products[p] EXCEPT !.qty = This(j).val]
  <2>1. p \in DOMAIN products /\ products[p] \in Product /\ p # 0
    BY <1>0, <1>1, <1>6
  <2>2. x \in Product /\ x.sku = products[p].sku /\ x.qty = This(j).val /\ x.doc = products[p].doc
    BY <1>1, <2>1 DEF Product
  <2>3. products' = [products EXCEPT ![p] = x] /\ prices' = prices
    BY <1>6 DEF Apply, WrittenProducts, WrittenPrices, Creates
  <2>4. Counted(j, p)
    BY <1>6, <2>1, <2>2, <2>3 DEF Counted
  <2> QED
    BY <2>1, <2>4
<1> QED
  BY <1>0, <1>2, <1>3, <1>4, <1>5, <1>6 DEF Kinds

LEMMA ApplyTables ==
  ASSUME TypeInv, NEW j \in Jobs, Writing(j), Apply(j)
  PROVE  TablesType' /\ Grows
<1>0. TablesType /\ (Id(j) # 0 => Id(j) \in DOMAIN products)
  BY WritingAt DEF TypeInv
<1>1. CASE NewPrice(j)
  <2>1. PICK x \in Price : x.product = Id(j) /\ prices' = Append(prices, x)
    BY <1>1 DEF NewPrice
  <2>2. products' = products /\ x.product \in DOMAIN products
    BY <1>0, <1>1, <2>1 DEF NewPrice
  <2>3. /\ prices' \in Seq(Price) /\ DOMAIN prices' = 1..(Len(prices) + 1) /\ DOMAIN prices = 1..Len(prices)
        /\ Len(prices) \in Nat /\ prices'[Len(prices) + 1] = x
        /\ \A i \in DOMAIN prices : i \in DOMAIN prices' /\ prices'[i] = prices[i]
    BY <1>0, <2>1, AppendIs DEF TablesType
  <2>4. \A i \in DOMAIN prices' : i = Len(prices) + 1 \/ i \in DOMAIN prices
    BY <2>3
  <2> QED
    BY <1>0, <2>2, <2>3, <2>4 DEF TablesType, Grows
<1>2. CASE Repriced(j)
  <2>1. PICK x \in Price : x.product = prices[hit[j]].product /\ prices' = [prices EXCEPT ![hit[j]] = x]
    BY <1>2 DEF Repriced
  <2>2. products' = products /\ hit[j] \in DOMAIN prices
    BY <1>2 DEF Repriced
  <2>3. /\ prices' \in Seq(Price) /\ DOMAIN prices' = DOMAIN prices /\ prices'[hit[j]] = x
        /\ \A i \in DOMAIN prices : i # hit[j] => prices'[i] = prices[i]
    BY <1>0, <2>1, <2>2, ChangeIs DEF TablesType
  <2> QED
    BY <1>0, <2>1, <2>2, <2>3 DEF TablesType, Grows
<1>3. CASE NewProduct(j)
  <2>1. PICK x \in Product : products' = Append(products, x)
    BY <1>3 DEF NewProduct
  <2>2. prices' = prices
    BY <1>3 DEF NewProduct
  <2>3. /\ products' \in Seq(Product)
        /\ \A i \in DOMAIN products : i \in DOMAIN products' /\ products'[i] = products[i]
    BY <1>0, <2>1, AppendIs DEF TablesType
  <2> QED
    BY <1>0, <2>2, <2>3 DEF TablesType, Grows
<1>4. ASSUME NEW p \in DOMAIN products, NEW x \in Product, x.sku = products[p].sku, UNCHANGED prices,
             products' = [products EXCEPT ![p] = x]
      PROVE  TablesType' /\ Grows
  <2>1. /\ products' \in Seq(Product) /\ DOMAIN products' = DOMAIN products /\ products'[p] = x
        /\ \A i \in DOMAIN products : i # p => products'[i] = products[i]
    BY <1>0, <1>4, ChangeIs DEF TablesType
  <2> QED
    BY <1>0, <1>4, <2>1 DEF TablesType, Grows
<1>5. CASE Documented(j)
  BY <1>0, <1>4, <1>5 DEF Documented
<1>6. CASE \E p \in DOMAIN products : Counted(j, p)
  BY <1>4, <1>6 DEF Counted
<1> QED
  BY <1>1, <1>2, <1>3, <1>5, <1>6, WriteCases

-----------------------------------------------------------------------------
(* A job's step keeps the types.                                           *)

Only(j) ==
  \A k \in Jobs \ {j} :
    /\ pc'[k] = pc[k] /\ at'[k] = at[k] /\ ids'[k] = ids[k] /\ docs'[k] = docs[k] /\ hit'[k] = hit[k]
    /\ bad'[k] = bad[k] /\ lost'[k] = lost[k] /\ forwards'[k] = forwards[k]
    /\ again'[k] = again[k]

Sound(j) == TablesType' /\ Grows /\ JobsType' /\ Only(j) /\ JobOK(j)'

LEMMA TablesStay ==
  ASSUME TypeInv, UNCHANGED tables
  PROVE  TablesType' /\ Grows
  BY DEF tables, TypeInv, TablesType, Grows

\* Another job's step, or a crash.
LEMMA JobStays ==
  ASSUME TypeInv, Grows, NEW k \in Jobs, at'[k] = at[k], ids'[k] = ids[k], hit'[k] = hit[k], lost'[k] = lost[k],
         pc'[k] = pc[k] \/ pc'[k] = "failed"
  PROVE  JobOK(k)'
<1>1. JobOK(k) /\ TablesType
  BY DEF TypeInv, JobsOK
<1>2. This(k)' = This(k) /\ Id(k)' = Id(k)
  BY DEF This, Id
<1>3. Unknown(k)' <=> Unknown(k)
  BY <1>2 DEF Unknown, Snapshots
<1>4. \A s \in Skus : ids'[k][s] = 0 \/ (ids'[k][s] \in DOMAIN products' /\ products'[ids'[k][s]].sku = s)
  BY <1>1 DEF JobOK, Grows
<1>5. /\ hit'[k] = 0 \/ hit'[k] \in DOMAIN (IF Kind[k] = "price" THEN prices' ELSE products')
      /\ hit'[k] # 0 /\ Kind[k] # "price" => products'[hit'[k]].sku = products[hit[k]].sku
  <2>1. CASE hit[k] = 0
    BY <2>1
  <2>2. CASE hit[k] # 0 /\ Kind[k] = "price"
    BY <1>1, <2>2 DEF JobOK, Grows
  <2>3. CASE hit[k] # 0 /\ Kind[k] # "price"
    BY <1>1, <2>3 DEF JobOK, Grows
  <2> QED
    BY <2>1, <2>2, <2>3
<1>6. pc'[k] = "write" /\ hit'[k] # 0 /\ Kind[k] # "price" => Like(This(k)'.sku, products'[hit'[k]].sku)
  BY <1>1, <1>2, <1>5 DEF JobOK
<1>7. pc'[k] \in {"write", "forward"} => LooksUp(k) /\ at'[k] <= Len(RowsOf[k]) /\ ~Unknown(k)'
  BY <1>1, <1>3 DEF JobOK
<1>8. at'[k] \in 1..(Len(RowsOf[k]) + 1) /\ lost'[k] \subseteq DOMAIN RowsOf[k]
  BY <1>1 DEF JobOK
<1> QED
  BY <1>4, <1>5, <1>6, <1>7, <1>8 DEF JobOK, LooksUp

LEMMA SoundIsEnough ==
  ASSUME TypeInv, NEW j \in Jobs, Sound(j)
  PROVE  TablesType' /\ JobsType' /\ JobsOK'
<1>1. ASSUME NEW k \in Jobs, k # j PROVE JobOK(k)'
  BY <1>1, JobStays DEF Sound, Only
<1> QED
  BY <1>1 DEF Sound, JobsOK

\* It goes on, with the same view; what is written is written.
LEMMA SoundMove ==
  ASSUME TypeInv, NEW j \in Jobs, TablesType', Grows, NEW step \in Steps, NEW n \in 1..(Len(RowsOf[j]) + 1),
         pc' = [pc EXCEPT ![j] = step], at' = [at EXCEPT ![j] = n], UNCHANGED view,
         bad' \in [Jobs -> BOOLEAN], lost' \in [Jobs -> SUBSET Nat], forwards' \in [Jobs -> Nat],
         \A k \in Jobs \ {j} : bad'[k] = bad[k] /\ lost'[k] = lost[k] /\ forwards'[k] = forwards[k],
         lost'[j] \subseteq DOMAIN RowsOf[j],
         step # "write", step = "forward" => n = at[j] /\ pc[j] = "write"
  PROVE  Sound(j)
<1>0. JobsType /\ JobOK(j) /\ Len(RowsOf[j]) \in Nat
  BY RowsType DEF TypeInv, JobsOK
<1>1. UNCHANGED <<ids, docs, hit, again>>
  BY DEF view
<1>2. JobsType'
  BY <1>0, <1>1 DEF JobsType
<1>3. Only(j)
  BY <1>0, <1>1 DEF Only, JobsType
<1>4. pc'[j] = step /\ at'[j] = n
  BY <1>0 DEF JobsType
<1>5. \A s \in Skus : ids'[j][s] = 0 \/ (ids'[j][s] \in DOMAIN products' /\ products'[ids'[j][s]].sku = s)
  BY <1>0, <1>1 DEF JobOK, Grows
<1>6. hit'[j] = 0 \/ hit'[j] \in DOMAIN (IF Kind[j] = "price" THEN prices' ELSE products')
  <2>1. CASE Kind[j] = "price"
    BY <1>0, <1>1, <2>1 DEF JobOK, Grows
  <2>2. CASE Kind[j] # "price"
    BY <1>0, <1>1, <2>2 DEF JobOK, Grows
  <2> QED
    BY <2>1, <2>2
<1>7. step = "forward" => LooksUp(j) /\ n <= Len(RowsOf[j]) /\ ~Unknown(j)'
  <2> SUFFICES ASSUME step = "forward" PROVE LooksUp(j) /\ n <= Len(RowsOf[j]) /\ ~Unknown(j)'
    OBVIOUS
  <2>1. LooksUp(j) /\ n <= Len(RowsOf[j]) /\ ~Unknown(j)
    BY <1>0 DEF JobOK
  <2>2. Id(j)' = Id(j)
    BY <1>1, <1>4 DEF Id, This
  <2> QED
    BY <2>1, <2>2 DEF Unknown, Snapshots
<1>8. JobOK(j)'
  BY <1>4, <1>5, <1>6, <1>7 DEF JobOK, LooksUp
<1> QED
  BY <1>2, <1>3, <1>8 DEF Sound

LEMMA SoundBegin ==
  ASSUME TypeInv, NEW j \in Jobs, Begin(j)
  PROVE  Sound(j)
<1>0. JobsType /\ TablesType /\ Len(RowsOf[j]) \in Nat
  BY RowsType DEF TypeInv
<1>1. PICK m \in (IF Snapshots(j) THEN SkuMaps ELSE {NoIds}) :
        /\ ids' = [ids EXCEPT ![j] = m]
        /\ docs' = [docs EXCEPT ![j] = [s \in Skus |-> IF m[s] = 0 THEN NoDoc ELSE products[m[s]].doc]]
  BY DEF Begin
<1>2. /\ pc' = [pc EXCEPT ![j] = "row"] /\ at' = [at EXCEPT ![j] = 1] /\ hit' = [hit EXCEPT ![j] = 0]
      /\ bad' = [bad EXCEPT ![j] = FALSE] /\ lost' = [lost EXCEPT ![j] = {}] /\ UNCHANGED <<tables, forwards>>
  BY DEF Begin
<1>3. /\ \A s \in Skus : m[s] = 0 \/ (m[s] \in DOMAIN products /\ products[m[s]].sku = s)
      /\ DOMAIN m = Skus /\ m \in [Skus -> Nat]
  <2>1. CASE m \in SkuMaps
    <3>1. m \in [Skus -> {0} \cup DOMAIN products]
      BY <2>1 DEF SkuMaps
    <3>2. \A s \in Skus : m[s] = 0 \/ m[s] \in Matching(s)
      BY <2>1 DEF SkuMaps
    <3>3. {0} \cup DOMAIN products \subseteq Nat
      BY <1>0 DEF TablesType
    <3> QED
      BY <3>1, <3>2, <3>3 DEF Matching
  <2>2. CASE m = NoIds
    BY <2>2 DEF NoIds
  <2> QED
    BY <2>1, <2>2
<1> DEFINE ds == [s \in Skus |-> IF m[s] = 0 THEN NoDoc ELSE products[m[s]].doc]
<1>4. ds \in [Skus -> Doc]
  <2>1. ASSUME NEW s \in Skus, m[s] # 0 PROVE products[m[s]].doc \in Doc
    <3>1. products[m[s]] \in Product
      BY <1>0, <1>3, <2>1 DEF TablesType
    <3> QED
      BY <3>1 DEF Product
  <2> QED
    BY <2>1, NoDocIs
<1> HIDE DEF ds
<1>a. again' \in [Jobs -> BOOLEAN] /\ \A k \in Jobs \ {j} : again'[k] = again[k]
  <2>1. again' = [again EXCEPT ![j] = pc[j] = "failed"] /\ again \in [Jobs -> BOOLEAN]
    BY <1>0 DEF Begin, JobsType
  <2> QED
    BY <2>1, Zenon
<1>5. JobsType'
  BY <1>0, <1>1, <1>2, <1>3, <1>4, <1>a DEF JobsType, Steps, ds
<1>6. Only(j)
  BY <1>0, <1>1, <1>2, <1>a DEF Only, JobsType
<1>7. pc'[j] = "row" /\ at'[j] = 1 /\ ids'[j] = m /\ hit'[j] = 0 /\ lost'[j] = {}
  BY <1>0, <1>1, <1>2 DEF JobsType
<1>8. TablesType' /\ Grows
  BY <1>2, TablesStay
<1>9. JobOK(j)'
  BY <1>0, <1>2, <1>3, <1>7 DEF JobOK, tables
<1> QED
  BY <1>5, <1>6, <1>8, <1>9 DEF Sound

LEMMA SoundFind ==
  ASSUME TypeInv, NEW j \in Jobs, Find(j) \/ FindFails(j)
  PROVE  Sound(j)
<1>0. JobsType /\ TablesType /\ JobOK(j) /\ at[j] <= Len(RowsOf[j]) /\ LooksUp(j) /\ ~Unknown(j)
  BY DEF TypeInv, JobsOK, Find, FindFails, AtRow
<1>1. /\ UNCHANGED <<tables, at, ids, docs, again, bad, lost, forwards>>
      /\ \E step \in {"write", "failed"} : pc' = [pc EXCEPT ![j] = step]
  BY DEF Find, FindFails
<1>2. \E h \in Nat : /\ hit' = [hit EXCEPT ![j] = h]
                     /\ h = 0 \/ h \in Candidates(j)
  <2>1. CASE Find(j)
    <3>1. PICK h \in (IF Candidates(j) = {} THEN {0} ELSE Candidates(j)) : hit' = [hit EXCEPT ![j] = h]
      BY <2>1 DEF Find
    <3>2. Candidates(j) \subseteq Nat
      BY <1>0 DEF Candidates, TablesType
    <3> QED
      BY <3>1, <3>2
  <2>2. CASE FindFails(j)
    BY <2>2 DEF FindFails
  <2> QED
    BY <2>1, <2>2
<1>3. PICK h \in Nat : hit' = [hit EXCEPT ![j] = h] /\ (h = 0 \/ h \in Candidates(j))
  BY <1>2
<1>4. JobsType'
  BY <1>0, <1>1, <1>3 DEF JobsType, Steps
<1>5. Only(j)
  BY <1>0, <1>1, <1>3 DEF Only, JobsType
<1>6. TablesType' /\ Grows
  BY <1>1, TablesStay
<1>7. hit'[j] = h /\ This(j)' = This(j) /\ Id(j)' = Id(j) /\ UNCHANGED <<products, prices, ids, at, lost>>
  BY <1>0, <1>1, <1>3 DEF JobsType, This, Id, tables
<1>8. Unknown(j)' <=> Unknown(j)
  BY <1>7 DEF Unknown, Snapshots
<1>9. /\ h = 0 \/ h \in DOMAIN (IF Kind[j] = "price" THEN prices ELSE products)
      /\ h # 0 /\ Kind[j] # "price" => Like(This(j).sku, products[h].sku)
  BY <1>3 DEF Candidates
<1>10. JobOK(j)'
  BY <1>0, <1>7, <1>8, <1>9 DEF JobOK, LooksUp
<1> QED
  BY <1>4, <1>5, <1>6, <1>10 DEF Sound

\* at[j] + 1, where there is a row.
LEMMA NextRow ==
  ASSUME TypeInv, NEW j \in Jobs, at[j] <= Len(RowsOf[j]), at' = Next1(at, j)
  PROVE  at[j] + 1 \in 1..(Len(RowsOf[j]) + 1) /\ at' = [at EXCEPT ![j] = at[j] + 1]
<1>1. at[j] \in 1..(Len(RowsOf[j]) + 1) /\ Len(RowsOf[j]) \in Nat
  BY RowsType DEF TypeInv, JobsOK, JobOK
<1> QED
  BY <1>1 DEF Next1

LEMMA SamePlace ==
  ASSUME TypeInv, NEW j \in Jobs, UNCHANGED at
  PROVE  at[j] \in 1..(Len(RowsOf[j]) + 1) /\ at' = [at EXCEPT ![j] = at[j]]
  BY DEF TypeInv, JobsType, JobsOK, JobOK

LEMMA SoundWrite ==
  ASSUME TypeInv, NEW j \in Jobs, Write(j) \/ WriteFails(j, TRUE) \/ WriteFails(j, FALSE)
  PROVE  Sound(j)
<1>0. JobsType /\ JobOK(j) /\ Writing(j) /\ at[j] <= Len(RowsOf[j]) /\ UNCHANGED <<view, forwards>>
  BY WritingAt DEF TypeInv, JobsOK, Write, WriteFails
<1>1. Apply(j) \/ UNCHANGED tables
  BY DEF Write, WriteFails
<1>2. TablesType' /\ Grows
  BY <1>0, <1>1, ApplyTables, TablesStay
<1>3. at[j] \in DOMAIN RowsOf[j]
  BY <1>0, ThisType
<1>4. CASE Write(j)
  <2>1. UNCHANGED <<bad, lost>>
    BY <1>4 DEF Write
  <2>2. CASE Forwards(j)
    <3>1. pc' = [pc EXCEPT ![j] = "forward"] /\ UNCHANGED at /\ pc[j] = "write"
      BY <1>0, <1>4, <2>2, WritingAt DEF Write, Forwards, LooksUp
    <3> QED
      BY <1>0, <1>2, <2>1, <3>1, SamePlace, SoundMove DEF JobsType, JobOK, Steps
  <2>3. CASE ~Forwards(j)
    <3>1. pc' = [pc EXCEPT ![j] = "row"] /\ at' = Next1(at, j)
      BY <1>4, <2>3 DEF Write
    <3> QED
      BY <1>0, <1>2, <2>1, <3>1, NextRow, SoundMove DEF JobsType, JobOK, Steps
  <2> QED
    BY <2>2, <2>3
<1>5. ASSUME NEW applied \in BOOLEAN, WriteFails(j, applied) PROVE Sound(j)
  <2>1. GiveUp(j, applied)
    BY <1>5 DEF WriteFails
  <2>2. CASE Kind[j] \in {"dynamic", "catalog"}
    <3>1. /\ pc' = [pc EXCEPT ![j] = "row"] /\ at' = Next1(at, j)
          /\ bad' = [bad EXCEPT ![j] = @ \/ Kind[j] = "dynamic"]
          /\ lost' = [lost EXCEPT ![j] = IF applied THEN @ ELSE @ \cup {at[j]}]
      BY <2>1, <2>2 DEF GiveUp
    <3>2. bad' \in [Jobs -> BOOLEAN] /\ \A k \in Jobs \ {j} : bad'[k] = bad[k]
      BY <1>0, <3>1, Zenon DEF JobsType
    <3>3. lost' \in [Jobs -> SUBSET Nat] /\ \A k \in Jobs \ {j} : lost'[k] = lost[k]
      BY <1>0, <3>1 DEF JobsType
    <3>4. lost'[j] \subseteq DOMAIN RowsOf[j]
      BY <1>0, <1>3, <3>1 DEF JobOK, JobsType
    <3> QED
      BY <1>0, <1>2, <3>1, <3>2, <3>3, <3>4, NextRow, SoundMove DEF JobsType, Steps
  <2>3. CASE Kind[j] \notin {"dynamic", "catalog"}
    <3>1. pc' = [pc EXCEPT ![j] = "failed"] /\ UNCHANGED <<at, bad, lost>>
      BY <2>1, <2>3 DEF GiveUp
    <3> QED
      BY <1>0, <1>2, <3>1, SamePlace, SoundMove DEF JobsType, JobOK, Steps
  <2> QED
    BY <2>2, <2>3
<1> QED
  BY <1>4, <1>5

LEMMA SoundForward ==
  ASSUME TypeInv, NEW j \in Jobs, Forward(j) \/ ForwardFails(j)
  PROVE  Sound(j)
<1>0. /\ JobsType /\ JobOK(j) /\ pc[j] = "forward" /\ at[j] <= Len(RowsOf[j])
      /\ UNCHANGED <<tables, view, bad, lost>>
  BY DEF TypeInv, JobsOK, JobOK, Forward, ForwardFails
<1>1. TablesType' /\ Grows
  BY <1>0, TablesStay
<1>2. CASE Forward(j)
  <2>1. pc' = [pc EXCEPT ![j] = "row"] /\ at' = Next1(at, j) /\ forwards' = Next1(forwards, j)
    BY <1>2 DEF Forward
  <2>2. forwards' \in [Jobs -> Nat] /\ \A k \in Jobs \ {j} : forwards'[k] = forwards[k]
    BY <1>0, <2>1 DEF Next1, JobsType
  <2>3. at[j] + 1 \in 1..(Len(RowsOf[j]) + 1) /\ at' = [at EXCEPT ![j] = at[j] + 1]
    BY <1>0, <2>1, NextRow
  <2>4. /\ bad' \in [Jobs -> BOOLEAN] /\ lost' \in [Jobs -> SUBSET Nat] /\ forwards' \in [Jobs -> Nat]
        /\ \A k \in Jobs \ {j} : bad'[k] = bad[k] /\ lost'[k] = lost[k] /\ forwards'[k] = forwards[k]
        /\ lost'[j] \subseteq DOMAIN RowsOf[j]
    BY <1>0, <2>2 DEF JobsType, JobOK
  <2> QED
    BY <1>0, <1>1, <2>1, <2>2, <2>3, <2>4, SoundMove DEF Steps
<1>3. CASE ForwardFails(j)
  <2>1. pc' = [pc EXCEPT ![j] = "failed"] /\ UNCHANGED <<at, forwards>>
    BY <1>3 DEF ForwardFails
  <2> QED
    BY <1>0, <1>1, <2>1, SamePlace, SoundMove DEF JobsType, JobOK, Steps
<1> QED
  BY <1>2, <1>3

LEMMA SoundRest ==
  ASSUME TypeInv, NEW j \in Jobs, Skip(j) \/ Refuse(j) \/ Finish(j) \/ Repeat(j)
  PROVE  Sound(j)
<1>0. JobsType /\ JobOK(j) /\ UNCHANGED <<tables, view, bad, lost, forwards>>
  BY DEF TypeInv, JobsOK, Skip, Refuse, Finish, Repeat
<1>1. TablesType' /\ Grows
  BY <1>0, TablesStay
<1>2. CASE Skip(j)
  <2>1. pc[j] = "row" /\ at[j] <= Len(RowsOf[j]) /\ at' = Next1(at, j) /\ UNCHANGED pc
    BY <1>2 DEF Skip, AtRow
  <2>2. pc' = [pc EXCEPT ![j] = "row"]
    BY <1>0, <2>1 DEF JobsType
  <2>3. at[j] + 1 \in 1..(Len(RowsOf[j]) + 1) /\ at' = [at EXCEPT ![j] = at[j] + 1]
    BY <1>0, <2>1, NextRow
  <2>4. /\ bad' \in [Jobs -> BOOLEAN] /\ lost' \in [Jobs -> SUBSET Nat] /\ forwards' \in [Jobs -> Nat]
        /\ \A k \in Jobs \ {j} : bad'[k] = bad[k] /\ lost'[k] = lost[k] /\ forwards'[k] = forwards[k]
        /\ lost'[j] \subseteq DOMAIN RowsOf[j]
    BY <1>0, <2>2 DEF JobsType, JobOK
  <2> QED
    BY <1>0, <1>1, <2>1, <2>2, <2>3, <2>4, SoundMove DEF Steps
<1>3. ASSUME NEW step \in {"failed", "done", "idle"}, pc' = [pc EXCEPT ![j] = step], UNCHANGED at PROVE Sound(j)
  <2>1. at[j] \in 1..(Len(RowsOf[j]) + 1) /\ at' = [at EXCEPT ![j] = at[j]]
    BY <1>3, SamePlace
  <2>2. step \in Steps /\ step # "write" /\ step # "forward"
    BY <1>3 DEF Steps
  <2>3. /\ bad' \in [Jobs -> BOOLEAN] /\ lost' \in [Jobs -> SUBSET Nat] /\ forwards' \in [Jobs -> Nat]
        /\ \A k \in Jobs \ {j} : bad'[k] = bad[k] /\ lost'[k] = lost[k] /\ forwards'[k] = forwards[k]
        /\ lost'[j] \subseteq DOMAIN RowsOf[j]
    BY <1>0 DEF JobsType, JobOK
  <2> QED
    BY <1>0, <1>1, <1>3, <2>1, <2>2, <2>3, SoundMove
<1> QED
  BY <1>2, <1>3 DEF Refuse, Finish, Repeat

LEMMA StepSound ==
  ASSUME TypeInv, NEW j \in Jobs, Step(j)
  PROVE  Sound(j)
  BY SoundBegin, SoundFind, SoundWrite, SoundForward, SoundRest DEF Step

\* The history of the attempts, and the bounds.
LEMMA LogStep ==
  ASSUME TypeInv, NEW j \in Jobs, Step(j)
  PROVE  LogType'
<1>0. /\ LogType /\ JobsType /\ Sound(j) /\ \A k \in Jobs : Kind[k] \in Kinds
      /\ MaxFaults \in Nat /\ MaxRepeats \in Nat
  BY StepSound, IngestAssumption DEF TypeInv
<1>1. /\ overlapped' = overlapped \/ overlapped' = overlapped \cup {{Kind[j], Kind[k]} : k \in {k \in Jobs \ {j} : Running(k)}}
      /\ mixed' = mixed \/ mixed' = (mixed \/ \E k \in Jobs \ {j} : pc[k] = "failed")
      /\ blind' = blind \/ blind' = (blind \/ Kind[j] = "catalog")
      /\ faults' = faults \/ (faults < MaxFaults /\ faults' = faults + 1)
      /\ repeats' = repeats \/ (repeats < MaxRepeats /\ repeats' = repeats + 1)
  BY DEF Step, Begin, Skip, Find, Write, Forward, Refuse, WriteFails, FindFails, ForwardFails, Finish, Repeat,
         history, bounds
<1>2. overlapped' \subseteq SUBSET Kinds
  BY <1>0, <1>1 DEF LogType
<1>3. mixed' \in BOOLEAN /\ blind' \in BOOLEAN
  BY <1>0, <1>1, Zenon DEF LogType
<1>4. faults' \in 0..MaxFaults /\ repeats' \in 0..MaxRepeats
  BY <1>0, <1>1 DEF LogType
<1>b. book' \in [Skus -> Item]
  <2>1. UNCHANGED book \/ book' = Whole(book, j, lost[j])
    BY DEF Step, Begin, Skip, Find, Write, Forward, Refuse, WriteFails, FindFails, ForwardFails, Finish, Repeat, history
  <2>2. book \in [Skus -> Item] /\ lost[j] \in SUBSET Nat
    BY <1>0 DEF LogType, JobsType
  <2>3. Whole(book, j, lost[j]) \in [Skus -> Item]
    BY <2>2, WholeType
  <2> QED
    BY <2>1, <2>2, <2>3
<1>5. CASE log' = Append(log, [job |-> j, torn |-> again[j] /\ lost[j] # {}]) /\ pc' = [pc EXCEPT ![j] = "done"]
  <2> DEFINE e == [job |-> j, torn |-> again[j] /\ lost[j] # {}]
  <2>1. e \in [job : Jobs, torn : BOOLEAN] /\ e.job = j
    <3>1. (again[j] /\ lost[j] # {}) \in BOOLEAN
      OBVIOUS
    <3> QED
      BY <3>1, Zenon
  <2> HIDE DEF e
  <2>2. /\ log' \in Seq([job : Jobs, torn : BOOLEAN])
        /\ \A n \in DOMAIN log : n \in DOMAIN log' /\ log'[n] = log[n]
        /\ Len(log) + 1 \in DOMAIN log' /\ log'[Len(log) + 1] = e
    BY <1>0, <1>5, <2>1, AppendIs DEF LogType, e
  <2>3. ASSUME NEW k \in Jobs, pc'[k] = "done" PROVE \E n \in DOMAIN log' : log'[n].job = k
    <3>1. CASE k = j
      BY <2>1, <2>2, <3>1
    <3>2. CASE k # j
      BY <1>0, <2>2, <2>3, <3>2 DEF LogType, Sound, Only
    <3> QED
      BY <3>1, <3>2
  <2> QED
    BY <1>2, <1>3, <1>4, <1>b, <2>2, <2>3 DEF LogType
<1>6. CASE UNCHANGED log /\ pc'[j] # "done"
  <2>1. ASSUME NEW k \in Jobs, pc'[k] = "done" PROVE pc[k] = "done"
    BY <1>0, <1>6, <2>1 DEF Sound, Only
  <2> QED
    BY <1>0, <1>2, <1>3, <1>4, <1>6, <1>b, <2>1 DEF LogType
<1>7. ASSUME NEW applied, WriteFails(j, applied) PROVE UNCHANGED log /\ pc'[j] # "done"
  BY <1>0, <1>7 DEF WriteFails, GiveUp, history, JobsType
<1>8. CASE Begin(j) \/ Skip(j) \/ Find(j) \/ Write(j) \/ Forward(j) \/ Refuse(j) \/ FindFails(j) \/ ForwardFails(j)
           \/ Repeat(j)
  <2>1. UNCHANGED log
    BY <1>8 DEF Begin, Skip, Find, Write, Forward, Refuse, FindFails, ForwardFails, Repeat, history
  <2>2. pc'[j] # "done"
    BY <1>0, <1>8 DEF Begin, Skip, AtRow, Find, Write, Forward, Refuse, FindFails, ForwardFails, Repeat, JobsType
  <2> QED
    BY <1>6, <2>1, <2>2
<1>9. CASE Finish(j)
  <2>1. CASE bad[j]
    BY <1>0, <1>6, <1>9, <2>1 DEF Finish, JobsType
  <2>2. CASE ~bad[j]
    BY <1>5, <1>9, <2>2 DEF Finish
  <2> QED
    BY <2>1, <2>2
<1> QED
  BY <1>6, <1>7, <1>8, <1>9 DEF Step

LEMMA TypeCrash ==
  ASSUME TypeInv, Crash
  PROVE  TypeInv'
<1>1. /\ UNCHANGED <<tables, at, ids, docs, hit, again, bad, lost, forwards, log, book, overlapped, mixed, blind, repeats>>
      /\ pc' = [j \in Jobs |-> IF Running(j) THEN "failed" ELSE pc[j]]
      /\ faults < MaxFaults /\ faults' = faults + 1
  BY DEF Crash, view, history
<1>2. TablesType' /\ Grows
  BY <1>1, TablesStay
<1>3. \A j \in Jobs : pc'[j] = pc[j] \/ pc'[j] = "failed"
  BY <1>1
<1>4. JobsOK'
  BY <1>1, <1>2, <1>3, JobStays DEF JobsOK
<1>5. JobsType'
  BY <1>1 DEF TypeInv, JobsType, Steps
<1>6. LogType'
  BY <1>1, <1>3, IngestAssumption DEF TypeInv, LogType
<1> QED
  BY <1>2, <1>4, <1>5, <1>6 DEF TypeInv

LEMMA TypeStep == TypeInv /\ [Next]_vars => TypeInv'
<1> SUFFICES ASSUME TypeInv, [Next]_vars PROVE TypeInv'
  OBVIOUS
<1>1. ASSUME NEW j \in Jobs, Step(j) PROVE TypeInv'
  BY <1>1, StepSound, SoundIsEnough, LogStep DEF TypeInv
<1>2. CASE UNCHANGED vars
  <2>1. UNCHANGED <<products, prices, pc, at, ids, docs, hit, again, bad, lost, forwards,
                    log, book, overlapped, mixed, blind, faults, repeats>>
    BY <1>2 DEF vars, tables, view, history, bounds
  <2>2. TablesType' /\ Grows
    BY <2>1, TablesStay DEF tables
  <2>3. JobsOK'
    BY <2>1, <2>2, JobStays DEF JobsOK
  <2> QED
    BY <2>1, <2>2, <2>3 DEF TypeInv, JobsType, LogType
<1> QED
  BY <1>1, <1>2, TypeCrash DEF Next

\* At first the listed products are there, without a quantity or a document.
LEMMA TypeInit == Init => TypeInv
<1> SUFFICES ASSUME Init PROVE TypeInv
  OBVIOUS
<1>1. /\ prices = <<>> /\ pc = [j \in Jobs |-> "idle"] /\ at = [j \in Jobs |-> 1]
      /\ ids = [j \in Jobs |-> NoIds] /\ docs = [j \in Jobs |-> [s \in Skus |-> NoDoc]]
      /\ hit = [j \in Jobs |-> 0] /\ bad = [j \in Jobs |-> FALSE] /\ lost = [j \in Jobs |-> {}]
      /\ again = [j \in Jobs |-> FALSE]
      /\ book = [s \in Skus |-> [qty |-> IF s \in Listed THEN 0 ELSE -1, doc |-> NoDoc, price |-> 0]]
      /\ forwards = [j \in Jobs |-> 0] /\ log = <<>> /\ overlapped = {} /\ mixed = FALSE /\ blind = FALSE
      /\ faults = 0 /\ repeats = 0
      /\ products \in [1..Cardinality(Listed) -> [sku : Listed, qty : {0}, doc : {NoDoc}]]
  BY DEF Init
<1>2. TablesType
  <2>1. Cardinality(Listed) \in Nat
    BY IngestAssumption, FS_CardinalityType
  <2>2. [sku : Listed, qty : {0}, doc : {NoDoc}] \subseteq Product
    BY NoDocIs, IngestAssumption DEF Product
  <2>3. products \in [1..Cardinality(Listed) -> Product]
    BY <1>1, <2>2
  <2>4. products \in Seq(Product)
    BY <2>1, <2>3
  <2> QED
    BY <1>1, <2>4 DEF TablesType
<1>3. JobsType
  BY <1>1, NoDocIs DEF JobsType, NoIds, Steps
<1>4. ASSUME NEW j \in Jobs PROVE JobOK(j)
  BY <1>1, RowsType DEF JobOK, NoIds
<1>5. LogType
  <2>1. <<>> \in Seq([job : Jobs, torn : BOOLEAN])
    OBVIOUS
  <2>2. \A j \in Jobs : pc[j] # "done"
    BY <1>1
  <2>3. faults \in 0..MaxFaults /\ repeats \in 0..MaxRepeats
    BY <1>1, IngestAssumption
  <2>4. book \in [Skus -> Item]
    BY <1>1, NoDocIs DEF Item
  <2> QED
    BY <1>1, <2>1, <2>2, <2>3, <2>4 DEF LogType
<1> QED
  BY <1>2, <1>3, <1>4, <1>5 DEF TypeInv, JobsOK

-----------------------------------------------------------------------------
(* The kinds of steps.                                                     *)

\* A write that was done, whatever it answered.
Wrote(j) ==
  /\ Writing(j) /\ Apply(j) /\ UNCHANGED <<view, history>>
  /\ \/ pc'[j] = "row" /\ at'[j] = at[j] + 1
     \/ pc'[j] = "forward" /\ at'[j] = at[j] /\ Kind[j] = "upsert" /\ Connected
     \/ pc'[j] = "failed" /\ at'[j] = at[j] /\ Kind[j] \notin {"dynamic", "catalog"}

\* The tables and what was read of them stay.
Passed(j) ==
  /\ UNCHANGED <<tables, view, overlapped, mixed, blind>>
  /\ pc'[j] # "write" /\ (Running(j)' => Running(j)) /\ at'[j] >= at[j]

LEMMA StepKinds ==
  ASSUME TypeInv, NEW j \in Jobs, Step(j)
  PROVE  Begin(j) \/ Find(j) \/ FindFails(j) \/ Wrote(j) \/ Passed(j)
<1>0. JobsType /\ at[j] \in Nat
  BY DEF TypeInv, JobsType
<1>1. CASE Write(j)
  <2>1. /\ Writing(j) /\ Apply(j) /\ UNCHANGED <<view, history>>
        /\ \/ Kind[j] = "upsert" /\ Connected /\ pc' = [pc EXCEPT ![j] = "forward"] /\ UNCHANGED at
           \/ pc' = [pc EXCEPT ![j] = "row"] /\ at' = Next1(at, j)
    BY <1>1 DEF Write, Forwards
  <2> QED
    BY <1>0, <2>1 DEF Wrote, JobsType, Next1
<1>2. ASSUME NEW applied \in BOOLEAN, WriteFails(j, applied), applied PROVE Wrote(j)
  <2>1. /\ Writing(j) /\ Apply(j) /\ UNCHANGED <<view, history>>
        /\ \/ pc' = [pc EXCEPT ![j] = "row"] /\ at' = Next1(at, j)
           \/ Kind[j] \notin {"dynamic", "catalog"} /\ pc' = [pc EXCEPT ![j] = "failed"] /\ UNCHANGED at
    BY <1>2 DEF WriteFails, GiveUp
  <2> QED
    BY <1>0, <2>1 DEF Wrote, JobsType, Next1
<1>3. ASSUME NEW applied \in BOOLEAN, WriteFails(j, applied), ~applied PROVE Passed(j)
  <2>1. /\ UNCHANGED <<tables, view, history>> /\ Running(j)
        /\ \/ pc' = [pc EXCEPT ![j] = "row"] /\ at' = Next1(at, j)
           \/ pc' = [pc EXCEPT ![j] = "failed"] /\ UNCHANGED at
    BY <1>3, WritingAt DEF WriteFails, GiveUp
  <2> QED
    BY <1>0, <2>1 DEF Passed, JobsType, Next1, history
<1>4. CASE Skip(j)
  BY <1>0, <1>4 DEF Skip, AtRow, Passed, Running, JobsType, Next1, history
<1>5. CASE Forward(j) \/ ForwardFails(j) \/ Refuse(j)
  BY <1>0, <1>5 DEF Forward, ForwardFails, Refuse, Passed, Running, JobsType, Next1, history
<1>6. CASE Finish(j)
  <2>1. UNCHANGED <<tables, view, overlapped, mixed, blind, at>> /\ pc' \in {[pc EXCEPT ![j] = "failed"], [pc EXCEPT ![j] = "done"]}
    BY <1>6 DEF Finish
  <2> QED
    BY <1>0, <2>1 DEF Passed, Running, JobsType
<1>7. CASE Repeat(j)
  BY <1>0, <1>7 DEF Repeat, Passed, Running, JobsType, history
<1>8. ASSUME NEW applied \in BOOLEAN, WriteFails(j, applied) PROVE Wrote(j) \/ Passed(j)
  BY <1>2, <1>3, <1>8
<1> QED
  BY <1>1, <1>4, <1>5, <1>6, <1>7, <1>8 DEF Step

\* Where no job makes a step.
Halts ==
  /\ UNCHANGED <<tables, at, view, lost, overlapped, mixed, blind, forwards, log, book>>
  /\ \A j \in Jobs : pc'[j] = pc[j] \/ (Running(j) /\ pc'[j] = "failed")

LEMMA NextKinds ==
  ASSUME TypeInv, [Next]_vars
  PROVE  Halts \/ \E j \in Jobs : Step(j)
<1>1. CASE Crash
  BY <1>1 DEF Crash, Halts, history
<1>2. CASE UNCHANGED vars
  BY <1>2 DEF vars, Halts, history
<1> QED
  BY <1>1, <1>2 DEF Next

\* What overlapped stays, a job that came came, a finished one finished.
LEMMA HistoryGrows ==
  ASSUME TypeInv, [Next]_vars
  PROVE  /\ overlapped \subseteq overlapped' /\ (blind => blind') /\ (mixed => mixed') /\ Came \subseteq Came'
         /\ \A n \in DOMAIN log : n \in DOMAIN log' /\ log'[n] = log[n]
<1>1. CASE Halts
  BY <1>1 DEF Halts, Came
<1>2. ASSUME NEW j \in Jobs, Step(j)
      PROVE  /\ overlapped \subseteq overlapped' /\ (blind => blind') /\ (mixed => mixed') /\ Came \subseteq Came'
             /\ \A n \in DOMAIN log : n \in DOMAIN log' /\ log'[n] = log[n]
  <2>0. Sound(j) /\ LogType /\ JobsType
    BY <1>2, StepSound DEF TypeInv
  <2>1. overlapped \subseteq overlapped' /\ (blind => blind') /\ (mixed => mixed')
    BY <1>2, StepKinds DEF Begin, Find, FindFails, Wrote, Passed, history
  <2>2. log' = log \/ log' = Append(log, [job |-> j, torn |-> again[j] /\ lost[j] # {}])
    BY <1>2 DEF Step, Begin, Skip, Find, Write, Forward, Refuse, WriteFails, FindFails, ForwardFails, Finish,
                Repeat, history
  <2>3. \A n \in DOMAIN log : n \in DOMAIN log' /\ log'[n] = log[n]
    <3>1. [job |-> j, torn |-> again[j] /\ lost[j] # {}] \in [job : Jobs, torn : BOOLEAN]
      BY <2>0 DEF JobsType
    <3> QED
      BY <2>0, <2>2, <3>1, AppendIs DEF LogType
  <2>4. pc'[j] = "idle" => pc[j] = "done"
    BY <1>2, <2>0 DEF Step, Begin, Skip, AtRow, Find, Write, Forward, Refuse, WriteFails, GiveUp, FindFails,
                      ForwardFails, Finish, Repeat, JobsType
  <2>5. ASSUME NEW k \in Jobs, pc[k] # "idle", pc'[k] = "idle" PROVE \E n \in DOMAIN log : log[n].job = k
    BY <2>0, <2>4, <2>5 DEF LogType, Sound, Only
  <2> QED
    BY <2>1, <2>3, <2>5 DEF Came
<1> QED
  BY <1>1, <1>2, NextKinds

\* At most one job of certain kinds is running.
Solo(K) == \A j, k \in Jobs : Kind[j] \in K /\ Kind[k] \in K /\ Running(j) /\ Running(k) => j = k

LEMMA SoloStep ==
  ASSUME TypeInv, [Next]_vars, NEW K, Solo(K),
         \A j, k \in Jobs : Kind[j] \in K /\ Kind[k] \in K => {Kind[j], Kind[k]} \notin overlapped'
  PROVE  Solo(K)'
<1>1. CASE Halts
  BY <1>1 DEF Halts, Solo, Running
<1>2. ASSUME NEW j \in Jobs, Step(j) PROVE Solo(K)'
  <2>1. \A k \in Jobs \ {j} : pc'[k] = pc[k]
    BY <1>2, StepSound DEF Sound, Only
  <2>2. CASE Begin(j)
    <3>1. \A k \in Jobs \ {j} : Running(k) => {Kind[j], Kind[k]} \in overlapped'
      BY <2>2 DEF Begin
    <3>2. \A k \in Jobs \ {j} : Kind[j] \in K /\ Kind[k] \in K => ~Running(k)
      BY <3>1
    <3> QED
      BY <2>1, <3>2 DEF Solo, Running
  <2>3. CASE ~Begin(j)
    <3>1. Running(j)' => Running(j)
      BY <1>2, <2>3, StepKinds, WritingAt DEF Find, FindFails, AtRow, Passed, Wrote, Running
    <3> QED
      BY <2>1, <3>1 DEF Solo, Running
  <2> QED
    BY <2>2, <2>3
<1> QED
  BY <1>1, <1>2, NextKinds

LEMMA SoloInit == Init => \A K : Solo(K)
  BY DEF Init, Solo, Running

-----------------------------------------------------------------------------
(* One list price.  Between a price job's look-up and its insert nobody      *)
(* inserts a price.                                                        *)

PriceInv ==
  {"price"} \notin overlapped =>
    /\ \A i, k \in DOMAIN prices : prices[i].product = prices[k].product => i = k
    /\ Solo({"price"})
    /\ \A j \in Jobs : Kind[j] = "price" /\ pc[j] = "write" /\ hit[j] = 0 =>
         \A i \in DOMAIN prices : prices[i].product # Id(j)

\* A price job's write.
LEMMA PriceWritten ==
  ASSUME TypeInv, NEW j \in Jobs, Wrote(j), Kind[j] = "price",
         \A i, k \in DOMAIN prices : prices[i].product = prices[k].product => i = k,
         hit[j] = 0 => \A i \in DOMAIN prices : prices[i].product # Id(j)
  PROVE  \A i, k \in DOMAIN prices' : prices'[i].product = prices'[k].product => i = k
<1>0. prices \in Seq(Price) /\ DOMAIN prices = 1..Len(prices) /\ Len(prices) \in Nat
  BY DEF TypeInv, TablesType
<1>1. NewPrice(j) \/ Repriced(j)
  BY WriteCases DEF Wrote, NewProduct, Documented, Counted
<1>2. CASE NewPrice(j)
  <2>1. PICK x \in Price : x.product = Id(j) /\ prices' = Append(prices, x)
    BY <1>2 DEF NewPrice
  <2>2. /\ DOMAIN prices' = 1..(Len(prices) + 1) /\ prices'[Len(prices) + 1] = x
        /\ \A i \in DOMAIN prices : prices'[i] = prices[i]
    BY <1>0, <2>1, AppendIs
  <2>3. \A i \in DOMAIN prices' : i \in DOMAIN prices \/ i = Len(prices) + 1
    BY <1>0, <2>2
  <2>4. \A i \in DOMAIN prices : prices[i].product # x.product
    BY <1>2, <2>1 DEF NewPrice
  <2> QED
    BY <2>2, <2>3, <2>4
<1>3. CASE Repriced(j)
  <2>1. PICK x \in Price : x.product = prices[hit[j]].product /\ prices' = [prices EXCEPT ![hit[j]] = x]
    BY <1>3 DEF Repriced
  <2>2. /\ DOMAIN prices' = DOMAIN prices /\ prices'[hit[j]] = x
        /\ \A i \in DOMAIN prices : i # hit[j] => prices'[i] = prices[i]
    BY <1>0, <1>3, <2>1, ChangeIs DEF Repriced
  <2>3. \A i \in DOMAIN prices : prices'[i].product = prices[i].product
    BY <2>1, <2>2
  <2> QED
    BY <2>2, <2>3
<1> QED
  BY <1>1, <1>2, <1>3

LEMMA PriceStep == TypeInv /\ PriceInv /\ [Next]_vars => PriceInv'
<1> SUFFICES ASSUME TypeInv, PriceInv, [Next]_vars, {"price"} \notin overlapped'
             PROVE  /\ \A i, k \in DOMAIN prices' : prices'[i].product = prices'[k].product => i = k
                    /\ Solo({"price"})'
                    /\ \A j \in Jobs : Kind[j] = "price" /\ pc'[j] = "write" /\ hit'[j] = 0 =>
                         \A i \in DOMAIN prices' : prices'[i].product # Id(j)'
  BY DEF PriceInv
<1>1. /\ \A i, k \in DOMAIN prices : prices[i].product = prices[k].product => i = k
      /\ Solo({"price"})
      /\ \A j \in Jobs : Kind[j] = "price" /\ pc[j] = "write" /\ hit[j] = 0 =>
           \A i \in DOMAIN prices : prices[i].product # Id(j)
  BY HistoryGrows DEF PriceInv
<1>2. Solo({"price"})'
  <2>1. \A j, k \in Jobs : Kind[j] \in {"price"} /\ Kind[k] \in {"price"} => {Kind[j], Kind[k]} \notin overlapped'
    OBVIOUS
  <2> QED
    BY <1>1, <2>1, SoloStep
<1>3. CASE Halts
  <2>1. \A j \in Jobs : Id(j)' = Id(j)
    BY <1>3 DEF Halts, view, Id, This
  <2> QED
    BY <1>1, <1>2, <1>3, <2>1 DEF Halts, tables, view
<1>4. ASSUME NEW j \in Jobs, Step(j)
      PROVE  /\ \A i, k \in DOMAIN prices' : prices'[i].product = prices'[k].product => i = k
             /\ \A q \in Jobs : Kind[q] = "price" /\ pc'[q] = "write" /\ hit'[q] = 0 =>
                  \A i \in DOMAIN prices' : prices'[i].product # Id(q)'
  <2>0. /\ Sound(j) /\ JobsType
        /\ \A q \in Jobs \ {j} : pc'[q] = pc[q] /\ hit'[q] = hit[q] /\ Id(q)' = Id(q)
    BY <1>4, StepSound DEF Sound, Only, Id, This, TypeInv
  <2>1. CASE UNCHANGED prices /\ pc'[j] # "write"
    BY <1>1, <2>0, <2>1
  <2>2. CASE Begin(j) \/ Passed(j)
    <3>1. UNCHANGED prices /\ pc'[j] # "write"
      BY <2>0, <2>2 DEF Begin, Passed, tables, JobsType
    <3> QED
      BY <2>1, <3>1
  <2>3. CASE Find(j) \/ FindFails(j)
    <3>1. UNCHANGED prices /\ Id(j)' = Id(j)
      BY <2>3 DEF Find, FindFails, tables, Id, This
    <3>2. Kind[j] = "price" /\ pc'[j] = "write" /\ hit'[j] = 0 => \A i \in DOMAIN prices : prices[i].product # Id(j)
      <4>1. SUFFICES ASSUME Kind[j] = "price", pc'[j] = "write", hit'[j] = 0
                     PROVE  \A i \in DOMAIN prices : prices[i].product # Id(j)
        OBVIOUS
      <4>2. Find(j)
        BY <2>0, <2>3, <4>1 DEF FindFails, JobsType
      <4>3. 0 \notin Candidates(j)
        BY <4>1 DEF Candidates, TypeInv, TablesType
      <4>4. PICK h \in (IF Candidates(j) = {} THEN {0} ELSE Candidates(j)) : hit' = [hit EXCEPT ![j] = h]
        BY <4>2 DEF Find
      <4>5. h = 0
        BY <2>0, <4>1, <4>4 DEF JobsType
      <4>6. Candidates(j) = {}
        BY <4>3, <4>4, <4>5
      <4> QED
        BY <4>1, <4>6 DEF Candidates
    <3> QED
      BY <1>1, <2>0, <3>1, <3>2
  <2>4. CASE Wrote(j) /\ Kind[j] # "price"
    <3>1. UNCHANGED prices /\ pc'[j] # "write"
      BY <2>4, WriteCases DEF Wrote, NewPrice, Repriced, NewProduct, Documented, Counted
    <3> QED
      BY <2>1, <3>1
  <2>5. CASE Wrote(j) /\ Kind[j] = "price"
    <3>1. pc[j] = "write" /\ Running(j) /\ pc'[j] # "write"
      BY <2>5, WritingAt DEF Wrote, LooksUp
    <3>2. \A i, k \in DOMAIN prices' : prices'[i].product = prices'[k].product => i = k
      BY <1>1, <2>5, <3>1, PriceWritten
    <3>3. \A q \in Jobs \ {j} : Kind[q] = "price" => pc'[q] # "write"
      BY <1>1, <2>0, <2>5, <3>1 DEF Solo, Running
    <3> QED
      BY <3>1, <3>2, <3>3
  <2> QED
    BY <1>4, <2>2, <2>3, <2>4, <2>5, StepKinds
<1> QED
  BY <1>2, <1>3, <1>4, NextKinds

-----------------------------------------------------------------------------
(* One product row for a sku.  What a creating job is about to add is not   *)
(* there, and nobody else adds it meanwhile.                               *)

Apart == ~blind /\ \A o \in overlapped : ~(o \subseteq Creating)
InsertsOnce == \A j \in Came \cap InsertMissing : Ordinary(j)

OneRow == \A i, k \in DOMAIN products : products[i].sku = products[k].sku => i = k

\* A sku that a creating job is about to add is new.
NewSku(s) == \A p \in DOMAIN products : products[p].sku # s
New(j) ==
  /\ Kind[j] \in {"upsert", "catalog"} /\ pc[j] = "write" /\ hit[j] = 0 => NewSku(This(j).sku)
  /\ Kind[j] = "dynamic" /\ j \in InsertMissing /\ Running(j) =>
       \A i \in at[j]..Len(RowsOf[j]) : ids[j][RowsOf[j][i].sku] = 0 => NewSku(RowsOf[j][i].sku)

ProductInv ==
  Apart => /\ Solo(Creating)
           /\ InsertsOnce => OneRow /\ \A j \in Jobs : New(j)

\* The tables grow by a new product.
LEMMA OneRowGrows ==
  ASSUME TypeInv, OneRow, NEW x \in Product, products' = Append(products, x), NewSku(x.sku)
  PROVE  OneRow'
<1>0. products \in Seq(Product) /\ DOMAIN products = 1..Len(products) /\ Len(products) \in Nat
  BY DEF TypeInv, TablesType
<1>1. /\ DOMAIN products' = 1..(Len(products) + 1) /\ products'[Len(products) + 1] = x
      /\ \A i \in DOMAIN products : products'[i] = products[i]
  BY <1>0, AppendIs
<1>2. \A i \in DOMAIN products' : i \in DOMAIN products \/ i = Len(products) + 1
  BY <1>0, <1>1
<1> QED
  BY <1>1, <1>2 DEF OneRow, NewSku

\* A product is updated: the skus stay where they are.
LEMMA SkusStay ==
  ASSUME TypeInv, NEW p \in DOMAIN products, NEW x \in Product, x.sku = products[p].sku,
         products' = [products EXCEPT ![p] = x]
  PROVE  /\ DOMAIN products' = DOMAIN products
         /\ \A i \in DOMAIN products : products'[i].sku = products[i].sku
<1>1. products \in Seq(Product)
  BY DEF TypeInv, TablesType
<1>2. /\ DOMAIN products' = DOMAIN products /\ products'[p] = x
      /\ \A i \in DOMAIN products : i # p => products'[i] = products[i]
  BY <1>1, ChangeIs
<1> QED
  BY <1>2

\* What a write does to the skus.
LEMMA WrittenSkus ==
  ASSUME TypeInv, NEW j \in Jobs, Wrote(j)
  PROVE  \/ /\ DOMAIN products' = DOMAIN products
            /\ \A i \in DOMAIN products : products'[i].sku = products[i].sku
         \/ NewProduct(j) /\ Kind[j] \in Creating
<1>1. CASE NewPrice(j) \/ Repriced(j)
  BY <1>1 DEF NewPrice, Repriced
<1>2. CASE Documented(j)
  <2>1. Id(j) \in DOMAIN products
    BY <1>2, WritingAt DEF Wrote, Documented
  <2> QED
    BY <1>2, <2>1, SkusStay DEF Documented
<1>3. CASE \E p \in DOMAIN products : Counted(j, p)
  BY <1>3, SkusStay DEF Counted
<1>4. CASE NewProduct(j)
  BY <1>4 DEF NewProduct, Creating
<1> QED
  BY <1>1, <1>2, <1>3, <1>4, WriteCases DEF Wrote

\* While the skus stay where they are, what is new is new.
LEMMA NewStays ==
  ASSUME NEW j \in Jobs, New(j), DOMAIN products' = DOMAIN products,
         \A i \in DOMAIN products : products'[i].sku = products[i].sku,
         pc'[j] = pc[j], at'[j] = at[j], ids'[j] = ids[j], hit'[j] = hit[j]
  PROVE  New(j)'
<1>1. \A s : NewSku(s) => NewSku(s)'
  BY DEF NewSku
<1>2. This(j)' = This(j) /\ (Running(j)' <=> Running(j))
  BY DEF This, Running
<1> QED
  BY <1>1, <1>2 DEF New

\* A job that is past what it might add.
LEMMA NewPast ==
  ASSUME TypeInv, NEW j \in Jobs, New(j), DOMAIN products' = DOMAIN products,
         \A i \in DOMAIN products : products'[i].sku = products[i].sku,
         pc'[j] # "write", Running(j)' => Running(j), at'[j] >= at[j], at'[j] \in Nat, ids'[j] = ids[j]
  PROVE  New(j)'
<1>0. at[j] \in Nat /\ Len(RowsOf[j]) \in Nat
  BY RowsType DEF TypeInv, JobsType
<1>1. \A s : NewSku(s) => NewSku(s)'
  BY DEF NewSku
<1>2. at'[j]..Len(RowsOf[j]) \subseteq at[j]..Len(RowsOf[j])
  BY <1>0
<1> QED
  BY <1>1, <1>2 DEF New

\* A job's own step, and the tables as they are after it.
LEMMA NewBegins ==
  ASSUME TypeInv, NEW j \in Jobs, Begin(j)
  PROVE  New(j)'
<1>0. JobsType /\ Sound(j) /\ RowsOf[j] \in Seq(Row) /\ Len(RowsOf[j]) \in Nat
  BY SoundBegin, StepSound, RowsType DEF TypeInv
<1>1. pc'[j] = "row" /\ at'[j] = 1 /\ UNCHANGED products
  BY <1>0 DEF Begin, tables, JobsType
<1>2. PICK m \in (IF Snapshots(j) THEN SkuMaps ELSE {NoIds}) : ids' = [ids EXCEPT ![j] = m]
  BY DEF Begin
<1>3. ids'[j] = m
  BY <1>0, <1>2 DEF JobsType
<1>4. ASSUME Kind[j] = "dynamic", NEW i \in 1..Len(RowsOf[j]), m[RowsOf[j][i].sku] = 0
      PROVE  NewSku(RowsOf[j][i].sku)
  <2>1. RowsOf[j][i].sku \in Skus
    BY <1>4, RowsType DEF Row
  <2>2. m \in SkuMaps
    BY <1>4 DEF Snapshots
  <2>3. Matching(RowsOf[j][i].sku) = {}
    <3>1. 0 \notin Matching(RowsOf[j][i].sku)
      BY DEF Matching, TypeInv, TablesType
    <3> QED
      BY <1>4, <2>1, <2>2, <3>1 DEF SkuMaps
  <2> QED
    BY <2>3 DEF Matching, NewSku
<1>5. \A s : NewSku(s) => NewSku(s)'
  BY <1>1 DEF NewSku
<1> QED
  BY <1>1, <1>3, <1>4, <1>5 DEF New

LEMMA NewFinds ==
  ASSUME TypeInv, NEW j \in Jobs, Find(j) \/ FindFails(j), ~blind', New(j)
  PROVE  New(j)'
<1>0. JobsType /\ 0 \notin DOMAIN products
  BY DEF TypeInv, JobsType, TablesType
<1>1. UNCHANGED <<products, at, ids>> /\ This(j)' = This(j) /\ Kind[j] # "dynamic"
  BY DEF Find, FindFails, tables, This, LooksUp
<1>2. ASSUME Kind[j] \in {"upsert", "catalog"}, pc'[j] = "write", hit'[j] = 0 PROVE NewSku(This(j).sku)
  <2>1. Find(j)
    BY <1>0, <1>2 DEF FindFails, JobsType
  <2>2. PICK h \in (IF Candidates(j) = {} THEN {0} ELSE Candidates(j)) : hit' = [hit EXCEPT ![j] = h]
    BY <2>1 DEF Find
  <2>3. h = 0 /\ 0 \notin Candidates(j)
    BY <1>0, <1>2, <2>2 DEF JobsType, Candidates
  <2>4. Candidates(j) = {}
    BY <2>2, <2>3
  <2> QED
    BY <1>2, <2>4 DEF Candidates, Like, NewSku
<1>3. \A s : NewSku(s) => NewSku(s)'
  BY <1>1 DEF NewSku
<1> QED
  BY <1>1, <1>2, <1>3 DEF New

\* It writes a row: it is through with its sku, which no later row of an
\* inserting job has.
LEMMA NewWrites ==
  ASSUME TypeInv, NEW j \in Jobs, Wrote(j), NewProduct(j), New(j), j \in InsertMissing => Ordinary(j)
  PROVE  New(j)' /\ \E x \in Product : x.sku = This(j).sku /\ products' = Append(products, x) /\ NewSku(x.sku)
<1>0. JobsType /\ at[j] \in DOMAIN RowsOf[j] /\ at[j] \in Nat /\ Len(RowsOf[j]) \in Nat
      /\ DOMAIN RowsOf[j] = 1..Len(RowsOf[j])
  BY WritingAt, ThisType, RowsType DEF Wrote, TypeInv
<1>1. PICK x \in Product : x.sku = This(j).sku /\ products' = Append(products, x)
  BY DEF NewProduct
<1>2. /\ Running(j) /\ (Kind[j] \in {"upsert", "catalog"} => pc[j] = "write")
      /\ (Kind[j] = "dynamic" => j \in InsertMissing /\ Id(j) = 0)
  BY WritingAt DEF Wrote, NewProduct, LooksUp
<1>3. NewSku(This(j).sku)
  <2>1. CASE Kind[j] = "dynamic"
    <3>1. at[j] \in at[j]..Len(RowsOf[j])
      BY <1>0
    <3> QED
      BY <1>2, <2>1, <3>1 DEF New, Id, This
  <2>2. CASE Kind[j] # "dynamic"
    BY <1>2, <2>2 DEF New, NewProduct
  <2> QED
    BY <2>1, <2>2
<1>4. ASSUME Kind[j] = "dynamic", j \in InsertMissing, Running(j)',
             NEW i \in at'[j]..Len(RowsOf[j]), ids'[j][RowsOf[j][i].sku] = 0
      PROVE  NewSku(RowsOf[j][i].sku)'
  <2>1. at'[j] = at[j] + 1 /\ UNCHANGED ids
    BY <1>4 DEF Wrote, view
  <2>2. i \in at[j]..Len(RowsOf[j]) /\ i # at[j] /\ i \in DOMAIN RowsOf[j]
    BY <1>0, <1>4, <2>1
  <2>3. RowsOf[j][i].sku # x.sku
    BY <1>0, <1>1, <1>4, <2>2 DEF Ordinary, This
  <2>4. NewSku(RowsOf[j][i].sku)
    BY <1>2, <1>4, <2>1, <2>2 DEF New
  <2>5. products \in Seq(Product) /\ DOMAIN products = 1..Len(products) /\ Len(products) \in Nat
    BY DEF TypeInv, TablesType
  <2>6. /\ DOMAIN products' = 1..(Len(products) + 1) /\ products'[Len(products) + 1] = x
        /\ \A p \in DOMAIN products : products'[p] = products[p]
    BY <1>1, <2>5, AppendIs
  <2>7. \A p \in DOMAIN products' : p \in DOMAIN products \/ p = Len(products) + 1
    BY <2>5, <2>6
  <2> QED
    BY <2>3, <2>4, <2>6, <2>7 DEF NewSku
<1>5. New(j)'
  BY <1>4 DEF New, Wrote
<1> QED
  BY <1>1, <1>3, <1>5

LEMMA ProductStep == TypeInv /\ ProductInv /\ [Next]_vars => ProductInv'
<1> SUFFICES ASSUME TypeInv, ProductInv, [Next]_vars, Apart'
             PROVE  Solo(Creating)' /\ (InsertsOnce' => OneRow' /\ \A j \in Jobs : New(j)')
  BY DEF ProductInv
<1>1. Apart /\ Solo(Creating) /\ (InsertsOnce' => InsertsOnce)
  BY HistoryGrows DEF Apart, ProductInv, InsertsOnce
<1>2. Solo(Creating)'
  <2>1. \A j, k \in Jobs : Kind[j] \in Creating /\ Kind[k] \in Creating => {Kind[j], Kind[k]} \notin overlapped'
    BY DEF Apart
  <2> QED
    BY <1>1, <2>1, SoloStep
<1>3. ASSUME InsertsOnce' PROVE OneRow' /\ \A j \in Jobs : New(j)'
  <2>0. OneRow /\ JobsType /\ \A j \in Jobs : New(j)
    BY <1>1, <1>3 DEF ProductInv, TypeInv
  <2>1. CASE Halts
    <3>1. UNCHANGED <<products, at, ids, hit>>
      BY <2>1 DEF Halts, tables, view
    <3>2. ASSUME NEW j \in Jobs PROVE New(j)'
      <4>1. CASE pc'[j] = pc[j]
        BY <2>0, <3>1, <4>1, NewStays
      <4>2. CASE pc'[j] = "failed"
        BY <4>2 DEF New, Running
      <4> QED
        BY <2>1, <4>1, <4>2 DEF Halts
    <3> QED
      BY <2>0, <3>1, <3>2 DEF OneRow
  <2>2. ASSUME NEW j \in Jobs, Step(j) PROVE OneRow' /\ \A q \in Jobs : New(q)'
    <3>0. /\ Sound(j) /\ at'[j] \in Nat
          /\ \A q \in Jobs \ {j} : pc'[q] = pc[q] /\ at'[q] = at[q] /\ ids'[q] = ids[q] /\ hit'[q] = hit[q]
      BY <2>2, StepSound DEF Sound, Only, JobsType
    <3>1. ASSUME DOMAIN products' = DOMAIN products, New(j)',
                 \A i \in DOMAIN products : products'[i].sku = products[i].sku
          PROVE  OneRow' /\ \A q \in Jobs : New(q)'
      <4>1. OneRow'
        BY <2>0, <3>1 DEF OneRow
      <4>2. \A q \in Jobs \ {j} : New(q)'
        BY <2>0, <3>0, <3>1, NewStays
      <4> QED
        BY <3>1, <4>1, <4>2
    <3>2. CASE Begin(j)
      BY <3>1, <3>2, NewBegins DEF Begin, tables
    <3>3. CASE Find(j) \/ FindFails(j)
      BY <2>0, <3>1, <3>3, NewFinds DEF Find, FindFails, tables, Apart
    <3>4. CASE Passed(j)
      <4>1. UNCHANGED <<products, ids>>
        BY <3>4 DEF Passed, tables, view
      <4>2. New(j)'
        BY <2>0, <3>0, <3>4, <4>1, NewPast DEF Passed
      <4> QED
        BY <3>1, <4>1, <4>2
    <3>5. CASE /\ Wrote(j) /\ DOMAIN products' = DOMAIN products
               /\ \A i \in DOMAIN products : products'[i].sku = products[i].sku
      <4>1. pc'[j] # "write" /\ Running(j) /\ at'[j] >= at[j] /\ UNCHANGED ids
        BY <2>0, <3>5, WritingAt DEF Wrote, view, JobsType
      <4>2. New(j)'
        BY <2>0, <3>0, <3>5, <4>1, NewPast
      <4> QED
        BY <3>1, <3>5, <4>2
    <3>6. CASE Wrote(j) /\ NewProduct(j) /\ Kind[j] \in Creating
      <4>1. Running(j) /\ j \in Came
        BY <3>6, WritingAt DEF Wrote, Running, Came
      <4>2. j \in InsertMissing => Ordinary(j)
        BY <1>1, <1>3, <4>1 DEF InsertsOnce
      <4>3. New(j)' /\ \E x \in Product : x.sku = This(j).sku /\ products' = Append(products, x) /\ NewSku(x.sku)
        BY <2>0, <3>6, <4>2, NewWrites
      <4>4. OneRow'
        BY <2>0, <4>3, OneRowGrows
      <4>5. ASSUME NEW q \in Jobs, q # j, Kind[q] \in Creating PROVE ~Running(q)'
        <5>1. ~Running(q)
          BY <1>1, <3>6, <4>1, <4>5 DEF Solo
        <5> QED
          BY <3>0, <4>5, <5>1 DEF Running
      <4>6. ASSUME NEW q \in Jobs, q # j PROVE New(q)'
        BY <4>5, <4>6 DEF New, Running, Creating
      <4> QED
        BY <4>3, <4>4, <4>6
    <3> QED
      BY <2>2, <3>2, <3>3, <3>4, <3>5, <3>6, StepKinds, WrittenSkus
  <2> QED
    BY <2>1, <2>2, NextKinds
<1> QED
  BY <1>2, <1>3

-----------------------------------------------------------------------------
(* Forwarded upserts: an attempt past its first row has queued a delivery   *)
(* that no finished attempt accounts for.                                  *)

Finished(j) == {n \in DOMAIN log : log[n].job = j}
Count(j) == Cardinality(Finished(j))

ForwardOK(j) ==
  Connected /\ Kind[j] = "upsert" =>
    forwards[j] >= Count(j) + (IF Running(j) /\ at[j] > 1 THEN 1 ELSE 0)
ForwardInv == \A j \in Jobs : ForwardOK(j)

LEMMA CountType ==
  ASSUME TypeInv, NEW j
  PROVE  IsFiniteSet(Finished(j)) /\ Count(j) \in Nat
<1>1. DOMAIN log = 1..Len(log) /\ Len(log) \in Nat
  BY DEF TypeInv, LogType
<1>2. IsFiniteSet(1..Len(log))
  BY <1>1, FS_Interval
<1>3. IsFiniteSet(Finished(j))
  BY <1>1, <1>2, FS_Subset DEF Finished
<1> QED
  BY <1>3, FS_CardinalityType DEF Count

\* An attempt that finished counts for its job.
LEMMA CountAppend ==
  ASSUME TypeInv, NEW j \in Jobs, NEW k \in Jobs, log' = Append(log, [job |-> k, torn |-> again[k] /\ lost[k] # {}])
  PROVE  Count(j)' = IF j = k THEN Count(j) + 1 ELSE Count(j)
<1> DEFINE e == [job |-> k, torn |-> again[k] /\ lost[k] # {}]
<1>1. /\ log \in Seq([job : Jobs, torn : BOOLEAN]) /\ e \in [job : Jobs, torn : BOOLEAN] /\ e.job = k
      /\ DOMAIN log = 1..Len(log) /\ Len(log) \in Nat
  BY DEF TypeInv, LogType, JobsType
<1> HIDE DEF e
<1>2. log' = Append(log, e)
  BY DEF e
<1>3. /\ DOMAIN log' = 1..(Len(log) + 1) /\ log'[Len(log) + 1] = e
      /\ \A n \in DOMAIN log : log'[n] = log[n]
  BY <1>1, <1>2, AppendIs
<1>4. \A n \in DOMAIN log' : n \in DOMAIN log \/ n = Len(log) + 1
  BY <1>1, <1>3
<1>5. Len(log) + 1 \notin DOMAIN log /\ Len(log) + 1 \in DOMAIN log' /\ DOMAIN log \subseteq DOMAIN log'
  BY <1>1, <1>3
<1>6. CASE j = k
  <2>1. Finished(j)' = Finished(j) \cup {Len(log) + 1}
    BY <1>1, <1>3, <1>4, <1>5, <1>6 DEF Finished
  <2>2. Len(log) + 1 \notin Finished(j)
    BY <1>5 DEF Finished
  <2> QED
    BY <1>6, <2>1, <2>2, CountType, FS_AddElement DEF Count
<1>7. CASE j # k
  <2>1. Finished(j)' = Finished(j)
    BY <1>1, <1>3, <1>4, <1>5, <1>7 DEF Finished
  <2> QED
    BY <1>7, <2>1 DEF Count
<1> QED
  BY <1>6, <1>7

LEMMA ForwardOwn ==
  ASSUME TypeInv, NEW j \in Jobs, ForwardOK(j), Step(j)
  PROVE  ForwardOK(j)'
<1> SUFFICES ASSUME Connected, Kind[j] = "upsert"
             PROVE  forwards'[j] >= Count(j)' + (IF Running(j)' /\ at'[j] > 1 THEN 1 ELSE 0)
  BY DEF ForwardOK
<1>0. /\ JobsType /\ at[j] \in Nat /\ forwards[j] \in Nat /\ Count(j) \in Nat
      /\ forwards[j] >= Count(j) + (IF Running(j) /\ at[j] > 1 THEN 1 ELSE 0)
  BY CountType DEF TypeInv, JobsType, ForwardOK
<1>1. CASE UNCHANGED <<log, forwards>> /\ (~Running(j)' \/ at'[j] = 1 \/ (Running(j) /\ at'[j] = at[j]))
  <2>1. Count(j)' = Count(j)
    BY <1>1 DEF Count, Finished
  <2> QED
    BY <1>0, <1>1, <2>1
<1>2. CASE Begin(j)
  BY <1>0, <1>1, <1>2 DEF Begin, JobsType
<1>3. CASE Find(j) \/ FindFails(j)
  <2>1. UNCHANGED <<log, forwards, at>> /\ Running(j)
    BY <1>3 DEF Find, FindFails, history, AtRow, Running
  <2> QED
    BY <1>1, <2>1
<1>4. CASE Write(j)
  <2>1. UNCHANGED <<log, forwards, at>> /\ Running(j)
    BY <1>4, WritingAt DEF Write, Forwards, history
  <2> QED
    BY <1>1, <2>1
<1>5. ASSUME NEW applied \in BOOLEAN, WriteFails(j, applied)
      PROVE  forwards'[j] >= Count(j)' + (IF Running(j)' /\ at'[j] > 1 THEN 1 ELSE 0)
  <2>1. UNCHANGED <<log, forwards>> /\ pc'[j] = "failed"
    BY <1>0, <1>5 DEF WriteFails, GiveUp, history, JobsType
  <2> QED
    BY <1>1, <2>1 DEF Running
<1>6. CASE Refuse(j) \/ ForwardFails(j) \/ Repeat(j)
  <2>1. UNCHANGED <<log, forwards>> /\ pc'[j] \in {"failed", "idle"}
    BY <1>0, <1>6 DEF Refuse, ForwardFails, Repeat, history, JobsType
  <2> QED
    BY <1>1, <2>1 DEF Running
<1>7. CASE Forward(j)
  <2>1. UNCHANGED log /\ forwards'[j] = forwards[j] + 1
    BY <1>0, <1>7 DEF Forward, Next1, history, JobsType
  <2>2. Count(j)' = Count(j)
    BY <2>1 DEF Count, Finished
  <2> QED
    BY <1>0, <2>1, <2>2
<1>8. CASE Finish(j)
  <2>1. /\ at[j] > Len(RowsOf[j]) /\ Running(j) /\ UNCHANGED forwards /\ ~Running(j)'
        /\ UNCHANGED log \/ log' = Append(log, [job |-> j, torn |-> again[j] /\ lost[j] # {}])
    BY <1>0, <1>8 DEF Finish, Running, JobsType
  <2>2. Len(RowsOf[j]) \in Nat /\ Len(RowsOf[j]) # 0
    <3>1. RowsOf[j] \in Seq(Row) /\ RowsOf[j] # <<>>
      BY IngestAssumption
    <3> QED
      BY <3>1
  <2>3. at[j] > 1
    BY <1>0, <2>1, <2>2
  <2>4. CASE UNCHANGED log
    BY <1>1, <2>1, <2>4
  <2>5. CASE log' = Append(log, [job |-> j, torn |-> again[j] /\ lost[j] # {}])
    <3>1. Count(j)' = Count(j) + 1
      BY <2>5, CountAppend
    <3> QED
      BY <1>0, <2>1, <2>3, <3>1
  <2> QED
    BY <2>1, <2>4, <2>5
<1>9. ~Skip(j)
  BY DEF Skip, Unknown, Snapshots
<1> QED
  BY <1>2, <1>3, <1>4, <1>5, <1>6, <1>7, <1>8, <1>9 DEF Step

LEMMA ForwardStep == TypeInv /\ ForwardInv /\ [Next]_vars => ForwardInv'
<1> SUFFICES ASSUME TypeInv, ForwardInv, [Next]_vars PROVE ForwardInv'
  OBVIOUS
<1>1. ASSUME Halts, NEW j \in Jobs PROVE ForwardOK(j)'
  <2>1. Count(j)' = Count(j) /\ UNCHANGED <<forwards, at>> /\ (Running(j)' => Running(j))
    BY <1>1 DEF Halts, Count, Finished, Running
  <2>2. ForwardOK(j) /\ Count(j) \in Nat /\ forwards[j] \in Nat
    BY CountType DEF ForwardInv, TypeInv, JobsType
  <2> QED
    BY <2>1, <2>2 DEF ForwardOK
<1>2. ASSUME NEW k \in Jobs, Step(k), NEW j \in Jobs PROVE ForwardOK(j)'
  <2>1. CASE j = k
    BY <1>2, <2>1, ForwardOwn DEF ForwardInv
  <2>2. CASE j # k
    <3>1. pc'[j] = pc[j] /\ at'[j] = at[j] /\ forwards'[j] = forwards[j]
      BY <1>2, <2>2, StepSound DEF Sound, Only
    <3>2. log' = log \/ log' = Append(log, [job |-> k, torn |-> again[k] /\ lost[k] # {}])
      BY <1>2 DEF Step, Begin, Skip, Find, Write, Forward, Refuse, WriteFails, FindFails, ForwardFails, Finish,
                  Repeat, history
    <3>3. Count(j)' = Count(j)
      BY <2>2, <3>2, CountAppend DEF Count, Finished
    <3> QED
      BY <3>1, <3>3 DEF ForwardInv, ForwardOK, Running
  <2> QED
    BY <2>1, <2>2
<1> QED
  BY <1>1, <1>2, NextKinds DEF ForwardInv

LEMMA ForwardInit == Init => ForwardInv
<1> SUFFICES ASSUME Init, NEW j \in Jobs PROVE ForwardOK(j)
  BY DEF ForwardInv
<1>1. log = <<>> /\ pc[j] = "idle" /\ forwards[j] = 0
  BY DEF Init
<1>2. Finished(j) = {}
  BY <1>1 DEF Finished
<1>3. Count(j) = 0
  BY <1>2, FS_EmptySet DEF Count
<1> QED
  BY <1>1, <1>3 DEF ForwardOK, Running

-----------------------------------------------------------------------------
(* Documents.  While one dynamic job runs, what it read of the documents it *)
(* has still to write is what they are.                                    *)

AsRead(j) ==
  Kind[j] = "dynamic" /\ Running(j) =>
    \A i \in at[j]..Len(RowsOf[j]) : ids[j][RowsOf[j][i].sku] # 0 =>
      docs[j][RowsOf[j][i].sku] = products[ids[j][RowsOf[j][i].sku]].doc

AllOrdinary == \A j \in Came : Ordinary(j)

DocInv ==
  {"dynamic"} \notin overlapped => Solo({"dynamic"}) /\ (AllOrdinary => \A j \in Jobs : AsRead(j))

\* A write changes one product at most, and only a dynamic job's its document.
LEMMA WrittenDocs ==
  ASSUME TypeInv, NEW j \in Jobs, Wrote(j)
  PROVE  \/ \A p \in DOMAIN products : p \in DOMAIN products' /\ products'[p].doc = products[p].doc
         \/ /\ Kind[j] = "dynamic" /\ Id(j) \in DOMAIN products /\ DOMAIN products' = DOMAIN products
            /\ products'[Id(j)].doc = Merged(docs[j][This(j).sku], This(j))
            /\ \A p \in DOMAIN products : p # Id(j) => products'[p] = products[p]
<1>0. products \in Seq(Product)
  BY DEF TypeInv, TablesType
<1>1. CASE NewPrice(j) \/ Repriced(j)
  BY <1>1 DEF NewPrice, Repriced
<1>2. CASE NewProduct(j)
  BY <1>0, <1>2, AppendIs DEF NewProduct
<1>3. CASE Documented(j)
  <2>1. Id(j) \in DOMAIN products
    BY <1>3, WritingAt DEF Wrote, Documented
  <2>2. PICK x \in Product : /\ x.doc = Merged(docs[j][This(j).sku], This(j))
                             /\ products' = [products EXCEPT ![Id(j)] = x]
    BY <1>3 DEF Documented
  <2> QED
    BY <1>0, <1>3, <2>1, <2>2, ChangeIs DEF Documented
<1>4. CASE \E p \in DOMAIN products : Counted(j, p)
  <2>1. PICK p \in DOMAIN products : Counted(j, p)
    BY <1>4
  <2>2. PICK x \in Product : x.doc = products[p].doc /\ products' = [products EXCEPT ![p] = x]
    BY <2>1 DEF Counted
  <2> QED
    BY <1>0, <2>2, ChangeIs
<1> QED
  BY <1>1, <1>2, <1>3, <1>4, WriteCases DEF Wrote

\* The tables were not touched, or not the documents; the job is where it
\* was, or past it.
LEMMA AsReadStays ==
  ASSUME TypeInv, NEW j \in Jobs, AsRead(j), pc'[j] # "write", Running(j)' => Running(j),
         at'[j] \in Nat, at'[j] >= at[j], ids'[j] = ids[j], docs'[j] = docs[j],
         \A p \in DOMAIN products : products'[p].doc = products[p].doc
  PROVE  AsRead(j)'
<1> SUFFICES ASSUME Kind[j] = "dynamic", Running(j)', NEW i \in at'[j]..Len(RowsOf[j]), ids'[j][RowsOf[j][i].sku] # 0
             PROVE  docs'[j][RowsOf[j][i].sku] = products'[ids'[j][RowsOf[j][i].sku]].doc
  BY DEF AsRead
<1>1. at[j] \in 1..(Len(RowsOf[j]) + 1) /\ Len(RowsOf[j]) \in Nat /\ JobOK(j)
  BY RowsType DEF TypeInv, JobsOK, JobOK
<1>2. i \in at[j]..Len(RowsOf[j]) /\ i \in 1..Len(RowsOf[j])
  BY <1>1
<1>3. RowsOf[j][i].sku \in Skus
  BY <1>2, RowsType DEF Row
<1>4. ids[j][RowsOf[j][i].sku] \in DOMAIN products
  BY <1>1, <1>3 DEF JobOK
<1> QED
  BY <1>2, <1>4 DEF AsRead

LEMMA AsReadBegins ==
  ASSUME TypeInv, NEW j \in Jobs, Begin(j)
  PROVE  AsRead(j)'
<1>0. JobsType /\ RowsOf[j] \in Seq(Row) /\ Len(RowsOf[j]) \in Nat
  BY RowsType DEF TypeInv
<1>1. PICK m \in (IF Snapshots(j) THEN SkuMaps ELSE {NoIds}) :
        /\ ids' = [ids EXCEPT ![j] = m]
        /\ docs' = [docs EXCEPT ![j] = [s \in Skus |-> IF m[s] = 0 THEN NoDoc ELSE products[m[s]].doc]]
  BY DEF Begin
<1>2. /\ ids'[j] = m /\ docs'[j] = [s \in Skus |-> IF m[s] = 0 THEN NoDoc ELSE products[m[s]].doc]
      /\ at'[j] = 1 /\ UNCHANGED products
  BY <1>0, <1>1 DEF Begin, tables, JobsType
<1>3. \A i \in 1..Len(RowsOf[j]) : RowsOf[j][i].sku \in Skus
  BY RowsType DEF Row
<1> QED
  BY <1>2, <1>3 DEF AsRead

\* Its own document is written; the other rows are for other products.
LEMMA AsReadWrites ==
  ASSUME TypeInv, NEW j \in Jobs, Wrote(j), AsRead(j), Kind[j] = "dynamic", Ordinary(j)
  PROVE  AsRead(j)'
<1>0. /\ JobOK(j) /\ at[j] \in DOMAIN RowsOf[j] /\ at[j] \in Nat /\ Len(RowsOf[j]) \in Nat
      /\ DOMAIN RowsOf[j] = 1..Len(RowsOf[j]) /\ This(j).sku \in Skus
  BY WritingAt, ThisType, RowsType DEF Wrote, TypeInv, JobsOK
<1>1. UNCHANGED <<ids, docs>> /\ at'[j] = at[j] + 1 /\ Running(j)
  BY WritingAt DEF Wrote, view
<1>2. ASSUME NEW i \in (at[j] + 1)..Len(RowsOf[j]), ids[j][RowsOf[j][i].sku] # 0
      PROVE  docs[j][RowsOf[j][i].sku] = products'[ids[j][RowsOf[j][i].sku]].doc
  <2> DEFINE s == RowsOf[j][i].sku
  <2>1. i \in DOMAIN RowsOf[j] /\ i # at[j] /\ i \in at[j]..Len(RowsOf[j])
    BY <1>0
  <2>2. s \in Skus /\ s # This(j).sku
    BY <1>0, <2>1, RowsType DEF Ordinary, This, Row
  <2>3. ids[j][s] \in DOMAIN products /\ products[ids[j][s]].sku = s
    BY <1>0, <1>2, <2>2 DEF JobOK
  <2>4. Id(j) \in DOMAIN products => products[Id(j)].sku = This(j).sku
    <3>1. Id(j) \in DOMAIN products => Id(j) # 0
      BY DEF TypeInv, TablesType
    <3> QED
      BY <3>1, WritingAt DEF Wrote
  <2>5. ids[j][s] # Id(j)
    BY <2>2, <2>3, <2>4
  <2>6. docs[j][s] = products[ids[j][s]].doc
    BY <1>1, <1>2, <2>1 DEF AsRead
  <2> HIDE DEF s
  <2>7. products'[ids[j][s]].doc = products[ids[j][s]].doc
    BY <2>3, <2>5, WrittenDocs
  <2> QED
    BY <2>6, <2>7 DEF s
<1> QED
  BY <1>1, <1>2 DEF AsRead

LEMMA DocStep == TypeInv /\ DocInv /\ [Next]_vars => DocInv'
<1> SUFFICES ASSUME TypeInv, DocInv, [Next]_vars, {"dynamic"} \notin overlapped'
             PROVE  Solo({"dynamic"})' /\ (AllOrdinary' => \A j \in Jobs : AsRead(j)')
  BY DEF DocInv
<1>1. Solo({"dynamic"}) /\ (AllOrdinary' => AllOrdinary) /\ (AllOrdinary => \A j \in Jobs : AsRead(j))
  BY HistoryGrows DEF DocInv, AllOrdinary
<1>2. Solo({"dynamic"})'
  <2>1. \A j, k \in Jobs : Kind[j] \in {"dynamic"} /\ Kind[k] \in {"dynamic"} => {Kind[j], Kind[k]} \notin overlapped'
    OBVIOUS
  <2> QED
    BY <1>1, <2>1, SoloStep
<1>3. ASSUME AllOrdinary' PROVE \A j \in Jobs : AsRead(j)'
  <2>0. /\ \A j \in Jobs : AsRead(j) /\ at[j] \in Nat
        /\ JobsType
    BY <1>1, <1>3 DEF TypeInv, JobsType
  <2>1. ASSUME Halts, NEW q \in Jobs PROVE AsRead(q)'
    <3>1. UNCHANGED <<products, at, ids, docs>> /\ (Running(q)' => Running(q))
      BY <2>1 DEF Halts, tables, view, Running
    <3> QED
      BY <2>0, <3>1 DEF AsRead
  <2>2. ASSUME NEW j \in Jobs, Step(j), NEW q \in Jobs PROVE AsRead(q)'
    <3>0. Sound(j) /\ at'[j] \in Nat
      BY <2>2, StepSound DEF Sound, JobsType
    <3>1. ASSUME q # j, \A p \in DOMAIN products : products'[p].doc = products[p].doc PROVE AsRead(q)'
      <4>1. pc'[q] = pc[q] /\ at'[q] = at[q] /\ ids'[q] = ids[q] /\ docs'[q] = docs[q] /\ AsRead(q)
        BY <2>0, <3>0, <3>1 DEF Sound, Only
      <4>2. CASE pc[q] = "write"
        <5>1. Kind[q] # "dynamic"
          BY <4>2 DEF TypeInv, JobsOK, JobOK, LooksUp
        <5> QED
          BY <5>1 DEF AsRead
      <4>3. CASE pc[q] # "write"
        BY <2>0, <3>1, <4>1, <4>3, AsReadStays DEF Running
      <4> QED
        BY <4>2, <4>3
    <3>2. CASE Begin(j)
      BY <2>0, <3>1, <3>2, AsReadBegins DEF Begin, tables
    <3>3. CASE Find(j) \/ FindFails(j)
      BY <2>0, <3>1, <3>3 DEF Find, FindFails, LooksUp, AsRead, tables
    <3>4. CASE Passed(j)
      <4>1. UNCHANGED <<products, ids, docs>>
        BY <3>4 DEF Passed, tables, view
      <4>2. AsRead(j)'
        BY <2>0, <3>0, <3>4, <4>1, AsReadStays DEF Passed
      <4> QED
        BY <3>1, <4>1, <4>2
    <3>5. CASE Wrote(j)
      <4>0. Running(j) /\ j \in Came
        BY <3>5, WritingAt DEF Wrote, Running, Came
      <4>1. CASE q = j /\ Kind[j] = "dynamic"
        <5>1. Ordinary(j)
          BY <1>1, <1>3, <4>0 DEF AllOrdinary
        <5> QED
          BY <2>0, <3>5, <4>1, <5>1, AsReadWrites
      <4>2. CASE Kind[q] # "dynamic"
        BY <4>2 DEF AsRead
      <4>3. CASE q # j /\ Kind[q] = "dynamic" /\ Kind[j] = "dynamic"
        <5>1. ~Running(q) /\ pc'[q] = pc[q]
          BY <1>1, <3>0, <4>0, <4>3 DEF Solo, Sound, Only
        <5> QED
          BY <5>1 DEF AsRead, Running
      <4>4. CASE q # j /\ Kind[j] # "dynamic"
        BY <3>1, <3>5, <4>4, WrittenDocs
      <4> QED
        BY <4>1, <4>2, <4>3, <4>4
    <3> QED
      BY <2>2, <3>2, <3>3, <3>4, <3>5, StepKinds
  <2> QED
    BY <2>1, <2>2, NextKinds
<1> QED
  BY <1>2, <1>3

LEMMA KeysStay ==
  ASSUME TypeInv, DocInv, [Next]_vars, {"dynamic"} \notin overlapped', AllOrdinary,
         NEW p \in DOMAIN products, NEW k \in Keys, products[p].doc[k] # 0
  PROVE  products'[p].doc[k] # 0
<1>1. CASE UNCHANGED products
  BY <1>1
<1>2. ASSUME NEW j \in Jobs, Wrote(j) PROVE products'[p].doc[k] # 0
  <2>1. CASE products'[p].doc = products[p].doc
    BY <2>1
  <2>2. CASE /\ Kind[j] = "dynamic" /\ p = Id(j)
             /\ products'[p].doc = Merged(docs[j][This(j).sku], This(j))
    <3>1. /\ at[j] \in DOMAIN RowsOf[j] /\ at[j] \in Nat /\ Running(j) /\ This(j) \in Row /\ This(j).sku \in Skus
          /\ DOMAIN RowsOf[j] = 1..Len(RowsOf[j]) /\ Len(RowsOf[j]) \in Nat
      BY <1>2, WritingAt, ThisType, RowsType DEF Wrote
    <3>2. AsRead(j)
      BY HistoryGrows DEF DocInv
    <3>3. at[j] \in at[j]..Len(RowsOf[j])
      BY <3>1
    <3>4. p # 0
      BY DEF TypeInv, TablesType
    <3>5. docs[j][This(j).sku] = products[p].doc
      BY <2>2, <3>1, <3>2, <3>3, <3>4 DEF AsRead, Id, This
    <3>6. docs[j][This(j).sku] \in Doc
      BY <3>1 DEF TypeInv, JobsType
    <3> QED
      BY <2>2, <3>1, <3>5, <3>6, MergedIs
  <2> QED
    BY <1>2, <2>1, <2>2, WrittenDocs
<1>3. CASE Halts
  BY <1>1, <1>3 DEF Halts, tables
<1>4. ASSUME NEW j \in Jobs, Begin(j) \/ Find(j) \/ FindFails(j) \/ Passed(j) PROVE UNCHANGED products
  BY <1>4 DEF Begin, Find, FindFails, Passed, tables
<1> QED
  BY <1>1, <1>2, <1>3, <1>4, NextKinds, StepKinds

-----------------------------------------------------------------------------
(* A job's last word.  A quantity is a last row's, or a stock job is not     *)
(* through with the product: it has a later row for it, or failed and will  *)
(* start over.                                                             *)

Once(j) == \A i, k \in DOMAIN RowsOf[j] : RowsOf[j][i].sku = RowsOf[j][k].sku => i = k

\* Inserting, upserting and syncing jobs name a sku once; no row of an
\* inserting job is a pattern for another sku.
Uniform ==
  /\ \A j \in InsertMissing \cap Jobs : Ordinary(j)
  /\ \A j \in Jobs : Kind[j] \in {"upsert", "catalog"} => Once(j)

LastRowOf(j, i, s, n) ==
  /\ Kind[j] \notin {"price", "dynamic"}
  /\ RowsOf[j][i].val = n
  /\ IF Kind[j] = "stock" THEN RowsOf[j][i].sku = s ELSE Like(RowsOf[j][i].sku, s)
  /\ \A k \in DOMAIN RowsOf[j] : k > i => RowsOf[j][k].sku # RowsOf[j][i].sku
LastRow(s, n) == \E j \in Jobs : \E i \in DOMAIN RowsOf[j] : LastRowOf(j, i, s, n)

ComingBy(j, k, p) ==
  /\ Kind[j] = "stock" /\ RowsOf[j][k].sku = products[p].sku
  /\ \/ pc[j] = "failed"
     \/ pc[j] = "row" /\ k >= at[j] /\ ids[j][RowsOf[j][k].sku] = p
Coming(p) == \E j \in Jobs : \E k \in DOMAIN RowsOf[j] : ComingBy(j, k, p)

Settled(p) == products[p].qty # 0 => LastRow(products[p].sku, products[p].qty) \/ Coming(p)
LastInv == Apart => \A p \in DOMAIN products : Settled(p)

\* A stock job's own step, where it does not write the product it still
\* has a row for.
LEMMA ComingOwn ==
  ASSUME TypeInv, OneRow, NEW j \in Jobs, Step(j), NEW p \in DOMAIN products, NEW k \in DOMAIN RowsOf[j],
         ComingBy(j, k, p), Wrote(j) => Id(j) # p
  PROVE  ComingBy(j, k, p)'
<1> DEFINE s == RowsOf[j][k].sku
<1>0. /\ JobsType /\ JobOK(j) /\ Kind[j] = "stock" /\ s = products[p].sku /\ s \in Skus
      /\ p # 0 /\ p \in DOMAIN products' /\ products'[p].sku = s
      /\ at[j] \in Nat /\ Len(RowsOf[j]) \in Nat /\ k \in 1..Len(RowsOf[j]) /\ k \in Nat
  <2>1. Sound(j) /\ JobOK(j) /\ JobsType /\ 0 \notin DOMAIN products
    BY StepSound DEF TypeInv, JobsOK, TablesType
  <2>2. k \in 1..Len(RowsOf[j]) /\ RowsOf[j][k] \in Row /\ Len(RowsOf[j]) \in Nat
    BY RowsType
  <2> QED
    BY <2>1, <2>2 DEF ComingBy, Sound, Grows, JobsType, Row
<1> HIDE DEF s
<1>1. CASE Begin(j)
  <2>1. /\ pc'[j] = "row" /\ at'[j] = 1
        /\ \E m \in (IF Snapshots(j) THEN SkuMaps ELSE {NoIds}) : ids' = [ids EXCEPT ![j] = m]
    BY <1>0, <1>1 DEF Begin, JobsType
  <2>2. PICK m \in SkuMaps : ids' = [ids EXCEPT ![j] = m]
    BY <1>0, <2>1 DEF Snapshots
  <2>3. p \in Matching(s)
    BY <1>0 DEF Matching
  <2>4. m[s] \in Matching(s)
    BY <1>0, <2>3 DEF SkuMaps
  <2>5. m[s] = p
    BY <1>0, <2>3, <2>4 DEF Matching, OneRow
  <2>6. ids'[j][s] = p
    BY <1>0, <2>2, <2>5 DEF JobsType
  <2> QED
    BY <1>0, <2>1, <2>6 DEF ComingBy, s
<1>2. CASE pc'[j] = "failed"
  BY <1>0, <1>2 DEF ComingBy, s
<1>3. CASE ~Begin(j) /\ pc'[j] # "failed"
  <2>1. pc[j] = "row" /\ k >= at[j] /\ ids[j][s] = p
    <3>1. pc[j] # "failed"
      BY <1>3 DEF Step, Begin, Skip, AtRow, Find, Write, WriteFails, Writing, Forward, Refuse, FindFails,
                  ForwardFails, Finish, Repeat
    <3> QED
      BY <3>1 DEF ComingBy, s
  <2>2. at[j] = k => Id(j) = p
    BY <2>1 DEF Id, This, s
  <2>3. pc'[j] = "row" /\ at'[j] = at[j] + 1 /\ UNCHANGED ids /\ at[j] # k
    <3>1. CASE Skip(j)
      <4>1. Id(j) = 0
        BY <3>1 DEF Skip, Unknown
      <4> QED
        BY <1>0, <2>1, <2>2, <3>1, <4>1 DEF Skip, JobsType, Next1, view
    <3>2. CASE Wrote(j)
      BY <1>0, <1>3, <2>2, <3>2 DEF Wrote, view
    <3>3. ~Find(j) /\ ~FindFails(j) /\ ~Forward(j) /\ ~ForwardFails(j) /\ ~Refuse(j) /\ ~Repeat(j) /\ ~Finish(j)
      BY <1>0, <2>1 DEF Find, FindFails, Forward, ForwardFails, Refuse, Refused, Repeat, Finish, LooksUp
    <3>4. CASE Write(j)
      <4>1. Writing(j) /\ Apply(j) /\ UNCHANGED <<view, history>> /\ pc' = [pc EXCEPT ![j] = "row"] /\ at' = Next1(at, j)
        BY <1>0, <3>4 DEF Write, Forwards
      <4> QED
        BY <1>0, <3>2, <4>1 DEF Wrote, JobsType, Next1
    <3>5. ASSUME NEW applied \in BOOLEAN, WriteFails(j, applied) PROVE FALSE
      BY <1>0, <1>3, <3>5 DEF WriteFails, GiveUp, JobsType
    <3> QED
      BY <1>3, <3>1, <3>3, <3>4, <3>5 DEF Step
  <2>4. k >= at'[j] /\ ids'[j][s] = p
    BY <1>0, <2>1, <2>3
  <2> QED
    BY <1>0, <2>3, <2>4 DEF ComingBy, s
<1> QED
  BY <1>1, <1>2, <1>3

\* A product whose quantity stays.
LEMMA SettledStays ==
  ASSUME TypeInv, OneRow, NEW j \in Jobs, Step(j), NEW p \in DOMAIN products, Settled(p),
         products'[p].qty = products[p].qty, Wrote(j) /\ Kind[j] = "stock" => Id(j) # p
  PROVE  Settled(p)'
<1> SUFFICES ASSUME products'[p].qty # 0, Coming(p)
             PROVE  Coming(p)'
  <2>1. products'[p].sku = products[p].sku
    BY StepSound DEF Sound, Grows
  <2> QED
    BY <2>1 DEF Settled
<1>0. PICK q \in Jobs : \E k \in DOMAIN RowsOf[q] : ComingBy(q, k, p)
  BY DEF Coming
<1>1. PICK k \in DOMAIN RowsOf[q] : ComingBy(q, k, p)
  BY <1>0
<1>2. CASE q = j
  <2>1. ComingBy(q, k, p)'
    BY <1>1, <1>2, ComingOwn DEF ComingBy
  <2> QED
    BY <2>1 DEF Coming
<1>3. CASE q # j
  <2>1. pc'[q] = pc[q] /\ at'[q] = at[q] /\ ids'[q] = ids[q] /\ products'[p].sku = products[p].sku
    BY <1>3, StepSound DEF Sound, Only, Grows
  <2>2. ComingBy(q, k, p)'
    BY <1>1, <2>1 DEF ComingBy
  <2> QED
    BY <2>2 DEF Coming
<1> QED
  BY <1>2, <1>3

\* Where no later row has its sku, a job's row is its last word.
LEMMA LastOrLater ==
  ASSUME TypeInv, Uniform, NEW j \in Jobs, at[j] <= Len(RowsOf[j]), Kind[j] \in {"stock", "upsert", "catalog"},
         NEW s \in Skus, IF Kind[j] = "stock" THEN This(j).sku = s ELSE Like(This(j).sku, s)
  PROVE  \/ LastRow(s, This(j).val)
         \/ Kind[j] = "stock" /\ \E k \in DOMAIN RowsOf[j] : k > at[j] /\ RowsOf[j][k].sku = This(j).sku
<1>1. at[j] \in DOMAIN RowsOf[j] /\ at[j] \in Nat /\ DOMAIN RowsOf[j] \subseteq Nat
  BY ThisType, RowsType
<1>2. CASE \A k \in DOMAIN RowsOf[j] : k > at[j] => RowsOf[j][k].sku # This(j).sku
  <2>1. LastRowOf(j, at[j], s, This(j).val)
    BY <1>2 DEF LastRowOf, This
  <2> QED
    BY <1>1, <2>1 DEF LastRow
<1>3. CASE Kind[j] # "stock"
  <2>1. Once(j)
    BY <1>3 DEF Uniform
  <2> QED
    BY <1>1, <1>2, <2>1 DEF Once, This
<1> QED
  BY <1>2, <1>3

\* The product a job gave a quantity.
LEMMA CountedSettles ==
  ASSUME TypeInv, Uniform, NEW j \in Jobs, Wrote(j), NEW p \in DOMAIN products, Counted(j, p)
  PROVE  Settled(p)'
<1>0. /\ at[j] <= Len(RowsOf[j]) /\ at[j] \in Nat /\ DOMAIN RowsOf[j] \subseteq Nat
      /\ JobOK(j) /\ products \in Seq(Product) /\ products[p].sku \in Skus
  <2>1. at[j] <= Len(RowsOf[j]) /\ JobOK(j) /\ products \in Seq(Product)
    BY WritingAt DEF Wrote, TypeInv, JobsOK, TablesType
  <2>2. products[p] \in Product
    BY <2>1
  <2> QED
    BY <2>1, <2>2, ThisType, RowsType DEF Product
<1>1. PICK x \in Product : /\ x.sku = products[p].sku /\ x.qty = This(j).val
                           /\ products' = [products EXCEPT ![p] = x]
  BY DEF Counted
<1>2. products'[p].sku = products[p].sku /\ products'[p].qty = This(j).val
  BY <1>0, <1>1, ChangeIs
<1>3. CASE Kind[j] = "stock"
  <2>1. p = Id(j) /\ p # 0 /\ This(j).sku = products[p].sku
    BY <1>3, WritingAt DEF Counted, Wrote
  <2>2. CASE LastRow(products[p].sku, This(j).val)
    BY <1>2, <2>2 DEF Settled
  <2>3. ASSUME NEW k \in DOMAIN RowsOf[j], k > at[j], RowsOf[j][k].sku = This(j).sku PROVE Settled(p)'
    <3>1. UNCHANGED ids /\ (pc'[j] = "failed" \/ (pc'[j] = "row" /\ at'[j] = at[j] + 1))
      BY <1>3 DEF Wrote, view
    <3>2. at'[j] = at[j] + 1 => k >= at'[j]
      BY <1>0, <2>3
    <3>3. ids'[j][RowsOf[j][k].sku] = p
      BY <2>1, <2>3, <3>1 DEF Id
    <3>4. ComingBy(j, k, p)'
      BY <1>2, <1>3, <2>1, <2>3, <3>1, <3>2, <3>3 DEF ComingBy
    <3>5. Coming(p)'
      BY <3>4 DEF Coming
    <3> QED
      BY <3>5 DEF Settled
  <2> QED
    BY <1>0, <1>3, <2>1, <2>2, <2>3, LastOrLater
<1>4. CASE Kind[j] # "stock"
  <2>1. Kind[j] \in {"upsert", "catalog"} /\ p = hit[j] /\ pc[j] = "write"
    BY <1>4, WritingAt DEF Counted, Wrote, LooksUp
  <2>2. Like(This(j).sku, products[p].sku)
    <3>1. hit[j] # 0
      BY <2>1 DEF TypeInv, TablesType
    <3> QED
      BY <1>0, <2>1, <3>1 DEF JobOK
  <2>3. LastRow(products[p].sku, This(j).val)
    BY <1>0, <1>4, <2>1, <2>2, LastOrLater
  <2> QED
    BY <1>2, <2>3 DEF Settled
<1> QED
  BY <1>3, <1>4

\* A product that is new.
LEMMA NewSettles ==
  ASSUME TypeInv, Uniform, NEW j \in Jobs, Wrote(j), NewProduct(j), NEW p \in DOMAIN products', p \notin DOMAIN products
  PROVE  Settled(p)'
<1>0. /\ at[j] <= Len(RowsOf[j]) /\ This(j).sku \in Skus /\ products \in Seq(Product)
      /\ DOMAIN products = 1..Len(products) /\ Len(products) \in Nat
  BY WritingAt, ThisType DEF Wrote, TypeInv, TablesType
<1>1. PICK x \in Product : /\ x.sku = This(j).sku /\ x.qty = (IF Kind[j] = "dynamic" THEN 0 ELSE This(j).val)
                           /\ products' = Append(products, x)
  BY DEF NewProduct
<1>2. DOMAIN products' = 1..(Len(products) + 1) /\ products'[Len(products) + 1] = x
  BY <1>0, <1>1, AppendIs
<1>3. p = Len(products) + 1
  BY <1>0, <1>2
<1>4. CASE Kind[j] = "dynamic"
  BY <1>1, <1>2, <1>3, <1>4 DEF Settled
<1>5. CASE Kind[j] # "dynamic"
  <2>1. Kind[j] \in {"upsert", "catalog"} /\ Like(This(j).sku, This(j).sku)
    BY <1>5 DEF NewProduct, Like
  <2>2. LastRow(This(j).sku, This(j).val)
    BY <1>0, <2>1, LastOrLater
  <2> QED
    BY <1>1, <1>2, <1>3, <1>5, <2>2 DEF Settled
<1> QED
  BY <1>4, <1>5

LEMMA LastStep == Uniform /\ TypeInv /\ ProductInv /\ LastInv /\ [Next]_vars => LastInv'
<1> SUFFICES ASSUME Uniform, TypeInv, ProductInv, LastInv, [Next]_vars, Apart', NEW p \in DOMAIN products'
             PROVE  Settled(p)'
  BY DEF LastInv
<1>0. InsertsOnce /\ products \in Seq(Product) /\ DOMAIN products \subseteq Nat
  <2>1. Came \subseteq Jobs
    BY DEF Came
  <2> QED
    BY <2>1 DEF Uniform, InsertsOnce, TypeInv, TablesType
<1>1. OneRow /\ \A q \in DOMAIN products : Settled(q)
  BY <1>0, HistoryGrows DEF Apart, ProductInv, LastInv
<1>2. CASE Halts
  <2>1. products' = products /\ UNCHANGED <<at, ids>>
    BY <1>2 DEF Halts, tables, view
  <2>2. ASSUME NEW j \in Jobs, NEW k \in DOMAIN RowsOf[j], ComingBy(j, k, p) PROVE ComingBy(j, k, p)'
    BY <1>2, <2>1, <2>2 DEF Halts, ComingBy
  <2>3. Coming(p) => Coming(p)'
    BY <2>2 DEF Coming
  <2> QED
    BY <1>1, <2>1, <2>3 DEF Settled
<1>3. ASSUME NEW j \in Jobs, Step(j) PROVE Settled(p)'
  <2>1. CASE UNCHANGED products /\ ~Wrote(j)
    BY <1>1, <1>3, <2>1, SettledStays
  <2>2. CASE Wrote(j)
    <3>1. CASE NewPrice(j) \/ Repriced(j)
      BY <1>1, <1>3, <3>1, SettledStays DEF NewPrice, Repriced
    <3>2. CASE NewProduct(j)
      <4>1. CASE p \in DOMAIN products
        <5>1. products'[p] = products[p]
          BY <1>0, <3>2, <4>1, AppendIs DEF NewProduct
        <5>2. Kind[j] # "stock"
          BY <3>2 DEF NewProduct
        <5> QED
          BY <1>1, <1>3, <4>1, <5>1, <5>2, SettledStays
      <4>2. CASE p \notin DOMAIN products
        BY <2>2, <3>2, <4>2, NewSettles
      <4> QED
        BY <4>1, <4>2
    <3>3. CASE Documented(j)
      <4>1. Id(j) \in DOMAIN products
        BY <2>2, <3>3, WritingAt DEF Wrote, Documented
      <4>2. PICK x \in Product : x.qty = products[Id(j)].qty /\ products' = [products EXCEPT ![Id(j)] = x]
        BY <3>3 DEF Documented
      <4>3. p \in DOMAIN products /\ products'[p].qty = products[p].qty
        BY <1>0, <4>1, <4>2, ChangeIs
      <4>4. Kind[j] # "stock"
        BY <3>3 DEF Documented
      <4> QED
        BY <1>1, <1>3, <4>3, <4>4, SettledStays
    <3>4. ASSUME NEW q \in DOMAIN products, Counted(j, q) PROVE Settled(p)'
      <4>1. PICK x \in Product : products' = [products EXCEPT ![q] = x]
        BY <3>4 DEF Counted
      <4>2. /\ DOMAIN products' = DOMAIN products
            /\ \A i \in DOMAIN products : i # q => products'[i] = products[i]
        BY <1>0, <4>1, ChangeIs
      <4>3. CASE p = q
        BY <2>2, <3>4, <4>3, CountedSettles
      <4>4. CASE p # q
        <5>1. Kind[j] = "stock" => Id(j) # p
          BY <3>4, <4>4 DEF Counted
        <5> QED
          BY <1>1, <1>3, <4>2, <4>4, <5>1, SettledStays
      <4> QED
        BY <4>3, <4>4
    <3> QED
      BY <2>2, <3>1, <3>2, <3>3, <3>4, WriteCases DEF Wrote
  <2>3. CASE Begin(j) \/ Find(j) \/ FindFails(j) \/ Passed(j)
    <3>1. UNCHANGED products
      BY <2>3 DEF Begin, Find, FindFails, Passed, tables
    <3> QED
      BY <2>1, <2>2, <3>1
  <2> QED
    BY <1>3, <2>2, <2>3, StepKinds
<1> QED
  BY <1>2, <1>3, NextKinds

-----------------------------------------------------------------------------
(* The tables seen by sku.                                                 *)

OnePrice == \A i, k \in DOMAIN prices : prices[i].product = prices[k].product => i = k
NoItem == [qty |-> -1, doc |-> NoDoc, price |-> 0]

PricesOf(cs, p) == {i \in DOMAIN cs : cs[i].product = p}
PriceOf(cs, p) == IF PricesOf(cs, p) = {} THEN 0 ELSE cs[CHOOSE i \in PricesOf(cs, p) : TRUE].val
Shown(ps, cs, p) == [qty |-> ps[p].qty, doc |-> ps[p].doc, price |-> PriceOf(cs, p)]

LEMMA SeenIs ==
  ASSUME OneRow, NEW s, NEW p \in DOMAIN products, products[p].sku = s
  PROVE  Seen(s) = Shown(products, prices, p)
<1>1. Matching(s) = {p}
  BY DEF OneRow, Matching
<1>2. (CHOOSE q \in Matching(s) : TRUE) = p
  BY <1>1
<1> QED
  BY <1>1, <1>2 DEF Seen, Shown, PriceOf, PricesOf

LEMMA SeenIsNext ==
  ASSUME OneRow', NEW s, NEW p \in DOMAIN products', products'[p].sku = s
  PROVE  Seen(s)' = Shown(products', prices', p)
<1>1. Matching(s)' = {p}
  BY DEF OneRow, Matching
<1>2. (CHOOSE q \in Matching(s)' : TRUE) = p
  BY <1>1
<1> QED
  BY <1>1, <1>2 DEF Seen, Shown, PriceOf, PricesOf

LEMMA SeenNone ==
  ASSUME NEW s
  PROVE  /\ NewSku(s) => Seen(s) = NoItem
         /\ NewSku(s)' => Seen(s)' = NoItem
<1>1. NewSku(s) => Matching(s) = {}
  BY DEF NewSku, Matching
<1>2. NewSku(s)' => Matching(s)' = {}
  BY DEF NewSku, Matching
<1> QED
  BY <1>1, <1>2 DEF Seen, NoItem

\* The one price of a product.
LEMMA PriceIs ==
  ASSUME NEW cs, NEW p
  PROVE  /\ (\A i \in DOMAIN cs : cs[i].product # p) => PriceOf(cs, p) = 0
         /\ \A i \in DOMAIN cs :
              cs[i].product = p /\ (\A k \in DOMAIN cs : cs[k].product = p => k = i) => PriceOf(cs, p) = cs[i].val
<1>1. (\A i \in DOMAIN cs : cs[i].product # p) => PricesOf(cs, p) = {}
  BY DEF PricesOf
<1>2. ASSUME NEW i \in DOMAIN cs, cs[i].product = p, \A k \in DOMAIN cs : cs[k].product = p => k = i
      PROVE  PriceOf(cs, p) = cs[i].val
  <2>1. PricesOf(cs, p) = {i}
    BY <1>2 DEF PricesOf
  <2>2. (CHOOSE k \in PricesOf(cs, p) : TRUE) = i
    BY <2>1
  <2> QED
    BY <2>1, <2>2 DEF PriceOf
<1> QED
  BY <1>1, <1>2 DEF PriceOf

\* The rows for a product that are what they were.
LEMMA PriceStays ==
  ASSUME NEW cs, NEW ds, NEW p,
         \A i \in DOMAIN cs : cs[i].product = p => i \in DOMAIN ds /\ ds[i] = cs[i],
         \A i \in DOMAIN ds : ds[i].product = p => i \in DOMAIN cs /\ ds[i] = cs[i]
  PROVE  PriceOf(ds, p) = PriceOf(cs, p)
<1>1. PricesOf(ds, p) = PricesOf(cs, p)
  BY DEF PricesOf
<1>2. ASSUME PricesOf(cs, p) # {}, NEW i, i = (CHOOSE k \in PricesOf(cs, p) : TRUE)
      PROVE  ds[i] = cs[i]
  <2>1. i \in PricesOf(cs, p)
    BY <1>2
  <2> QED
    BY <2>1 DEF PricesOf
<1> QED
  BY <1>1, <1>2 DEF PriceOf

\* A product is updated.
LEMMA SeenChange ==
  ASSUME TypeInv, OneRow, OneRow', NEW p \in DOMAIN products, NEW x \in Product, x.sku = products[p].sku,
         products' = [products EXCEPT ![p] = x], prices' = prices, NEW s
  PROVE  /\ s = x.sku => Seen(s)' = [qty |-> x.qty, doc |-> x.doc, price |-> Seen(s).price]
         /\ s # x.sku => Seen(s)' = Seen(s)
<1>1. products \in Seq(Product)
  BY DEF TypeInv, TablesType
<1>2. /\ DOMAIN products' = DOMAIN products /\ products'[p] = x
      /\ \A i \in DOMAIN products : i # p => products'[i] = products[i]
  BY <1>1, ChangeIs
<1>3. CASE s = x.sku
  <2>1. Seen(s) = Shown(products, prices, p)
    BY <1>3, SeenIs
  <2>2. Seen(s)' = Shown(products', prices', p)
    BY <1>2, <1>3, SeenIsNext
  <2>3. Seen(s).price = PriceOf(prices, p)
    BY <2>1 DEF Shown
  <2> QED
    BY <1>2, <1>3, <2>2, <2>3 DEF Shown
<1>4. CASE s # x.sku /\ NewSku(s)
  <2>1. NewSku(s)'
    BY <1>2, <1>4 DEF NewSku
  <2> QED
    BY <1>4, <2>1, SeenNone
<1>5. CASE s # x.sku /\ ~NewSku(s)
  <2>1. PICK q \in DOMAIN products : products[q].sku = s
    BY <1>5 DEF NewSku
  <2>2. q # p /\ q \in DOMAIN products' /\ products'[q] = products[q]
    BY <1>2, <1>5, <2>1
  <2>3. Seen(s) = Shown(products, prices, q)
    BY <2>1, SeenIs
  <2>4. Seen(s)' = Shown(products', prices', q)
    BY <2>1, <2>2, SeenIsNext
  <2> QED
    BY <1>5, <2>2, <2>3, <2>4 DEF Shown
<1> QED
  BY <1>3, <1>4, <1>5

\* A product is added; no price is for it yet.
LEMMA SeenAdd ==
  ASSUME TypeInv, OneRow, OneRow', NEW x \in Product, NewSku(x.sku),
         products' = Append(products, x), prices' = prices, NEW s
  PROVE  /\ s = x.sku => Seen(s)' = [qty |-> x.qty, doc |-> x.doc, price |-> 0]
         /\ s # x.sku => Seen(s)' = Seen(s)
<1>1. /\ products \in Seq(Product) /\ DOMAIN products = 1..Len(products) /\ Len(products) \in Nat
      /\ \A i \in DOMAIN prices : prices[i].product \in DOMAIN products
  BY DEF TypeInv, TablesType
<1>2. /\ DOMAIN products' = 1..(Len(products) + 1) /\ products'[Len(products) + 1] = x
      /\ \A i \in DOMAIN products : i \in DOMAIN products' /\ products'[i] = products[i]
  BY <1>1, AppendIs
<1>3. CASE s = x.sku
  <2> DEFINE n == Len(products) + 1
  <2>1. n \in DOMAIN products' /\ products'[n].sku = s /\ n \notin DOMAIN products
    BY <1>1, <1>2, <1>3
  <2> HIDE DEF n
  <2>2. Seen(s)' = Shown(products', prices', n)
    BY <2>1, SeenIsNext
  <2>3. PriceOf(prices, n) = 0
    BY <1>1, <2>1, PriceIs
  <2>4. products'[n] = x
    BY <1>2 DEF n
  <2> QED
    BY <1>3, <2>2, <2>3, <2>4 DEF Shown
<1>4. CASE s # x.sku /\ NewSku(s)
  <2>1. \A i \in DOMAIN products' : i \in DOMAIN products \/ i = Len(products) + 1
    BY <1>1, <1>2
  <2>2. NewSku(s)'
    BY <1>2, <1>4, <2>1 DEF NewSku
  <2> QED
    BY <1>4, <2>2, SeenNone
<1>5. CASE s # x.sku /\ ~NewSku(s)
  <2>1. PICK q \in DOMAIN products : products[q].sku = s
    BY <1>5 DEF NewSku
  <2>2. q \in DOMAIN products' /\ products'[q] = products[q]
    BY <1>2, <2>1
  <2>3. Seen(s) = Shown(products, prices, q)
    BY <2>1, SeenIs
  <2>4. Seen(s)' = Shown(products', prices', q)
    BY <2>1, <2>2, SeenIsNext
  <2> QED
    BY <1>5, <2>2, <2>3, <2>4 DEF Shown
<1> QED
  BY <1>3, <1>4, <1>5

\* A product gets a list price: the one it has, or its first.
LEMMA SeenPriced ==
  ASSUME TypeInv, OneRow, OneRow', NEW p \in DOMAIN products, NEW i, NEW s, products' = products,
         i \in DOMAIN prices', prices'[i].product = p,
         \A k \in DOMAIN prices' : prices'[k].product = p => k = i,
         \A k \in DOMAIN prices : k # i => k \in DOMAIN prices' /\ prices'[k] = prices[k],
         \A k \in DOMAIN prices' : k # i => k \in DOMAIN prices,
         i \in DOMAIN prices => prices[i].product = p
  PROVE  /\ s = products[p].sku =>
              Seen(s)' = [qty |-> Seen(s).qty, doc |-> Seen(s).doc, price |-> prices'[i].val]
         /\ s # products[p].sku => Seen(s)' = Seen(s)
<1>1. CASE s = products[p].sku
  <2>1. Seen(s) = Shown(products, prices, p)
    BY <1>1, SeenIs
  <2>2. Seen(s)' = Shown(products', prices', p)
    BY <1>1, SeenIsNext
  <2>3. PriceOf(prices', p) = prices'[i].val
    BY PriceIs
  <2> QED
    BY <1>1, <2>1, <2>2, <2>3 DEF Shown
<1>2. CASE s # products[p].sku /\ NewSku(s)
  <2>1. NewSku(s)'
    BY <1>2 DEF NewSku
  <2> QED
    BY <1>2, <2>1, SeenNone
<1>3. CASE s # products[p].sku /\ ~NewSku(s)
  <2>1. PICK q \in DOMAIN products : products[q].sku = s
    BY <1>3 DEF NewSku
  <2>2. q # p
    BY <1>3, <2>1
  <2>3. PriceOf(prices', q) = PriceOf(prices, q)
    <3>1. \A k \in DOMAIN prices : prices[k].product = q => k \in DOMAIN prices' /\ prices'[k] = prices[k]
      BY <2>2
    <3>2. \A k \in DOMAIN prices' : prices'[k].product = q => k \in DOMAIN prices /\ prices'[k] = prices[k]
      BY <2>2
    <3> QED
      BY <3>1, <3>2, PriceStays
  <2>4. Seen(s) = Shown(products, prices, q)
    BY <2>1, SeenIs
  <2>5. Seen(s)' = Shown(products', prices', q)
    BY <2>1, SeenIsNext
  <2> QED
    BY <1>3, <2>3, <2>4, <2>5 DEF Shown
<1> QED
  BY <1>1, <1>2, <1>3

LEMMA PutDoc ==
  ASSUME NEW j, Kind[j] = "dynamic", NEW q, NEW d, NEW p, NEW x, ~(q < 0 /\ ~Inserts(j))
  PROVE  Put([qty |-> q, doc |-> d, price |-> p], j, x) =
           [qty |-> IF q < 0 THEN 0 ELSE q, doc |-> Merged(d, x), price |-> p]
<1> DEFINE it == [qty |-> q, doc |-> d, price |-> p]
<1>1. it.qty = q /\ it.doc = d
  OBVIOUS
<1>2. Put(it, j, x) = [it EXCEPT !.qty = IF q < 0 THEN 0 ELSE q, !.doc = Merged(d, x)]
  <2> HIDE DEF it
  <2> QED
    BY <1>1 DEF Put
<1> QED
  BY <1>2

\* A written row does to the tables, seen by sku, what it is to do.
Written(j, s) == IF s = This(j).sku THEN Put(Seen(s), j, This(j)) ELSE Seen(s)

LEMMA SeenWritesPrice ==
  ASSUME TypeInv, NEW j \in Jobs, Wrote(j), Kind[j] = "price", OneRow, OneRow', OnePrice',
         hit[j] # 0 => prices[hit[j]].product = Id(j), NEW s \in Skus
  PROVE  Seen(s)' = Written(j, s)
<1>0. /\ prices \in Seq(Price) /\ DOMAIN prices = 1..Len(prices) /\ Len(prices) \in Nat
      /\ products \in Seq(Product)
      /\ Apply(j) /\ Id(j) \in DOMAIN products /\ products[Id(j)].sku = This(j).sku
      /\ This(j).val \in Nat
      /\ hit[j] = 0 \/ hit[j] \in DOMAIN prices
  BY WritingAt, ThisType DEF TypeInv, TablesType, JobsOK, JobOK, Wrote
<1>1. products' = products
  BY <1>0 DEF Apply, WrittenProducts
<1> DEFINE i == IF hit[j] = 0 THEN Len(prices) + 1 ELSE hit[j]
<1>2. /\ i \in DOMAIN prices' /\ prices'[i].product = Id(j) /\ prices'[i].val = This(j).val
      /\ \A k \in DOMAIN prices : k # i => k \in DOMAIN prices' /\ prices'[k] = prices[k]
      /\ \A k \in DOMAIN prices' : k # i => k \in DOMAIN prices
      /\ i \in DOMAIN prices => prices[i].product = Id(j)
  <2>1. CASE hit[j] = 0
    <3> DEFINE x == [product |-> Id(j), val |-> This(j).val]
    <3>1. x \in Price /\ x.product = Id(j) /\ x.val = This(j).val
      <4>1. Id(j) \in Nat
        BY <1>0
      <4> QED
        BY <1>0, <4>1 DEF Price
    <3>2. prices' = Append(prices, x)
      BY <2>1, <1>0 DEF Apply, WrittenPrices
    <3> HIDE DEF x
    <3>3. /\ DOMAIN prices' = 1..(Len(prices) + 1) /\ prices'[Len(prices) + 1] = x
          /\ \A k \in DOMAIN prices : k \in DOMAIN prices' /\ prices'[k] = prices[k]
      BY <1>0, <3>1, <3>2, AppendIs
    <3> QED
      BY <1>0, <2>1, <3>1, <3>3
  <2>2. CASE hit[j] # 0
    <3> DEFINE x == [prices[hit[j]] EXCEPT !.val = This(j).val]
    <3>1. x \in Price /\ x.product = Id(j) /\ x.val = This(j).val /\ hit[j] \in DOMAIN prices
      <4>1. hit[j] \in DOMAIN prices
        BY <1>0, <2>2
      <4>2. prices[hit[j]] \in Price
        BY <1>0, <4>1
      <4> QED
        BY <1>0, <2>2, <4>1, <4>2 DEF Price
    <3>2. prices' = [prices EXCEPT ![hit[j]] = x]
      BY <2>2, <1>0 DEF Apply, WrittenPrices
    <3> HIDE DEF x
    <3>3. /\ DOMAIN prices' = DOMAIN prices /\ prices'[hit[j]] = x
          /\ \A k \in DOMAIN prices : k # hit[j] => prices'[k] = prices[k]
      BY <1>0, <3>1, <3>2, ChangeIs
    <3> QED
      BY <1>0, <2>2, <3>1, <3>3
  <2> QED
    BY <2>1, <2>2
<1> HIDE DEF i
<1>3. \A k \in DOMAIN prices' : prices'[k].product = Id(j) => k = i
  BY <1>2 DEF OnePrice
<1>4. /\ s = products[Id(j)].sku => Seen(s)' = [qty |-> Seen(s).qty, doc |-> Seen(s).doc, price |-> prices'[i].val]
      /\ s # products[Id(j)].sku => Seen(s)' = Seen(s)
  BY <1>0, <1>1, <1>2, <1>3, SeenPriced
<1>5. ASSUME s = This(j).sku
      PROVE  Put(Seen(s), j, This(j)) = [qty |-> Seen(s).qty, doc |-> Seen(s).doc, price |-> This(j).val]
  <2>1. Seen(s) = Shown(products, prices, Id(j))
    BY <1>0, <1>5, SeenIs
  <2>2. products[Id(j)].qty \in Nat
    <3>1. products[Id(j)] \in Product
      BY <1>0
    <3> QED
      BY <3>1 DEF Product
  <2> QED
    BY <2>1, <2>2 DEF Put, Shown
<1> QED
  BY <1>0, <1>2, <1>4, <1>5 DEF Written

LEMMA SeenWritesNew ==
  ASSUME TypeInv, NEW j \in Jobs, Wrote(j), NewProduct(j), NewSku(This(j).sku), OneRow, OneRow', NEW s \in Skus
  PROVE  Seen(s)' = Written(j, s)
<1>0. Apply(j) /\ This(j) \in Row /\ This(j).sku \in Skus /\ This(j).val \in Nat
  BY WritingAt, ThisType DEF Wrote
<1> DEFINE x == Created(This(j), Kind[j] = "dynamic")
<1>1. products' = Append(products, x) /\ prices' = prices
  BY <1>0 DEF NewProduct, Apply, WrittenProducts, Creates
<1>2. /\ x \in Product /\ x.sku = This(j).sku
      /\ x.qty = IF Kind[j] = "dynamic" THEN 0 ELSE This(j).val
      /\ x.doc = IF Kind[j] = "dynamic" THEN Merged(NoDoc, This(j)) ELSE NoDoc
  <2>1. CASE Kind[j] = "dynamic"
    BY <1>0, <2>1, MergedIs, NoDocIs, ProductIs DEF Created
  <2>2. CASE Kind[j] # "dynamic"
    BY <1>0, <2>2, NoDocIs, ProductIs DEF Created
  <2> QED
    BY <2>1, <2>2
<1> HIDE DEF x
<1>3. /\ s = x.sku => Seen(s)' = [qty |-> x.qty, doc |-> x.doc, price |-> 0]
      /\ s # x.sku => Seen(s)' = Seen(s)
  BY <1>1, <1>2, SeenAdd
<1>4. ASSUME s = This(j).sku PROVE Put(Seen(s), j, This(j)) = [qty |-> x.qty, doc |-> x.doc, price |-> 0]
  <2>1. Seen(s) = NoItem
    BY <1>4, SeenNone
  <2>2. Inserts(j) /\ Kind[j] # "price"
    BY DEF NewProduct, Inserts
  <2>3. CASE Kind[j] = "dynamic"
    BY <1>2, <2>1, <2>2, <2>3, PutDoc DEF NoItem
  <2>4. CASE Kind[j] # "dynamic"
    BY <1>2, <2>1, <2>2, <2>4 DEF Put, NoItem
  <2> QED
    BY <2>3, <2>4
<1> QED
  BY <1>2, <1>3, <1>4 DEF Written

LEMMA SeenWritesDoc ==
  ASSUME TypeInv, NEW j \in Jobs, Wrote(j), Documented(j), AsRead(j), OneRow, OneRow', NEW s \in Skus
  PROVE  Seen(s)' = Written(j, s)
<1>0. /\ products \in Seq(Product) /\ Running(j) /\ at[j] \in DOMAIN RowsOf[j] /\ Kind[j] = "dynamic"
      /\ Id(j) \in DOMAIN products /\ products[Id(j)].sku = This(j).sku /\ Id(j) # 0
      /\ at[j] \in at[j]..Len(RowsOf[j])
  <2>1. /\ products \in Seq(Product) /\ Running(j) /\ at[j] \in DOMAIN RowsOf[j] /\ Kind[j] = "dynamic"
        /\ Id(j) \in DOMAIN products /\ products[Id(j)].sku = This(j).sku /\ Id(j) # 0
        /\ at[j] \in Nat /\ at[j] <= Len(RowsOf[j])
    BY WritingAt, ThisType DEF TypeInv, TablesType, Wrote, Documented
  <2> QED
    BY <2>1, RowsType
<1>1. docs[j][This(j).sku] = products[Id(j)].doc
  BY <1>0 DEF AsRead, Id, This
<1>2. PICK x \in Product :
        /\ x.sku = products[Id(j)].sku /\ x.qty = products[Id(j)].qty
        /\ x.doc = Merged(docs[j][This(j).sku], This(j)) /\ products' = [products EXCEPT ![Id(j)] = x]
  BY DEF Documented
<1>3. /\ s = x.sku => Seen(s)' = [qty |-> x.qty, doc |-> x.doc, price |-> Seen(s).price]
      /\ s # x.sku => Seen(s)' = Seen(s)
  BY <1>0, <1>2, SeenChange DEF Documented
<1>4. ASSUME s = This(j).sku
      PROVE  Put(Seen(s), j, This(j)) = [qty |-> x.qty, doc |-> x.doc, price |-> Seen(s).price]
  <2>1. Seen(s) = Shown(products, prices, Id(j))
    BY <1>0, <1>4, SeenIs
  <2>2. products[Id(j)].qty \in Nat
    <3>1. products[Id(j)] \in Product
      BY <1>0
    <3> QED
      BY <3>1 DEF Product
  <2>3. Put(Shown(products, prices, Id(j)), j, This(j)) =
          [qty |-> products[Id(j)].qty, doc |-> Merged(products[Id(j)].doc, This(j)), price |-> PriceOf(prices, Id(j))]
    BY <1>0, <2>2, PutDoc DEF Shown
  <2> QED
    BY <1>1, <1>2, <2>1, <2>3 DEF Shown
<1> QED
  BY <1>0, <1>2, <1>3, <1>4 DEF Written

LEMMA SeenWritesCount ==
  ASSUME TypeInv, NEW j \in Jobs, Wrote(j), NEW p \in DOMAIN products, Counted(j, p), Ordinary(j),
         OneRow, OneRow', NEW s \in Skus
  PROVE  Seen(s)' = Written(j, s)
<1>0. /\ products \in Seq(Product) /\ at[j] \in DOMAIN RowsOf[j] /\ This(j).sku \in Skus
      /\ Kind[j] \in {"stock", "upsert", "catalog"}
  BY WritingAt, ThisType DEF TypeInv, TablesType, Wrote, Counted
<1>1. products[p].sku = This(j).sku
  <2>1. CASE Kind[j] = "stock"
    BY <2>1, WritingAt DEF Wrote, Counted
  <2>2. CASE Kind[j] # "stock"
    <3>1. pc[j] = "write" /\ p = hit[j] /\ hit[j] # 0 /\ Kind[j] # "price"
      BY <1>0, <2>2, WritingAt DEF Wrote, Counted, LooksUp
    <3>2. Like(This(j).sku, products[p].sku)
      BY <3>1 DEF TypeInv, JobsOK, JobOK
    <3>3. products[p].sku \in Skus
      <4>1. products[p] \in Product
        BY <1>0
      <4> QED
        BY <4>1 DEF Product
    <3>4. <<This(j).sku, products[p].sku>> \notin Wild
      BY <1>0, <3>3 DEF Ordinary, This
    <3> QED
      BY <3>2, <3>4 DEF Like
  <2> QED
    BY <2>1, <2>2
<1>2. PICK x \in Product : /\ x.sku = products[p].sku /\ x.qty = This(j).val /\ x.doc = products[p].doc
                           /\ products' = [products EXCEPT ![p] = x]
  BY DEF Counted
<1>3. /\ s = x.sku => Seen(s)' = [qty |-> x.qty, doc |-> x.doc, price |-> Seen(s).price]
      /\ s # x.sku => Seen(s)' = Seen(s)
  BY <1>2, SeenChange DEF Counted
<1>4. ASSUME s = This(j).sku
      PROVE  Put(Seen(s), j, This(j)) = [qty |-> x.qty, doc |-> x.doc, price |-> Seen(s).price]
  <2>1. Seen(s) = Shown(products, prices, p)
    BY <1>1, <1>4, SeenIs
  <2>2. products[p].qty \in Nat
    <3>1. products[p] \in Product
      BY <1>0
    <3> QED
      BY <3>1 DEF Product
  <2> QED
    BY <1>0, <1>2, <2>1, <2>2 DEF Put, Shown
<1> QED
  BY <1>1, <1>2, <1>3, <1>4 DEF Written

LEMMA SeenWrites ==
  ASSUME TypeInv, NEW j \in Jobs, Wrote(j), Ordinary(j), New(j), AsRead(j), OneRow, OneRow', OnePrice',
         Kind[j] = "price" /\ pc[j] = "write" /\ hit[j] # 0 => prices[hit[j]].product = Id(j), NEW s \in Skus
  PROVE  Seen(s)' = Written(j, s)
<1>1. CASE Kind[j] = "price"
  <2>1. pc[j] = "write"
    BY <1>1, WritingAt DEF Wrote, LooksUp
  <2> QED
    BY <1>1, <2>1, SeenWritesPrice
<1>2. CASE NewProduct(j)
  <2>1. NewSku(This(j).sku)
    <3>1. PICK x \in Product : x.sku = This(j).sku /\ NewSku(x.sku)
      BY <1>2, NewWrites
    <3> QED
      BY <3>1
  <2> QED
    BY <1>2, <2>1, SeenWritesNew
<1>3. CASE Documented(j)
  BY <1>3, SeenWritesDoc
<1>4. CASE \E p \in DOMAIN products : Counted(j, p)
  BY <1>4, SeenWritesCount
<1> QED
  BY <1>1, <1>2, <1>3, <1>4, WriteCases DEF Wrote, NewPrice, Repriced

\* Of rows for one sku, the later one counts.
LEMMA PutAgain ==
  ASSUME NEW it \in Item, NEW j \in Jobs, NEW x \in Row, NEW y \in Row, Kind[j] = "dynamic" => x = y
  PROVE  Put(Put(it, j, x), j, y) = Put(it, j, y)
<1>0. /\ x.val \in Nat /\ y.val \in Nat /\ x.val # 0 /\ it.qty \in Nat \cup {-1}
      /\ it = [qty |-> it.qty, doc |-> it.doc, price |-> it.price] /\ it.doc \in Doc
  BY DEF Row, Item
<1>1. CASE it.qty < 0 /\ ~Inserts(j)
  BY <1>1 DEF Put
<1>2. CASE ~(it.qty < 0 /\ ~Inserts(j)) /\ Kind[j] = "price"
  <2>1. it.qty >= 0
    BY <1>0, <1>2 DEF Inserts
  <2> QED
    BY <1>0, <1>2, <2>1 DEF Put
<1>3. CASE ~(it.qty < 0 /\ ~Inserts(j)) /\ Kind[j] = "dynamic"
  <2> DEFINE q == IF it.qty < 0 THEN 0 ELSE it.qty
             m == Put(it, j, x)
  <2>1. m = [qty |-> q, doc |-> Merged(it.doc, x), price |-> it.price]
    BY <1>0, <1>3 DEF Put
  <2>2. q \in Nat /\ ~(q < 0)
    BY <1>0
  <2>3. Merged(Merged(it.doc, x), x) = Merged(it.doc, x)
    <3>1. x.key \in Keys
      BY DEF Row
    <3> QED
      BY <1>0, <3>1 DEF Merged, Doc
  <2> HIDE DEF q, m
  <2>4. Put(m, j, x) = m
    BY <1>3, <2>1, <2>2, <2>3, PutDoc
  <2> QED
    BY <1>3, <2>4 DEF m
<1>4. CASE ~(it.qty < 0 /\ ~Inserts(j)) /\ Kind[j] # "price" /\ Kind[j] # "dynamic"
  BY <1>0, <1>4 DEF Put
<1> QED
  BY <1>1, <1>2, <1>3, <1>4

-----------------------------------------------------------------------------
(* Atomic in effect.  While a job is alone with the tables, they hold, for   *)
(* every sku, what the book says or what one of the job's rows makes of it;  *)
(* in a first attempt, or where no row for the sku is to come, it is the     *)
(* last row that was written.                                              *)

Resting(j) == pc[j] \in {"idle", "done"}

\* The rows of an attempt that are through, and those to come.
Upto(j) == IF pc[j] = "forward" THEN at[j] + 1 ELSE at[j]
Past(j, s) == {i \in Naming(j, s) \ lost[j] : i < Upto(j)}
Ahead(j, s) == {i \in Naming(j, s) : i >= Upto(j)}

Expected(j, s) ==
  IF Past(j, s) = {} THEN book[s] ELSE Put(book[s], j, RowsOf[j][Max(Past(j, s))])

\* What an attempt that failed may leave of a sku.
Left(j, s) ==
  Seen(s) = book[s] \/ \E i \in Naming(j, s) : Seen(s) = Put(book[s], j, RowsOf[j][i])

InOrder(j, s) ==
  (again[j] => lost[j] = {} /\ Ahead(j, s) = {}) => Seen(s) = Expected(j, s)

Attempt(j) ==
  /\ \A s \in Skus : InOrder(j, s)
  /\ \A i \in lost[j] : i < at[j]
  /\ Snapshots(j) /\ ~Inserts(j) => \A s \in Skus : ids[j][s] = 0 => book[s].qty < 0
  /\ Kind[j] = "price" /\ pc[j] = "write" /\ hit[j] # 0 => prices[hit[j]].product = Id(j)

Orderly ==
  /\ overlapped = {} /\ ~mixed /\ ~blind
  /\ \A n \in DOMAIN log : ~log[n].torn
  /\ AllOrdinary

Atomic ==
  /\ \A j, k \in Jobs : j # k => Resting(j) \/ Resting(k)
  /\ Quiet => \A s \in Skus : Seen(s) = book[s]
  /\ \A j \in Jobs : ~Resting(j) => \A s \in Skus : Left(j, s)
  /\ \A j \in Jobs : Running(j) => Attempt(j)

AtomInv == Orderly => Atomic

LEMMA OrderlyGives ==
  ASSUME TypeInv, PriceInv, ProductInv, DocInv, Orderly
  PROVE  OneRow /\ OnePrice /\ \A j \in Jobs : New(j) /\ AsRead(j)
<1>1. Apart /\ InsertsOnce /\ {"price"} \notin overlapped /\ {"dynamic"} \notin overlapped /\ AllOrdinary
  BY DEF Orderly, Apart, InsertsOnce, AllOrdinary
<1> QED
  BY <1>1 DEF PriceInv, ProductInv, DocInv, OnePrice

LEMMA OrderlyGivesNext ==
  ASSUME PriceInv', ProductInv', Orderly'
  PROVE  OneRow' /\ OnePrice'
<1>1. Apart' /\ InsertsOnce' /\ {"price"} \notin overlapped'
  BY DEF Orderly, Apart, InsertsOnce, AllOrdinary
<1> QED
  BY <1>1 DEF PriceInv, ProductInv, OnePrice

LEMMA OrderlyBefore ==
  ASSUME TypeInv, [Next]_vars, Orderly'
  PROVE  Orderly
<1>1. overlapped = {} /\ ~mixed /\ ~blind /\ AllOrdinary
  BY HistoryGrows DEF Orderly, AllOrdinary
<1>2. \A n \in DOMAIN log : ~log[n].torn
  BY HistoryGrows DEF Orderly
<1> QED
  BY <1>1, <1>2 DEF Orderly

LEMMA SeenStays ==
  ASSUME UNCHANGED tables, NEW s
  PROVE  Seen(s)' = Seen(s)
  BY DEF tables, Seen, Matching

LEMMA LeftStays ==
  ASSUME UNCHANGED tables, UNCHANGED book, NEW j, NEW s, Left(j, s)
  PROVE  Left(j, s)'
<1>1. Seen(s)' = Seen(s)
  BY SeenStays
<1> QED
  BY <1>1 DEF Left

LEMMA MaxIsThis ==
  ASSUME NEW n \in Nat, NEW I \in SUBSET (1..n), NEW m \in I, \A k \in I : k <= m
  PROVE  Max(I) = m
<1>1. Max(I) \in I /\ m <= Max(I) /\ Max(I) <= m
  BY MaxIs
<1>2. PICK x : x = Max(I)
  OBVIOUS
<1>3. x \in I
  BY <1>1, <1>2
<1>4. m <= x /\ x <= m
  BY <1>1, <1>2
<1>5. x \in 1..n /\ m \in 1..n
  BY <1>3
<1>6. x = m
  BY <1>4, <1>5
<1> QED
  BY <1>2, <1>6

\* A product that is known stays known.
LEMMA PutKnown ==
  ASSUME NEW it \in Item, NEW j \in Jobs, NEW x \in Row, it.qty >= 0
  PROVE  Put(it, j, x).qty >= 0
<1>1. it.qty \in Nat \cup {-1} /\ x.val \in Nat /\ it = [qty |-> it.qty, doc |-> it.doc, price |-> it.price]
  BY DEF Item, Row
<1>2. CASE Kind[j] = "dynamic"
  <2>1. Put([qty |-> it.qty, doc |-> it.doc, price |-> it.price], j, x) =
          [qty |-> IF it.qty < 0 THEN 0 ELSE it.qty, doc |-> Merged(it.doc, x), price |-> it.price]
    BY <1>1, <1>2, PutDoc
  <2> QED
    BY <1>1, <2>1
<1>3. CASE Kind[j] # "dynamic"
  BY <1>1, <1>3 DEF Put
<1> QED
  BY <1>2, <1>3

LEMMA NamingRows ==
  ASSUME NEW j \in Jobs, NEW s, NEW i \in Naming(j, s)
  PROVE  i \in 1..Len(RowsOf[j]) /\ i \in Nat /\ RowsOf[j][i] \in Row /\ RowsOf[j][i].sku = s
  BY RowsType DEF Naming

\* Where the next state puts one job, the others resting.
Own(j) ==
  /\ Resting(j)' => \A s \in Skus : Seen(s)' = book'[s]
  /\ ~Resting(j)' => \A s \in Skus : Left(j, s)'
  /\ Running(j)' => Attempt(j)'

LEMMA OwnIsEnough ==
  ASSUME TypeInv, NEW j \in Jobs, Step(j), \A k \in Jobs \ {j} : Resting(k), Own(j)
  PROVE  Atomic'
<1>1. \A k \in Jobs \ {j} : Resting(k)' /\ ~Running(k)'
  BY StepSound DEF Sound, Only, Resting, Running
<1>2. Quiet' => Resting(j)'
  BY DEF Quiet, Resting
<1> QED
  BY <1>1, <1>2 DEF Atomic, Own

\* While one job is in the middle, the others do nothing.
LEMMA Solitary ==
  ASSUME TypeInv, Orderly', Atomic, NEW j \in Jobs, Step(j), NEW k \in Jobs, k # j, ~Resting(k)
  PROVE  Repeat(j)
<1>1. Resting(j) /\ (Running(k) \/ pc[k] = "failed")
  BY DEF Atomic, Resting, Running, TypeInv, JobsType, Steps
<1>2. ~Running(j)
  BY <1>1 DEF Resting, Running
<1>3. ASSUME Begin(j) PROVE FALSE
  <2>1. CASE Running(k)
    <3>1. {Kind[j], Kind[k]} \in overlapped'
      BY <1>3, <2>1 DEF Begin
    <3> QED
      BY <3>1 DEF Orderly
  <2>2. CASE pc[k] = "failed"
    BY <1>3, <2>2 DEF Begin, Orderly
  <2> QED
    BY <1>1, <2>1, <2>2
<1>4. ~Writing(j)
  BY <1>2, WritingAt
<1> QED
  BY <1>2, <1>3, <1>4 DEF Step, Skip, Find, Write, Forward, Refuse, WriteFails, FindFails, ForwardFails, Finish,
                          AtRow, Running

LEMMA OwnFails ==
  ASSUME TypeInv, NEW j \in Jobs, \A s \in Skus : Left(j, s), UNCHANGED tables, UNCHANGED book, pc'[j] = "failed"
  PROVE  Own(j)
<1>1. \A s \in Skus : Left(j, s)'
  BY LeftStays
<1> QED
  BY <1>1 DEF Own, Resting, Running

LEMMA OwnBegin ==
  ASSUME TypeInv, Atomic, NEW j \in Jobs, Begin(j), \A k \in Jobs \ {j} : Resting(k)
  PROVE  Own(j)
<1>0. JobsType /\ pc[j] \in {"idle", "failed"} /\ UNCHANGED <<tables, book>> /\ book \in [Skus -> Item]
  BY DEF TypeInv, LogType, Begin
<1>1. /\ pc'[j] = "row" /\ at'[j] = 1 /\ lost'[j] = {} /\ UNCHANGED <<products, prices>>
      /\ again'[j] <=> pc[j] = "failed"
  <2>1. pc'[j] = "row" /\ at'[j] = 1 /\ lost'[j] = {} /\ UNCHANGED <<products, prices>>
    BY <1>0 DEF Begin, tables, JobsType
  <2>2. again'[j] = (pc[j] = "failed")
    <3>1. again' = [again EXCEPT ![j] = pc[j] = "failed"] /\ again \in [Jobs -> BOOLEAN]
      BY <1>0 DEF Begin, JobsType
    <3> QED
      BY <3>1, Zenon
  <2> QED
    BY <2>1, <2>2, Zenon
<1>2. pc[j] = "idle" => \A s \in Skus : Seen(s) = book[s]
  BY DEF Atomic, Quiet, Resting
<1>3. \A s \in Skus : Left(j, s)
  BY <1>0, <1>2 DEF Atomic, Left, Resting
<1>4. \A s \in Skus : Left(j, s)'
  BY <1>0, <1>3, LeftStays
<1>5. \A s \in Skus : Seen(s)' = Seen(s)
  BY <1>0, SeenStays
<1>6. ASSUME NEW s \in Skus PROVE InOrder(j, s)'
  <2>1. Upto(j)' = 1
    BY <1>1 DEF Upto
  <2>2. Past(j, s)' = {}
    BY <2>1, NamingRows DEF Past
  <2>3. Expected(j, s)' = book[s]
    BY <1>0, <2>2 DEF Expected
  <2>4. CASE pc[j] = "idle"
    BY <1>2, <1>5, <2>3, <2>4 DEF InOrder
  <2>5. CASE pc[j] = "failed"
    <3>1. SUFFICES ASSUME Ahead(j, s)' = {} PROVE Seen(s)' = Expected(j, s)'
      BY <1>1, <2>5 DEF InOrder
    <3>2. Naming(j, s) = {}
      BY <2>1, <3>1, NamingRows DEF Ahead
    <3> QED
      BY <1>3, <1>5, <2>3, <3>2 DEF Left
  <2> QED
    BY <1>0, <2>4, <2>5
<1>7. ASSUME Snapshots(j), ~Inserts(j), NEW s \in Skus, ids'[j][s] = 0 PROVE book'[s].qty < 0
  <2>1. PICK m \in SkuMaps : ids' = [ids EXCEPT ![j] = m]
    BY <1>7 DEF Begin
  <2>2. ids'[j] = m /\ m[s] = 0
    BY <1>0, <1>7, <2>1 DEF JobsType
  <2>3. 0 \notin Matching(s)
    BY DEF Matching, TypeInv, TablesType
  <2>4. NewSku(s)
    BY <2>2, <2>3 DEF SkuMaps, Matching, NewSku
  <2>5. Seen(s).qty = -1
    BY <2>4, SeenNone DEF NoItem
  <2>6. book[s] \in Item /\ book'[s] = book[s]
    BY <1>0
  <2>7. ASSUME book[s].qty >= 0 PROVE FALSE
    <3>1. Seen(s) # book[s]
      BY <2>5, <2>7
    <3>2. PICK i \in Naming(j, s) : Seen(s) = Put(book[s], j, RowsOf[j][i])
      BY <1>3, <3>1 DEF Left
    <3>3. Put(book[s], j, RowsOf[j][i]).qty >= 0
      BY <2>6, <2>7, NamingRows, PutKnown
    <3> QED
      BY <2>5, <3>2, <3>3
  <2> QED
    BY <2>6, <2>7 DEF Item
<1>8. Attempt(j)'
  BY <1>1, <1>6, <1>7 DEF Attempt, Snapshots, Inserts
<1> QED
  BY <1>1, <1>4, <1>8 DEF Own, Resting

\* The tables and the book stay, and the job is at the row it was at, or its
\* delivery is queued and it is at the next.
LEMMA OwnStays ==
  ASSUME TypeInv, Atomic, NEW j \in Jobs, Running(j), UNCHANGED tables, UNCHANGED book, Running(j)',
         Upto(j)' = Upto(j), at'[j] \in Nat, at'[j] >= at[j], lost'[j] = lost[j], ids'[j] = ids[j], again'[j] = again[j],
         Kind[j] = "price" /\ pc'[j] = "write" /\ hit'[j] # 0 => prices'[hit'[j]].product = Id(j)'
  PROVE  Own(j)
<1>0. Attempt(j) /\ \A s \in Skus : Left(j, s)
  BY DEF Atomic, Running, Resting
<1>1. \A s \in Skus : Left(j, s)'
  BY <1>0, LeftStays
<1>2. ASSUME NEW s \in Skus PROVE InOrder(j, s)'
  <2>1. Past(j, s)' = Past(j, s) /\ Ahead(j, s)' = Ahead(j, s)
    BY DEF Past, Ahead
  <2>2. Expected(j, s)' = Expected(j, s)
    BY <2>1 DEF Expected
  <2>3. Seen(s)' = Seen(s)
    BY SeenStays
  <2>4. InOrder(j, s)
    BY <1>0 DEF Attempt
  <2> QED
    BY <2>1, <2>2, <2>3, <2>4 DEF InOrder
<1>3. \A i \in lost'[j] : i < at'[j]
  <2>1. lost[j] \subseteq Nat /\ at[j] \in Nat
    BY DEF TypeInv, JobsType
  <2> QED
    BY <1>0, <2>1 DEF Attempt
<1>4. Attempt(j)'
  BY <1>0, <1>2, <1>3 DEF Attempt, Snapshots, Inserts
<1> QED
  BY <1>1, <1>4 DEF Own, Running, Resting

LEMMA OwnFinds ==
  ASSUME TypeInv, Atomic, NEW j \in Jobs, Find(j)
  PROVE  Own(j)
<1>0. JobsType /\ Running(j) /\ pc[j] = "row" /\ at[j] \in Nat
  BY DEF TypeInv, JobsType, Find, AtRow, Running
<1>1. /\ pc'[j] = "write" /\ UNCHANGED <<tables, at, ids, lost, again, book>> /\ Id(j)' = Id(j)
  BY <1>0 DEF Find, JobsType, history, Id, This
<1>2. PICK h \in (IF Candidates(j) = {} THEN {0} ELSE Candidates(j)) : hit' = [hit EXCEPT ![j] = h]
  BY DEF Find
<1>3. hit'[j] = h
  BY <1>0, <1>2 DEF JobsType
<1>4. Kind[j] = "price" /\ h # 0 => prices[h].product = Id(j)
  BY <1>2 DEF Candidates
<1>5. Upto(j)' = Upto(j) /\ Running(j)' /\ UNCHANGED prices
  BY <1>0, <1>1 DEF Upto, Running, tables
<1> QED
  BY <1>0, <1>1, <1>3, <1>4, <1>5, OwnStays

LEMMA OwnForward ==
  ASSUME TypeInv, Atomic, NEW j \in Jobs, Forward(j)
  PROVE  Own(j)
<1>0. JobsType /\ Running(j) /\ pc[j] = "forward" /\ at[j] \in Nat
  BY DEF TypeInv, JobsType, Forward, Running
<1>1. /\ pc'[j] = "row" /\ at'[j] = at[j] + 1 /\ UNCHANGED <<tables, ids, lost, again, book>>
  BY <1>0 DEF Forward, JobsType, history, view, Next1
<1>2. Upto(j)' = Upto(j) /\ Running(j)' /\ at'[j] \in Nat /\ at'[j] >= at[j]
  BY <1>0, <1>1 DEF Upto, Running
<1> QED
  BY <1>0, <1>1, <1>2, OwnStays

\* A row that is through, and the rows for other skus.
LEMMA PastOther ==
  ASSUME TypeInv, NEW j \in Jobs, at[j] \in DOMAIN RowsOf[j], Upto(j) = at[j], Upto(j)' = at[j] + 1,
         lost'[j] = lost[j] \/ lost'[j] = lost[j] \cup {at[j]}, NEW s, s # This(j).sku
  PROVE  Past(j, s)' = Past(j, s) /\ Ahead(j, s)' = Ahead(j, s)
<1>1. at[j] \in Nat /\ at[j] \notin Naming(j, s)
  BY DEF TypeInv, JobsType, Naming, This
<1>2. \A i \in Naming(j, s) : i \in Nat /\ i # at[j]
  BY <1>1, NamingRows
<1>3. Naming(j, s) \ lost'[j] = Naming(j, s) \ lost[j]
  BY <1>1
<1>4. Past(j, s)' = Past(j, s)
  <2>1. Past(j, s)' = {i \in Naming(j, s) \ lost[j] : i < at[j] + 1}
    BY <1>3 DEF Past
  <2>2. Past(j, s) = {i \in Naming(j, s) \ lost[j] : i < at[j]}
    BY DEF Past
  <2>3. \A i \in Naming(j, s) : i < at[j] + 1 <=> i < at[j]
    BY <1>1, <1>2
  <2> QED
    BY <2>1, <2>2, <2>3
<1>5. Ahead(j, s)' = Ahead(j, s)
  <2>1. \A i \in Naming(j, s) : i >= at[j] + 1 <=> i >= at[j]
    BY <1>1, <1>2
  <2> QED
    BY <2>1 DEF Ahead
<1> QED
  BY <1>4, <1>5

\* The next row: nothing is done to the tables.
LEMMA OwnSkips ==
  ASSUME TypeInv, Atomic, NEW j \in Jobs, Skip(j)
  PROVE  Own(j)
<1>0. /\ JobsType /\ Running(j) /\ pc[j] = "row" /\ at[j] \in Nat /\ Unknown(j) /\ at[j] <= Len(RowsOf[j])
      /\ Attempt(j) /\ \A s \in Skus : Left(j, s)
  BY DEF TypeInv, JobsType, Skip, AtRow, Running, Atomic, Resting
<1>1. /\ pc'[j] = "row" /\ at'[j] = at[j] + 1 /\ UNCHANGED <<tables, ids, lost, again, book>>
      /\ Upto(j) = at[j] /\ Upto(j)' = at[j] + 1
  BY <1>0 DEF Skip, JobsType, history, view, Next1, Upto
<1>2. at[j] \in DOMAIN RowsOf[j] /\ This(j).sku \in Skus
  BY <1>0, ThisType
<1>3. \A s \in Skus : Left(j, s)'
  BY <1>0, <1>1, LeftStays
<1>4. ~Inserts(j) /\ book[This(j).sku].qty < 0
  <2>1. Snapshots(j) /\ ~Inserts(j) /\ ids[j][This(j).sku] = 0
    BY <1>0 DEF Unknown, Snapshots, Inserts, Id
  <2> QED
    BY <1>0, <1>2, <2>1 DEF Attempt
<1>5. ASSUME NEW s \in Skus PROVE InOrder(j, s)'
  <2>1. Seen(s)' = Seen(s)
    BY <1>1, SeenStays
  <2>2. CASE s = This(j).sku
    <3>1. \A x : Put(book[s], j, x) = book[s]
      BY <1>4, <2>2 DEF Put
    <3>2. Seen(s) = book[s]
      BY <1>0, <3>1 DEF Left
    <3>3. Expected(j, s)' = book[s]
      BY <1>1, <3>1 DEF Expected, Put, Inserts
    <3> QED
      BY <2>1, <3>2, <3>3 DEF InOrder
  <2>3. CASE s # This(j).sku
    <3>1. Past(j, s)' = Past(j, s) /\ Ahead(j, s)' = Ahead(j, s)
      BY <1>1, <1>2, <2>3, PastOther
    <3>2. Expected(j, s)' = Expected(j, s)
      BY <1>1, <3>1 DEF Expected
    <3>3. InOrder(j, s)
      BY <1>0 DEF Attempt
    <3> QED
      BY <1>1, <2>1, <3>1, <3>2, <3>3 DEF InOrder
  <2> QED
    BY <2>2, <2>3
<1>6. \A i \in lost'[j] : i < at'[j]
  <2>1. lost[j] \subseteq Nat
    BY <1>0 DEF JobsType
  <2> QED
    BY <1>0, <1>1, <2>1 DEF Attempt
<1>7. Attempt(j)'
  BY <1>0, <1>1, <1>5, <1>6 DEF Attempt, Snapshots, Inserts
<1> QED
  BY <1>1, <1>3, <1>7 DEF Own, Resting

\* A row whose error is ignored is lost.
LEMMA OwnLoses ==
  ASSUME TypeInv, Atomic, NEW j \in Jobs, WriteFails(j, FALSE), Kind[j] \in {"dynamic", "catalog"}
  PROVE  Own(j)
<1>0. /\ JobsType /\ Running(j) /\ pc[j] \in {"row", "write"} /\ at[j] \in Nat /\ at[j] <= Len(RowsOf[j])
      /\ Attempt(j) /\ \A s \in Skus : Left(j, s)
  BY WritingAt DEF TypeInv, JobsType, WriteFails, Running, Atomic, Resting
<1>1. /\ pc'[j] = "row" /\ at'[j] = at[j] + 1 /\ UNCHANGED <<tables, ids, again, book>>
      /\ lost'[j] = lost[j] \cup {at[j]} /\ Upto(j) = at[j] /\ Upto(j)' = at[j] + 1
  BY <1>0 DEF WriteFails, GiveUp, JobsType, history, view, Next1, Upto
<1>2. \A s \in Skus : Left(j, s)'
  BY <1>0, <1>1, LeftStays
<1>3. ASSUME NEW s \in Skus, ~again[j] PROVE Seen(s)' = Expected(j, s)'
  <2>1. \A i \in Naming(j, s) : i \in Nat
    BY NamingRows
  <2>2. Past(j, s)' = {i \in Naming(j, s) \ (lost[j] \cup {at[j]}) : i < at[j] + 1}
    BY <1>1 DEF Past
  <2>3. Past(j, s)' = Past(j, s)
    <3>1. \A i \in Naming(j, s) : i \notin lost[j] \cup {at[j]} /\ i < at[j] + 1 <=> i \notin lost[j] /\ i < at[j]
      BY <1>0, <2>1
    <3> QED
      BY <1>1, <2>2, <3>1 DEF Past
  <2>4. Expected(j, s)' = Expected(j, s)
    BY <1>1, <2>3 DEF Expected
  <2>5. Seen(s) = Expected(j, s)
    BY <1>0, <1>3 DEF Attempt, InOrder
  <2> QED
    BY <1>1, <2>4, <2>5, SeenStays
<1>4. \A s \in Skus : InOrder(j, s)'
  BY <1>1, <1>3 DEF InOrder
<1>5. \A i \in lost'[j] : i < at'[j]
  <2>1. lost[j] \subseteq Nat
    BY <1>0 DEF JobsType
  <2> QED
    BY <1>0, <1>1, <2>1 DEF Attempt
<1>6. Attempt(j)'
  BY <1>0, <1>1, <1>4, <1>5 DEF Attempt, Snapshots, Inserts
<1> QED
  BY <1>1, <1>2, <1>6 DEF Own, Resting

\* A row that is written is the sku's last so far.
LEMMA OwnWrites ==
  ASSUME TypeInv, Atomic, NEW j \in Jobs, Wrote(j), lost'[j] = lost[j], at'[j] \in Nat, Ordinary(j),
         New(j), AsRead(j), OneRow, OneRow', OnePrice'
  PROVE  Own(j)
<1>0. /\ JobsType /\ Running(j) /\ pc[j] \in {"row", "write"} /\ at[j] \in Nat
      /\ at[j] \in DOMAIN RowsOf[j] /\ This(j).sku \in Skus /\ This(j) \in Row
      /\ Attempt(j) /\ (\A s \in Skus : Left(j, s)) /\ book \in [Skus -> Item]
  BY WritingAt, ThisType DEF TypeInv, JobsType, LogType, Wrote, Running, Atomic, Resting
<1>1. /\ UNCHANGED <<ids, again, book>> /\ Upto(j) = at[j]
      /\ pc'[j] \in {"row", "forward", "failed"} /\ at'[j] >= at[j]
      /\ pc'[j] # "failed" => Upto(j)' = at[j] + 1
  BY <1>0 DEF Wrote, view, history, Upto
<1>s. PICK s0 \in Skus : s0 = This(j).sku
  BY <1>0
<1>2. at[j] \in Naming(j, s0)
  BY <1>0, <1>s DEF Naming, This
<1>3. Put(Seen(s0), j, This(j)) = Put(book[s0], j, This(j))
  <2>1. CASE Seen(s0) = book[s0]
    BY <2>1
  <2>2. CASE Seen(s0) # book[s0]
    <3>1. PICK i \in Naming(j, s0) : Seen(s0) = Put(book[s0], j, RowsOf[j][i])
      BY <1>0, <2>2 DEF Left
    <3>2. Kind[j] = "dynamic" => i = at[j]
      BY <1>0, <1>s, <1>2 DEF Naming, Ordinary, This
    <3>3. RowsOf[j][i] \in Row /\ (Kind[j] = "dynamic" => RowsOf[j][i] = This(j))
      BY <3>2, NamingRows DEF This
    <3>4. book[s0] \in Item
      BY <1>0
    <3> QED
      BY <1>0, <3>1, <3>3, <3>4, PutAgain
  <2> QED
    BY <2>1, <2>2
<1>4. \A s \in Skus : Seen(s)' = Written(j, s)
  <2>1. Kind[j] = "price" /\ pc[j] = "write" /\ hit[j] # 0 => prices[hit[j]].product = Id(j)
    BY <1>0 DEF Attempt
  <2> QED
    BY <2>1, SeenWrites
<1>5. Seen(s0)' = Put(book[s0], j, This(j)) /\ \A s \in Skus : s # s0 => Seen(s)' = Seen(s)
  BY <1>0, <1>s, <1>3, <1>4 DEF Written
<1>6. ASSUME NEW s \in Skus PROVE Left(j, s)'
  <2>1. CASE s = s0
    BY <1>1, <1>2, <1>5, <2>1 DEF Left, This
  <2>2. CASE s # s0
    BY <1>0, <1>1, <1>5, <2>2 DEF Left
  <2> QED
    BY <2>1, <2>2
<1>7. ASSUME Running(j)', NEW s \in Skus PROVE InOrder(j, s)'
  <2>0. Upto(j)' = at[j] + 1
    BY <1>1, <1>7 DEF Running
  <2>1. CASE s = s0
    <3>1. at[j] \notin lost[j]
      BY <1>0 DEF Attempt
    <3>2. at[j] \in Past(j, s)'
      BY <1>0, <1>2, <2>0, <2>1, <3>1 DEF Past
    <3>3. Past(j, s)' \in SUBSET (1..Len(RowsOf[j])) /\ \A i \in Past(j, s)' : i <= at[j]
      BY <1>0, <2>0, NamingRows DEF Past
    <3>4. Max(Past(j, s)') = at[j]
      BY <3>2, <3>3, RowsType, MaxIsThis
    <3>5. Expected(j, s)' = Put(book[s], j, This(j))
      BY <1>1, <3>2, <3>4 DEF Expected, This, Put, Inserts
    <3> QED
      BY <1>5, <2>1, <3>5 DEF InOrder
  <2>2. CASE s # s0
    <3>1. Past(j, s)' = Past(j, s) /\ Ahead(j, s)' = Ahead(j, s)
      BY <1>0, <1>s, <1>1, <2>0, <2>2, PastOther
    <3>2. Expected(j, s)' = Expected(j, s)
      BY <1>1, <3>1 DEF Expected
    <3>3. InOrder(j, s)
      BY <1>0 DEF Attempt
    <3> QED
      BY <1>1, <1>5, <2>2, <3>1, <3>2, <3>3 DEF InOrder
  <2> QED
    BY <2>1, <2>2
<1>8. \A i \in lost'[j] : i < at'[j]
  <2>1. lost[j] \subseteq Nat
    BY <1>0 DEF JobsType
  <2> QED
    BY <1>0, <1>1, <2>1 DEF Attempt
<1>9. Running(j)' => Attempt(j)'
  BY <1>0, <1>1, <1>7, <1>8 DEF Attempt, Snapshots, Inserts
<1> QED
  BY <1>1, <1>6, <1>9 DEF Own, Resting

\* A job that is through is in the book.
LEMMA OwnFinishes ==
  ASSUME TypeInv, Atomic, Orderly', NEW j \in Jobs, Finish(j)
  PROVE  Own(j)
<1>0. /\ JobsType /\ LogType /\ Running(j) /\ pc[j] = "row" /\ at[j] \in Nat /\ at[j] > Len(RowsOf[j])
      /\ Attempt(j) /\ (\A s \in Skus : Left(j, s)) /\ UNCHANGED tables
  BY DEF TypeInv, JobsType, Finish, Running, Atomic, Resting
<1>1. CASE bad[j]
  BY <1>0, <1>1, OwnFails DEF Finish, JobsType
<1>2. CASE ~bad[j]
  <2> DEFINE e == [job |-> j, torn |-> again[j] /\ lost[j] # {}]
  <2>1. log' = Append(log, e) /\ book' = Whole(book, j, lost[j]) /\ pc'[j] = "done"
    BY <1>0, <1>2 DEF Finish, JobsType
  <2>2. e \in [job : Jobs, torn : BOOLEAN]
    <3>1. (again[j] /\ lost[j] # {}) \in BOOLEAN
      OBVIOUS
    <3> QED
      BY <3>1, Zenon
  <2>3. e.torn <=> again[j] /\ lost[j] # {}
    OBVIOUS
  <2> HIDE DEF e
  <2>4. Len(log) + 1 \in DOMAIN log' /\ log'[Len(log) + 1] = e
    BY <1>0, <2>1, <2>2, AppendIs DEF LogType
  <2>5. again[j] => lost[j] = {}
    BY <2>3, <2>4 DEF Orderly
  <2>6. ASSUME NEW s \in Skus PROVE Seen(s)' = book'[s]
    <3>1. Upto(j) = at[j] /\ Len(RowsOf[j]) \in Nat
      BY <1>0, RowsType DEF Upto
    <3>2. Ahead(j, s) = {} /\ Past(j, s) = Naming(j, s) \ lost[j]
      BY <1>0, <3>1, NamingRows DEF Ahead, Past
    <3>3. Seen(s) = Expected(j, s)
      BY <1>0, <2>5, <3>2 DEF Attempt, InOrder
    <3>4. Expected(j, s) = Whole(book, j, lost[j])[s]
      BY <3>2 DEF Expected, Whole
    <3> QED
      BY <1>0, <2>1, <3>3, <3>4, SeenStays
  <2> QED
    BY <2>1, <2>6 DEF Own, Resting, Running
<1> QED
  BY <1>1, <1>2

LEMMA OwnRepeats ==
  ASSUME TypeInv, Atomic, NEW j \in Jobs, Repeat(j), \A k \in Jobs \ {j} : Resting(k)
  PROVE  Own(j)
<1>1. pc'[j] = "idle" /\ pc[j] = "done" /\ UNCHANGED <<tables, book>>
  BY DEF Repeat, TypeInv, JobsType, history
<1>2. Quiet
  BY <1>1 DEF Quiet, Resting
<1>3. \A s \in Skus : Seen(s)' = book'[s]
  BY <1>1, <1>2, SeenStays DEF Atomic
<1> QED
  BY <1>1, <1>3 DEF Own, Resting, Running

\* A job that fails or crashes leaves the tables.
LEMMA OwnGivesUp ==
  ASSUME TypeInv, Atomic, NEW j \in Jobs,
         \/ FindFails(j) /\ ~blind'
         \/ ForwardFails(j) \/ Refuse(j)
         \/ WriteFails(j, FALSE) /\ Kind[j] \notin {"dynamic", "catalog"}
  PROVE  Own(j)
<1>0. JobsType /\ Running(j)
  BY WritingAt DEF TypeInv, FindFails, ForwardFails, Refuse, WriteFails, AtRow, Running
<1>1. UNCHANGED <<tables, book>>
  BY DEF FindFails, ForwardFails, Refuse, WriteFails, history
<1>2. pc'[j] = "failed"
  BY <1>0 DEF FindFails, ForwardFails, Refuse, WriteFails, GiveUp, JobsType
<1>3. \A s \in Skus : Left(j, s)
  BY <1>0 DEF Atomic, Running, Resting
<1> QED
  BY <1>1, <1>2, <1>3, OwnFails

LEMMA AtomHalts ==
  ASSUME TypeInv, Atomic, Halts
  PROVE  Atomic'
<1>0. UNCHANGED <<tables, prices, at, ids, hit, again, lost, book>>
  BY DEF Halts, view, tables
<1>1. \A j \in Jobs : pc'[j] = pc[j] \/ (Running(j) /\ pc'[j] = "failed")
  BY DEF Halts
<1>2. \A j \in Jobs : Resting(j)' <=> Resting(j)
  BY <1>1 DEF Resting, Running
<1>3. Quiet' <=> Quiet
  BY <1>2 DEF Quiet, Resting
<1>4. \A s \in Skus : Seen(s)' = Seen(s)
  BY <1>0, SeenStays
<1>5. ASSUME NEW j \in Jobs, ~Resting(j)' PROVE \A s \in Skus : Left(j, s)'
  BY <1>0, <1>2, <1>5, LeftStays DEF Atomic
<1>6. ASSUME NEW j \in Jobs, Running(j)' PROVE Attempt(j)'
  <2>1. pc'[j] = pc[j] /\ Running(j)
    BY <1>1, <1>6 DEF Running
  <2>2. Upto(j)' = Upto(j) /\ Id(j)' = Id(j)
    BY <1>0, <2>1 DEF Upto, Id, This
  <2>3. \A s \in Skus : InOrder(j, s)' <=> InOrder(j, s)
    BY <1>0, <1>4, <2>2 DEF InOrder, Expected, Ahead, Past, Put, Inserts
  <2>4. Attempt(j)
    BY <2>1 DEF Atomic
  <2> QED
    BY <1>0, <2>1, <2>2, <2>3, <2>4 DEF Attempt, Snapshots, Inserts
<1> QED
  BY <1>0, <1>2, <1>3, <1>4, <1>5, <1>6 DEF Atomic

\* Another job comes again while one is in the middle.
LEMMA AtomRepeats ==
  ASSUME TypeInv, Atomic, NEW j \in Jobs, Repeat(j)
  PROVE  Atomic'
<1>0. /\ pc'[j] = "idle" /\ pc[j] = "done" /\ \A k \in Jobs \ {j} : pc'[k] = pc[k]
      /\ UNCHANGED <<tables, prices, at, ids, hit, again, lost, book>>
  BY DEF Repeat, TypeInv, JobsType, history, view, tables
<1>1. \A k \in Jobs : /\ Resting(k)' <=> Resting(k)
                      /\ Running(k)' <=> Running(k)
  BY <1>0 DEF Resting, Running
<1>2. Quiet' <=> Quiet
  BY <1>1 DEF Quiet, Resting
<1>3. \A s \in Skus : Seen(s)' = Seen(s)
  BY <1>0, SeenStays
<1>4. ASSUME NEW k \in Jobs, ~Resting(k)' PROVE \A s \in Skus : Left(k, s)'
  BY <1>0, <1>1, <1>4, LeftStays DEF Atomic
<1>5. ASSUME NEW k \in Jobs, Running(k)' PROVE Attempt(k)'
  <2>1. pc'[k] = pc[k] /\ Running(k)
    BY <1>0, <1>1, <1>5 DEF Running
  <2>2. Upto(k)' = Upto(k) /\ Id(k)' = Id(k)
    BY <1>0, <2>1 DEF Upto, Id, This
  <2>3. \A s \in Skus : InOrder(k, s)' <=> InOrder(k, s)
    BY <1>0, <1>3, <2>2 DEF InOrder, Expected, Ahead, Past, Put, Inserts
  <2>4. Attempt(k)
    BY <2>1 DEF Atomic
  <2> QED
    BY <1>0, <2>1, <2>2, <2>3, <2>4 DEF Attempt, Snapshots, Inserts
<1> QED
  BY <1>0, <1>1, <1>2, <1>3, <1>4, <1>5 DEF Atomic

LEMMA AtomStep ==
  TypeInv /\ PriceInv /\ ProductInv /\ DocInv /\ AtomInv /\ [Next]_vars => AtomInv'
<1> SUFFICES ASSUME TypeInv, PriceInv, ProductInv, DocInv, AtomInv, [Next]_vars, Orderly' PROVE Atomic'
  BY DEF AtomInv
<1>1. Orderly /\ Atomic
  BY OrderlyBefore DEF AtomInv
<1>2. OneRow /\ (\A j \in Jobs : New(j) /\ AsRead(j)) /\ OneRow' /\ OnePrice'
  BY <1>1, OrderlyGives, OrderlyGivesNext, PriceStep, ProductStep
<1>3. ASSUME NEW j \in Jobs, Step(j), \A k \in Jobs \ {j} : Resting(k) PROVE Own(j)
  <2>0. Sound(j) /\ at'[j] \in Nat /\ JobsType
    BY <1>3, StepSound DEF Sound, JobsType, TypeInv
  <2>1. ASSUME Wrote(j), lost'[j] = lost[j] PROVE Own(j)
    <3>1. Ordinary(j)
      <4>1. Running(j)
        BY <2>1, WritingAt DEF Wrote
      <4>2. j \in Came
        BY <4>1 DEF Running, Came
      <4> QED
        BY <1>1, <4>2 DEF Orderly, AllOrdinary
    <3> QED
      BY <1>1, <1>2, <2>0, <2>1, <3>1, OwnWrites
  <2>2. CASE Write(j)
    <3>1. Wrote(j) /\ lost' = lost
      BY <2>0, <2>2 DEF Write, Wrote, Forwards, JobsType, Next1
    <3> QED
      BY <2>1, <3>1
  <2>3. CASE WriteFails(j, TRUE)
    <3>1. Wrote(j) /\ lost'[j] = lost[j]
      BY <2>0, <2>3 DEF WriteFails, GiveUp, Wrote, JobsType, Next1
    <3> QED
      BY <2>1, <3>1
  <2>4. CASE WriteFails(j, FALSE)
    BY <1>1, <2>4, OwnLoses, OwnGivesUp
  <2>5. CASE Begin(j)
    BY <1>1, <1>3, <2>5, OwnBegin
  <2>6. CASE Repeat(j)
    BY <1>1, <1>3, <2>6, OwnRepeats
  <2>7. CASE Skip(j) \/ Find(j) \/ Forward(j) \/ Finish(j)
    BY <1>1, <2>7, OwnSkips, OwnFinds, OwnForward, OwnFinishes
  <2>8. CASE FindFails(j) \/ ForwardFails(j) \/ Refuse(j)
    BY <1>1, <2>8, OwnGivesUp DEF Orderly
  <2> QED
    BY <1>3, <2>2, <2>3, <2>4, <2>5, <2>6, <2>7, <2>8 DEF Step
<1>4. ASSUME NEW j \in Jobs, Step(j) PROVE Atomic'
  <2>1. CASE \A k \in Jobs \ {j} : Resting(k)
    BY <1>3, <1>4, <2>1, OwnIsEnough
  <2>2. CASE ~(\A k \in Jobs \ {j} : Resting(k))
    BY <1>1, <1>4, <2>2, Solitary, AtomRepeats
  <2> QED
    BY <2>1, <2>2
<1> QED
  BY <1>1, <1>4, AtomHalts, NextKinds

-----------------------------------------------------------------------------
(* What the book says of a job is what its rows do, one after the other.   *)

\* f[n]: the tables after the first n rows, without the rows that are gone.
OneByOne(f, tab, j, gone) ==
  /\ f \in [0..Len(RowsOf[j]) -> [Skus -> Item]]
  /\ f[0] = tab
  /\ \A n \in DOMAIN RowsOf[j] :
       f[n] = IF n \in gone THEN f[n - 1]
              ELSE [f[n - 1] EXCEPT ![RowsOf[j][n].sku] = Put(f[n - 1][RowsOf[j][n].sku], j, RowsOf[j][n])]

Until(j, s, gone, n) == {i \in Naming(j, s) \ gone : i <= n}
WholeUntil(item, j, s, gone, n) ==
  IF Until(j, s, gone, n) = {} THEN item ELSE Put(item, j, RowsOf[j][Max(Until(j, s, gone, n))])

LEMMA UntilIs ==
  ASSUME NEW j \in Jobs, NEW s, NEW gone, NEW n, Until(j, s, gone, n) # {}
  PROVE  /\ Max(Until(j, s, gone, n)) \in Naming(j, s) \ gone
         /\ \A k \in Until(j, s, gone, n) : k <= Max(Until(j, s, gone, n))
<1>1. Len(RowsOf[j]) \in Nat /\ Until(j, s, gone, n) \in SUBSET (1..Len(RowsOf[j]))
  BY RowsType DEF Until, Naming
<1>2. Max(Until(j, s, gone, n)) \in Until(j, s, gone, n) /\ \A k \in Until(j, s, gone, n) : k <= Max(Until(j, s, gone, n))
  BY <1>1, MaxIs
<1> QED
  BY <1>2 DEF Until

\* One row more.
LEMMA UntilNext ==
  ASSUME NEW j \in Jobs, Ordinary(j), NEW s, NEW gone, NEW n \in DOMAIN RowsOf[j], NEW item \in Item
  PROVE  WholeUntil(item, j, s, gone, n) =
           IF n \in gone \/ RowsOf[j][n].sku # s THEN WholeUntil(item, j, s, gone, n - 1)
           ELSE Put(WholeUntil(item, j, s, gone, n - 1), j, RowsOf[j][n])
<1>0. n \in 1..Len(RowsOf[j]) /\ n \in Nat /\ Len(RowsOf[j]) \in Nat /\ RowsOf[j][n] \in Row
  BY RowsType
<1>1. CASE n \in gone \/ RowsOf[j][n].sku # s
  <2>1. Until(j, s, gone, n) = Until(j, s, gone, n - 1)
    BY <1>0, <1>1, NamingRows DEF Until, Naming
  <2> QED
    BY <1>1, <2>1 DEF WholeUntil
<1>2. CASE ~(n \in gone \/ RowsOf[j][n].sku # s)
  <2>1. n \in Until(j, s, gone, n) /\ Until(j, s, gone, n) \in SUBSET (1..Len(RowsOf[j]))
        /\ \A k \in Until(j, s, gone, n) : k <= n
    BY <1>0, <1>2, NamingRows DEF Until, Naming
  <2>2. Max(Until(j, s, gone, n)) = n
    BY <1>0, <2>1, MaxIsThis
  <2>3. WholeUntil(item, j, s, gone, n) = Put(item, j, RowsOf[j][n])
    BY <2>1, <2>2 DEF WholeUntil
  <2>4. CASE Until(j, s, gone, n - 1) = {}
    BY <1>2, <2>3, <2>4 DEF WholeUntil
  <2>5. CASE Until(j, s, gone, n - 1) # {}
    <3>1. PICK i : i = Max(Until(j, s, gone, n - 1))
      OBVIOUS
    <3>2. i \in Until(j, s, gone, n - 1)
      <4>1. Len(RowsOf[j]) \in Nat /\ Until(j, s, gone, n - 1) \in SUBSET (1..Len(RowsOf[j]))
        BY RowsType DEF Until, Naming
      <4> QED
        BY <2>5, <3>1, <4>1, MaxIs
    <3>3. i \in Naming(j, s) /\ i <= n - 1
      BY <3>2 DEF Until
    <3>4. i \in DOMAIN RowsOf[j] /\ i # n /\ RowsOf[j][i].sku = s /\ RowsOf[j][i] \in Row
      <4>1. i \in Nat /\ RowsOf[j][i] \in Row /\ RowsOf[j][i].sku = s
        BY <3>3, NamingRows
      <4> QED
        BY <1>0, <3>3, <4>1 DEF Naming
    <3>5. Kind[j] # "dynamic"
      BY <1>2, <3>4 DEF Ordinary
    <3>6. WholeUntil(item, j, s, gone, n - 1) = Put(item, j, RowsOf[j][i])
      BY <2>5, <3>1 DEF WholeUntil
    <3>7. Put(Put(item, j, RowsOf[j][i]), j, RowsOf[j][n]) = Put(item, j, RowsOf[j][n])
      BY <1>0, <3>4, <3>5, PutAgain
    <3> QED
      BY <1>2, <2>3, <3>6, <3>7
  <2> QED
    BY <2>4, <2>5
<1> QED
  BY <1>1, <1>2

\* The book's step is no more than the rows of a job taken one after the other.
LEMMA RowByRow ==
  ASSUME NEW j \in Jobs, Ordinary(j), NEW tab \in [Skus -> Item], NEW gone, NEW f, OneByOne(f, tab, j, gone)
  PROVE  f[Len(RowsOf[j])] = Whole(tab, j, gone)
<1> DEFINE N == Len(RowsOf[j])
           S == {n \in Nat : n <= N => \A s \in Skus : f[n][s] = WholeUntil(tab[s], j, s, gone, n)}
<1>0. N \in Nat /\ DOMAIN RowsOf[j] = 1..N /\ \A n \in 1..N : RowsOf[j][n] \in Row
  BY RowsType
<1>1. 0 \in S
  <2>1. ASSUME NEW s \in Skus PROVE Until(j, s, gone, 0) = {}
    BY NamingRows DEF Until
  <2> QED
    BY <2>1 DEF OneByOne, WholeUntil
<1>2. ASSUME NEW n \in Nat, n \in S PROVE n + 1 \in S
  <2> SUFFICES ASSUME n + 1 <= N, NEW s \in Skus
               PROVE  f[n + 1][s] = WholeUntil(tab[s], j, s, gone, n + 1)
    OBVIOUS
  <2>1. n + 1 \in 1..N /\ n \in 0..N /\ (n + 1) - 1 = n /\ n <= N
    BY <1>0
  <2>2. f[n][s] = WholeUntil(tab[s], j, s, gone, n)
    BY <1>2, <2>1
  <2>3. f[n] \in [Skus -> Item]
    BY <2>1 DEF OneByOne
  <2>4. f[n + 1] = IF n + 1 \in gone THEN f[n]
                   ELSE [f[n] EXCEPT ![RowsOf[j][n + 1].sku] = Put(f[n][RowsOf[j][n + 1].sku], j, RowsOf[j][n + 1])]
    BY <1>0, <2>1 DEF OneByOne
  <2>5. f[n + 1][s] = IF n + 1 \in gone \/ RowsOf[j][n + 1].sku # s THEN f[n][s]
                      ELSE Put(f[n][s], j, RowsOf[j][n + 1])
    <3> HIDE DEF N, S
    <3> QED
      BY <2>3, <2>4
  <2>6. WholeUntil(tab[s], j, s, gone, n + 1) =
          IF n + 1 \in gone \/ RowsOf[j][n + 1].sku # s THEN WholeUntil(tab[s], j, s, gone, n)
          ELSE Put(WholeUntil(tab[s], j, s, gone, n), j, RowsOf[j][n + 1])
    <3>1. tab[s] \in Item /\ n + 1 \in DOMAIN RowsOf[j]
      BY <1>0, <2>1
    <3> DEFINE m == n + 1
    <3>2. m \in DOMAIN RowsOf[j] /\ m - 1 = n
      BY <2>1, <3>1
    <3> HIDE DEF N, S, m
    <3>3. WholeUntil(tab[s], j, s, gone, m) =
            IF m \in gone \/ RowsOf[j][m].sku # s THEN WholeUntil(tab[s], j, s, gone, m - 1)
            ELSE Put(WholeUntil(tab[s], j, s, gone, m - 1), j, RowsOf[j][m])
      BY <3>1, <3>2, UntilNext
    <3> QED
      BY <3>2, <3>3 DEF m
  <2> QED
    BY <2>2, <2>5, <2>6
<1>3. N \in S
  <2> HIDE DEF S
  <2> QED
    BY <1>0, <1>1, <1>2, SetInduction
<1>4. ASSUME NEW s \in Skus PROVE f[N][s] = Whole(tab, j, gone)[s]
  <2>1. Until(j, s, gone, N) = Naming(j, s) \ gone
    BY <1>0 DEF Until, Naming
  <2>2. f[N][s] = WholeUntil(tab[s], j, s, gone, N)
    BY <1>0, <1>3
  <2> QED
    BY <2>1, <2>2 DEF WholeUntil, Whole
<1>5. f[N] \in [Skus -> Item] /\ Whole(tab, j, gone) \in [Skus -> Item]
  BY <1>0, WholeType DEF OneByOne
<1> QED
  BY <1>4, <1>5

-----------------------------------------------------------------------------
(* At first.                                                               *)

LEMMA PriceInit == Init => PriceInv
  BY SoloInit DEF Init, PriceInv

\* A function onto a set of the same size is one to one.
LEMMA OntoIsOneToOne ==
  ASSUME NEW S, NEW T, IsFiniteSet(S), Cardinality(S) = Cardinality(T), NEW f \in Surjection(S, T)
  PROVE  \A i, k \in S : f[i] = f[k] => i = k
<1>1. f \in Injection(S, T)
  BY FS_SurjSameCardinalityImpliesInj
<1> QED
  BY <1>1 DEF Injection, IsInjective

\* As many products as listed skus, and every listed sku there is: no sku
\* has two.
LEMMA OneRowInit == Init => OneRow
<1> SUFFICES ASSUME Init PROVE OneRow
  OBVIOUS
<1> DEFINE N == 1..Cardinality(Listed)
           f == [i \in N |-> products[i].sku]
<1>1. /\ products \in [N -> [sku : Listed, qty : {0}, doc : {NoDoc}]]
      /\ \A s \in Listed : \E i \in DOMAIN products : products[i].sku = s
  BY DEF Init
<1>2. f \in Surjection(N, Listed)
  BY <1>1 DEF Surjection
<1>3. Cardinality(Listed) \in Nat
  BY IngestAssumption, FS_CardinalityType
<1>4. IsFiniteSet(N) /\ Cardinality(N) = Cardinality(Listed)
  BY <1>3, FS_Interval
<1> HIDE DEF f, N
<1>5. \A i, k \in N : f[i] = f[k] => i = k
  BY <1>2, <1>4, OntoIsOneToOne
<1> QED
  BY <1>1, <1>5 DEF OneRow, f

LEMMA ProductInit == Init => ProductInv
<1> SUFFICES ASSUME Init PROVE ProductInv
  OBVIOUS
<1>1. \A j \in Jobs : pc[j] = "idle"
  BY DEF Init
<1> QED
  BY <1>1, OneRowInit, SoloInit DEF ProductInv, New, Running

LEMMA DocInit == Init => DocInv
<1> SUFFICES ASSUME Init PROVE DocInv
  OBVIOUS
<1>1. \A j \in Jobs : pc[j] = "idle"
  BY DEF Init
<1> QED
  BY <1>1, SoloInit DEF DocInv, AsRead, Running

LEMMA LastInit == Init => LastInv
<1> SUFFICES ASSUME Init, NEW p \in DOMAIN products PROVE products[p].qty = 0
  BY DEF LastInv, Settled
<1>1. products \in [1..Cardinality(Listed) -> [sku : Listed, qty : {0}, doc : {NoDoc}]]
  BY DEF Init
<1> QED
  BY <1>1

\* No job has begun, and the book holds what the tables hold.
LEMMA AtomInit == Init => AtomInv
<1> SUFFICES ASSUME Init PROVE Atomic
  BY DEF AtomInv
<1>1. \A j \in Jobs : pc[j] = "idle"
  BY DEF Init
<1>2. ASSUME NEW s \in Skus PROVE Seen(s) = book[s]
  <2>0. /\ products \in [1..Cardinality(Listed) -> [sku : Listed, qty : {0}, doc : {NoDoc}]]
        /\ \A l \in Listed : \E i \in DOMAIN products : products[i].sku = l
        /\ prices = <<>>
        /\ book[s] = [qty |-> IF s \in Listed THEN 0 ELSE -1, doc |-> NoDoc, price |-> 0]
    BY <1>2 DEF Init
  <2>1. CASE s \in Listed
    <3>1. PICK p \in DOMAIN products : products[p].sku = s
      BY <2>0, <2>1
    <3>2. products[p].qty = 0 /\ products[p].doc = NoDoc
      BY <2>0
    <3>3. PriceOf(prices, p) = 0
      BY <2>0, PriceIs
    <3>4. Seen(s) = Shown(products, prices, p)
      BY <3>1, OneRowInit, SeenIs
    <3> QED
      BY <2>0, <2>1, <3>2, <3>3, <3>4 DEF Shown
  <2>2. CASE s \notin Listed
    <3>1. NewSku(s)
      BY <2>0, <2>2 DEF NewSku
    <3> QED
      BY <2>0, <2>2, <3>1, SeenNone DEF NoItem
  <2> QED
    BY <2>1, <2>2
<1> QED
  BY <1>1, <1>2 DEF Atomic, Resting, Running

-----------------------------------------------------------------------------
(* The theorems.                                                           *)

\* TypeInv is an invariant, and the other invariants with it.
LEMMA IngestTypes == Spec => []TypeInv
<1>1. Init => TypeInv
  BY TypeInit
<1>2. TypeInv /\ [Next]_vars => TypeInv'
  BY TypeStep
<1> QED
  BY <1>1, <1>2, PTL DEF Spec

\* The tables are sound whatever overlaps, fails and crashes (inventory.ts,
\* dynamic.ts, resources.ts, connector.ts): a product has one list price
\* unless two price jobs overlapped, a sku one product row unless two
\* creating jobs overlapped, an inserting job had it twice, or the catalog
\* sync took a failed look-up for an empty one.
THEOREM IngestSound == Spec => []TablesSound
<1>1. TypeInv /\ PriceInv /\ ProductInv => TablesSound
  BY TypeInvIsEnough DEF PriceInv, ProductInv, Apart, InsertsOnce, OneRow, TablesSound, OneListPrice, OneProduct
<1>2. Init => PriceInv /\ ProductInv
  BY PriceInit, ProductInit
<1>3. TypeInv /\ PriceInv /\ ProductInv /\ [Next]_vars => PriceInv' /\ ProductInv'
  BY PriceStep, ProductStep
<1> QED
  BY <1>1, <1>2, <1>3, IngestTypes, PTL DEF Spec

\* Every finished upsert of a connected org has queued its delivery for the
\* hub, however often the request failed and came again (resources.ts:126).
THEOREM IngestForwarded == Spec => []UpsertForwarded
<1>1. TypeInv /\ ForwardInv => UpsertForwarded
  <2> SUFFICES ASSUME TypeInv, ForwardInv, NEW j \in Jobs, Connected, Kind[j] = "upsert"
               PROVE  forwards[j] >= Count(j)
    BY DEF UpsertForwarded, Count, Finished
  <2>1. forwards[j] >= Count(j) + (IF Running(j) /\ at[j] > 1 THEN 1 ELSE 0)
    BY DEF ForwardInv, ForwardOK
  <2>2. forwards[j] \in Nat /\ Count(j) \in Nat
    BY CountType DEF TypeInv, JobsType
  <2> QED
    BY <2>1, <2>2
<1>2. Init => ForwardInv
  BY ForwardInit
<1>3. TypeInv /\ ForwardInv /\ [Next]_vars => ForwardInv'
  BY ForwardStep
<1> QED
  BY <1>1, <1>2, <1>3, IngestTypes, PTL DEF Spec

\* No step loses a key of a document, though dynamic jobs write documents
\* from a snapshot (dynamic.ts), unless two of them overlapped or one has a
\* sku twice.
THEOREM IngestKeysKept == Spec => KeysKept
<1>1. Init => DocInv
  BY DocInit
<1>2. TypeInv /\ DocInv /\ [Next]_vars => DocInv'
  BY DocStep
<1>3. TypeInv /\ DocInv /\ [Next]_vars =>
        [{"dynamic"} \notin overlapped' /\ (\A j \in Came : Ordinary(j)) =>
           \A p \in DOMAIN products, k \in Keys :
             products[p].doc[k] # 0 => products'[p].doc[k] # 0]_vars
  BY KeysStay DEF AllOrdinary
<1> QED
  BY <1>1, <1>2, <1>3, IngestTypes, PTL DEF Spec, KeysKept

\* Once the jobs are through, a quantity is some job's last word on the sku,
\* whatever failed half way and started over, for jobs that name a sku once
\* (a stock file may name it often: its last row counts).
THEOREM IngestLastRow == ASSUME Uniform PROVE Spec => []LastRowWins
<1>1. TypeInv /\ LastInv => LastRowWins
  <2> SUFFICES ASSUME LastInv, Quiet, Apart, NEW p \in DOMAIN products, products[p].qty # 0
               PROVE  LastRow(products[p].sku, products[p].qty)
    BY DEF LastRowWins, LastRow, LastRowOf, Apart
  <2>1. ~Coming(p)
    BY DEF Coming, ComingBy, Quiet
  <2> QED
    BY <2>1 DEF LastInv, Settled
<1>2. Init => ProductInv /\ LastInv
  BY ProductInit, LastInit
<1>3. TypeInv /\ ProductInv /\ LastInv /\ [Next]_vars => ProductInv' /\ LastInv'
  BY ProductStep, LastStep
<1> QED
  BY <1>1, <1>2, <1>3, IngestTypes, PTL DEF Spec

\* A job that runs by itself is atomic in effect though it writes row by row
\* without a transaction (inventory.ts, dynamic.ts, resources.ts): however
\* often it failed half way, crashed or came again, once it is through the
\* tables are those of the finished jobs, each applied whole, in order.
THEOREM IngestAtomic == Spec => []AtomicIngest
<1>1. AtomInv => AtomicIngest
  BY DEF AtomInv, Atomic, Orderly, AllOrdinary, AtomicIngest
<1>2. Init => PriceInv /\ ProductInv /\ DocInv /\ AtomInv
  BY PriceInit, ProductInit, DocInit, AtomInit
<1>3. TypeInv /\ PriceInv /\ ProductInv /\ DocInv /\ AtomInv /\ [Next]_vars =>
        PriceInv' /\ ProductInv' /\ DocInv' /\ AtomInv'
  BY PriceStep, ProductStep, DocStep, AtomStep
<1> QED
  BY <1>1, <1>2, <1>3, IngestTypes, PTL DEF Spec

\* When a job gets through that never met another, the tables are what its
\* rows make of the tables as the jobs before it left them, one row after the
\* other as inventory.ts, dynamic.ts and connector.ts loop over them (without
\* those whose error was ignored): whatever its earlier attempts had written
\* and whatever of that its last attempt wrote again.
THEOREM IngestRowByRow ==
  Spec => [][\A j \in Jobs :
               /\ Finish(j) /\ (Quiet /\ overlapped = {} /\ ~mixed /\ ~blind)'
               /\ (\A n \in DOMAIN log : ~log[n].torn)' /\ (\A k \in Came : Ordinary(k))'
               => \A f : OneByOne(f, book, j, lost[j]) =>
                    \A s \in Skus : Seen(s)' = f[Len(RowsOf[j])][s]]_vars
<1>1. ASSUME TypeInv, AtomicIngest', NEW j \in Jobs, Finish(j),
             (Quiet /\ overlapped = {} /\ ~mixed /\ ~blind)',
             (\A n \in DOMAIN log : ~log[n].torn)', (\A k \in Came : Ordinary(k))',
             NEW f, OneByOne(f, book, j, lost[j]), NEW s \in Skus
      PROVE  Seen(s)' = f[Len(RowsOf[j])][s]
  <2>1. Seen(s)' = book'[s]
    BY <1>1 DEF AtomicIngest
  <2>2. pc'[j] # "failed" /\ pc \in [Jobs -> Steps]
    BY <1>1 DEF Quiet, TypeInv, JobsType
  <2>3. pc'[j] = "done" /\ book' = Whole(book, j, lost[j])
    BY <1>1, <2>2 DEF Finish
  <2>4. Ordinary(j)
    BY <1>1, <2>3 DEF Came, Ordinary
  <2>5. book \in [Skus -> Item]
    BY <1>1 DEF TypeInv, LogType
  <2> QED
    BY <1>1, <2>1, <2>3, <2>4, <2>5, RowByRow
<1>2. TypeInv /\ AtomicIngest' =>
        [\A j \in Jobs :
           /\ Finish(j) /\ (Quiet /\ overlapped = {} /\ ~mixed /\ ~blind)'
           /\ (\A n \in DOMAIN log : ~log[n].torn)' /\ (\A k \in Came : Ordinary(k))'
           => \A f : OneByOne(f, book, j, lost[j]) =>
                \A s \in Skus : Seen(s)' = f[Len(RowsOf[j])][s]]_vars
  BY <1>1
<1> QED
  BY <1>2, IngestTypes, IngestAtomic, PTL
=============================================================================
