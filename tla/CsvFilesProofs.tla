--------------------------- MODULE CsvFilesProofs ---------------------------
(***************************************************************************)
(* Proofs about CsvFiles, for any sheets, profiles and file types: what a  *)
(* part of a file gives, the last row aside, the whole file gives too; and *)
(* the reader reads what the writer writes.                                *)
(***************************************************************************)
EXTENDS CsvFiles, WellFoundedInduction, TLAPS

-----------------------------------------------------------------------------
(* Induction and recursion, in terms of sets: a set of natural numbers with  *)
(* 0 and, with a number, the next one has them all; a step that can always  *)
(* be taken can be taken any number of times.                              *)

LEMMA NatLess == \A x, y \in Nat : <<x, y>> \in OpToRel(<, Nat) <=> x < y
  BY DEF OpToRel

LEMMA SetInduction ==
  ASSUME NEW S, 0 \in S, \A n \in Nat : n \in S => n + 1 \in S
  PROVE  \A n \in Nat : n \in S
<1> DEFINE T == Nat \ S
<1> SUFFICES ASSUME T # {} PROVE FALSE
  OBVIOUS
<1>1. T \subseteq Nat
  OBVIOUS
<1>2. PICK x \in T : \A y \in T : <<y, x>> \notin OpToRel(<, Nat)
  <2> HIDE DEF T
  <2> QED
    BY <1>1, NatLessThanWellFounded, WFMin
<1>3. x \in Nat /\ x \notin S
  BY <1>2
<1>4. x # 0
  BY <1>3
<1>5. x - 1 \in Nat /\ x - 1 < x /\ (x - 1) + 1 = x
  BY <1>3, <1>4
<1>6. x - 1 \notin T
  <2> HIDE DEF T
  <2> QED
    BY <1>2, <1>3, <1>5, NatLess
<1>7. x - 1 \in S
  BY <1>5, <1>6
<1> QED
  BY <1>3, <1>5, <1>7

\* Among numbers there is a least one.
LEMMA Least ==
  ASSUME NEW I \in SUBSET Nat, I # {}
  PROVE  \E x \in I : \A y \in I : x <= y
<1>1. PICK x \in I : \A y \in I : <<y, x>> \notin OpToRel(<, Nat)
  BY NatLessThanWellFounded, WFMin
<1>2. ASSUME NEW y \in I PROVE x <= y
  <2>1. x \in Nat /\ y \in Nat
    OBVIOUS
  <2>2. ~(y < x)
    BY <1>1, <2>1, NatLess
  <2> QED
    BY <2>1, <2>2
<1> QED
  BY <1>2

LEMMA MinIsThis ==
  ASSUME NEW I \in SUBSET Nat, NEW m \in I, \A k \in I : m <= k
  PROVE  Min(I) = m
<1>1. PICK x : x = Min(I)
  OBVIOUS
<1>2. x \in I /\ \A y \in I : x <= y
  BY <1>1 DEF Min
<1>3. x \in Nat /\ m \in Nat /\ x <= m /\ m <= x
  BY <1>2
<1> QED
  BY <1>1, <1>3

Runs(Values, a, N, step) == \E g \in [0..N -> Values] : g[0] = a /\ \A k \in 1..N : g[k] = step[k][g[k - 1]]

LEMMA Recursion ==
  ASSUME NEW Values, NEW a \in Values, NEW N \in Nat, NEW step \in [1..N -> [Values -> Values]]
  PROVE  Runs(Values, a, N, step)
<1> DEFINE Run(n, g) == /\ g \in [0..n -> Values] /\ g[0] = a
                        /\ \A k \in 1..n : g[k] = step[k][g[k - 1]]
           S == {n \in Nat : n <= N => \E g : Run(n, g)}
<1>1. 0 \in S
  <2>1. Run(0, [i \in 0..0 |-> a])
    OBVIOUS
  <2> QED
    BY <2>1
<1>2. ASSUME NEW n \in Nat, n \in S PROVE n + 1 \in S
  <2> SUFFICES ASSUME n + 1 <= N PROVE \E g : Run(n + 1, g)
    OBVIOUS
  <2>1. PICK g : Run(n, g)
    BY <1>2
  <2> DEFINE h == [i \in 0..(n + 1) |-> IF i = n + 1 THEN step[n + 1][g[n]] ELSE g[i]]
  <2>2. n + 1 \in 1..N /\ g[n] \in Values
    BY <2>1
  <2>3. step[n + 1][g[n]] \in Values
    BY <2>2
  <2>4. h \in [0..(n + 1) -> Values] /\ h[0] = a /\ h[n + 1] = step[n + 1][g[n]] /\ \A i \in 0..n : h[i] = g[i]
    BY <2>1, <2>3
  <2>5. \A k \in 1..(n + 1) : h[k] = step[k][h[k - 1]]
    <3> HIDE DEF h
    <3> TAKE k \in 1..(n + 1)
    <3>1. CASE k = n + 1
      BY <2>4, <3>1
    <3>2. CASE k # n + 1
      BY <2>1, <2>4, <3>2
    <3> QED
      BY <3>1, <3>2
  <2> QED
    BY <2>4, <2>5
<1>3. N \in S
  <2> HIDE DEF S
  <2> QED
    BY <1>1, <1>2, SetInduction
<1> QED
  BY <1>3 DEF Runs

-----------------------------------------------------------------------------
(* The tokenizer.                                                          *)

Cells(T) == Seq(Seq(T))
Acc(T) == [rows : Seq(Cells(T)), row : Cells(T), field : Seq(T), mode : {"plain", "in", "quoted"}]

\* What a token does: nothing or one more in the field, the end of a cell, or
\* the end of a row.
TokenDoes(acc, t, b) ==
  \/ b.rows = acc.rows /\ b.row = acc.row /\ b.field \in {acc.field, Append(acc.field, t)}
  \/ b.rows = acc.rows /\ b.row = Append(acc.row, acc.field) /\ b.field = <<>>
  \/ /\ t = NL /\ b.row = <<>> /\ b.field = <<>>
     /\ b.rows \in {acc.rows, Append(acc.rows, Append(acc.row, acc.field))}

LEMMA TokenIs ==
  ASSUME NEW T, NEW acc \in Acc(T), NEW t \in T, NEW d
  PROVE  TakeToken(acc, t, d) \in Acc(T) /\ TokenDoes(acc, t, TakeToken(acc, t, d))
<1> DEFINE plain == [acc EXCEPT !.mode = "plain"]
           row == Append(acc.row, acc.field)
<1>0. /\ acc = [rows |-> acc.rows, row |-> acc.row, field |-> acc.field, mode |-> acc.mode]
      /\ acc.rows \in Seq(Cells(T)) /\ acc.row \in Cells(T) /\ acc.field \in Seq(T)
      /\ acc.mode \in {"plain", "in", "quoted"}
  BY DEF Acc
<1>1. /\ Append(acc.field, t) \in Seq(T) /\ row \in Cells(T) /\ Append(acc.rows, row) \in Seq(Cells(T))
      /\ <<>> \in Seq(T) /\ <<>> \in Cells(T)
  BY <1>0 DEF Cells
<1>2. plain = [rows |-> acc.rows, row |-> acc.row, field |-> acc.field, mode |-> "plain"]
  BY <1>0
<1>3. CASE acc.mode = "in" /\ t = Quote
  BY <1>0, <1>3 DEF TakeToken, TokenDoes, Acc
<1>4. CASE acc.mode = "in" /\ t # Quote
  BY <1>0, <1>1, <1>4 DEF TakeToken, TokenDoes, Acc
<1>5. CASE acc.mode # "in" /\ acc.mode = "quoted" /\ t = Quote
  BY <1>0, <1>1, <1>5 DEF TakeToken, TokenDoes, Acc
<1>6. CASE acc.mode # "in" /\ acc.mode # "quoted" /\ t = Quote
  BY <1>0, <1>6 DEF TakeToken, TokenDoes, Acc
<1>7. CASE acc.mode # "in" /\ t # Quote /\ t = d
  <2>1. TakeToken(acc, t, d) = [rows |-> acc.rows, row |-> row, field |-> <<>>, mode |-> "plain"]
    BY <1>0, <1>2, <1>7 DEF TakeToken
  <2> QED
    BY <1>0, <1>1, <2>1 DEF TokenDoes, Acc
<1>8. CASE acc.mode # "in" /\ t # Quote /\ t # d /\ t = NL
  <2>1. TakeToken(acc, t, d) = [rows |-> IF row = << <<>> >> THEN acc.rows ELSE Append(acc.rows, row),
                                row |-> <<>>, field |-> <<>>, mode |-> "plain"]
    BY <1>0, <1>2, <1>8 DEF TakeToken, PushRow
  <2> HIDE DEF row
  <2>2. CASE row = << <<>> >>
    BY <1>0, <1>1, <1>8, <2>1, <2>2 DEF TokenDoes, Acc
  <2>3. CASE row # << <<>> >>
    BY <1>0, <1>1, <1>8, <2>1, <2>3 DEF TokenDoes, Acc, row
  <2> QED
    BY <2>2, <2>3
<1>9. CASE acc.mode # "in" /\ t # Quote /\ t # d /\ t # NL
  <2>1. TakeToken(acc, t, d) = [rows |-> acc.rows, row |-> acc.row, field |-> Append(acc.field, t), mode |-> "plain"]
    BY <1>0, <1>2, <1>9 DEF TakeToken
  <2> QED
    BY <1>0, <1>1, <2>1 DEF TokenDoes, Acc
<1> QED
  BY <1>0, <1>3, <1>4, <1>5, <1>6, <1>7, <1>8, <1>9

\* The recursion has a solution, and it is the one that is meant.
LEMMA ReadsIs ==
  ASSUME NEW T, NEW text \in Seq(T), NEW d
  PROVE  /\ Reads(text, d)[0] = Fresh
         /\ \A i \in 1..Len(text) : Reads(text, d)[i] = TakeToken(Reads(text, d)[i - 1], text[i], d)
         /\ \A i \in 0..Len(text) : Reads(text, d)[i] \in Acc(T)
<1> DEFINE N == Len(text)
           step == [i \in 1..N |-> [acc \in Acc(T) |-> TakeToken(acc, text[i], d)]]
           Reading(r) == r = [i \in 0..N |-> IF i = 0 THEN Fresh ELSE TakeToken(r[i - 1], text[i], d)]
<1>0. N \in Nat /\ \A i \in 1..N : text[i] \in T
  OBVIOUS
<1>1. Fresh \in Acc(T)
  BY DEF Fresh, Acc, Cells
<1>2. step \in [1..N -> [Acc(T) -> Acc(T)]]
  BY <1>0, TokenIs
<1>3. PICK g \in [0..N -> Acc(T)] : g[0] = Fresh /\ \A m \in 1..N : g[m] = step[m][g[m - 1]]
  <2>1. PICK X, a : X = Acc(T) /\ a = Fresh
    OBVIOUS
  <2> HIDE DEF step, N
  <2>2. a \in X /\ N \in Nat /\ step \in [1..N -> [X -> X]]
    BY <1>0, <1>1, <1>2, <2>1
  <2>3. Runs(X, a, N, step)
    BY <2>2, Recursion
  <2> QED
    BY <2>1, <2>3 DEF Runs
<1>4. Reading(g)
  <2>1. \A i \in 0..N : g[i] = IF i = 0 THEN Fresh ELSE TakeToken(g[i - 1], text[i], d)
    <3> TAKE i \in 0..N
    <3>1. CASE i = 0
      BY <1>3, <3>1
    <3>2. CASE i # 0
      <4>1. i \in 1..N /\ i - 1 \in 0..N
        BY <1>0, <3>2
      <4>2. g[i - 1] \in Acc(T)
        BY <1>3, <4>1
      <4>3. g[i] = step[i][g[i - 1]]
        BY <1>3, <4>1
      <4> QED
        BY <3>2, <4>1, <4>2, <4>3
    <3> QED
      BY <3>1, <3>2
  <2> HIDE DEF N, step
  <2> QED
    BY <1>3, <2>1
<1>5. Reading(Reads(text, d))
  <2>1. Reads(text, d) = CHOOSE r : Reading(r)
    BY DEF Reads
  <2> HIDE DEF Reading
  <2> QED
    BY <1>4, <2>1
<1>6. PICK r : r = Reads(text, d)
  OBVIOUS
<1>7. r[0] = Fresh /\ \A i \in 1..N : r[i] = TakeToken(r[i - 1], text[i], d)
  <2>1. r = [i \in 0..N |-> IF i = 0 THEN Fresh ELSE TakeToken(r[i - 1], text[i], d)]
    BY <1>5, <1>6
  <2> HIDE DEF N, step, Reading
  <2> QED
    BY <1>0, <2>1
<1>8. \A i \in 0..N : r[i] \in Acc(T)
  <2> DEFINE S == {i \in Nat : i <= N => r[i] \in Acc(T)}
  <2>1. 0 \in S
    BY <1>1, <1>7
  <2>2. ASSUME NEW i \in Nat, i \in S PROVE i + 1 \in S
    <3> SUFFICES ASSUME i + 1 <= N PROVE r[i + 1] \in Acc(T)
      OBVIOUS
    <3>1. i + 1 \in 1..N /\ (i + 1) - 1 = i /\ r[i] \in Acc(T) /\ text[i + 1] \in T
      BY <1>0, <2>2
    <3>2. r[i + 1] = TakeToken(r[i], text[i + 1], d)
      BY <1>7, <3>1
    <3> QED
      BY <3>1, <3>2, TokenIs
  <2> HIDE DEF S
  <2>3. \A i \in Nat : i \in S
    BY <2>1, <2>2, SetInduction
  <2> QED
    BY <1>0, <2>3 DEF S
<1> QED
  BY <1>6, <1>7, <1>8

-----------------------------------------------------------------------------
(* A part of a text.                                                       *)

Begins(s, t) == Len(s) <= Len(t) /\ \A i \in 1..Len(s) : s[i] = t[i]

LEMMA BeginsAppend ==
  ASSUME NEW T, NEW s \in Seq(T), NEW x \in T
  PROVE  Begins(s, s) /\ Begins(s, Append(s, x))
  BY DEF Begins

LEMMA BeginsOn ==
  ASSUME NEW T, NEW s \in Seq(T), NEW t \in Seq(T), NEW u \in Seq(T), Begins(s, t), Begins(t, u)
  PROVE  Begins(s, u)
  BY DEF Begins

\* Rows that are read stay.
LEMMA RowsGrow ==
  ASSUME NEW T, NEW text \in Seq(T), NEW d, NEW i \in 0..Len(text), NEW k \in 0..Len(text), i <= k
  PROVE  Begins(Reads(text, d)[i].rows, Reads(text, d)[k].rows)
<1> DEFINE N == Len(text)
           rows(m) == Reads(text, d)[m].rows
           S == {m \in Nat : i + m <= N => Begins(rows(i), rows(i + m))}
<1>0. N \in Nat /\ \A m \in 0..N : rows(m) \in Seq(Cells(T)) /\ Reads(text, d)[m] \in Acc(T)
  BY ReadsIs DEF Acc
<1>1. 0 \in S
  BY <1>0 DEF Begins
<1>2. ASSUME NEW m \in Nat, m \in S PROVE m + 1 \in S
  <2> SUFFICES ASSUME i + (m + 1) <= N PROVE Begins(rows(i), rows(i + (m + 1)))
    OBVIOUS
  <2> DEFINE n == i + m
  <2>1. n \in 0..N /\ n + 1 \in 1..N /\ i + (m + 1) = n + 1 /\ (n + 1) - 1 = n /\ text[n + 1] \in T
    BY <1>0
  <2>2. Begins(rows(i), rows(n))
    BY <1>2, <2>1
  <2> HIDE DEF n
  <2>3. Reads(text, d)[n + 1] = TakeToken(Reads(text, d)[n], text[n + 1], d)
    BY <2>1, ReadsIs
  <2>4. TokenDoes(Reads(text, d)[n], text[n + 1], Reads(text, d)[n + 1])
    BY <1>0, <2>1, <2>3, TokenIs
  <2>5. Begins(rows(n), rows(n + 1))
    <3>1. Append(Reads(text, d)[n].row, Reads(text, d)[n].field) \in Cells(T)
      BY <1>0, <2>1 DEF Acc, Cells
    <3> QED
      BY <1>0, <2>1, <2>4, <3>1, BeginsAppend DEF TokenDoes
  <2>6. rows(i) \in Seq(Cells(T)) /\ rows(n) \in Seq(Cells(T)) /\ rows(n + 1) \in Seq(Cells(T))
    BY <1>0, <2>1
  <2> HIDE DEF rows
  <2> QED
    BY <2>1, <2>2, <2>5, <2>6, BeginsOn
<1>3. k - i \in Nat /\ i + (k - i) = k /\ k <= N
  BY <1>0
<1>4. k - i \in S
  <2> HIDE DEF S
  <2> QED
    BY <1>1, <1>2, <1>3, SetInduction
<1> QED
  BY <1>3, <1>4

Part(text, whole) == \E l \in 0..Len(whole) : text = SubSeq(whole, 1, l)

LEMMA PartIs ==
  ASSUME NEW T, NEW whole \in Seq(T), NEW text, Part(text, whole)
  PROVE  /\ text \in Seq(T) /\ Len(text) \in 0..Len(whole)
         /\ \A i \in 1..Len(text) : text[i] = whole[i]
<1>1. PICK l \in 0..Len(whole) : text = SubSeq(whole, 1, l)
  BY DEF Part
<1>2. l \in Nat /\ Len(whole) \in Nat /\ l <= Len(whole)
  BY <1>1
<1>3. \A i \in 1..l : whole[i] \in T
  BY <1>2
<1>4. text \in Seq(T) /\ Len(text) = l /\ \A i \in 1..l : text[i] = whole[i]
  BY <1>1, <1>2, <1>3
<1> QED
  BY <1>2, <1>4

\* As far as it goes, a part is read as the whole is.
LEMMA ReadsPart ==
  ASSUME NEW T, NEW whole \in Seq(T), NEW text, Part(text, whole), NEW d
  PROVE  \A i \in 0..Len(text) : Reads(text, d)[i] = Reads(whole, d)[i]
<1> DEFINE S == {i \in Nat : i <= Len(text) => Reads(text, d)[i] = Reads(whole, d)[i]}
<1>0. /\ text \in Seq(T) /\ Len(text) \in 0..Len(whole) /\ Len(text) \in Nat /\ Len(whole) \in Nat
      /\ \A i \in 1..Len(text) : text[i] = whole[i]
  BY PartIs
<1>1. 0 \in S
  BY <1>0, ReadsIs
<1>2. ASSUME NEW i \in Nat, i \in S PROVE i + 1 \in S
  <2> SUFFICES ASSUME i + 1 <= Len(text) PROVE Reads(text, d)[i + 1] = Reads(whole, d)[i + 1]
    OBVIOUS
  <2>1. i + 1 \in 1..Len(text) /\ i + 1 \in 1..Len(whole) /\ (i + 1) - 1 = i
    BY <1>0
  <2>2. Reads(text, d)[i] = Reads(whole, d)[i] /\ text[i + 1] = whole[i + 1]
    BY <1>0, <1>2, <2>1
  <2>3. Reads(text, d)[i + 1] = TakeToken(Reads(text, d)[i], text[i + 1], d)
    BY <1>0, <2>1, ReadsIs
  <2>4. Reads(whole, d)[i + 1] = TakeToken(Reads(whole, d)[i], whole[i + 1], d)
    BY <1>0, <2>1, ReadsIs
  <2> QED
    BY <2>2, <2>3, <2>4
<1>3. \A i \in Nat : i \in S
  <2> HIDE DEF S
  <2> QED
    BY <1>1, <1>2, SetInduction
<1> QED
  BY <1>0, <1>3

\* The rows that are read, and perhaps one more that no line feed ended.
LEMMA ParsedIs ==
  ASSUME NEW T, NEW text \in Seq(T), NEW d
  PROVE  /\ ParseCsv(text, d) \in Seq(Cells(T))
         /\ Begins(Reads(text, d)[Len(text)].rows, ParseCsv(text, d))
         /\ Len(ParseCsv(text, d)) <= Len(Reads(text, d)[Len(text)].rows) + 1
<1>1. PICK a : a = Reads(text, d)[Len(text)]
  OBVIOUS
<1>2. /\ a = [rows |-> a.rows, row |-> a.row, field |-> a.field, mode |-> a.mode]
      /\ a.rows \in Seq(Cells(T)) /\ a.row \in Seq(Seq(T)) /\ a.field \in Seq(T)
  <2>1. a \in Acc(T)
    BY <1>1, ReadsIs
  <2> QED
    BY <2>1 DEF Acc, Cells
<1>3. Append(a.row, a.field) \in Cells(T)
  BY <1>2 DEF Cells
<1>4. PICK row : row = Append(a.row, a.field)
  OBVIOUS
<1>5. PushRow(a).rows = IF row = << <<>> >> THEN a.rows ELSE Append(a.rows, row)
  BY <1>2, <1>4 DEF PushRow
<1>6. ParseCsv(text, d) \in {a.rows, Append(a.rows, row)}
  BY <1>1, <1>5 DEF ParseCsv
<1>7. Append(a.rows, row) \in Seq(Cells(T)) /\ Len(Append(a.rows, row)) = Len(a.rows) + 1 /\ Len(a.rows) \in Nat
  BY <1>2, <1>3, <1>4
<1>8. Begins(a.rows, a.rows) /\ Begins(a.rows, Append(a.rows, row))
  BY <1>2, <1>3, <1>4, BeginsAppend
<1>9. PICK p : p = ParseCsv(text, d)
  OBVIOUS
<1>10. CASE p = a.rows
  <2>1. Len(p) <= Len(a.rows) + 1
    BY <1>7, <1>10
  <2> QED
    BY <1>1, <1>2, <1>8, <1>9, <1>10, <2>1
<1>11. CASE p = Append(a.rows, row)
  <2>1. Len(p) <= Len(a.rows) + 1
    BY <1>7, <1>11
  <2> QED
    BY <1>1, <1>7, <1>8, <1>9, <1>11, <2>1
<1> QED
  BY <1>6, <1>9, <1>10, <1>11

\* All rows of a part but the last are rows of the whole.
LEMMA RowsOfPart ==
  ASSUME NEW T, NEW whole \in Seq(T), NEW text, Part(text, whole), NEW d
  PROVE  \A i \in 1..(Len(ParseCsv(text, d)) - 1) :
           i <= Len(ParseCsv(whole, d)) /\ ParseCsv(text, d)[i] = ParseCsv(whole, d)[i]
<1>1. PICK r, w, a, b : /\ r = ParseCsv(text, d) /\ w = ParseCsv(whole, d)
                        /\ a = Reads(text, d)[Len(text)].rows /\ b = Reads(whole, d)[Len(whole)].rows
  OBVIOUS
<1>2. text \in Seq(T) /\ Len(text) \in 0..Len(whole) /\ Len(whole) \in 0..Len(whole) /\ Len(text) \in 0..Len(text)
  BY PartIs
<1>3. /\ r \in Seq(Cells(T)) /\ Begins(a, r) /\ Len(r) <= Len(a) + 1
      /\ w \in Seq(Cells(T)) /\ Begins(b, w)
  BY <1>1, <1>2, ParsedIs
<1>4. a = Reads(whole, d)[Len(text)].rows
  BY <1>1, <1>2, ReadsPart
<1>5. Begins(a, b)
  BY <1>1, <1>2, <1>4, RowsGrow
<1>6. a \in Seq(Cells(T)) /\ b \in Seq(Cells(T))
  <2>1. Reads(whole, d)[Len(text)] \in Acc(T) /\ Reads(whole, d)[Len(whole)] \in Acc(T)
    BY <1>2, ReadsIs
  <2> QED
    BY <1>1, <1>4, <2>1 DEF Acc
<1>7. Begins(a, w)
  BY <1>3, <1>5, <1>6, BeginsOn
<1>8. ASSUME NEW i \in 1..(Len(r) - 1) PROVE i <= Len(w) /\ r[i] = w[i]
  <2>1. Len(r) \in Nat /\ Len(a) \in Nat /\ Len(w) \in Nat
    BY <1>3, <1>6
  <2>2. i \in 1..Len(a)
    BY <1>3, <2>1
  <2>3. a[i] = r[i] /\ a[i] = w[i] /\ Len(a) <= Len(w)
    BY <1>3, <1>7, <2>2 DEF Begins
  <2> QED
    BY <2>1, <2>2, <2>3
<1> QED
  BY <1>1, <1>8

-----------------------------------------------------------------------------
(* What is not blank.                                                      *)

Blanks == {Blank, NL}
SolidRow(row) == \E i \in DOMAIN row : Solid(row[i])

\* Something that is not blank is among the first i tokens; and a line feed
\* after it.
SolidIn(text, i) == \E k \in 1..i : text[k] \notin Blanks
Ended(text, i) == \E n \in 1..i : text[n] = NL /\ SolidIn(text, n - 1)

LEMMA SolidAppend ==
  ASSUME NEW T, NEW v \in Seq(T), NEW t \in T, Solid(Append(v, t))
  PROVE  Solid(v) \/ t \notin Blanks
  BY DEF Solid, Blanks

LEMMA SolidRowAppend ==
  ASSUME NEW T, NEW row \in Seq(T), NEW v \in T, SolidRow(Append(row, v))
  PROVE  SolidRow(row) \/ Solid(v)
  BY DEF SolidRow

LEMMA SolidNone == ~Solid(<<>>) /\ ~SolidRow(<<>>)
  BY DEF Solid, SolidRow

\* What is not blank in a row was there in the text; before the row's end.
SolidRead(text, i, a) ==
  /\ SolidRow(a.row) \/ Solid(a.field) => SolidIn(text, i)
  /\ a.rows # <<>> /\ SolidRow(a.rows[1]) => Ended(text, i)

LEMMA FirstOfAppend ==
  ASSUME NEW T, NEW s \in Seq(T), NEW x \in T
  PROVE  Append(s, x)[1] = IF s = <<>> THEN x ELSE s[1]
  OBVIOUS

LEMMA SolidStep ==
  ASSUME NEW T, NEW text \in Seq(T), NEW i \in 1..Len(text),
         NEW a \in Acc(T), NEW b, TokenDoes(a, text[i], b), SolidRead(text, i - 1, a)
  PROVE  SolidRead(text, i, b)
<1>0. i \in Nat /\ i - 1 \in Nat /\ text[i] \in T
  OBVIOUS
<1>1. a.rows \in Seq(Cells(T)) /\ a.row \in Seq(Seq(T)) /\ a.field \in Seq(T)
  BY DEF Acc, Cells
<1>2. SolidIn(text, i - 1) => SolidIn(text, i)
  BY <1>0 DEF SolidIn
<1>3. Ended(text, i - 1) => Ended(text, i)
  BY <1>0 DEF Ended
<1>4. text[i] \notin Blanks => SolidIn(text, i)
  BY <1>0 DEF SolidIn
<1>5. CASE b.rows = a.rows /\ b.row = a.row /\ b.field \in {a.field, Append(a.field, text[i])}
  <2>1. Solid(b.field) => Solid(a.field) \/ text[i] \notin Blanks
    BY <1>0, <1>1, <1>5, SolidAppend
  <2> QED
    BY <1>2, <1>3, <1>4, <1>5, <2>1 DEF SolidRead
<1>6. CASE b.rows = a.rows /\ b.row = Append(a.row, a.field) /\ b.field = <<>>
  <2>1. SolidRow(b.row) => SolidRow(a.row) \/ Solid(a.field)
    BY <1>1, <1>6, SolidRowAppend
  <2> QED
    BY <1>2, <1>3, <1>6, <2>1, SolidNone DEF SolidRead
<1>7. CASE /\ text[i] = NL /\ b.row = <<>> /\ b.field = <<>>
           /\ b.rows \in {a.rows, Append(a.rows, Append(a.row, a.field))}
  <2>1. CASE b.rows = a.rows
    BY <1>3, <1>7, <2>1, SolidNone DEF SolidRead
  <2>2. CASE b.rows = Append(a.rows, Append(a.row, a.field))
    <3>1. PICK row \in Cells(T) : row = Append(a.row, a.field)
      <4>1. Append(a.row, a.field) \in Seq(Seq(T))
        BY <1>1
      <4> QED
        BY <4>1 DEF Cells
    <3>2. b.rows[1] = IF a.rows = <<>> THEN row ELSE a.rows[1]
      BY <1>1, <2>2, <3>1, FirstOfAppend
    <3>3. SolidRow(row) => SolidIn(text, i - 1)
      BY <1>1, <3>1, SolidRowAppend DEF SolidRead
    <3>4. SolidRow(row) => Ended(text, i)
      BY <1>0, <1>7, <3>3 DEF Ended
    <3> QED
      BY <1>3, <1>7, <3>2, <3>4, SolidNone DEF SolidRead
  <2> QED
    BY <1>7, <2>1, <2>2
<1> QED
  BY <1>5, <1>6, <1>7 DEF TokenDoes

LEMMA AllSolidRead ==
  ASSUME NEW T, NEW text \in Seq(T), NEW d
  PROVE  SolidRead(text, Len(text), Reads(text, d)[Len(text)])
<1> DEFINE S == {i \in Nat : i <= Len(text) => SolidRead(text, i, Reads(text, d)[i])}
<1>1. 0 \in S
  <2>1. Reads(text, d)[0] = Fresh
    BY ReadsIs
  <2> QED
    BY <2>1, SolidNone DEF SolidRead, Fresh
<1>2. ASSUME NEW i \in Nat, i \in S PROVE i + 1 \in S
  <2> SUFFICES ASSUME i + 1 <= Len(text) PROVE SolidRead(text, i + 1, Reads(text, d)[i + 1])
    OBVIOUS
  <2> DEFINE n == i + 1
  <2>1. n \in 1..Len(text) /\ n - 1 = i /\ i \in 0..Len(text) /\ text[n] \in T
    OBVIOUS
  <2>2. SolidRead(text, n - 1, Reads(text, d)[n - 1])
    BY <1>2, <2>1
  <2> HIDE DEF n
  <2>3. Reads(text, d)[n - 1] \in Acc(T) /\ Reads(text, d)[n] = TakeToken(Reads(text, d)[n - 1], text[n], d)
    BY <2>1, ReadsIs
  <2>4. TokenDoes(Reads(text, d)[n - 1], text[n], Reads(text, d)[n])
    BY <2>1, <2>3, TokenIs
  <2>5. SolidRead(text, n, Reads(text, d)[n])
    BY <2>1, <2>2, <2>3, <2>4, SolidStep
  <2> QED
    BY <2>5 DEF n
<1>3. Len(text) \in Nat
  OBVIOUS
<1>4. Len(text) \in S
  <2> HIDE DEF S
  <2> QED
    BY <1>1, <1>2, <1>3, SetInduction
<1> QED
  BY <1>4

\* A part with a row after its first, which is not blank, has the line of that
\* row whole.
LEMMA PartEnded ==
  ASSUME NEW T, NEW text \in Seq(T), NEW d,
         Len(ParseCsv(text, d)) >= 2, SolidRow(ParseCsv(text, d)[1])
  PROVE  Ended(text, Len(text))
<1>1. PICK r, a : r = ParseCsv(text, d) /\ a = Reads(text, d)[Len(text)]
  OBVIOUS
<1>2. a.rows \in Seq(Cells(T))
  <2>1. a \in Acc(T)
    BY <1>1, ReadsIs
  <2> QED
    BY <2>1 DEF Acc
<1>3. r \in Seq(Cells(T)) /\ Begins(a.rows, r) /\ Len(r) <= Len(a.rows) + 1 /\ Len(r) >= 2
  BY <1>1, ParsedIs
<1>4. Len(a.rows) \in Nat /\ Len(r) \in Nat
  BY <1>2, <1>3
<1>5. 1 \in 1..Len(a.rows)
  BY <1>3, <1>4
<1>6. a.rows # <<>> /\ a.rows[1] = r[1]
  BY <1>2, <1>3, <1>5 DEF Begins
<1>7. SolidRead(text, Len(text), a)
  BY <1>1, AllSolidRead
<1> QED
  BY <1>1, <1>6, <1>7 DEF SolidRead

-----------------------------------------------------------------------------
(* The header line.                                                        *)

\* Text begins at its first token that is not blank.
LEMMA StartIs ==
  ASSUME NEW T, NEW text \in Seq(T), NEW k \in 1..Len(text), text[k] \notin Blanks,
         \A i \in 1..(k - 1) : text[i] \in Blanks
  PROVE  /\ TrimStart(text) = SubSeq(text, k, Len(text))
         /\ TrimStart(text) # <<>> /\ Head(TrimStart(text)) = text[k]
<1> DEFINE longer == Append(text, "end")
           I == {i \in 1..Len(longer) : longer[i] \notin {Blank, NL}}
<1>1. Len(text) \in Nat /\ k \in Nat /\ 1 <= k /\ k <= Len(text)
  OBVIOUS
<1>2. Len(longer) = Len(text) + 1 /\ \A i \in 1..Len(text) : longer[i] = text[i]
  OBVIOUS
<1> HIDE DEF longer
<1>3. k \in I
  BY <1>1, <1>2 DEF Blanks
<1>4. I \in SUBSET Nat
  BY <1>1, <1>2
<1>5. \A i \in I : k <= i
  <2> SUFFICES ASSUME NEW i \in 1..Len(longer), longer[i] \notin {Blank, NL}, i < k PROVE FALSE
    BY <1>1, <1>2
  <2>1. i \in 1..(k - 1) /\ i \in 1..Len(text)
    BY <1>1, <1>2
  <2> QED
    BY <1>2, <2>1 DEF Blanks
<1>6. SelectInSeq(longer, LAMBDA t : t \notin {Blank, NL}) = IF I # {} THEN Min(I) ELSE 0
  BY DEF SelectInSeq
<1>7. Min(I) = k
  <2> HIDE DEF I
  <2> QED
    BY <1>3, <1>4, <1>5, MinIsThis
<1>8. SelectInSeq(longer, LAMBDA t : t \notin {Blank, NL}) = k
  BY <1>3, <1>6, <1>7
<1>9. TrimStart(text) = SubSeq(text, k, Len(text))
  BY <1>8 DEF TrimStart, longer
<1>10. SubSeq(text, k, Len(text)) # <<>> /\ Head(SubSeq(text, k, Len(text))) = text[k]
  <2>1. PICK s : s = SubSeq(text, k, Len(text))
    OBVIOUS
  <2>2. \A i \in k..Len(text) : text[i] \in T
    BY <1>1
  <2>3. s \in Seq(T) /\ Len(s) = Len(text) - k + 1 /\ s[1] = text[k]
    BY <1>1, <2>1, <2>2
  <2>4. s # <<>> /\ Head(s) = s[1]
    BY <1>1, <2>3
  <2> QED
    BY <2>1, <2>3, <2>4
<1> QED
  BY <1>9, <1>10

\* A line ends before its first line feed.
LEMMA LineEnds ==
  ASSUME NEW T, NEW s \in Seq(T), NEW q \in 1..Len(s), s[q] = NL, \A i \in 1..(q - 1) : s[i] # NL
  PROVE  SelectInSeq(Append(s, NL), LAMBDA t : t = NL) = q
<1> DEFINE longer == Append(s, NL)
           I == {i \in 1..Len(longer) : longer[i] = NL}
<1>1. Len(s) \in Nat /\ q \in Nat /\ 1 <= q /\ q <= Len(s)
  OBVIOUS
<1>2. Len(longer) = Len(s) + 1 /\ \A i \in 1..Len(s) : longer[i] = s[i]
  BY DEF NL
<1> HIDE DEF longer
<1>3. q \in I
  BY <1>1, <1>2
<1>4. I \in SUBSET Nat
  BY <1>1, <1>2
<1>5. \A i \in I : q <= i
  <2> SUFFICES ASSUME NEW i \in 1..Len(longer), longer[i] = NL, i < q PROVE FALSE
    BY <1>1, <1>2
  <2>1. i \in 1..(q - 1) /\ i \in 1..Len(s)
    BY <1>1, <1>2
  <2> QED
    BY <1>2, <2>1
<1>6. SelectInSeq(longer, LAMBDA t : t = NL) = IF I # {} THEN Min(I) ELSE 0
  BY DEF SelectInSeq
<1>7. Min(I) = q
  <2> HIDE DEF I
  <2> QED
    BY <1>3, <1>4, <1>5, MinIsThis
<1> QED
  BY <1>3, <1>6, <1>7 DEF longer

\* Where the line that tells what a file is has come whole, the part is taken
\* for what the file is taken for.
LEMMA SameLine ==
  ASSUME NEW T, NEW whole \in Seq(T), NEW text, Part(text, whole), Ended(text, Len(text))
  PROVE  (IsEdi(text) <=> IsEdi(whole)) /\ HeaderLine(text) = HeaderLine(whole)
<1> DEFINE I == {i \in 1..Len(text) : text[i] \notin Blanks}
<1>0. /\ text \in Seq(T) /\ Len(text) \in Nat /\ Len(whole) \in Nat /\ Len(text) <= Len(whole)
      /\ \A i \in 1..Len(text) : text[i] = whole[i] /\ i \in 1..Len(whole)
  BY PartIs
<1>1. PICK n \in 1..Len(text) : text[n] = NL /\ SolidIn(text, n - 1)
  BY DEF Ended
<1>2. PICK m \in 1..(n - 1) : text[m] \notin Blanks
  BY <1>1 DEF SolidIn
<1>3. m \in I /\ I \in SUBSET Nat /\ m < n
  BY <1>0, <1>2
<1>4. PICK k \in I : \A i \in I : k <= i
  <2> HIDE DEF I
  <2> QED
    BY <1>3, Least
<1>5. /\ k \in 1..Len(text) /\ k \in 1..Len(whole) /\ k < n /\ text[k] \notin Blanks /\ whole[k] = text[k]
  BY <1>0, <1>3, <1>4
<1>6. \A i \in 1..(k - 1) : text[i] \in Blanks /\ whole[i] \in Blanks
  <2> SUFFICES ASSUME NEW i \in 1..(k - 1) PROVE text[i] \in Blanks /\ whole[i] \in Blanks
    OBVIOUS
  <2>1. i \in 1..Len(text) /\ i < k
    BY <1>0, <1>5
  <2>2. i \notin I
    BY <1>4, <1>5, <2>1
  <2> QED
    BY <1>0, <2>1, <2>2
<1> DEFINE s == SubSeq(text, k, Len(text))
           t == SubSeq(whole, k, Len(whole))
<1>7. /\ TrimStart(text) = s /\ TrimStart(text) # <<>> /\ Head(TrimStart(text)) = text[k]
      /\ TrimStart(whole) = t /\ TrimStart(whole) # <<>> /\ Head(TrimStart(whole)) = text[k]
  BY <1>0, <1>5, <1>6, StartIs
<1>8. IsEdi(text) <=> IsEdi(whole)
  BY <1>7 DEF IsEdi
<1>9. /\ s \in Seq(T) /\ Len(s) = Len(text) - k + 1 /\ \A i \in 1..Len(s) : s[i] = text[k + i - 1]
      /\ t \in Seq(T) /\ Len(t) = Len(whole) - k + 1 /\ \A i \in 1..Len(t) : t[i] = whole[k + i - 1]
  BY <1>0, <1>5
<1> HIDE DEF s, t
<1>10. Len(s) \in Nat /\ Len(t) \in Nat /\ Len(s) <= Len(t) /\ \A i \in 1..Len(s) : s[i] = t[i]
  <2>1. \A i \in 1..Len(s) : k + i - 1 \in 1..Len(text) /\ i \in 1..Len(t)
    BY <1>0, <1>5, <1>9
  <2>2. \A i \in 1..Len(s) : s[i] = t[i]
    BY <1>0, <1>9, <2>1
  <2>3. Len(s) \in Nat /\ Len(t) \in Nat
    BY <1>9
  <2>4. Len(s) <= Len(t)
    BY <1>0, <1>5, <1>9
  <2> QED
    BY <2>2, <2>3, <2>4
<1> DEFINE J == {i \in 1..Len(s) : s[i] = NL}
<1>11. n - k + 1 \in J /\ J \in SUBSET Nat
  <2>1. n - k + 1 \in 1..Len(s) /\ k + (n - k + 1) - 1 = n
    BY <1>0, <1>5, <1>9
  <2>2. s[n - k + 1] = text[k + (n - k + 1) - 1]
    BY <1>9, <2>1
  <2>3. s[n - k + 1] = NL
    BY <1>1, <2>1, <2>2
  <2>4. J \in SUBSET Nat
    OBVIOUS
  <2> QED
    BY <2>1, <2>3, <2>4
<1>12. PICK q \in J : \A i \in J : q <= i
  <2> HIDE DEF J
  <2> QED
    BY <1>11, Least
<1>13. q \in 1..Len(s) /\ q \in 1..Len(t) /\ q \in Nat /\ s[q] = NL /\ t[q] = NL
  BY <1>10, <1>12
<1>14. \A i \in 1..(q - 1) : s[i] # NL /\ t[i] # NL
  <2> SUFFICES ASSUME NEW i \in 1..(q - 1) PROVE s[i] # NL /\ t[i] # NL
    OBVIOUS
  <2>1. i \in 1..Len(s) /\ i < q
    BY <1>10, <1>13
  <2>2. i \notin J
    BY <1>12, <1>13, <2>1
  <2> QED
    BY <1>10, <2>1, <2>2
<1>15. HeaderLine(text) = SubSeq(s, 1, q - 1) /\ HeaderLine(whole) = SubSeq(t, 1, q - 1)
  <2>1. SelectInSeq(Append(s, NL), LAMBDA x : x = NL) = q
    BY <1>9, <1>13, <1>14, LineEnds
  <2>2. SelectInSeq(Append(t, NL), LAMBDA x : x = NL) = q
    BY <1>9, <1>13, <1>14, LineEnds
  <2> QED
    BY <1>7, <2>1, <2>2 DEF HeaderLine
<1>16. SubSeq(s, 1, q - 1) = SubSeq(t, 1, q - 1)
  <2>1. \A i \in 1..(q - 1) : s[i] = t[i]
    BY <1>10, <1>13
  <2> QED
    BY <1>9, <1>10, <1>13, <2>1
<1> QED
  BY <1>8, <1>15, <1>16

-----------------------------------------------------------------------------
(* The rows that are taken.                                                *)

\* All but the last of x are of y, in their places.
ButLast(x, y) == \A i \in 1..(Len(x) - 1) : i <= Len(y) /\ x[i] = y[i]

LEMMA ButLastIsPrefix ==
  ASSUME NEW T, NEW x \in Seq(T), NEW y \in Seq(T), x # <<>>, ButLast(x, y)
  PROVE  IsPrefix(Front(x), y)
<1>1. Len(x) \in Nat /\ Len(x) # 0 /\ Len(x) - 1 \in Nat /\ Len(y) \in Nat
  OBVIOUS
<1>2. PICK n \in Nat : n = Len(x) - 1
  BY <1>1
<1>3. n <= Len(y) /\ \A i \in 1..n : x[i] = y[i] /\ x[i] \in T
  BY <1>1, <1>2 DEF ButLast
<1>4. PICK f : f = SubSeq(x, 1, n)
  OBVIOUS
<1>5. f \in Seq(T) /\ Len(f) = n /\ \A i \in 1..n : f[i] = x[i]
  BY <1>2, <1>3, <1>4
<1>6. SubSeq(f, 1, n) = SubSeq(y, 1, n)
  BY <1>3, <1>5
<1> QED
  BY <1>2, <1>3, <1>4, <1>5, <1>6 DEF IsPrefix, Front

RecordsOf(kind, rows, sku, value, m) == {Record(kind, rows[i], sku, value, m) : i \in 1..Len(rows)}
RecordsIn(T, kind, rows, sku, value, m) == \A i \in 1..Len(rows) : Record(kind, rows[i], sku, value, m) \in T

LEMMA TakeRowIs ==
  ASSUME NEW T, NEW out \in Seq(T), NEW kind, NEW row, NEW sku, NEW value, NEW m, Record(kind, row, sku, value, m) \in T
  PROVE  /\ TakeRow(out, kind, row, sku, value, m) \in Seq(T)
         /\ TakeRow(out, kind, row, sku, value, m) \in {out, Append(out, Record(kind, row, sku, value, m))}
<1>1. CASE Unusable(kind, row, sku, value)
  BY <1>1 DEF TakeRow
<1>2. CASE ~Unusable(kind, row, sku, value)
  BY <1>2 DEF TakeRow
<1> QED
  BY <1>1, <1>2

LEMMA RecordsIs ==
  ASSUME NEW X, NEW rows \in Seq(X), rows # <<>>, NEW kind, NEW sku, NEW value, NEW m,
         NEW T, RecordsIn(T, kind, rows, sku, value, m)
  PROVE  LET out == Records(kind, rows, sku, value, m)
         IN  /\ out[0] = <<>>
             /\ \A i \in 1..(Len(rows) - 1) : out[i] = TakeRow(out[i - 1], kind, rows[i + 1], sku, value, m)
             /\ \A i \in 0..(Len(rows) - 1) : out[i] \in Seq(T)
<1> DEFINE N == Len(rows) - 1
           step == [i \in 1..N |-> [out \in Seq(T) |-> TakeRow(out, kind, rows[i + 1], sku, value, m)]]
           Taking(r) == r = [i \in 0..N |-> IF i = 0 THEN <<>> ELSE TakeRow(r[i - 1], kind, rows[i + 1], sku, value, m)]
<1>0. N \in Nat /\ \A i \in 1..N : i + 1 \in 1..Len(rows)
  OBVIOUS
<1>1. \A i \in 1..N : Record(kind, rows[i + 1], sku, value, m) \in T
  BY <1>0 DEF RecordsIn
<1>2. step \in [1..N -> [Seq(T) -> Seq(T)]]
  <2>1. \A i \in 1..N, out \in Seq(T) : TakeRow(out, kind, rows[i + 1], sku, value, m) \in Seq(T)
    BY <1>1, TakeRowIs
  <2> HIDE DEF N
  <2> QED
    BY <2>1
<1>3. PICK g \in [0..N -> Seq(T)] : g[0] = <<>> /\ \A i \in 1..N : g[i] = step[i][g[i - 1]]
  <2>0. PICK Y, a, M, st : Y = Seq(T) /\ a = <<>> /\ M = N /\ st = step
    OBVIOUS
  <2> HIDE DEF step, N
  <2>1. a \in Y
    BY <2>0
  <2>2. M \in Nat /\ st \in [1..M -> [Y -> Y]]
    BY <1>0, <1>2, <2>0
  <2>3. Runs(Y, a, M, st)
    BY <2>1, <2>2, Recursion
  <2> QED
    BY <2>0, <2>3 DEF Runs
<1>4. Taking(g)
  <2>1. \A i \in 0..N : g[i] = IF i = 0 THEN <<>> ELSE TakeRow(g[i - 1], kind, rows[i + 1], sku, value, m)
    <3> HIDE DEF N
    <3> TAKE i \in 0..N
    <3>1. CASE i = 0
      BY <1>3, <3>1
    <3>2. CASE i # 0
      <4>1. i \in 1..N /\ i - 1 \in 0..N
        BY <1>0, <3>2
      <4>2. g[i - 1] \in Seq(T)
        BY <1>3, <4>1
      <4>3. g[i] = step[i][g[i - 1]]
        BY <1>3, <4>1
      <4> QED
        BY <3>2, <4>1, <4>2, <4>3
    <3> QED
      BY <3>1, <3>2
  <2> HIDE DEF N, step
  <2> QED
    BY <1>3, <2>1
<1>5. Taking(Records(kind, rows, sku, value, m))
  <2>1. Records(kind, rows, sku, value, m) = CHOOSE r : Taking(r)
    BY DEF Records
  <2> HIDE DEF Taking
  <2> QED
    BY <1>4, <2>1
<1>6. PICK r : r = Records(kind, rows, sku, value, m)
  OBVIOUS
<1>7. r[0] = <<>> /\ \A i \in 1..N : r[i] = TakeRow(r[i - 1], kind, rows[i + 1], sku, value, m)
  <2>1. r = [i \in 0..N |-> IF i = 0 THEN <<>> ELSE TakeRow(r[i - 1], kind, rows[i + 1], sku, value, m)]
    BY <1>5, <1>6
  <2> HIDE DEF N, step, Taking
  <2> QED
    BY <1>0, <2>1
<1>8. \A i \in 0..N : r[i] \in Seq(T)
  <2> DEFINE S == {i \in Nat : i <= N => r[i] \in Seq(T)}
  <2>1. 0 \in S
    <3>1. r[0] \in Seq(T)
      BY <1>7
    <3> QED
      BY <3>1
  <2>2. ASSUME NEW i \in Nat, i \in S PROVE i + 1 \in S
    <3> HIDE DEF N
    <3> SUFFICES ASSUME i + 1 <= N PROVE r[i + 1] \in Seq(T)
      OBVIOUS
    <3>1. i + 1 \in 1..N /\ (i + 1) - 1 = i /\ r[i] \in Seq(T)
      BY <1>0, <2>2
    <3>2. r[i + 1] = TakeRow(r[i], kind, rows[(i + 1) + 1], sku, value, m)
      BY <1>7, <3>1
    <3>3. Record(kind, rows[(i + 1) + 1], sku, value, m) \in T
      BY <1>1, <3>1
    <3> QED
      BY <3>1, <3>2, <3>3, TakeRowIs
  <2> HIDE DEF S
  <2>3. \A i \in Nat : i \in S
    BY <2>1, <2>2, SetInduction
  <2> QED
    BY <1>0, <2>3 DEF S
<1> QED
  BY <1>6, <1>7, <1>8

\* Records that are taken stay.
LEMMA RecordsGrow ==
  ASSUME NEW X, NEW rows \in Seq(X), rows # <<>>, NEW kind, NEW sku, NEW value, NEW m,
         NEW i \in 0..(Len(rows) - 1), NEW k \in 0..(Len(rows) - 1), i <= k
  PROVE  Begins(Records(kind, rows, sku, value, m)[i], Records(kind, rows, sku, value, m)[k])
<1> DEFINE N == Len(rows) - 1
           T == RecordsOf(kind, rows, sku, value, m)
           out == Records(kind, rows, sku, value, m)
           S == {n \in Nat : i + n <= N => Begins(out[i], out[i + n])}
<1>0. N \in Nat /\ Len(rows) = N + 1
  OBVIOUS
<1>1. /\ \A n \in 1..N : out[n] = TakeRow(out[n - 1], kind, rows[n + 1], sku, value, m)
      /\ \A n \in 0..N : out[n] \in Seq(T)
  <2>1. PICK Y : Y = T
    OBVIOUS
  <2>2. RecordsIn(Y, kind, rows, sku, value, m)
    BY <2>1 DEF RecordsIn, RecordsOf
  <2> HIDE DEF T
  <2> QED
    BY <2>1, <2>2, RecordsIs
<1>2. \A n \in 1..N : Record(kind, rows[n + 1], sku, value, m) \in T
  BY <1>0 DEF RecordsOf
<1> HIDE DEF N, T, out
<1>3. 0 \in S
  BY <1>0, <1>1 DEF Begins
<1>4. ASSUME NEW n \in Nat, n \in S PROVE n + 1 \in S
  <2> SUFFICES ASSUME i + (n + 1) <= N PROVE Begins(out[i], out[i + (n + 1)])
    OBVIOUS
  <2>1. PICK p \in Nat : p = i + n
    OBVIOUS
  <2>2. p \in 0..N /\ p + 1 \in 1..N /\ p + 1 \in 0..N /\ i \in 0..N /\ i + (n + 1) = p + 1 /\ (p + 1) - 1 = p
    BY <1>0, <2>1
  <2>3. Begins(out[i], out[p])
    BY <1>4, <2>1, <2>2
  <2>4. out[p + 1] = TakeRow(out[p], kind, rows[(p + 1) + 1], sku, value, m)
    BY <1>1, <2>2
  <2>5. Record(kind, rows[(p + 1) + 1], sku, value, m) \in T
    BY <1>2, <2>2
  <2>6. out[p + 1] \in {out[p], Append(out[p], Record(kind, rows[(p + 1) + 1], sku, value, m))}
    <3>1. PICK o, row : o = out[p] /\ row = rows[(p + 1) + 1]
      OBVIOUS
    <3>2. o \in Seq(T) /\ Record(kind, row, sku, value, m) \in T /\ out[p + 1] = TakeRow(o, kind, row, sku, value, m)
      BY <1>1, <2>2, <2>4, <2>5, <3>1
    <3>3. TakeRow(o, kind, row, sku, value, m) \in {o, Append(o, Record(kind, row, sku, value, m))}
      BY <3>2, TakeRowIs
    <3> QED
      BY <3>1, <3>2, <3>3
  <2>7. Begins(out[p], out[p + 1])
    BY <1>1, <2>2, <2>5, <2>6, BeginsAppend
  <2>8. out[i] \in Seq(T) /\ out[p] \in Seq(T) /\ out[p + 1] \in Seq(T)
    BY <1>1, <2>2
  <2>9. Begins(out[i], out[p + 1])
    BY <2>3, <2>7, <2>8, BeginsOn
  <2> QED
    BY <2>2, <2>9
<1>5. k - i \in Nat /\ i + (k - i) = k /\ k <= N
  BY <1>0
<1>6. k - i \in S
  <2> HIDE DEF S
  <2> QED
    BY <1>3, <1>4, <1>5, SetInduction
<1> QED
  BY <1>5, <1>6 DEF out

\* The records of rows that are a part's: all but the last are of the whole.
LEMMA RecordsOfPart ==
  ASSUME NEW X, NEW r \in Seq(X), NEW w \in Seq(X), Len(r) >= 2, ButLast(r, w),
         NEW kind, NEW sku, NEW value, NEW m,
         NEW T, RecordsIn(T, kind, r, sku, value, m), RecordsIn(T, kind, w, sku, value, m)
  PROVE  LET x == Records(kind, r, sku, value, m)[Len(r) - 1]
             y == Records(kind, w, sku, value, m)[Len(w) - 1]
         IN  x \in Seq(T) /\ y \in Seq(T) /\ ButLast(x, y)
<1>1. PICK a, b, n : /\ a = Records(kind, r, sku, value, m) /\ b = Records(kind, w, sku, value, m)
                     /\ n = Len(r) - 2
  OBVIOUS
<1>2. /\ n \in Nat /\ Len(r) = n + 2 /\ Len(r) - 1 = n + 1
      /\ \A i \in 1..(n + 1) : i <= Len(w) /\ r[i] = w[i]
  BY <1>1 DEF ButLast
<1>3. Len(w) \in Nat /\ n + 1 <= Len(w) /\ r # <<>> /\ w # <<>>
  BY <1>2
<1>4. /\ a[0] = <<>>
      /\ \A i \in 1..(n + 1) : a[i] = TakeRow(a[i - 1], kind, r[i + 1], sku, value, m)
      /\ \A i \in 0..(n + 1) : a[i] \in Seq(T)
  <2>1. /\ a[0] = <<>>
        /\ \A i \in 1..(Len(r) - 1) : a[i] = TakeRow(a[i - 1], kind, r[i + 1], sku, value, m)
        /\ \A i \in 0..(Len(r) - 1) : a[i] \in Seq(T)
    BY <1>1, <1>3, RecordsIs
  <2> QED
    BY <1>2, <2>1
<1>5. /\ b[0] = <<>>
      /\ \A i \in 1..(Len(w) - 1) : b[i] = TakeRow(b[i - 1], kind, w[i + 1], sku, value, m)
      /\ \A i \in 0..(Len(w) - 1) : b[i] \in Seq(T)
  BY <1>1, <1>3, RecordsIs
<1>6. a[n] = b[n]
  <2> DEFINE S == {i \in Nat : i <= n => a[i] = b[i]}
  <2>1. 0 \in S
    BY <1>4, <1>5
  <2>2. ASSUME NEW i \in Nat, i \in S PROVE i + 1 \in S
    <3> SUFFICES ASSUME i + 1 <= n PROVE a[i + 1] = b[i + 1]
      OBVIOUS
    <3>1. PICK k \in Nat : k = i + 1
      OBVIOUS
    <3>2. k \in 1..(n + 1) /\ k \in 1..(Len(w) - 1) /\ k + 1 \in 1..(n + 1) /\ k - 1 = i
      BY <1>2, <1>3, <3>1
    <3>3. a[k] = TakeRow(a[k - 1], kind, r[k + 1], sku, value, m)
      BY <1>4, <3>2
    <3>4. b[k] = TakeRow(b[k - 1], kind, w[k + 1], sku, value, m)
      BY <1>5, <3>2
    <3>5. r[k + 1] = w[k + 1]
      BY <1>2, <3>2
    <3>6. a[k - 1] = b[k - 1]
      BY <1>2, <2>2, <3>1, <3>2
    <3> QED
      BY <3>1, <3>3, <3>4, <3>5, <3>6
  <2> HIDE DEF S
  <2>3. n \in S
    BY <1>2, <2>1, <2>2, SetInduction
  <2> QED
    BY <1>2, <2>3 DEF S
<1>7. PICK p, x, y : p = a[n] /\ x = a[n + 1] /\ y = b[Len(w) - 1]
  OBVIOUS
<1>8. p \in Seq(T) /\ x \in Seq(T) /\ y \in Seq(T)
  BY <1>2, <1>3, <1>4, <1>5, <1>7
<1>9. PICK rec : rec = Record(kind, r[n + 2], sku, value, m)
  OBVIOUS
<1>10. rec \in T /\ x \in {p, Append(p, rec)}
  <2>1. n + 2 \in 1..Len(r) /\ n + 1 \in 1..(n + 1) /\ (n + 1) - 1 = n /\ (n + 1) + 1 = n + 2
    BY <1>2
  <2>2. rec \in T
    BY <1>9, <2>1 DEF RecordsIn
  <2>3. x = TakeRow(p, kind, r[n + 2], sku, value, m)
    BY <1>4, <1>7, <2>1
  <2> QED
    BY <1>8, <1>9, <2>2, <2>3, TakeRowIs
<1>11. Begins(p, y)
  <2>1. n \in 0..(Len(w) - 1) /\ Len(w) - 1 \in 0..(Len(w) - 1) /\ n <= Len(w) - 1
    BY <1>2, <1>3
  <2>2. Begins(b[n], b[Len(w) - 1])
    BY <1>1, <1>3, <2>1, RecordsGrow
  <2> QED
    BY <1>6, <1>7, <2>2
<1>12. ButLast(x, y)
  <2> SUFFICES ASSUME NEW i \in 1..(Len(x) - 1) PROVE i <= Len(y) /\ x[i] = y[i]
    BY DEF ButLast
  <2>1. Len(p) \in Nat /\ Len(x) \in Nat /\ Len(y) \in Nat
    BY <1>8
  <2>2. i \in 1..Len(p) /\ x[i] = p[i]
    <3>1. CASE x = p
      BY <2>1, <3>1
    <3>2. CASE x = Append(p, rec)
      <4>1. Len(x) = Len(p) + 1 /\ \A k \in 1..Len(p) : x[k] = p[k]
        BY <1>8, <1>10, <3>2
      <4> QED
        BY <2>1, <4>1
    <3> QED
      BY <1>10, <3>1, <3>2
  <2> QED
    BY <1>11, <2>1, <2>2 DEF Begins
<1> QED
  BY <1>1, <1>2, <1>7, <1>8, <1>12

-----------------------------------------------------------------------------
(* What comes of a part of a file.                                         *)

LEMMA ClassifyOne ==
  ASSUME NEW text, NEW declared, NEW a \in Classify(text, declared), NEW b \in Classify(text, declared)
  PROVE  a = b
<1>1. PICK names : Classify(text, declared) = IF IsEdi(text) THEN {"edi"}
                     ELSE IF declared \in {"csv_inventory", "csv_prices"} THEN {declared}
                     ELSE IF declared = "edi" THEN {} ELSE Sniffed(names)
  BY DEF Classify
<1>2. PICK x, y : Sniffed(names) = IF x THEN {"csv_prices"} ELSE IF y THEN {"csv_inventory"} ELSE {}
  BY DEF Sniffed
<1> QED
  BY <1>1, <1>2

\* Trimmed, a blank value is nothing.
LEMMA TrimmedSolid ==
  ASSUME NEW T, NEW v \in Seq(T), Trim(v) # <<>>
  PROVE  Solid(v)
<1> SUFFICES ASSUME ~Solid(v) PROVE FALSE
  OBVIOUS
<1>1. {i \in DOMAIN v : v[i] \notin {Blank, NL}} = {}
  BY DEF Solid, Blanks
<1>2. Trim(v) = SubSeq(v, 1, 0)
  BY <1>1 DEF Trim
<1>3. SubSeq(v, 1, 0) = <<>>
  OBVIOUS
<1> QED
  BY <1>2, <1>3

\* The rows of a part and of the whole, where the part has a row after its
\* first.
RowsMatch(r, w) == Len(r) >= 2 /\ ButLast(r, w) /\ r[1] = w[1] /\ r # <<>> /\ w # <<>>

LEMMA MatchingRows ==
  ASSUME NEW X, NEW r \in Seq(X), NEW w \in Seq(X), Len(r) >= 2, ButLast(r, w)
  PROVE  RowsMatch(r, w)
<1>1. 1 \in 1..(Len(r) - 1) /\ Len(w) \in Nat
  OBVIOUS
<1>2. 1 <= Len(w) /\ r[1] = w[1]
  BY <1>1 DEF ButLast
<1> QED
  BY <1>1, <1>2 DEF RowsMatch

\* Which columns.
SkuColumn(rows, m) == HeaderIndex(rows[1], SkuNames, m.sku)
ValueColumn(kind, rows, m) ==
  IF kind = "csv_inventory" THEN HeaderIndex(rows[1], QtyNames, m.qty) ELSE HeaderIndex(rows[1], PriceNames, m.price)

LEMMA ParseRowsIs ==
  ASSUME NEW kind, NEW text, NEW m, NEW x \in ParseRows(kind, text, m)
  PROVE  LET rows == ParseCsv(text, m.delimiter)
         IN  /\ rows # <<>> /\ SkuColumn(rows, m) # 0
             /\ x = Records(kind, rows, SkuColumn(rows, m), ValueColumn(kind, rows, m), m)[Len(rows) - 1]
<1>1. PICK rows : rows = ParseCsv(text, m.delimiter)
  OBVIOUS
<1>2. x \in IF rows = <<>> THEN {} ELSE IF SkuColumn(rows, m) = 0 \/ ValueColumn(kind, rows, m) = 0 THEN {}
            ELSE {Records(kind, rows, SkuColumn(rows, m), ValueColumn(kind, rows, m), m)[Len(rows) - 1]}
  BY <1>1 DEF ParseRows, SkuColumn, ValueColumn
<1> QED
  BY <1>1, <1>2

LEMMA RowsIn ==
  ASSUME NEW X, NEW rows \in Seq(X), NEW kind, NEW sku, NEW value, NEW m,
         NEW T, RecordsOf(kind, rows, sku, value, m) \subseteq T
  PROVE  RecordsIn(T, kind, rows, sku, value, m)
  BY DEF RecordsOf, RecordsIn

LEMMA ParseRowsOfPart ==
  ASSUME NEW U, NEW whole \in Seq(U), NEW text, Part(text, whole), NEW kind, NEW m,
         NEW x \in ParseRows(kind, text, m), x # <<>>
  PROVE  /\ Len(ParseCsv(text, m.delimiter)) >= 2
         /\ \A y \in ParseRows(kind, whole, m) : IsPrefix(Front(x), y)
<1>1. PICK r, w, s, v : /\ r = ParseCsv(text, m.delimiter) /\ w = ParseCsv(whole, m.delimiter)
                        /\ s = SkuColumn(r, m) /\ v = ValueColumn(kind, r, m)
  OBVIOUS
<1>2. text \in Seq(U)
  BY PartIs
<1>3. r \in Seq(Cells(U)) /\ w \in Seq(Cells(U)) /\ ButLast(r, w)
  BY <1>1, <1>2, ParsedIs, RowsOfPart DEF ButLast
<1>4. r # <<>> /\ x = Records(kind, r, s, v, m)[Len(r) - 1]
  BY <1>1, ParseRowsIs
<1>5. PICK T : T = RecordsOf(kind, r, s, v, m) \cup RecordsOf(kind, w, s, v, m)
  OBVIOUS
<1>6. RecordsIn(T, kind, r, s, v, m) /\ RecordsIn(T, kind, w, s, v, m)
  <2>1. RecordsOf(kind, r, s, v, m) \subseteq T /\ RecordsOf(kind, w, s, v, m) \subseteq T
    BY <1>5
  <2> QED
    BY <1>3, <2>1, RowsIn
<1>7. Len(r) >= 2
  <2> SUFFICES ASSUME ~(Len(r) >= 2) PROVE FALSE
    OBVIOUS
  <2>0. PICK n : n = Len(r)
    OBVIOUS
  <2>3. n \in Nat /\ n # 0 /\ ~(n >= 2)
    BY <1>3, <1>4, <2>0
  <2>4. n - 1 = 0
    BY <2>3
  <2>1. Len(r) - 1 = 0
    BY <2>0, <2>4
  <2>2. Records(kind, r, s, v, m)[0] = <<>>
    BY <1>3, <1>4, <1>6, RecordsIs
  <2> QED
    BY <1>4, <2>1, <2>2
<1>8. RowsMatch(r, w)
  BY <1>3, <1>7, MatchingRows
<1>9. ASSUME NEW y \in ParseRows(kind, whole, m) PROVE IsPrefix(Front(x), y)
  <2>1. s = SkuColumn(w, m) /\ v = ValueColumn(kind, w, m)
    BY <1>1, <1>8 DEF RowsMatch, SkuColumn, ValueColumn
  <2>2. y = Records(kind, w, s, v, m)[Len(w) - 1]
    BY <1>1, <2>1, ParseRowsIs
  <2>3. x \in Seq(T) /\ y \in Seq(T) /\ ButLast(x, y)
    BY <1>3, <1>4, <1>6, <1>7, <2>2, RecordsOfPart
  <2> QED
    BY <2>3, ButLastIsPrefix
<1> QED
  BY <1>1, <1>7, <1>9

\* A row as a record.
Fields(headers, row, m, match) ==
  LET names == [i \in DOMAIN headers |-> HeaderName(headers[i])]
      cell(name) == Cell(row, SelectLastInSeq(names, LAMBDA n : n = name))
  IN [name \in ToSet(names) |-> IF name = HeaderName(match) THEN ApplyXref(cell(name), m.xref) ELSE cell(name)]

LEMMA ParseGenericIs ==
  ASSUME NEW text, NEW m, NEW match, NEW x \in ParseGeneric(text, m, match)
  PROVE  LET rows == ParseCsv(text, m.delimiter)
         IN  rows # <<>> /\ x = [k \in 1..(Len(rows) - 1) |-> Fields(rows[1], rows[k + 1], m, match)]
  BY DEF ParseGeneric, Fields

LEMMA ParseGenericOfPart ==
  ASSUME NEW U, NEW whole \in Seq(U), NEW text, Part(text, whole), NEW m, NEW match,
         NEW x \in ParseGeneric(text, m, match), x # <<>>
  PROVE  /\ Len(ParseCsv(text, m.delimiter)) >= 2
         /\ \A y \in ParseGeneric(whole, m, match) : IsPrefix(Front(x), y)
<1>1. PICK r, w : r = ParseCsv(text, m.delimiter) /\ w = ParseCsv(whole, m.delimiter)
  OBVIOUS
<1>2. text \in Seq(U)
  BY PartIs
<1>3. r \in Seq(Cells(U)) /\ w \in Seq(Cells(U)) /\ ButLast(r, w)
  BY <1>1, <1>2, ParsedIs, RowsOfPart DEF ButLast
<1>4. r # <<>> /\ x = [k \in 1..(Len(r) - 1) |-> Fields(r[1], r[k + 1], m, match)]
  BY <1>1, ParseGenericIs
<1>5. Len(r) \in Nat /\ Len(r) # 0 /\ Len(r) - 1 \in Nat /\ Len(w) \in Nat
  BY <1>3, <1>4
<1>6. Len(r) >= 2
  <2> SUFFICES ASSUME ~(Len(r) >= 2) PROVE FALSE
    OBVIOUS
  <2>0. PICK n : n = Len(r)
    OBVIOUS
  <2>3a. n \in Nat /\ n # 0 /\ ~(n >= 2)
    BY <1>5, <2>0
  <2>4. n - 1 = 0
    BY <2>3a
  <2>1. Len(r) - 1 = 0
    BY <2>0, <2>4
  <2>2. x = [k \in 1..0 |-> Fields(r[1], r[k + 1], m, match)]
    BY <1>4, <2>1
  <2>3. x = <<>>
    <3>1. 1..0 = {}
      OBVIOUS
    <3> QED
      BY <2>2, <3>1
  <2> QED
    BY <2>3
<1>7. RowsMatch(r, w)
  BY <1>3, <1>6, MatchingRows
<1>8. ASSUME NEW y \in ParseGeneric(whole, m, match) PROVE IsPrefix(Front(x), y)
  <2>1. y = [k \in 1..(Len(w) - 1) |-> Fields(w[1], w[k + 1], m, match)]
    BY <1>1, ParseGenericIs
  <2>2. PICK nx, ny : nx = Len(r) - 1 /\ ny = Len(w) - 1
    OBVIOUS
  <2>3. nx \in Nat /\ ny \in Nat
    BY <1>5, <1>7, <1>3, <2>2 DEF RowsMatch
  <2>4. PICK T : T = {x[k] : k \in 1..nx} \cup {y[k] : k \in 1..ny}
    OBVIOUS
  <2>5. x \in [1..nx -> T] /\ y \in [1..ny -> T]
    BY <1>4, <2>1, <2>2, <2>4
  <2>6. x \in Seq(T) /\ y \in Seq(T) /\ Len(x) = nx /\ Len(y) = ny
    BY <2>3, <2>5
  <2>7. ASSUME NEW k \in 1..(nx - 1) PROVE k <= ny /\ x[k] = y[k]
    <3>1. k + 1 \in 1..(Len(r) - 1) /\ k \in 1..(Len(r) - 1)
      BY <1>5, <2>2, <2>3
    <3>2. k + 1 <= Len(w) /\ r[k + 1] = w[k + 1]
      BY <1>3, <3>1 DEF ButLast
    <3>3. k \in 1..(Len(w) - 1)
      BY <1>5, <2>3, <3>1, <3>2
    <3>4. x[k] = Fields(r[1], r[k + 1], m, match) /\ y[k] = Fields(w[1], w[k + 1], m, match)
      BY <1>4, <2>1, <3>1, <3>3
    <3> QED
      BY <1>7, <2>2, <3>2, <3>3, <3>4 DEF RowsMatch
  <2>8. ButLast(x, y)
    BY <2>6, <2>7 DEF ButLast
  <2> QED
    BY <2>6, <2>8, ButLastIsPrefix
<1> QED
  BY <1>1, <1>6, <1>8

\* Where the header is the same line, a part and the whole are of one kind.
LEMMA KindOfPart ==
  ASSUME NEW T, NEW whole \in Seq(T), NEW text, Part(text, whole), NEW m, NEW declared,
         Len(ParseCsv(text, m.delimiter)) >= 2, SolidRow(ParseCsv(text, m.delimiter)[1])
  PROVE  (IsEdi(text) <=> IsEdi(whole)) /\ Classify(text, declared) = Classify(whole, declared)
<1>1. text \in Seq(T)
  BY PartIs
<1>2. Ended(text, Len(text))
  BY <1>1, PartEnded
<1>3. (IsEdi(text) <=> IsEdi(whole)) /\ HeaderLine(text) = HeaderLine(whole)
  BY <1>2, SameLine
<1> QED
  BY <1>3 DEF Classify

\* What an outcome is.
LEMMA OutcomeIs ==
  ASSUME NEW text, NEW declared, NEW m, NEW o \in Outcome(text, declared, m)
  PROVE  IF m.target # <<>> /\ ~IsEdi(text)
         THEN o.kind = "dynamic" /\ o.rows \in ParseGeneric(text, m, m.target)
         ELSE /\ o.kind \in Classify(text, declared)
              /\ IF o.kind = "edi" THEN o.rows = <<>> ELSE o.rows \in ParseRows(o.kind, text, m)
<1>1. CASE m.target # <<>> /\ ~IsEdi(text)
  <2>1. PICK r \in ParseGeneric(text, m, m.target) : o = [kind |-> "dynamic", rows |-> r]
    BY <1>1 DEF Outcome
  <2> QED
    BY <1>1, <2>1
<1>2. CASE ~(m.target # <<>> /\ ~IsEdi(text))
  <2>1. PICK kind \in Classify(text, declared) :
          o \in IF kind = "edi" THEN {[kind |-> kind, rows |-> <<>>]}
                ELSE {[kind |-> kind, rows |-> r] : r \in ParseRows(kind, text, m)}
    BY <1>2 DEF Outcome
  <2>2. o.kind = kind /\ IF kind = "edi" THEN o.rows = <<>> ELSE o.rows \in ParseRows(kind, text, m)
    BY <2>1
  <2> QED
    BY <1>2, <2>1, <2>2
<1> QED
  BY <1>1, <1>2

LEMMA OutcomeOfPart ==
  ASSUME NEW T, NEW whole \in Seq(T), NEW text, Part(text, whole), NEW m, NEW declared, Headed(whole, m),
         NEW o \in Outcome(text, declared, m), o.rows # <<>>, NEW w \in Outcome(whole, declared, m)
  PROVE  o.kind = w.kind /\ IsPrefix(Front(o.rows), w.rows)
<1>1. PICK r, z : r = ParseCsv(text, m.delimiter) /\ z = ParseCsv(whole, m.delimiter)
  OBVIOUS
<1>2. text \in Seq(T)
  BY PartIs
<1>3. PICK X : r \in Seq(X) /\ z \in Seq(X) /\ ButLast(r, z)
  <2>1. PICK U : whole \in Seq(U) /\ text \in Seq(U)
    BY <1>2
  <2>2. PICK X : X = Cells(U)
    OBVIOUS
  <2>3. r \in Seq(X) /\ z \in Seq(X)
    BY <1>1, <2>1, <2>2, ParsedIs
  <2>4. ButLast(r, z)
    BY <1>1, <2>1, RowsOfPart DEF ButLast
  <2> QED
    BY <2>3, <2>4
<1>4. Len(r) >= 2 => RowsMatch(r, z)
  BY <1>3, MatchingRows
<1>5. z # <<>> => SolidRow(z[1]) \/ (~IsEdi(whole) /\ (m.target # <<>> \/ SkuColumn(z, m) = 0))
  <2>1. LET rows == ParseCsv(whole, m.delimiter)
        IN rows # <<>> => SolidRow(rows[1]) \/ (~IsEdi(whole) /\ (m.target # <<>> \/ SkuColumn(rows, m) = 0))
    BY Zenon DEF Headed, SolidRow, SkuColumn
  <2> QED
    BY <1>1, <2>1
<1>6. CASE m.target # <<>> /\ ~IsEdi(text)
  <2>1. o.kind = "dynamic" /\ o.rows \in ParseGeneric(text, m, m.target)
    BY <1>6, OutcomeIs
  <2>2. Len(r) >= 2 /\ \A y \in ParseGeneric(whole, m, m.target) : IsPrefix(Front(o.rows), y)
    BY <1>1, <2>1, ParseGenericOfPart
  <2>3. r[1] = z[1] /\ z # <<>>
    BY <1>4, <2>2 DEF RowsMatch
  <2>4. ~IsEdi(whole)
    <3>1. CASE SolidRow(z[1])
      BY <1>1, <1>6, <2>2, <2>3, <3>1, KindOfPart
    <3> QED
      BY <1>5, <2>3, <3>1
  <2>5. w.kind = "dynamic" /\ w.rows \in ParseGeneric(whole, m, m.target)
    BY <1>6, <2>4, OutcomeIs
  <2> QED
    BY <2>1, <2>2, <2>5
<1>7. CASE ~(m.target # <<>> /\ ~IsEdi(text))
  <2>1. o.kind \in Classify(text, declared) /\ o.kind # "edi" /\ o.rows \in ParseRows(o.kind, text, m)
    BY <1>7, OutcomeIs
  <2>2. Len(r) >= 2 /\ \A y \in ParseRows(o.kind, whole, m) : IsPrefix(Front(o.rows), y)
    BY <1>1, <2>1, ParseRowsOfPart
  <2>3. r[1] = z[1] /\ z # <<>>
    BY <1>4, <2>2 DEF RowsMatch
  <2>4. SkuColumn(z, m) # 0
    BY <1>1, <2>1, <2>3, ParseRowsIs DEF SkuColumn
  <2>5. ~IsEdi(text)
    <3> SUFFICES ASSUME IsEdi(text) PROVE FALSE
      OBVIOUS
    <3>1. Classify(text, declared) = {"edi"}
      BY DEF Classify
    <3> QED
      BY <2>1, <3>1
  <2>6. SolidRow(r[1])
    BY <1>5, <1>7, <2>3, <2>4, <2>5
  <2>7. (IsEdi(text) <=> IsEdi(whole)) /\ Classify(text, declared) = Classify(whole, declared)
    BY <1>1, <2>2, <2>6, KindOfPart
  <2>8. w.kind \in Classify(whole, declared) /\ (w.kind # "edi" => w.rows \in ParseRows(w.kind, whole, m))
    BY <1>7, <2>5, OutcomeIs
  <2>9. w.kind = o.kind
    BY <2>1, <2>7, <2>8, ClassifyOne
  <2> QED
    BY <2>1, <2>2, <2>8, <2>9
<1> QED
  BY <1>6, <1>7

-----------------------------------------------------------------------------
(* What a supplier writes is a text.                                       *)

\* h: the first pieces of s, one after the other.
Flattened(X, s, h) ==
  /\ FlattenSeq(s) = h[Len(s)] /\ h[1] = s[1]
  /\ \A i \in 2..Len(s) : h[i] = h[i - 1] \o s[i]
  /\ \A i \in 1..Len(s) : h[i] \in X

LEMMA FlattenIs ==
  ASSUME NEW X, \A a, b \in X : a \o b \in X, NEW s \in Seq(X), s # <<>>
  PROVE  \E h : Flattened(X, s, h)
<1> DEFINE N == Len(s) - 1
           step == [k \in 1..N |-> [x \in X |-> x \o s[k + 1]]]
           Flat(f) == f = [i \in 1..Len(s) |-> IF i = 1 THEN s[i] ELSE f[i - 1] \o s[i]]
<1>1. Len(s) \in Nat /\ Len(s) # 0 /\ \A i \in 1..Len(s) : s[i] \in X
  OBVIOUS
<1>2. N \in Nat /\ Len(s) = N + 1 /\ 1 \in 1..Len(s) /\ \A k \in 1..N : k + 1 \in 1..Len(s)
  BY <1>1
<1>3. step \in [1..N -> [X -> X]] /\ s[1] \in X
  BY <1>1, <1>2
<1>4. PICK g \in [0..N -> X] : g[0] = s[1] /\ \A k \in 1..N : g[k] = step[k][g[k - 1]]
  <2> HIDE DEF step, N
  <2>1. PICK a : a = s[1]
    OBVIOUS
  <2>2. Runs(X, a, N, step)
    BY <1>2, <1>3, <2>1, Recursion
  <2> QED
    BY <2>1, <2>2 DEF Runs
<1>5. PICK f : f = [i \in 1..Len(s) |-> g[i - 1]]
  OBVIOUS
<1>6. \A i \in 1..Len(s) : f[i] = IF i = 1 THEN s[i] ELSE f[i - 1] \o s[i]
  <2> SUFFICES ASSUME NEW i \in 1..Len(s) PROVE f[i] = IF i = 1 THEN s[i] ELSE f[i - 1] \o s[i]
    OBVIOUS
  <2>1. CASE i = 1
    BY <1>4, <1>5, <2>1
  <2>2. CASE i # 1
    <3>1. i - 1 \in 1..N /\ i - 1 \in 1..Len(s) /\ (i - 1) - 1 \in 0..N /\ (i - 1) + 1 = i
      BY <1>2, <2>2
    <3>2. g[(i - 1) - 1] \in X
      BY <1>4, <3>1
    <3>3. g[i - 1] = step[i - 1][g[(i - 1) - 1]]
      BY <1>4, <3>1
    <3>4. g[i - 1] = g[(i - 1) - 1] \o s[i]
      BY <3>1, <3>2, <3>3
    <3>5. f[i] = g[i - 1] /\ f[i - 1] = g[(i - 1) - 1]
      BY <1>5, <3>1
    <3> QED
      BY <2>2, <3>4, <3>5
  <2> QED
    BY <2>1, <2>2
<1>7. Flat(f)
  <2>1. f = [i \in 1..Len(s) |-> f[i]]
    BY <1>5
  <2> HIDE DEF N, step
  <2> QED
    BY <1>6, <2>1
<1>8. PICK h : Flat(h) /\ FlattenSeq(s) = h[Len(s)]
  <2>1. FlattenSeq(s) = (CHOOSE h : Flat(h))[Len(s)]
    BY <1>1 DEF FlattenSeq
  <2> HIDE DEF Flat
  <2> QED
    BY <1>7, <2>1
<1>9. \A i \in 1..Len(s) : h[i] = IF i = 1 THEN s[i] ELSE h[i - 1] \o s[i]
  <2> HIDE DEF N, step
  <2> QED
    BY <1>8
<1>10. \A k \in 0..N : h[k + 1] \in X
  <2> DEFINE S == {k \in Nat : k <= N => h[k + 1] \in X}
  <2> HIDE DEF N, step, Flat
  <2>1. 0 \in S
    <3>1. h[1] = s[1]
      BY <1>2, <1>9
    <3> QED
      BY <1>3, <3>1
  <2>2. ASSUME NEW k \in Nat, k \in S PROVE k + 1 \in S
    <3> SUFFICES ASSUME k + 1 <= N PROVE h[(k + 1) + 1] \in X
      OBVIOUS
    <3>1. (k + 1) + 1 \in 1..Len(s) /\ (k + 1) + 1 # 1 /\ ((k + 1) + 1) - 1 = k + 1 /\ h[k + 1] \in X
      BY <1>2, <2>2
    <3>2. h[(k + 1) + 1] = h[k + 1] \o s[(k + 1) + 1] /\ s[(k + 1) + 1] \in X
      BY <1>1, <1>9, <3>1
    <3> QED
      BY <3>1, <3>2
  <2> HIDE DEF S
  <2>3. \A k \in Nat : k \in S
    BY <2>1, <2>2, SetInduction
  <2> QED
    BY <1>2, <2>3 DEF S
<1> QED
  <2> HIDE DEF step, Flat
  <2>1. h[1] = s[1] /\ FlattenSeq(s) = h[Len(s)]
    BY <1>2, <1>8, <1>9
  <2>2. \A i \in 2..Len(s) : h[i] = h[i - 1] \o s[i]
    <3> SUFFICES ASSUME NEW i \in 2..Len(s) PROVE h[i] = h[i - 1] \o s[i]
      OBVIOUS
    <3>1. i \in 1..Len(s) /\ i # 1
      BY <1>1
    <3> QED
      BY <1>9, <3>1
  <2>3. \A i \in 1..Len(s) : h[i] \in X
    <3> SUFFICES ASSUME NEW i \in 1..Len(s) PROVE h[i] \in X
      OBVIOUS
    <3>1. i - 1 \in 0..N /\ (i - 1) + 1 = i
      BY <1>2
    <3> HIDE DEF N
    <3>2. h[(i - 1) + 1] \in X
      BY <1>10, <3>1
    <3> QED
      BY <3>1, <3>2
  <2> QED
    BY <2>1, <2>2, <2>3 DEF Flattened

LEMMA FlattenType ==
  ASSUME NEW X, \A a, b \in X : a \o b \in X, NEW s \in Seq(X), s # <<>>
  PROVE  FlattenSeq(s) \in X
<1>1. PICK h : Flattened(X, s, h)
  BY FlattenIs
<1>2. Len(s) \in 1..Len(s)
  OBVIOUS
<1> QED
  BY <1>1, <1>2 DEF Flattened

LEMMA FlattenText ==
  ASSUME NEW T, NEW s \in Seq(Seq(T))
  PROVE  FlattenSeq(s) \in Seq(T)
<1>1. CASE s = <<>>
  BY <1>1 DEF FlattenSeq
<1>2. CASE s # <<>>
  <2>1. \A a, b \in Seq(T) : a \o b \in Seq(T)
    OBVIOUS
  <2>2. PICK X : X = Seq(T)
    OBVIOUS
  <2> QED
    BY <1>2, <2>1, <2>2, FlattenType
<1> QED
  BY <1>1, <1>2

LEMMA TextsJoin ==
  ASSUME NEW T, NEW a \in Seq(T), NEW b \in Seq(T)
  PROVE  a \o b \in Seq(T) /\ Len(a \o b) = Len(a) + Len(b) /\ Len(a) \in Nat /\ Len(b) \in Nat
  OBVIOUS

LEMMA QuotedText ==
  ASSUME NEW T, Quote \in T, NEW cell \in Seq(T), NEW d
  PROVE  Quoted(cell, d) \in Seq(T)
<1>1. PICK twice : twice = [i \in DOMAIN cell |-> IF cell[i] = Quote THEN <<Quote, Quote>> ELSE <<cell[i]>>]
  OBVIOUS
<1>2. twice \in Seq(Seq(T))
  <2>1. PICK X, n, q : X = Seq(T) /\ n = Len(cell) /\ q = <<Quote, Quote>>
    OBVIOUS
  <2>2. q \in X /\ (\A i \in 1..n : <<cell[i]>> \in X) /\ n \in Nat
    BY <2>1
  <2>3. twice = [i \in 1..n |-> IF cell[i] = Quote THEN q ELSE <<cell[i]>>]
    BY <1>1, <2>1
  <2>4. twice \in [1..n -> X]
    BY <2>2, <2>3
  <2>5. twice \in Seq(X)
    BY <2>2, <2>4
  <2> QED
    BY <2>1, <2>5
<1>3. PICK a, b : a = <<Quote>> /\ b = FlattenSeq(twice) /\ a \in Seq(T) /\ b \in Seq(T)
  <2>1. FlattenSeq(twice) \in Seq(T)
    BY <1>2, FlattenText
  <2>2. <<Quote>> \in Seq(T)
    OBVIOUS
  <2> QED
    BY <2>1, <2>2
<1>4. a \o b \in Seq(T) /\ (a \o b) \o a \in Seq(T)
  BY <1>3, TextsJoin
<1>5. Quoted(cell, d) = cell \/ Quoted(cell, d) = a \o b \o a
  BY <1>1, <1>3 DEF Quoted
<1> QED
  BY <1>4, <1>5

LEMMA FunctionText ==
  ASSUME NEW X, NEW n \in Nat, NEW f \in [1..n -> X]
  PROVE  f \in Seq(X) /\ Len(f) = n
  OBVIOUS

\* h: the first cells of a row, each after a separator; the line is without
\* the first.
LineBuilt(T, row, d, h) ==
  /\ LineOf(row, d) = Tail(h[Len(row)]) \o <<NL>>
  /\ h[1] = <<d>> \o Quoted(row[1], d)
  /\ \A i \in 2..Len(row) : h[i] = h[i - 1] \o (<<d>> \o Quoted(row[i], d))
  /\ \A i \in 1..Len(row) : h[i] \in Seq(T) /\ h[i] # <<>>

LEMMA LineIs ==
  ASSUME NEW T, Quote \in T, NL \in T, NEW row \in Seq(Seq(T)), row # <<>>, NEW d \in T
  PROVE  \E h : LineBuilt(T, row, d, h)
<1> DEFINE X == {x \in Seq(T) : x # <<>>}
<1>1. PICK cells : cells = [i \in DOMAIN row |-> Quoted(row[i], d)]
  OBVIOUS
<1>2. cells \in Seq(Seq(T)) /\ Len(cells) = Len(row) /\ Len(row) \in Nat /\ Len(row) # 0
  <2>1. PICK Y, n : Y = Seq(T) /\ n = Len(row) /\ row \in Seq(Y)
    OBVIOUS
  <2>2. \A i \in 1..n : Quoted(row[i], d) \in Y
    BY <2>1, QuotedText
  <2>3. n \in Nat /\ n # 0 /\ cells = [i \in 1..n |-> Quoted(row[i], d)]
    BY <1>1, <2>1
  <2>4. cells \in [1..n -> Y]
    BY <2>2, <2>3
  <2>5. cells \in Seq(Y) /\ Len(cells) = n
    BY <2>3, <2>4
  <2> QED
    BY <2>1, <2>3, <2>5
<1>3. PICK marked : marked = [i \in DOMAIN cells |-> <<d>> \o cells[i]]
  OBVIOUS
<1>4. marked \in Seq(X) /\ marked # <<>>
  <2>1. \A i \in 1..Len(cells) : (<<d>> \o cells[i]) \in X
    <3> SUFFICES ASSUME NEW i \in 1..Len(cells) PROVE (<<d>> \o cells[i]) \in X
      OBVIOUS
    <3>1. PICK c \in Seq(T) : c = cells[i]
      BY <1>2
    <3>2. <<d>> \o c \in Seq(T) /\ Len(<<d>> \o c) = 1 + Len(c) /\ Len(c) \in Nat
      OBVIOUS
    <3> QED
      BY <3>1, <3>2
  <2> HIDE DEF X
  <2>2. PICK n : n = Len(cells) /\ n \in Nat /\ n # 0
    BY <1>2
  <2>3. DOMAIN cells = 1..n
    BY <1>2, <2>2
  <2>4. marked = [i \in 1..n |-> <<d>> \o cells[i]]
    BY <1>3, <2>3
  <2>5. marked \in [1..n -> X]
    BY <2>1, <2>2, <2>4
  <2>6. marked \in Seq(X) /\ Len(marked) = n
    BY <2>2, <2>5, FunctionText
  <2>7. marked # <<>>
    BY <2>2, <2>6
  <2> QED
    BY <2>6, <2>7
<1>5. \A a, b \in X : a \o b \in X
  <2> SUFFICES ASSUME NEW a \in Seq(T), NEW b \in Seq(T), a # <<>> PROVE a \o b \in X
    OBVIOUS
  <2>1. a \o b \in Seq(T) /\ Len(a \o b) = Len(a) + Len(b) /\ Len(a) \in Nat \ {0} /\ Len(b) \in Nat
    OBVIOUS
  <2> QED
    BY <2>1
<1>6. PICK h : Flattened(X, marked, h)
  <2> HIDE DEF X
  <2> QED
    BY <1>4, <1>5, FlattenIs
<1>7. PICK n : n = Len(row) /\ n \in Nat /\ n # 0 /\ Len(marked) = n /\ Len(cells) = n
  <2>1. Len(marked) = Len(cells)
    BY <1>2, <1>3
  <2> QED
    BY <1>2, <2>1
<1>8. \A i \in 1..n : marked[i] = <<d>> \o Quoted(row[i], d)
  <2> SUFFICES ASSUME NEW i \in 1..n PROVE marked[i] = <<d>> \o Quoted(row[i], d)
    OBVIOUS
  <2>1. i \in DOMAIN row /\ i \in DOMAIN cells
    BY <1>2, <1>7
  <2> QED
    BY <1>1, <1>3, <2>1
<1>9. LineOf(row, d) = Tail(h[n]) \o <<NL>>
  BY <1>1, <1>3, <1>6, <1>7 DEF LineOf, Join, Flattened
<1>10. h[1] = <<d>> \o Quoted(row[1], d)
  <2>1. 1 \in 1..n
    BY <1>7
  <2> QED
    BY <1>6, <1>8, <2>1 DEF Flattened
<1>11. ASSUME NEW i \in 2..n PROVE h[i] = h[i - 1] \o (<<d>> \o Quoted(row[i], d))
  <2>1. i \in 1..n
    BY <1>7
  <2>2. h[i] = h[i - 1] \o marked[i]
    BY <1>6, <1>7 DEF Flattened
  <2> QED
    BY <1>8, <2>1, <2>2
<1>12. \A i \in 1..n : h[i] \in Seq(T) /\ h[i] # <<>>
  BY <1>6, <1>7 DEF Flattened
<1> QED
  BY <1>7, <1>9, <1>10, <1>11, <1>12 DEF LineBuilt

LEMMA LineText ==
  ASSUME NEW T, Quote \in T, NL \in T, NEW row \in Seq(Seq(T)), row # <<>>, NEW d \in T
  PROVE  LineOf(row, d) \in Seq(T)
<1>1. PICK h : LineBuilt(T, row, d, h)
  BY LineIs
<1>2. Len(row) \in 1..Len(row)
  OBVIOUS
<1>3. PICK x : x = h[Len(row)] /\ x \in Seq(T) /\ x # <<>>
  BY <1>1, <1>2 DEF LineBuilt
<1>4. Tail(x) \in Seq(T) /\ <<NL>> \in Seq(T)
  BY <1>3
<1>5. LineOf(row, d) = Tail(x) \o <<NL>>
  BY <1>1, <1>3 DEF LineBuilt
<1> QED
  BY <1>4, <1>5, TextsJoin

LEMMA SeqWider ==
  ASSUME NEW A, NEW B, A \subseteq B
  PROVE  Seq(A) \subseteq Seq(B) /\ Seq(Seq(A)) \subseteq Seq(Seq(B))
<1>1. Seq(A) \subseteq Seq(B)
  OBVIOUS
<1>2. PICK X, Y : X = Seq(A) /\ Y = Seq(B) /\ X \subseteq Y
  BY <1>1
<1>3. Seq(X) \subseteq Seq(Y)
  BY <1>2
<1> QED
  BY <1>1, <1>2, <1>3

\* What a text is made of.
Token == STRING \cup {Quote, NL}

\* The rows of a sheet, the header first.
RowsOfSheet(s) == <<s.headers>> \o s.records

LEMMA SheetIs ==
  ASSUME NEW s \in Sheets, NEW m \in Profiles
  PROVE  LET rows == RowsOfSheet(s)
         IN  /\ s.lead \in Seq(Token) /\ m.delimiter \in Token /\ Quote \in Token /\ NL \in Token
             /\ rows \in Seq(Seq(Seq(Token))) /\ rows # <<>>
             /\ \A i \in 1..Len(rows) :
                  /\ rows[i] # <<>>
                  /\ rows[i] = s.headers \/ \E k \in 1..Len(s.records) : rows[i] = s.records[k]
             /\ WriteCsv(s, m.delimiter) = s.lead \o FlattenSeq([i \in 1..Len(rows) |-> LineOf(rows[i], m.delimiter)])
<1>1. /\ s.lead \in Seq(STRING) /\ s.headers \in Seq(Seq(STRING)) /\ s.headers # <<>>
      /\ s.records \in Seq(Seq(Seq(STRING)) \ {<<>>}) /\ m.delimiter \in STRING
  BY CsvAssumption
<1>2. PICK n, R, h, d, X : /\ n = Len(s.records) /\ R = s.records /\ h = s.headers /\ d = m.delimiter
                           /\ X = Seq(Seq(Token)) \ {<<>>}
  OBVIOUS
<1>3. /\ s.lead \in Seq(Token) /\ d \in Token /\ h \in X
      /\ n \in Nat /\ R \in Seq(X) /\ \A i \in 1..n : R[i] \in X
  <2>1. STRING \subseteq Token
    BY DEF Token
  <2>2. Seq(STRING) \subseteq Seq(Token) /\ Seq(Seq(STRING)) \subseteq Seq(Seq(Token))
    BY <2>1, SeqWider
  <2>3. PICK Y : Y = Seq(Seq(STRING)) \ {<<>>} /\ Y \subseteq X
    BY <1>2, <2>2
  <2>4. Seq(Y) \subseteq Seq(X)
    BY <2>3, SeqWider
  <2>5. R \in Seq(X)
    BY <1>1, <1>2, <2>3, <2>4
  <2>6. n \in Nat /\ \A i \in 1..n : R[i] \in X
    BY <1>2, <2>5
  <2>7. h \in X
    BY <1>1, <1>2, <2>2
  <2> QED
    BY <1>1, <1>2, <2>1, <2>2, <2>5, <2>6, <2>7
<1>4. PICK rows : rows = <<h>> \o R
  OBVIOUS
<1>5. rows \in Seq(X) /\ Len(rows) = n + 1
  <2>1. <<h>> \in Seq(X) /\ Len(<<h>>) = 1
    BY <1>3
  <2> QED
    BY <1>2, <1>3, <1>4, <2>1, TextsJoin
<1>6. \A i \in 1..(n + 1) : rows[i] = IF i = 1 THEN h ELSE R[i - 1]
  <2> SUFFICES ASSUME NEW i \in 1..(n + 1) PROVE rows[i] = IF i = 1 THEN h ELSE R[i - 1]
    OBVIOUS
  <2> QED
    BY <1>2, <1>3, <1>4
<1>7. \A i \in 1..(n + 1) : rows[i] # <<>> /\ (rows[i] = h \/ \E k \in 1..n : rows[i] = R[k])
  <2> SUFFICES ASSUME NEW i \in 1..(n + 1)
               PROVE  rows[i] # <<>> /\ (rows[i] = h \/ \E k \in 1..n : rows[i] = R[k])
    OBVIOUS
  <2>1. CASE i = 1
    BY <1>2, <1>3, <1>6, <2>1
  <2>2. CASE i # 1
    <3>1. i - 1 \in 1..n
      BY <1>3, <2>2
    <3>2. rows[i] = R[i - 1] /\ R[i - 1] # <<>>
      BY <1>2, <1>3, <1>6, <2>2, <3>1
    <3> QED
      BY <3>1, <3>2
  <2> QED
    BY <2>1, <2>2
<1>8. rows \in Seq(Seq(Seq(Token))) /\ rows # <<>>
  <2>1. PICK Z : Z = Seq(Seq(Token)) /\ X \subseteq Z
    BY <1>2
  <2>2. Seq(X) \subseteq Seq(Z)
    BY <2>1, SeqWider
  <2>3. rows # <<>>
    BY <1>3, <1>5
  <2> QED
    BY <1>5, <2>1, <2>2, <2>3
<1>9. WriteCsv(s, d) = s.lead \o FlattenSeq([i \in 1..Len(rows) |-> LineOf(rows[i], d)])
  <2>1. [i \in 1..(n + 1) |-> LineOf(rows[i], d)] = [i \in 1..(n + 1) |-> LineOf(IF i = 1 THEN h ELSE R[i - 1], d)]
    BY <1>6
  <2>2. WriteCsv(s, d) = s.lead \o FlattenSeq([i \in 1..(n + 1) |-> LineOf(IF i = 1 THEN h ELSE R[i - 1], d)])
    BY <1>2 DEF WriteCsv
  <2> QED
    BY <1>5, <2>1, <2>2
<1>10. rows = RowsOfSheet(s)
  BY <1>2, <1>4 DEF RowsOfSheet
<1>11. Quote \in Token /\ NL \in Token
  BY DEF Token
<1> QED
  BY <1>2, <1>3, <1>5, <1>7, <1>8, <1>9, <1>10, <1>11

LEMMA LinesText ==
  ASSUME NEW T, Quote \in T, NL \in T, NEW rows \in Seq(Seq(Seq(T))),
         \A i \in 1..Len(rows) : rows[i] # <<>>, NEW d \in T
  PROVE  [i \in 1..Len(rows) |-> LineOf(rows[i], d)] \in Seq(Seq(T))
<1>1. PICK X : X = Seq(Seq(T)) /\ rows \in Seq(X)
  OBVIOUS
<1>2. PICK n : n = Len(rows) /\ n \in Nat /\ \A i \in 1..n : rows[i] \in X
  BY <1>1
<1>3. PICK lines : lines = [i \in 1..n |-> LineOf(rows[i], d)]
  OBVIOUS
<1>4. \A i \in 1..n : LineOf(rows[i], d) \in Seq(T)
  <2> SUFFICES ASSUME NEW i \in 1..n PROVE LineOf(rows[i], d) \in Seq(T)
    OBVIOUS
  <2>1. PICK row : row = rows[i] /\ row \in Seq(Seq(T)) /\ row # <<>>
    BY <1>1, <1>2
  <2> QED
    BY <2>1, LineText
<1>5. PICK Y : Y = Seq(T)
  OBVIOUS
<1>6. lines \in [1..n -> Y]
  BY <1>3, <1>4, <1>5
<1>7. lines \in Seq(Y)
  BY <1>2, <1>6, FunctionText
<1> QED
  BY <1>2, <1>3, <1>5, <1>7

LEMMA WrittenText ==
  ASSUME NEW s \in Sheets, NEW m \in Profiles
  PROVE  WriteCsv(s, m.delimiter) \in Seq(Token)
<1>1. PICK rows, lines : /\ rows = RowsOfSheet(s)
                         /\ lines = [i \in 1..Len(rows) |-> LineOf(rows[i], m.delimiter)]
  OBVIOUS
<1>2. s.lead \in Seq(Token) /\ WriteCsv(s, m.delimiter) = s.lead \o FlattenSeq(lines)
  BY <1>1, SheetIs
<1>3. lines \in Seq(Seq(Token))
  <2>1. /\ rows \in Seq(Seq(Seq(Token))) /\ m.delimiter \in Token /\ Quote \in Token /\ NL \in Token
        /\ \A i \in 1..Len(rows) : rows[i] # <<>>
    BY <1>1, SheetIs
  <2>2. [i \in 1..Len(rows) |-> LineOf(rows[i], m.delimiter)] \in Seq(Seq(Token))
    BY <2>1, LinesText
  <2> QED
    BY <1>1, <2>2
<1>4. FlattenSeq(lines) \in Seq(Token)
  BY <1>3, FlattenText
<1> QED
  BY <1>2, <1>4, TextsJoin

-----------------------------------------------------------------------------
(* What is shown and what is taken are outcomes of parts of the file.      *)

Seen(o) ==
  o # {} => file # <<>> /\ \E text : Part(text, file) /\ o = Outcome(text, fileType, mapping)

CsvInv ==
  /\ sheet \in Sheets /\ mapping \in Profiles
  /\ file # <<>> => file = WriteCsv(sheet, mapping.delimiter)
  /\ Seen(shown) /\ Seen(taken)

LEMMA CsvInvInit == CsvInit => CsvInv
  BY DEF CsvInit, CsvInv, Seen

LEMMA PartOfPrefixes ==
  ASSUME NEW f, NEW text \in Prefixes(f)
  PROVE  Part(text, f)
  BY DEF Prefixes, Part

LEMMA CsvInvNext == CsvInv /\ [CsvNext]_csvVars => CsvInv'
<1> SUFFICES ASSUME CsvInv, [CsvNext]_csvVars PROVE CsvInv'
  OBVIOUS
<1>1. CASE Upload
  <2>1. file = <<>> /\ file' = WriteCsv(sheet, mapping.delimiter)
        /\ sheet' = sheet /\ mapping' = mapping /\ shown' = shown /\ taken' = taken
    BY <1>1 DEF Upload
  <2>2. shown = {} /\ taken = {}
    BY <2>1 DEF CsvInv, Seen
  <2> QED
    BY <2>1, <2>2 DEF CsvInv, Seen
<1>2. CASE Preview
  <2>1. PICK text \in Prefixes(file) : shown' = Outcome(text, fileType, mapping)
    BY <1>2 DEF Preview
  <2>2. file # <<>> /\ UNCHANGED <<sheet, mapping, fileType, file, taken>>
    BY <1>2 DEF Preview
  <2>3. Part(text, file)
    BY <2>1, PartOfPrefixes
  <2> QED
    BY <2>1, <2>2, <2>3 DEF CsvInv, Seen
<1>3. CASE IngestFile
  <2>1. PICK text \in Prefixes(file) : taken' = Outcome(text, fileType, mapping)
    BY <1>3 DEF IngestFile
  <2>2. file # <<>> /\ UNCHANGED <<sheet, mapping, fileType, file, shown>>
    BY <1>3 DEF IngestFile
  <2>3. Part(text, file)
    BY <2>1, PartOfPrefixes
  <2> QED
    BY <2>1, <2>2, <2>3 DEF CsvInv, Seen
<1>4. CASE UNCHANGED csvVars
  BY <1>4 DEF csvVars, CsvInv, Seen
<1> QED
  BY <1>1, <1>2, <1>3, <1>4 DEF CsvNext

LEMMA CsvInvCut == CsvInv => CutHarmsLast
<1> SUFFICES ASSUME CsvInv, NEW o \in shown \cup taken, NEW w \in Outcome(file, fileType, mapping), o.rows # <<>>
             PROVE  o.kind = w.kind /\ IsPrefix(Front(o.rows), w.rows)
  BY DEF CutHarmsLast
<1>1. PICK text : file # <<>> /\ Part(text, file) /\ o \in Outcome(text, fileType, mapping)
  BY DEF CsvInv, Seen
<1>2. file \in Seq(Token) /\ Headed(file, mapping)
  BY <1>1, WrittenText, HeadedAssumption DEF CsvInv
<1> QED
  BY <1>1, <1>2, OutcomeOfPart

\* A part of a file, the sample of a dry run or what of it was there when
\* the poller came, is of the kind the whole file is of and gives rows of
\* the whole file, in its order, but for the last, which may be cut off.
THEOREM CsvCut == CsvSpec => []CutHarmsLast
<1>1. CsvInit => CsvInv
  BY CsvInvInit
<1>2. CsvInv /\ [CsvNext]_csvVars => CsvInv'
  BY CsvInvNext
<1>3. CsvInv => CutHarmsLast
  BY CsvInvCut
<1> QED
  BY <1>1, <1>2, <1>3, PTL DEF CsvSpec

-----------------------------------------------------------------------------
(* What is written is read.  Reading on from a state.                      *)

RunsTo(acc, text, d, end) ==
  \E f : /\ f[0] = acc /\ f[Len(text)] = end
         /\ \A i \in 1..Len(text) : f[i] = TakeToken(f[i - 1], text[i], d)

LEMMA RunsOne ==
  ASSUME NEW acc, NEW t, NEW d
  PROVE  RunsTo(acc, <<t>>, d, TakeToken(acc, t, d))
<1>1. PICK f : f = [i \in {0, 1} |-> IF i = 0 THEN acc ELSE TakeToken(acc, t, d)]
  OBVIOUS
<1>2. f[0] = acc /\ f[1] = TakeToken(acc, t, d) /\ Len(<<t>>) = 1 /\ <<t>>[1] = t
  BY <1>1
<1>3. \A i \in 1..1 : f[i] = TakeToken(f[i - 1], <<t>>[i], d)
  <2> SUFFICES ASSUME NEW i \in 1..1 PROVE f[i] = TakeToken(f[i - 1], <<t>>[i], d)
    OBVIOUS
  <2>1. i = 1 /\ i - 1 = 0
    OBVIOUS
  <2> QED
    BY <1>2, <2>1
<1> QED
  BY <1>2, <1>3 DEF RunsTo

LEMMA RunsOn ==
  ASSUME NEW T, NEW x \in Seq(T), NEW y \in Seq(T), NEW d, NEW a, NEW b, NEW c,
         RunsTo(a, x, d, b), RunsTo(b, y, d, c)
  PROVE  RunsTo(a, x \o y, d, c)
<1>1. PICK f : f[0] = a /\ f[Len(x)] = b /\ \A i \in 1..Len(x) : f[i] = TakeToken(f[i - 1], x[i], d)
  BY DEF RunsTo
<1>2. PICK g : g[0] = b /\ g[Len(y)] = c /\ \A i \in 1..Len(y) : g[i] = TakeToken(g[i - 1], y[i], d)
  BY DEF RunsTo
<1>3. PICK m, n, z : m = Len(x) /\ n = Len(y) /\ z = x \o y
  OBVIOUS
<1>4. /\ m \in Nat /\ n \in Nat /\ Len(z) = m + n
      /\ \A i \in 1..m : z[i] = x[i]
      /\ \A i \in (m + 1)..(m + n) : z[i] = y[i - m]
  BY <1>3
<1>5. PICK h : h = [i \in 0..(m + n) |-> IF i <= m THEN f[i] ELSE g[i - m]]
  OBVIOUS
<1>6. h[0] = a
  BY <1>1, <1>4, <1>5
<1>7. h[m + n] = c
  <2>1. CASE n = 0
    BY <1>1, <1>2, <1>3, <1>4, <1>5, <2>1
  <2>2. CASE n # 0
    <3>1. m + n \in 0..(m + n) /\ ~(m + n <= m) /\ (m + n) - m = n
      BY <1>4, <2>2
    <3> QED
      BY <1>2, <1>3, <1>5, <3>1
  <2> QED
    BY <2>1, <2>2
<1>8. ASSUME NEW i \in 1..(m + n) PROVE h[i] = TakeToken(h[i - 1], z[i], d)
  <2>0. i \in 0..(m + n) /\ i - 1 \in 0..(m + n)
    BY <1>4
  <2>1. CASE i <= m
    <3>1. i \in 1..m /\ i - 1 <= m
      BY <1>4, <2>1
    <3> QED
      BY <1>1, <1>3, <1>4, <1>5, <2>0, <2>1, <3>1
  <2>2. CASE i = m + 1
    <3>1. i \in (m + 1)..(m + n) /\ i - m = 1 /\ i - 1 = m /\ 1 \in 1..n /\ 1 - 1 = 0
      BY <1>4, <2>2
    <3>2. h[i] = g[1] /\ h[i - 1] = b /\ z[i] = y[1]
      BY <1>1, <1>3, <1>4, <1>5, <2>0, <2>2, <3>1
    <3> QED
      BY <1>2, <1>3, <3>1, <3>2
  <2>3. CASE i > m + 1
    <3>1. /\ i \in (m + 1)..(m + n) /\ i - m \in 1..n /\ ~(i <= m) /\ ~(i - 1 <= m)
          /\ (i - 1) - m = (i - m) - 1
      BY <1>4, <2>3
    <3>2. h[i] = g[i - m] /\ h[i - 1] = g[(i - m) - 1] /\ z[i] = y[i - m]
      BY <1>4, <1>5, <2>0, <3>1
    <3> QED
      BY <1>2, <1>3, <3>1, <3>2
  <2> QED
    BY <1>4, <2>1, <2>2, <2>3
<1> QED
  <2>1. h[Len(z)] = c /\ \A i \in 1..Len(z) : h[i] = TakeToken(h[i - 1], z[i], d)
    BY <1>4, <1>7, <1>8
  <2>2. RunsTo(a, z, d, c)
    BY <1>6, <2>1 DEF RunsTo
  <2> QED
    BY <1>3, <2>2

LEMMA RunsRead ==
  ASSUME NEW T, NEW text \in Seq(T), NEW d, NEW end, RunsTo(Fresh, text, d, end)
  PROVE  Reads(text, d)[Len(text)] = end
<1>1. PICK f : f[0] = Fresh /\ f[Len(text)] = end /\ \A i \in 1..Len(text) : f[i] = TakeToken(f[i - 1], text[i], d)
  BY DEF RunsTo
<1>2. PICK r, N : r = Reads(text, d) /\ N = Len(text)
  OBVIOUS
<1>3. N \in Nat /\ r[0] = Fresh /\ \A i \in 1..N : r[i] = TakeToken(r[i - 1], text[i], d)
  BY <1>2, ReadsIs
<1> DEFINE S == {i \in Nat : i <= N => r[i] = f[i]}
<1>4. 0 \in S
  BY <1>1, <1>3
<1>5. ASSUME NEW i \in Nat, i \in S PROVE i + 1 \in S
  <2> SUFFICES ASSUME i + 1 <= N PROVE r[i + 1] = f[i + 1]
    OBVIOUS
  <2>1. i + 1 \in 1..N /\ (i + 1) - 1 = i /\ r[i] = f[i]
    BY <1>3, <1>5
  <2> QED
    BY <1>1, <1>2, <1>3, <2>1
<1> HIDE DEF S
<1>6. \A i \in Nat : i \in S
  BY <1>4, <1>5, SetInduction
<1> QED
  BY <1>1, <1>2, <1>3, <1>6 DEF S

\* From state to state, piece by piece.
LEMMA RunsPieces ==
  ASSUME NEW T, NEW s \in Seq(Seq(T)), s # <<>>, NEW d, NEW g,
         \A i \in 1..Len(s) : RunsTo(g[i - 1], s[i], d, g[i])
  PROVE  RunsTo(g[0], FlattenSeq(s), d, g[Len(s)])
<1>1. PICK X : X = Seq(T) /\ s \in Seq(X) /\ \A a, b \in X : a \o b \in X
  <2>1. \A a, b \in Seq(T) : a \o b \in Seq(T)
    BY TextsJoin
  <2> QED
    BY <2>1
<1>2. PICK h : Flattened(X, s, h)
  BY <1>1, FlattenIs
<1>3. PICK N : N = Len(s) /\ N \in Nat /\ N # 0 /\ \A i \in 1..N : s[i] \in X
  BY <1>1
<1> DEFINE S == {n \in Nat : n + 1 <= N => RunsTo(g[0], h[n + 1], d, g[n + 1])}
<1>4. 0 \in S
  <2>1. 1 \in 1..N /\ 1 - 1 = 0 /\ 0 + 1 = 1
    BY <1>3
  <2>2. RunsTo(g[0], h[1], d, g[1])
    BY <1>2, <1>3, <2>1 DEF Flattened
  <2> QED
    BY <2>1, <2>2
<1>5. ASSUME NEW n \in Nat, n \in S PROVE n + 1 \in S
  <2> SUFFICES ASSUME (n + 1) + 1 <= N PROVE RunsTo(g[0], h[(n + 1) + 1], d, g[(n + 1) + 1])
    OBVIOUS
  <2>1. PICK i : i = (n + 1) + 1 /\ i \in 1..N /\ i \in 2..N /\ i - 1 = n + 1 /\ n + 1 \in 1..N
    BY <1>3
  <2>2. RunsTo(g[0], h[i - 1], d, g[i - 1])
    BY <1>3, <1>5, <2>1
  <2>3. h[i] = h[i - 1] \o s[i] /\ h[i - 1] \in X /\ s[i] \in X
    BY <1>2, <1>3, <2>1 DEF Flattened
  <2>4. RunsTo(g[i - 1], s[i], d, g[i])
    BY <1>3, <2>1
  <2>5. RunsTo(g[0], h[i - 1] \o s[i], d, g[i])
    BY <1>1, <2>2, <2>3, <2>4, RunsOn
  <2> QED
    BY <2>1, <2>3, <2>5
<1> HIDE DEF S
<1>6. \A n \in Nat : n \in S
  BY <1>4, <1>5, SetInduction
<1>7. N - 1 \in Nat /\ (N - 1) + 1 = N
  BY <1>3
<1>8. RunsTo(g[0], h[N], d, g[N])
  <2>1. PICK n \in Nat : n = N - 1 /\ n + 1 = N
    BY <1>7
  <2>2. RunsTo(g[0], h[n + 1], d, g[n + 1])
    BY <1>6, <2>1 DEF S
  <2> QED
    BY <2>1, <2>2
<1> QED
  BY <1>2, <1>3, <1>8 DEF Flattened

-----------------------------------------------------------------------------
(* A cell, a line, a file.                                                 *)

State(rows, row, field, mode) == [rows |-> rows, row |-> row, field |-> field, mode |-> mode]

\* How the reader takes a token after a cell's text.
LEMMA StateTakes ==
  ASSUME NEW R, NEW r, NEW v, NEW d, d # Quote, d # NL
  PROVE  /\ TakeToken(State(R, r, v, "plain"), Quote, d) = State(R, r, v, "in")
         /\ TakeToken(State(R, r, v, "in"), Quote, d) = State(R, r, v, "quoted")
         /\ TakeToken(State(R, r, v, "quoted"), Quote, d) = State(R, r, Append(v, Quote), "in")
<1>3. TakeToken(State(R, r, v, "plain"), Quote, d) = State(R, r, v, "in")
  BY DEF TakeToken, State, NL, Quote
<1>4. TakeToken(State(R, r, v, "in"), Quote, d) = State(R, r, v, "quoted")
  BY DEF TakeToken, State, NL, Quote
<1>5. TakeToken(State(R, r, v, "quoted"), Quote, d) = State(R, r, Append(v, Quote), "in")
  BY DEF TakeToken, State, NL, Quote
<1> QED
  BY <1>3, <1>4, <1>5

\* And how one that ends it.
LEMMA StateEnds ==
  ASSUME NEW R, NEW r, NEW v, NEW d, d # Quote, d # NL, NEW mode \in {"plain", "quoted"}
  PROVE  /\ TakeToken(State(R, r, v, mode), d, d) = State(R, Append(r, v), <<>>, "plain")
         /\ TakeToken(State(R, r, v, mode), NL, d) =
              State(IF Append(r, v) = << <<>> >> THEN R ELSE Append(R, Append(r, v)), <<>>, <<>>, "plain")
<1>1. TakeToken(State(R, r, v, mode), d, d) = State(R, Append(r, v), <<>>, "plain")
  BY DEF TakeToken, State, NL, Quote
<1>2. TakeToken(State(R, r, v, mode), NL, d) =
        State(IF Append(r, v) = << <<>> >> THEN R ELSE Append(R, Append(r, v)), <<>>, <<>>, "plain")
  <2>1. TakeToken(State(R, r, v, mode), NL, d) = PushRow(State(R, r, v, "plain"))
    BY DEF TakeToken, State, NL, Quote
  <2>2. PushRow(State(R, r, v, "plain")) =
          State(IF Append(r, v) = << <<>> >> THEN R ELSE Append(R, Append(r, v)), <<>>, <<>>, "plain")
    <3>1. PICK acc, row : acc = State(R, r, v, "plain") /\ row = Append(r, v)
      OBVIOUS
    <3>2. acc.rows = R /\ acc.row = r /\ acc.field = v /\ acc.mode = "plain"
          /\ DOMAIN acc = {"rows", "row", "field", "mode"}
      BY <3>1 DEF State
    <3>3. PushRow(acc) = [acc EXCEPT !.row = <<>>, !.field = <<>>,
                                     !.rows = IF row = << <<>> >> THEN acc.rows ELSE Append(acc.rows, row)]
      BY <3>1, <3>2 DEF PushRow
    <3>4. PICK rows : rows = IF row = << <<>> >> THEN R ELSE Append(R, row)
      OBVIOUS
    <3>5. PushRow(acc) = [acc EXCEPT !.row = <<>>, !.field = <<>>, !.rows = rows]
      BY <3>2, <3>3, <3>4
    <3>6. PushRow(acc) = State(rows, <<>>, <<>>, "plain")
      BY <3>1, <3>5 DEF State
    <3> QED
      BY <3>1, <3>4, <3>6
  <2> QED
    BY <2>1, <2>2
<1> QED
  BY <1>1, <1>2

LEMMA PlainTakes ==
  ASSUME NEW R, NEW r, NEW v, NEW d, d # Quote, d # NL, NEW t, t \notin {d, Quote, NL}
  PROVE  TakeToken(State(R, r, v, "plain"), t, d) = State(R, r, Append(v, t), "plain")
  BY DEF TakeToken, State

LEMMA QuotesTake ==
  ASSUME NEW R, NEW r, NEW v, NEW d, d # Quote, d # NL, NEW t, t # Quote
  PROVE  TakeToken(State(R, r, v, "in"), t, d) = State(R, r, Append(v, t), "in")
  BY DEF TakeToken, State

\* The first i elements of a sequence.
LEMMA FirstIs ==
  ASSUME NEW T, NEW s \in Seq(T)
  PROVE  /\ SubSeq(s, 1, 0) = <<>> /\ SubSeq(s, 1, Len(s)) = s
         /\ \A i \in 1..Len(s) : SubSeq(s, 1, i) = Append(SubSeq(s, 1, i - 1), s[i])
<1>1. SubSeq(s, 1, 0) = <<>> /\ SubSeq(s, 1, Len(s)) = s
  OBVIOUS
<1>2. ASSUME NEW i \in 1..Len(s) PROVE SubSeq(s, 1, i) = Append(SubSeq(s, 1, i - 1), s[i])
  OBVIOUS
<1> QED
  BY <1>1, <1>2

LEMMA PlainCell ==
  ASSUME NEW T, NEW cell \in Seq(T), NEW d, d # Quote, d # NL, NEW R, NEW r,
         \A i \in 1..Len(cell) : cell[i] \notin {d, Quote, NL}
  PROVE  RunsTo(State(R, r, <<>>, "plain"), cell, d, State(R, r, cell, "plain"))
<1>1. PICK f : f = [i \in 0..Len(cell) |-> State(R, r, SubSeq(cell, 1, i), "plain")]
  OBVIOUS
<1>2. Len(cell) \in Nat /\ f[0] = State(R, r, <<>>, "plain") /\ f[Len(cell)] = State(R, r, cell, "plain")
  BY <1>1, FirstIs
<1>3. ASSUME NEW i \in 1..Len(cell) PROVE f[i] = TakeToken(f[i - 1], cell[i], d)
  <2>1. i \in 0..Len(cell) /\ i - 1 \in 0..Len(cell)
    BY <1>2
  <2>2. PICK v : v = SubSeq(cell, 1, i - 1) /\ SubSeq(cell, 1, i) = Append(v, cell[i])
    BY FirstIs
  <2>3. f[i - 1] = State(R, r, v, "plain") /\ f[i] = State(R, r, Append(v, cell[i]), "plain")
    BY <1>1, <2>1, <2>2
  <2>4. PICK t : t = cell[i] /\ t \notin {d, Quote, NL}
    OBVIOUS
  <2>6. TakeToken(State(R, r, v, "plain"), t, d) = State(R, r, Append(v, t), "plain")
    BY <2>4, PlainTakes
  <2> QED
    BY <2>3, <2>4, <2>6
<1> QED
  BY <1>2, <1>3 DEF RunsTo

LEMMA TakesOne ==
  ASSUME NEW a, NEW b, NEW t, NEW d, b = TakeToken(a, t, d)
  PROVE  RunsTo(a, <<t>>, d, b)
  BY RunsOne

LEMMA SameTexts ==
  ASSUME NEW T, NEW s \in Seq(T), NEW t \in Seq(T), Len(s) = Len(t), \A i \in 1..Len(s) : s[i] = t[i]
  PROVE  s = t
  OBVIOUS

LEMMA TwiceIs ==
  ASSUME NEW x
  PROVE  <<x>> \o <<x>> = <<x, x>>
<1>1. PICK s, t : s = <<x>> \o <<x>> /\ t = <<x, x>>
  OBVIOUS
<1>2. <<x>> \in Seq({x}) /\ Len(<<x>>) = 1 /\ <<x>>[1] = x
  OBVIOUS
<1>3. s \in Seq({x}) /\ Len(s) = 2
  BY <1>1, <1>2, TextsJoin
<1>4. t \in Seq({x}) /\ Len(t) = 2
  BY <1>1
<1>5. \A i \in 1..2 : s[i] \in {x} /\ t[i] \in {x}
  BY <1>3, <1>4
<1>6. \A i \in 1..Len(s) : s[i] = t[i]
  BY <1>3, <1>5
<1> QED
  BY <1>1, <1>3, <1>4, <1>6, SameTexts

LEMMA QuotedCell ==
  ASSUME NEW T, Quote \in T, NEW cell \in Seq(T), cell # <<>>, NEW d, d # Quote, d # NL, NEW R, NEW r
  PROVE  LET twice == [i \in DOMAIN cell |-> IF cell[i] = Quote THEN <<Quote, Quote>> ELSE <<cell[i]>>]
         IN  RunsTo(State(R, r, <<>>, "plain"), <<Quote>> \o FlattenSeq(twice) \o <<Quote>>, d,
                    State(R, r, cell, "quoted"))
<1>1. PICK twice : twice = [i \in DOMAIN cell |-> IF cell[i] = Quote THEN <<Quote, Quote>> ELSE <<cell[i]>>]
  OBVIOUS
<1>2. twice \in Seq(Seq(T)) /\ Len(twice) = Len(cell) /\ Len(cell) \in Nat /\ Len(cell) # 0
  <2>1. PICK X, n, q : X = Seq(T) /\ n = Len(cell) /\ q = <<Quote, Quote>>
    OBVIOUS
  <2>2. q \in X /\ (\A i \in 1..n : <<cell[i]>> \in X) /\ n \in Nat /\ n # 0
    BY <2>1
  <2>3. twice = [i \in 1..n |-> IF cell[i] = Quote THEN q ELSE <<cell[i]>>]
    BY <1>1, <2>1
  <2>4. twice \in [1..n -> X]
    BY <2>2, <2>3
  <2>5. twice \in Seq(X) /\ Len(twice) = n
    BY <2>2, <2>4, FunctionText
  <2> QED
    BY <2>1, <2>2, <2>5
<1>3. PICK g : g = [i \in 0..Len(cell) |-> State(R, r, SubSeq(cell, 1, i), "in")]
  OBVIOUS
<1>4. g[0] = State(R, r, <<>>, "in") /\ g[Len(cell)] = State(R, r, cell, "in")
  <2>1. SubSeq(cell, 1, 0) = <<>> /\ SubSeq(cell, 1, Len(cell)) = cell
    BY FirstIs
  <2>2. 0 \in 0..Len(cell) /\ Len(cell) \in 0..Len(cell)
    BY <1>2
  <2> QED
    BY <1>3, <2>1, <2>2
<1>5. ASSUME NEW i \in 1..Len(cell) PROVE RunsTo(g[i - 1], twice[i], d, g[i])
  <2>1. i \in 0..Len(cell) /\ i - 1 \in 0..Len(cell) /\ i \in DOMAIN cell
    BY <1>2
  <2>2. PICK v, t : v = SubSeq(cell, 1, i - 1) /\ t = cell[i] /\ SubSeq(cell, 1, i) = Append(v, t) /\ t \in T
    <3>1. SubSeq(cell, 1, i) = Append(SubSeq(cell, 1, i - 1), cell[i])
      BY FirstIs
    <3>2. cell[i] \in T
      OBVIOUS
    <3> QED
      BY <3>1, <3>2
  <2>3. g[i - 1] = State(R, r, v, "in") /\ g[i] = State(R, r, Append(v, t), "in")
    BY <1>3, <2>1, <2>2
  <2>4. CASE t = Quote
    <3>1. twice[i] = <<Quote, Quote>>
      BY <1>1, <2>1, <2>2, <2>4
    <3>2. RunsTo(State(R, r, v, "in"), <<Quote>>, d, State(R, r, v, "quoted"))
      BY StateTakes, TakesOne
    <3>3. RunsTo(State(R, r, v, "quoted"), <<Quote>>, d, State(R, r, Append(v, Quote), "in"))
      BY StateTakes, TakesOne
    <3>4. <<Quote>> \in Seq(T) /\ <<Quote>> \o <<Quote>> = <<Quote, Quote>>
      <4>1. <<Quote>> \in Seq(T)
        OBVIOUS
      <4> QED
        BY <4>1, TwiceIs
    <3>5. RunsTo(State(R, r, v, "in"), <<Quote>> \o <<Quote>>, d, State(R, r, Append(v, Quote), "in"))
      BY <3>2, <3>3, <3>4, RunsOn
    <3> QED
      BY <2>3, <2>4, <3>1, <3>4, <3>5
  <2>5. CASE t # Quote
    <3>1. twice[i] = <<t>>
      BY <1>1, <2>1, <2>2, <2>5
    <3>2. RunsTo(State(R, r, v, "in"), <<t>>, d, State(R, r, Append(v, t), "in"))
      BY <2>5, QuotesTake, TakesOne
    <3> QED
      BY <2>3, <3>1, <3>2
  <2> QED
    BY <2>4, <2>5
<1>6. RunsTo(State(R, r, <<>>, "in"), FlattenSeq(twice), d, State(R, r, cell, "in"))
  <2>1. twice # <<>>
    BY <1>2
  <2>2. RunsTo(g[0], FlattenSeq(twice), d, g[Len(twice)])
    BY <1>2, <1>5, <2>1, RunsPieces
  <2> QED
    BY <1>2, <1>4, <2>2
<1>7. PICK a, b : a = <<Quote>> /\ b = FlattenSeq(twice) /\ a \in Seq(T) /\ b \in Seq(T)
  <2>1. FlattenSeq(twice) \in Seq(T)
    BY <1>2, FlattenText
  <2>2. <<Quote>> \in Seq(T)
    OBVIOUS
  <2> QED
    BY <2>1, <2>2
<1>8. RunsTo(State(R, r, <<>>, "plain"), a, d, State(R, r, <<>>, "in"))
  BY <1>7, StateTakes, TakesOne
<1>9. RunsTo(State(R, r, cell, "in"), a, d, State(R, r, cell, "quoted"))
  BY <1>7, StateTakes, TakesOne
<1>10. RunsTo(State(R, r, <<>>, "plain"), a \o b, d, State(R, r, cell, "in")) /\ a \o b \in Seq(T)
  BY <1>6, <1>7, <1>8, RunsOn, TextsJoin
<1>11. RunsTo(State(R, r, <<>>, "plain"), (a \o b) \o a, d, State(R, r, cell, "quoted"))
  BY <1>7, <1>9, <1>10, RunsOn
<1> QED
  BY <1>1, <1>7, <1>11

\* A cell is read as it was written, quoted or not.
CellRead(R, r, cell, d) ==
  \E mode \in {"plain", "quoted"} :
    RunsTo(State(R, r, <<>>, "plain"), Quoted(cell, d), d, State(R, r, cell, mode))

LEMMA CellIsRead ==
  ASSUME NEW T, Quote \in T, NEW cell \in Seq(T), NEW d, d # Quote, d # NL, NEW R, NEW r
  PROVE  CellRead(R, r, cell, d)
<1>1. CASE ToSet(cell) \cap {d, Quote, NL} = {}
  <2>1. \A i \in 1..Len(cell) : cell[i] \notin {d, Quote, NL}
    <3> SUFFICES ASSUME NEW i \in 1..Len(cell), cell[i] \in {d, Quote, NL} PROVE FALSE
      OBVIOUS
    <3>1. cell[i] \in ToSet(cell)
      BY DEF ToSet
    <3> QED
      BY <1>1, <3>1
  <2>2. RunsTo(State(R, r, <<>>, "plain"), cell, d, State(R, r, cell, "plain"))
    BY <2>1, PlainCell
  <2>3. Quoted(cell, d) = cell
    BY <1>1 DEF Quoted
  <2> QED
    BY <2>2, <2>3 DEF CellRead
<1>2. CASE ToSet(cell) \cap {d, Quote, NL} # {}
  <2>1. cell # <<>>
    BY <1>2 DEF ToSet
  <2>2. PICK text : text = <<Quote>> \o FlattenSeq([i \in DOMAIN cell |-> IF cell[i] = Quote THEN <<Quote, Quote>> ELSE <<cell[i]>>])
                            \o <<Quote>>
    OBVIOUS
  <2>3. Quoted(cell, d) = text
    BY <1>2, <2>2 DEF Quoted
  <2>4. RunsTo(State(R, r, <<>>, "plain"), text, d, State(R, r, cell, "quoted"))
    BY <2>1, <2>2, QuotedCell
  <2> QED
    BY <2>3, <2>4 DEF CellRead
<1> QED
  BY <1>1, <1>2

LEMMA TailJoin ==
  ASSUME NEW T, NEW a \in Seq(T), a # <<>>, NEW b \in Seq(T)
  PROVE  Tail(a \o b) = Tail(a) \o b /\ Tail(a) \in Seq(T)
<1>1. Len(a) \in Nat /\ Len(a) # 0 /\ Len(b) \in Nat /\ Tail(a) \in Seq(T) /\ Len(Tail(a)) = Len(a) - 1
  OBVIOUS
<1>2. PICK s, t, m, n : s = Tail(a \o b) /\ t = Tail(a) \o b /\ m = Len(a) /\ n = Len(b)
  OBVIOUS
<1>3. a \o b \in Seq(T) /\ Len(a \o b) = m + n /\ a \o b # <<>>
  BY <1>1, <1>2, TextsJoin
<1>4. s \in Seq(T) /\ Len(s) = m + n - 1 /\ \A i \in 1..(m + n - 1) : s[i] = (a \o b)[i + 1]
  BY <1>1, <1>2, <1>3
<1>5. t \in Seq(T) /\ Len(t) = m + n - 1
  BY <1>1, <1>2, TextsJoin
<1>6. ASSUME NEW i \in 1..(m + n - 1) PROVE s[i] = t[i]
  <2>1. s[i] = (a \o b)[i + 1]
    BY <1>4
  <2>2. CASE i <= m - 1
    <3>1. i + 1 \in 1..m /\ i \in 1..(m - 1)
      BY <1>1, <1>2, <2>2
    <3>2. (a \o b)[i + 1] = a[i + 1]
      BY <1>2, <3>1
    <3>3. Tail(a)[i] = a[i + 1]
      BY <1>1, <1>2, <3>1
    <3>4. t[i] = Tail(a)[i]
      BY <1>1, <1>2, <3>1
    <3> QED
      BY <2>1, <3>2, <3>3, <3>4
  <2>3. CASE i > m - 1
    <3>1. i + 1 \in (m + 1)..(m + n) /\ i \in m..(m + n - 1) /\ (i + 1) - m = i - (m - 1)
      BY <1>1, <1>2, <2>3
    <3>2. (a \o b)[i + 1] = b[(i + 1) - m]
      BY <1>1, <1>2, <3>1
    <3>3. t[i] = b[i - (m - 1)]
      BY <1>1, <1>2, <3>1
    <3> QED
      BY <2>1, <3>1, <3>2, <3>3
  <2> QED
    BY <1>1, <1>2, <2>2, <2>3
<1> QED
  BY <1>1, <1>2, <1>4, <1>5, <1>6, SameTexts

Start(R) == State(R, <<>>, <<>>, "plain")

\* The text brings the reader to the end of a row's i-th cell.
ToCell(R, row, i, text, d) ==
  \E mode \in {"plain", "quoted"} : RunsTo(Start(R), text, d, State(R, SubSeq(row, 1, i - 1), row[i], mode))

LEMMA LineRead ==
  ASSUME NEW T, Quote \in T, NL \in T, NEW row \in Seq(Seq(T)), row # <<>>, row # << <<>> >>,
         NEW d \in T, d # Quote, d # NL, NEW R
  PROVE  RunsTo(Start(R), LineOf(row, d), d, Start(Append(R, row)))
<1>1. PICK X : X = Seq(T) /\ row \in Seq(X)
  OBVIOUS
<1>2. PICK h : LineBuilt(T, row, d, h)
  BY LineIs
<1>3. PICK n : n = Len(row) /\ n \in Nat /\ n # 0 /\ \A i \in 1..n : row[i] \in Seq(T)
  BY <1>1
<1>4. <<d>> \in Seq(T) /\ \A i \in 1..n : Quoted(row[i], d) \in Seq(T)
  <2>1. <<d>> \in Seq(T)
    OBVIOUS
  <2>2. ASSUME NEW i \in 1..n PROVE Quoted(row[i], d) \in Seq(T)
    BY <1>3, QuotedText
  <2> QED
    BY <2>1, <2>2
<1>5. ASSUME NEW i \in 1..n, NEW r PROVE CellRead(R, r, row[i], d)
  BY <1>3, CellIsRead
<1> DEFINE S == {k \in Nat : k + 1 <= n => ToCell(R, row, k + 1, Tail(h[k + 1]), d)}
<1>6. 0 \in S
  <2>1. 1 \in 1..n /\ 0 + 1 = 1 /\ 1 - 1 = 0
    BY <1>3
  <2>2. PICK c : c = Quoted(row[1], d) /\ c \in Seq(T)
    BY <1>4, <2>1
  <2>3. h[1] = <<d>> \o c
    BY <1>2, <2>2 DEF LineBuilt
  <2>4. Tail(<<d>> \o c) = c
    <3>1. Tail(<<d>>) = <<>> /\ <<d>> # <<>> /\ <<>> \o c = c
      BY <2>2
    <3>2. Tail(<<d>> \o c) = Tail(<<d>>) \o c
      BY <1>4, <2>2, <3>1, TailJoin
    <3> QED
      BY <3>1, <3>2
  <2>5. SubSeq(row, 1, 0) = <<>>
    BY <1>1, FirstIs
  <2>6. CellRead(R, <<>>, row[1], d)
    BY <1>5, <2>1
  <2>7. PICK mode \in {"plain", "quoted"} : RunsTo(State(R, <<>>, <<>>, "plain"), c, d, State(R, <<>>, row[1], mode))
    BY <2>2, <2>6 DEF CellRead
  <2>8. ToCell(R, row, 1, c, d)
    BY <2>1, <2>5, <2>7 DEF ToCell, Start
  <2> QED
    BY <2>1, <2>3, <2>4, <2>8
<1>7. ASSUME NEW k \in Nat, k \in S PROVE k + 1 \in S
  <2> SUFFICES ASSUME (k + 1) + 1 <= n PROVE ToCell(R, row, (k + 1) + 1, Tail(h[(k + 1) + 1]), d)
    OBVIOUS
  <2>1. PICK i : i = (k + 1) + 1 /\ i \in 1..n /\ i \in 2..n /\ i - 1 = k + 1 /\ i - 1 \in 1..n
    BY <1>3
  <2>2. ToCell(R, row, i - 1, Tail(h[i - 1]), d)
    BY <1>3, <1>7, <2>1
  <2>3. PICK c : c = Quoted(row[i], d) /\ c \in Seq(T)
    BY <1>4, <2>1
  <2>4. PICK x : x = h[i - 1] /\ x \in Seq(T) /\ x # <<>> /\ h[i] = x \o (<<d>> \o c)
    BY <1>2, <1>3, <2>1, <2>3 DEF LineBuilt
  <2>5. PICK y : y = <<d>> \o c /\ y \in Seq(T)
    BY <1>4, <2>3, TextsJoin
  <2>6. Tail(h[i]) = Tail(x) \o y /\ Tail(x) \in Seq(T)
    <3>1. h[i] = x \o y
      BY <2>4, <2>5
    <3>2. Tail(x \o y) = Tail(x) \o y /\ Tail(x) \in Seq(T)
      BY <2>4, <2>5, TailJoin
    <3> QED
      BY <3>1, <3>2
  <2>7. PICK v, r : v = row[i - 1] /\ r = SubSeq(row, 1, (i - 1) - 1)
    OBVIOUS
  <2>8. SubSeq(row, 1, i - 1) = Append(r, v)
    BY <1>1, <1>3, <2>1, <2>7, FirstIs
  <2>9. PICK mode \in {"plain", "quoted"} : RunsTo(Start(R), Tail(x), d, State(R, r, v, mode))
    BY <2>2, <2>4, <2>7 DEF ToCell
  <2>10. RunsTo(State(R, r, v, mode), <<d>>, d, State(R, Append(r, v), <<>>, "plain"))
    BY StateEnds, TakesOne
  <2>11. CellRead(R, Append(r, v), row[i], d)
    BY <1>5, <2>1
  <2>12. PICK end \in {"plain", "quoted"} : RunsTo(State(R, Append(r, v), <<>>, "plain"), c, d, State(R, Append(r, v), row[i], end))
    BY <2>3, <2>11 DEF CellRead
  <2>13. RunsTo(State(R, r, v, mode), y, d, State(R, Append(r, v), row[i], end))
    BY <1>4, <2>3, <2>5, <2>10, <2>12, RunsOn
  <2>14. RunsTo(Start(R), Tail(x) \o y, d, State(R, Append(r, v), row[i], end))
    BY <2>5, <2>6, <2>9, <2>13, RunsOn
  <2>15. ToCell(R, row, i, Tail(h[i]), d)
    BY <2>6, <2>8, <2>14 DEF ToCell
  <2> QED
    BY <2>1, <2>15
<1> HIDE DEF S
<1>8. \A k \in Nat : k \in S
  BY <1>6, <1>7, SetInduction
<1>9. ToCell(R, row, n, Tail(h[n]), d)
  <2>1. PICK k \in Nat : k = n - 1 /\ k + 1 = n
    BY <1>3
  <2>2. ToCell(R, row, k + 1, Tail(h[k + 1]), d)
    BY <1>8, <2>1 DEF S
  <2> QED
    BY <2>1, <2>2
<1>10. PICK v, r : v = row[n] /\ r = SubSeq(row, 1, n - 1)
  OBVIOUS
<1>11. Append(r, v) = row
  <2>1. n \in 1..n /\ SubSeq(row, 1, n) = row
    BY <1>1, <1>3, FirstIs
  <2> QED
    BY <1>1, <1>3, <1>10, <2>1, FirstIs
<1>12. PICK mode \in {"plain", "quoted"} : RunsTo(Start(R), Tail(h[n]), d, State(R, r, v, mode))
  BY <1>9, <1>10 DEF ToCell
<1>13. RunsTo(State(R, r, v, mode), <<NL>>, d, Start(Append(R, row)))
  <2>1. TakeToken(State(R, r, v, mode), NL, d) = Start(Append(R, row))
    <3>1. TakeToken(State(R, r, v, mode), NL, d) =
            State(IF Append(r, v) = << <<>> >> THEN R ELSE Append(R, Append(r, v)), <<>>, <<>>, "plain")
      BY StateEnds
    <3> QED
      BY <1>11, <3>1 DEF Start
  <2> QED
    BY <2>1, TakesOne
<1>14. PICK x : x = h[n] /\ x \in Seq(T) /\ x # <<>>
  <2>1. n \in 1..n
    BY <1>3
  <2> QED
    BY <1>2, <1>3, <2>1 DEF LineBuilt
<1>15. Tail(x) \in Seq(T) /\ <<NL>> \in Seq(T)
  BY <1>14
<1>16. RunsTo(Start(R), Tail(x) \o <<NL>>, d, Start(Append(R, row)))
  BY <1>12, <1>13, <1>14, <1>15, RunsOn
<1> QED
  BY <1>2, <1>3, <1>14, <1>16 DEF LineBuilt

\* Empty lines are no rows.
LEMMA LeadRead ==
  ASSUME NEW T, NEW lead \in Seq(T), NEW d, d # Quote, d # NL, \A i \in 1..Len(lead) : lead[i] = NL
  PROVE  RunsTo(Start(<<>>), lead, d, Start(<<>>))
<1>1. PICK f : f = [i \in 0..Len(lead) |-> Start(<<>>)]
  OBVIOUS
<1>2. Len(lead) \in Nat /\ \A i \in 0..Len(lead) : f[i] = Start(<<>>)
  BY <1>1
<1>3. TakeToken(Start(<<>>), NL, d) = Start(<<>>)
  <2>1. Append(<<>>, <<>>) = << <<>> >> /\ "plain" \in {"plain", "quoted"}
    OBVIOUS
  <2>2. PICK R, r, v, mode : R = <<>> /\ r = <<>> /\ v = <<>> /\ mode = "plain"
    OBVIOUS
  <2>0. mode \in {"plain", "quoted"}
    BY <2>1, <2>2
  <2>3. TakeToken(State(R, r, v, mode), NL, d) =
          State(IF Append(r, v) = << <<>> >> THEN R ELSE Append(R, Append(r, v)), <<>>, <<>>, "plain")
    BY <2>0, StateEnds
  <2>4. Append(r, v) = << <<>> >>
    BY <2>1, <2>2
  <2>5. TakeToken(State(R, r, v, mode), NL, d) = State(R, <<>>, <<>>, "plain")
    BY <2>3, <2>4
  <2> QED
    BY <2>2, <2>5 DEF Start
<1>4. ASSUME NEW i \in 1..Len(lead) PROVE f[i] = TakeToken(f[i - 1], lead[i], d)
  <2>1. i \in 0..Len(lead) /\ i - 1 \in 0..Len(lead)
    BY <1>2
  <2> QED
    BY <1>2, <1>3, <2>1
<1> QED
  BY <1>2, <1>4 DEF RunsTo

\* A row of a single empty cell is an empty line.
LEMMA RowsRead ==
  ASSUME NEW T, Quote \in T, NL \in T, NEW rows \in Seq(Seq(Seq(T))), rows # <<>>,
         \A i \in 1..Len(rows) : rows[i] # <<>> /\ rows[i] # << <<>> >>,
         NEW d \in T, d # Quote, d # NL
  PROVE  LET lines == [i \in 1..Len(rows) |-> LineOf(rows[i], d)]
         IN  lines \in Seq(Seq(T)) /\ RunsTo(Start(<<>>), FlattenSeq(lines), d, Start(rows))
<1>1. PICK X : X = Seq(Seq(T)) /\ rows \in Seq(X)
  OBVIOUS
<1>2. PICK n : n = Len(rows) /\ n \in Nat /\ n # 0 /\ \A i \in 1..n : rows[i] \in X
  <2>1. Len(rows) \in Nat /\ \A i \in 1..Len(rows) : rows[i] \in X
    BY <1>1
  <2>2. Len(rows) # 0
    BY <1>1
  <2> QED
    BY <2>1, <2>2
<1>3. PICK lines : lines = [i \in 1..n |-> LineOf(rows[i], d)]
  OBVIOUS
<1>5. lines \in Seq(Seq(T)) /\ Len(lines) = n
  <2>1. lines \in Seq(Seq(T))
    BY <1>2, <1>3, LinesText
  <2> QED
    BY <1>2, <1>3, <2>1
<1>6. PICK g : g = [i \in 0..n |-> Start(SubSeq(rows, 1, i))]
  OBVIOUS
<1>7. g[0] = Start(<<>>) /\ g[n] = Start(rows)
  <2>1. SubSeq(rows, 1, 0) = <<>> /\ SubSeq(rows, 1, n) = rows
    BY <1>1, <1>2, FirstIs
  <2>2. 0 \in 0..n /\ n \in 0..n
    BY <1>2
  <2> QED
    BY <1>6, <2>1, <2>2
<1>8. ASSUME NEW i \in 1..n PROVE RunsTo(g[i - 1], lines[i], d, g[i])
  <2>1. i \in 0..n /\ i - 1 \in 0..n
    BY <1>2
  <2>2. PICK R, row : R = SubSeq(rows, 1, i - 1) /\ row = rows[i]
    OBVIOUS
  <2>3. SubSeq(rows, 1, i) = Append(R, row)
    BY <1>1, <1>2, <2>2, FirstIs
  <2>4. g[i - 1] = Start(R) /\ g[i] = Start(Append(R, row)) /\ lines[i] = LineOf(row, d)
    BY <1>3, <1>6, <2>1, <2>2, <2>3
  <2>5. row \in Seq(Seq(T)) /\ row # <<>> /\ row # << <<>> >>
    BY <1>1, <1>2, <2>2
  <2>6. RunsTo(Start(R), LineOf(row, d), d, Start(Append(R, row)))
    BY <2>5, LineRead
  <2> QED
    BY <2>4, <2>6
<1>9. lines # <<>>
  BY <1>2, <1>5
<1>10. RunsTo(g[0], FlattenSeq(lines), d, g[n])
  <2>1. \A i \in 1..Len(lines) : RunsTo(g[i - 1], lines[i], d, g[i])
    BY <1>5, <1>8
  <2>2. RunsTo(g[0], FlattenSeq(lines), d, g[Len(lines)])
    BY <1>5, <1>9, <2>1, RunsPieces
  <2> QED
    BY <1>5, <2>2
<1> QED
  BY <1>2, <1>3, <1>5, <1>7, <1>10

\* What is written by RFC 4180 is read as it was (csv.ts:35 "Small
\* RFC-4180-ish CSV parser: quoted fields, escaped quotes"): whatever the
\* cells hold, separators, quotes and line feeds included, and behind any
\* number of empty lines, a file of a sheet gives the rows of the sheet.  But
\* a row of a single empty cell is an empty line and no row.
THEOREM CsvRoundTrip ==
  ASSUME NEW s \in Sheets, NEW m \in Profiles, m.delimiter \notin {Quote, NL},
         \A i \in 1..Len(s.lead) : s.lead[i] = NL,
         s.headers # << <<>> >>, \A i \in 1..Len(s.records) : s.records[i] # << <<>> >>
  PROVE  ParseCsv(WriteCsv(s, m.delimiter), m.delimiter) = RowsOfSheet(s)
<1>1. PICK rows, d, lines, text :
        /\ rows = RowsOfSheet(s) /\ d = m.delimiter /\ lines = [i \in 1..Len(rows) |-> LineOf(rows[i], d)]
        /\ text = WriteCsv(s, d)
  OBVIOUS
<1>2. /\ s.lead \in Seq(Token) /\ d \in Token /\ Quote \in Token /\ NL \in Token
      /\ rows \in Seq(Seq(Seq(Token))) /\ rows # <<>>
      /\ \A i \in 1..Len(rows) :
           /\ rows[i] # <<>>
           /\ rows[i] = s.headers \/ \E k \in 1..Len(s.records) : rows[i] = s.records[k]
      /\ text = s.lead \o FlattenSeq(lines)
  BY <1>1, SheetIs
<1>3. \A i \in 1..Len(rows) : rows[i] # <<>> /\ rows[i] # << <<>> >>
  BY <1>2
<1>4. d # Quote /\ d # NL
  BY <1>1
<1>5. lines \in Seq(Seq(Token)) /\ RunsTo(Start(<<>>), FlattenSeq(lines), d, Start(rows))
  BY <1>1, <1>2, <1>3, <1>4, RowsRead
<1>6. FlattenSeq(lines) \in Seq(Token)
  BY <1>5, FlattenText
<1>7. RunsTo(Start(<<>>), s.lead, d, Start(<<>>))
  BY <1>2, <1>4, LeadRead
<1>8. RunsTo(Start(<<>>), text, d, Start(rows)) /\ text \in Seq(Token)
  BY <1>2, <1>5, <1>6, <1>7, RunsOn, TextsJoin
<1>9. Start(<<>>) = Fresh
  BY DEF Start, State, Fresh
<1>10. Reads(text, d)[Len(text)] = Start(rows)
  BY <1>8, <1>9, RunsRead
<1>11. Start(rows).rows = rows /\ Start(rows).row = <<>> /\ Start(rows).field = <<>>
  BY DEF Start, State
<1>12. ParseCsv(text, d) = rows
  BY <1>10, <1>11 DEF ParseCsv
<1> QED
  BY <1>1, <1>12

=============================================================================
