-------------------------- MODULE FilePollerProofs --------------------------
(***************************************************************************)
(* Theorems about the file poller for every number of files, overlapping   *)
(* polls and operator requests, every retry limit and memory size.         *)
(***************************************************************************)
EXTENDS MCFilePoller, FiniteSetTheorems, TLAPS

\* The columns the requests carry around are as sane as the stored one, a
\* poll's batch is disjoint from what its column already settles, and what
\* it has done took effect.
Took == {f \in Files : ingested[f] > 0}

Clean(c, took) == Sane(c) /\ Elements(c.processed) \subseteq took

Working(c, todo, did, took) ==
  /\ todo \cap Elements(c.processed) = {}
  /\ todo \cap c.dead = {}
  /\ todo \cap Elements(did) = {}
  /\ Elements(did) \cap (Retrying(c) \cup c.dead) = {}
  /\ Elements(did) \subseteq took

MemoryInv ==
  /\ Clean(config, Took)
  /\ \A p \in Requests : Clean(snap[p], Took)
  /\ \A p \in Pollers : Working(snap[p], batch[p], done[p], Took)
  /\ \A p \in Pollers : step[p] # "ingest" => batch[p] = {} /\ done[p] = <<>>

-----------------------------------------------------------------------------
(* Sequences of keys.                                                      *)

LEMMA ElementsEmpty == Elements(<<>>) = {}
  BY DEF Elements

LEMMA ElementsAppend ==
  ASSUME NEW s \in Seq(Files), NEW f \in Files
  PROVE  /\ Append(s, f) \in Seq(Files)
         /\ Elements(Append(s, f)) = Elements(s) \cup {f}
  BY DEF Elements

LEMMA ElementsConcat ==
  ASSUME NEW s \in Seq(Files), NEW t \in Seq(Files)
  PROVE  /\ s \o t \in Seq(Files)
         /\ Elements(s \o t) \subseteq Elements(s) \cup Elements(t)
<1>1. s \o t \in Seq(Files) /\ Len(s \o t) = Len(s) + Len(t)
  OBVIOUS
<1>2. ASSUME NEW i \in 1..Len(s \o t) PROVE (s \o t)[i] \in Elements(s) \cup Elements(t)
  <2>1. CASE i \in 1..Len(s)
    BY <2>1, <1>1 DEF Elements
  <2>2. CASE i \notin 1..Len(s)
    <3>1. i - Len(s) \in 1..Len(t) /\ (s \o t)[i] = t[i - Len(s)]
      BY <2>2, <1>1
    <3> QED BY <3>1 DEF Elements
  <2> QED BY <2>1, <2>2
<1> QED BY <1>1, <1>2 DEF Elements

\* slice(-PROCESSED_KEEP) keeps keys of its argument, at most Keep of them.
LEMMA LatestKeeps ==
  ASSUME NEW s \in Seq(Files)
  PROVE  /\ Latest(s) \in Seq(Files)
         /\ Elements(Latest(s)) \subseteq Elements(s)
         /\ Len(Latest(s)) <= Keep
<1>1. CASE Len(s) <= Keep
  BY <1>1 DEF Latest
<1>2. CASE ~(Len(s) <= Keep)
  <2> DEFINE a == Len(s) - Keep + 1
             t == SubSeq(s, a, Len(s))
  <2>1. a \in 1..Len(s) /\ Latest(s) = t
    BY <1>2, FilePollerAssumption DEF Latest
  <2>2. t \in Seq(Files) /\ Len(t) = Keep /\ \A i \in 1..Keep : t[i] = s[a + i - 1]
    BY <1>2, <2>1, FilePollerAssumption
  <2>3. ASSUME NEW i \in 1..Len(t) PROVE t[i] \in Elements(s)
    <3>1. a + i - 1 \in 1..Len(s)
      BY <1>2, <2>2, FilePollerAssumption
    <3> QED BY <3>1, <2>2 DEF Elements
  <2>4. Elements(t) \subseteq Elements(s)
    BY <2>3 DEF Elements
  <2> QED BY <2>1, <2>2, <2>4, FilePollerAssumption
<1> QED BY <1>1, <1>2

-----------------------------------------------------------------------------
(* What recordSuccess, recordFailure and the write back do to a column.    *)

LEMMA ConfigParts ==
  ASSUME NEW c \in Config
  PROVE  /\ c.processed \in Seq(Files) /\ c.dead \in SUBSET Files
         /\ c.retry \in [Files -> 0..(MaxRetries - 1)] /\ c.settings \in Nat
         /\ Retrying(c) = {f \in Files : c.retry[f] > 0}
  BY DEF Config, Retrying

LEMMA ClearedColumn ==
  ASSUME NEW c \in Config, NEW f \in Files
  PROVE  /\ Cleared(c, f) \in Config
         /\ Cleared(c, f).processed = c.processed
         /\ Cleared(c, f).dead = c.dead \ {f}
         /\ Retrying(Cleared(c, f)) = Retrying(c) \ {f}
<1> DEFINE r == [c.retry EXCEPT ![f] = 0]
<1>1. Cleared(c, f) = [processed |-> c.processed, retry |-> r, dead |-> c.dead \ {f},
                       settings |-> c.settings]
  <2>1. /\ DOMAIN Cleared(c, f) = {"processed", "retry", "dead", "settings"}
        /\ Cleared(c, f) = [x \in DOMAIN Cleared(c, f) |-> Cleared(c, f)[x]]
    BY DEF Config, Cleared
  <2>2. /\ Cleared(c, f).processed = c.processed /\ Cleared(c, f).retry = r
        /\ Cleared(c, f).dead = c.dead \ {f} /\ Cleared(c, f).settings = c.settings
    BY DEF Config, Cleared
  <2> QED BY <2>1, <2>2
<1>2. /\ r \in [Files -> 0..(MaxRetries - 1)]
      /\ \A g \in Files : r[g] > 0 <=> c.retry[g] > 0 /\ g # f
  BY FilePollerAssumption DEF Config
<1>3. c.dead \ {f} \subseteq Files /\ c.processed \in Seq(Files) /\ c.settings \in Nat
  BY ConfigParts
<1> HIDE DEF r
<1>4. Cleared(c, f) \in Config
  BY <1>1, <1>2, <1>3 DEF Config
<1>5. Retrying(Cleared(c, f)) = Retrying(c) \ {f}
  BY <1>1, <1>2 DEF Retrying
<1> QED BY <1>1, <1>4, <1>5

LEMMA FailedColumn ==
  ASSUME NEW c \in Config, NEW f \in Files
  PROVE  /\ Failed(c, f) \in Config
         /\ Failed(c, f).processed = c.processed
         /\ \/ /\ Failed(c, f).dead = c.dead \cup {f}
               /\ Retrying(Failed(c, f)) = Retrying(c) \ {f}
            \/ /\ Failed(c, f).dead = c.dead
               /\ Retrying(Failed(c, f)) = Retrying(c) \cup {f}
<1>1. CASE c.retry[f] + 1 >= MaxRetries
  <2> DEFINE r == [c.retry EXCEPT ![f] = 0]
  <2>1. Failed(c, f) = [processed |-> c.processed, retry |-> r, dead |-> c.dead \cup {f},
                        settings |-> c.settings]
    BY <1>1 DEF Config, Failed
  <2>2. /\ r \in [Files -> 0..(MaxRetries - 1)]
        /\ \A g \in Files : r[g] > 0 <=> c.retry[g] > 0 /\ g # f
    BY FilePollerAssumption DEF Config
  <2>3. c.dead \cup {f} \subseteq Files /\ c.processed \in Seq(Files) /\ c.settings \in Nat
    BY ConfigParts
  <2> HIDE DEF r
  <2>4. Failed(c, f) \in Config
    BY <2>1, <2>2, <2>3 DEF Config
  <2>5. Retrying(Failed(c, f)) = Retrying(c) \ {f}
    BY <2>1, <2>2 DEF Retrying
  <2> QED BY <2>1, <2>4, <2>5
<1>2. CASE ~(c.retry[f] + 1 >= MaxRetries)
  <2> DEFINE r == [c.retry EXCEPT ![f] = c.retry[f] + 1]
  <2>1. Failed(c, f) = [processed |-> c.processed, retry |-> r, dead |-> c.dead,
                        settings |-> c.settings]
    BY <1>2 DEF Config, Failed
  <2>2. /\ r \in [Files -> 0..(MaxRetries - 1)]
        /\ \A g \in Files : r[g] > 0 <=> c.retry[g] > 0 \/ g = f
    BY <1>2, FilePollerAssumption DEF Config
  <2>3. c.dead \subseteq Files /\ c.processed \in Seq(Files) /\ c.settings \in Nat
    BY ConfigParts
  <2> HIDE DEF r
  <2>4. Failed(c, f) \in Config
    BY <2>1, <2>2, <2>3 DEF Config
  <2>5. Retrying(Failed(c, f)) = Retrying(c) \cup {f}
    BY <2>1, <2>2 DEF Retrying
  <2> QED BY <2>1, <2>4, <2>5
<1> QED BY <1>1, <1>2

LEMMA RememberedColumn ==
  ASSUME NEW p \in Pollers, snap[p] \in Config, done[p] \in Seq(Files)
  PROVE  /\ Remembered(p) \in Config
         /\ Elements(Remembered(p).processed)
              \subseteq Elements(snap[p].processed) \cup Elements(done[p])
         /\ Len(Remembered(p).processed) <= Keep
         /\ Remembered(p).dead = snap[p].dead
         /\ Retrying(Remembered(p)) = Retrying(snap[p])
<1> DEFINE all == snap[p].processed \o done[p]
<1>1. snap[p].processed \in Seq(Files)
  BY ConfigParts
<1>2. all \in Seq(Files) /\ Elements(all) \subseteq Elements(snap[p].processed) \cup Elements(done[p])
  BY <1>1, ElementsConcat
<1>3. /\ Latest(all) \in Seq(Files)
      /\ Elements(Latest(all)) \subseteq Elements(all)
      /\ Len(Latest(all)) <= Keep
  BY <1>2, LatestKeeps
<1> HIDE DEF all
<1>4. Remembered(p) = [snap[p] EXCEPT !.processed = Latest(all)]
  BY DEF Remembered, all
<1> QED BY <1>2, <1>3, <1>4 DEF Config, Retrying

LEMMA PatchedColumn ==
  ASSUME NEW c \in Config, NEW n \in Nat
  PROVE  /\ [c EXCEPT !.settings = n] \in Config
         /\ [c EXCEPT !.settings = n].processed = c.processed
         /\ [c EXCEPT !.settings = n].dead = c.dead
         /\ Retrying([c EXCEPT !.settings = n]) = Retrying(c)
  BY DEF Config, Retrying

LEMMA NoConfigClean == NoConfig \in Config /\ \A took : Clean(NoConfig, took)
<1>1. NoConfig \in Config /\ Retrying(NoConfig) = {}
  BY FilePollerAssumption DEF NoConfig, Config, Retrying
<1>2. Elements(NoConfig.processed) = {} /\ Len(NoConfig.processed) <= Keep
  BY FilePollerAssumption, ElementsEmpty DEF NoConfig
<1> QED BY <1>1, <1>2 DEF Clean, Sane

LEMMA UptoType == ASSUME NEW m \in Nat, NEW n \in 0..m PROVE Upto(n, m) \in 0..m
  BY DEF Upto

-----------------------------------------------------------------------------
(* Type correctness.                                                       *)

LEMMA InitType == PollInit => PollTypeOK
<1> SUFFICES ASSUME PollInit PROVE PollTypeOK
  OBVIOUS
<1> QED BY NoConfigClean, FilePollerAssumption DEF PollInit, PollTypeOK, Requests, EnoughTimes

LEMMA ReleaseType ==
  ASSUME PollTypeOK, NEW p \in Requests, Release(p)
  PROVE  step' \in [Requests -> {"idle", "read", "ingest"}] /\ snap' \in [Requests -> Config]
  BY NoConfigClean DEF PollTypeOK, Release

LEMMA TypeStep == PollTypeOK /\ [PollNext]_pollVars => PollTypeOK'
<1> SUFFICES ASSUME PollTypeOK, [PollNext]_pollVars PROVE PollTypeOK'
  OBVIOUS
<1> USE DEF PollTypeOK
<1>0. \A p \in Pollers : p \in Requests
  BY DEF Requests
<1>1. ASSUME NEW f \in Files, Publish(f) PROVE PollTypeOK'
  BY <1>1 DEF Publish
<1>2. ASSUME NEW p \in Requests, Read(p) PROVE PollTypeOK'
  BY <1>2 DEF Read
<1>3. ASSUME NEW p \in Pollers, NEW waiting \in SUBSET Retrying(snap[p]), Fetch(p, waiting)
      PROVE PollTypeOK'
  BY <1>3, <1>0 DEF Fetch
<1>4. ASSUME NEW p \in Pollers, FetchThrows(p) PROVE PollTypeOK'
  BY <1>4, <1>0 DEF FetchThrows
<1>5. ASSUME NEW p \in Pollers, NEW f \in Files, IngestOk(p, f) PROVE PollTypeOK'
  <2>1. Cleared(snap[p], f) \in Config /\ Append(done[p], f) \in Seq(Files)
    BY <1>0, ClearedColumn, ElementsAppend
  <2>2. Upto(ingested[f], EnoughTimes) \in 0..EnoughTimes
    BY UptoType, FilePollerAssumption DEF EnoughTimes
  <2>3. batch' \in [Pollers -> SUBSET Files] /\ ingested' \in [Files -> 0..EnoughTimes]
    BY <1>5, <2>2 DEF IngestOk
  <2>4. snap' \in [Requests -> Config] /\ done' \in [Pollers -> Seq(Files)]
    BY <1>5, <1>0, <2>1 DEF IngestOk
  <2> QED BY <1>5, <2>3, <2>4 DEF IngestOk
<1>6. ASSUME NEW p \in Pollers, NEW f \in Files, IngestFails(p, f) PROVE PollTypeOK'
  <2>1. Failed(snap[p], f) \in Config
    BY <1>0, FailedColumn
  <2>2. Upto(fails[f], MaxRetries) \in 0..MaxRetries
    BY UptoType, FilePollerAssumption
  <2>3. batch' \in [Pollers -> SUBSET Files] /\ fails' \in [Files -> 0..MaxRetries]
    BY <1>6, <2>2 DEF IngestFails
  <2>4. snap' \in [Requests -> Config]
    BY <1>6, <1>0, <2>1 DEF IngestFails
  <2> QED BY <1>6, <2>3, <2>4 DEF IngestFails
<1>7. ASSUME NEW p \in Pollers, Persist(p) PROVE PollTypeOK'
  <2>1. Remembered(p) \in Config
    BY <1>0, RememberedColumn
  <2> QED BY <1>7, <1>0, <2>1, ReleaseType DEF Persist
<1>8. ASSUME NEW p \in Pollers, PersistFails(p) PROVE PollTypeOK'
  BY <1>8, <1>0, ReleaseType DEF PersistFails
<1>9. \A e \in Editors : e \in Requests
  BY DEF Requests
<1>10. ASSUME NEW e \in Editors, NEW f \in Files, Requeue(e, f) PROVE PollTypeOK'
  <2>1. Cleared(snap[e], f) \in Config
    BY <1>9, ClearedColumn
  <2> QED BY <1>10, <1>9, <2>1, ReleaseType, FilePollerAssumption DEF Requeue
<1>11. ASSUME NEW e \in Editors, Patch(e) PROVE PollTypeOK'
  <2>1. snap[e] \in Config /\ edits + 1 \in Nat
    BY <1>9
  <2>2. [snap[e] EXCEPT !.settings = edits + 1] \in Config
    BY <2>1, PatchedColumn
  <2> QED BY <1>11, <1>9, <2>1, <2>2, ReleaseType DEF Patch
<1>12. ASSUME NEW e \in Editors, EditEnds(e) PROVE PollTypeOK'
  BY <1>12, <1>9, ReleaseType DEF EditEnds
<1>13. CASE Restart
  BY <1>13, NoConfigClean DEF Restart
<1>14. CASE UNCHANGED pollVars
  BY <1>14 DEF pollVars
<1> QED
  BY <1>1, <1>2, <1>3, <1>4, <1>5, <1>6, <1>7, <1>8, <1>10, <1>11, <1>12, <1>13, <1>14
     DEF PollNext, IngestNext

\* The column, the snapshots and the batches keep their types under every
\* overlap of polls, requeues, PATCHes, faults and restarts; in particular a
\* retry entry always has an attempt left.
THEOREM FilePollerType == PollSpec => []PollTypeOK
  BY InitType, TypeStep, PTL DEF PollSpec

-----------------------------------------------------------------------------
(* The three memories.  First what each column update preserves.           *)

LEMMA Grows ==
  ASSUME NEW c, NEW todo, NEW did, NEW took, NEW more, took \subseteq more
  PROVE  /\ Clean(c, took) => Clean(c, more)
         /\ Working(c, todo, did, took) => Working(c, todo, did, more)
  BY DEF Clean, Working

LEMMA StartsWorking ==
  ASSUME NEW c, NEW took, NEW waiting, NEW todo, todo \cap Skipped(c, waiting) = {}
  PROVE  Working(c, todo, <<>>, took)
  BY ElementsEmpty DEF Working, Skipped

LEMMA ClearedClean ==
  ASSUME NEW c \in Config, NEW f \in Files, NEW took, Clean(c, took)
  PROVE  Clean(Cleared(c, f), took)
  BY ClearedColumn DEF Clean, Sane

LEMMA IngestedWorking ==
  ASSUME NEW c \in Config, NEW todo, NEW f \in Files, f \in todo, NEW did \in Seq(Files),
         NEW took, f \in took, Working(c, todo, did, took)
  PROVE  Working(Cleared(c, f), todo \ {f}, Append(did, f), took)
<1>1. Elements(Append(did, f)) = Elements(did) \cup {f}
  BY ElementsAppend
<1> QED BY <1>1, ClearedColumn DEF Working

LEMMA FailedClean ==
  ASSUME NEW c \in Config, NEW todo, NEW f \in Files, f \in todo, NEW did,
         NEW took, Clean(c, took), Working(c, todo, did, took)
  PROVE  /\ Clean(Failed(c, f), took)
         /\ Working(Failed(c, f), todo \ {f}, did, took)
<1>1. f \notin Elements(c.processed) /\ f \notin c.dead /\ f \notin Elements(did)
  BY DEF Working
<1>2. Clean(Failed(c, f), took)
  BY <1>1, FailedColumn DEF Clean, Sane
<1>3. Working(Failed(c, f), todo \ {f}, did, took)
  BY <1>1, FailedColumn DEF Working
<1> QED BY <1>2, <1>3

LEMMA RememberedClean ==
  ASSUME NEW p \in Pollers, snap[p] \in Config, done[p] \in Seq(Files),
         Clean(snap[p], Took), Working(snap[p], batch[p], done[p], Took)
  PROVE  Clean(Remembered(p), Took)
  BY RememberedColumn DEF Clean, Sane, Working

LEMMA InitMemory == PollInit => MemoryInv
<1> SUFFICES ASSUME PollInit PROVE MemoryInv
  OBVIOUS
<1>1. \A p \in Pollers : Working(NoConfig, {}, <<>>, Took)
  BY StartsWorking
<1> QED BY <1>1, NoConfigClean DEF PollInit, MemoryInv, Requests

\* A request that lets go of its snapshot.
LEMMA ReleaseMemory ==
  ASSUME PollTypeOK, MemoryInv, NEW p \in Requests, Release(p), Took' = Took,
         \/ p \in Pollers /\ batch' = batch /\ batch[p] = {} /\ done' = [done EXCEPT ![p] = <<>>]
         \/ p \notin Pollers /\ batch' = batch /\ done' = done
  PROVE  /\ \A q \in Requests : Clean(snap'[q], Took')
         /\ \A q \in Pollers : Working(snap'[q], batch'[q], done'[q], Took')
         /\ \A q \in Pollers : step'[q] # "ingest" => batch'[q] = {} /\ done'[q] = <<>>
<1> USE DEF Requests
<1>1. \A q \in Requests : snap'[q] = IF q = p THEN NoConfig ELSE snap[q]
  BY DEF Release, PollTypeOK
<1>2. \A q \in Requests : Clean(snap'[q], Took')
  BY <1>1, NoConfigClean DEF MemoryInv
<1>3. ASSUME NEW q \in Pollers
      PROVE  /\ Working(snap'[q], batch'[q], done'[q], Took')
             /\ step'[q] # "ingest" => batch'[q] = {} /\ done'[q] = <<>>
  <2>1. CASE q = p
    <3>1. snap'[q] = NoConfig /\ batch'[q] = {} /\ done'[q] = <<>>
      BY <2>1, <1>1 DEF PollTypeOK
    <3>2. Working(NoConfig, {}, <<>>, Took')
      BY StartsWorking
    <3> QED BY <3>1, <3>2
  <2>2. CASE q # p
    <3>1. snap'[q] = snap[q] /\ batch'[q] = batch[q] /\ done'[q] = done[q] /\ step'[q] = step[q]
      BY <2>2, <1>1 DEF PollTypeOK, Release
    <3> QED BY <3>1 DEF MemoryInv
  <2> QED BY <2>1, <2>2
<1> QED BY <1>2, <1>3

LEMMA MemoryStep == PollTypeOK /\ MemoryInv /\ [PollNext]_pollVars => MemoryInv'
<1> SUFFICES ASSUME PollTypeOK, MemoryInv, [PollNext]_pollVars PROVE MemoryInv'
  OBVIOUS
<1>0. /\ \A p \in Pollers : p \in Requests
      /\ \A e \in Editors : e \in Requests /\ e \notin Pollers
  BY FilePollerAssumption DEF Requests
<1>1. ASSUME NEW f \in Files, Publish(f) PROVE MemoryInv'
  BY <1>1 DEF Publish, MemoryInv, Took
<1>2. ASSUME NEW p \in Requests, Read(p) PROVE MemoryInv'
  <2>1. /\ Took' = Took /\ config' = config /\ batch' = batch /\ done' = done
        /\ \A q \in Requests : snap'[q] = IF q = p THEN config ELSE snap[q]
        /\ \A q \in Requests : step'[q] = IF q = p THEN "read" ELSE step[q]
    BY <1>2 DEF Read, Took, PollTypeOK
  <2>2. \A q \in Pollers : Working(snap'[q], batch'[q], done'[q], Took')
    <3> SUFFICES ASSUME NEW q \in Pollers PROVE Working(snap'[q], batch[q], done[q], Took)
      BY <2>1
    <3>1. CASE q = p
      <4>1. batch[q] = {} /\ done[q] = <<>>
        BY <3>1, <1>2 DEF Read, MemoryInv
      <4> QED BY <4>1, StartsWorking
    <3>2. CASE q # p
      BY <3>2, <2>1, <1>0 DEF MemoryInv
    <3> QED BY <3>1, <3>2
  <2>3. \A q \in Pollers : step'[q] # "ingest" => batch'[q] = {} /\ done'[q] = <<>>
    BY <1>0, <1>2, <2>1 DEF Read, MemoryInv
  <2> QED BY <2>1, <2>2, <2>3 DEF MemoryInv
<1>3. ASSUME NEW p \in Pollers, NEW waiting \in SUBSET Retrying(snap[p]), Fetch(p, waiting)
      PROVE MemoryInv'
  <2> DEFINE todo == remote \ Skipped(snap[p], waiting)
  <2>1. /\ Took' = Took /\ config' = config /\ snap' = snap /\ done' = done
        /\ \A q \in Pollers : batch'[q] = IF q = p THEN todo ELSE batch[q]
        /\ step' = [step EXCEPT ![p] = "ingest"]
    BY <1>3 DEF Fetch, Took, PollTypeOK
  <2>2. done[p] = <<>>
    BY <1>3 DEF Fetch, MemoryInv
  <2>3. Working(snap[p], todo, <<>>, Took)
    BY StartsWorking
  <2>4. \A q \in Pollers : step'[q] # "ingest" => batch'[q] = {} /\ done'[q] = <<>>
    BY <1>0, <2>1 DEF MemoryInv, PollTypeOK
  <2> HIDE DEF todo
  <2>5. \A q \in Pollers : Working(snap'[q], batch'[q], done'[q], Took')
    BY <2>1, <2>2, <2>3 DEF MemoryInv
  <2> QED BY <2>1, <2>4, <2>5 DEF MemoryInv
<1>4. ASSUME NEW p \in Pollers, FetchThrows(p) PROVE MemoryInv'
  BY <1>4, <1>0 DEF FetchThrows, MemoryInv, Took, PollTypeOK
<1>5. ASSUME NEW p \in Pollers, NEW f \in Files, IngestOk(p, f) PROVE MemoryInv'
  <2> DEFINE c == snap[p]
  <2>1. /\ Took \subseteq Took' /\ f \in Took'
    <3>1. Upto(ingested[f], EnoughTimes) > 0
      <4>1. ingested[f] \in 0..EnoughTimes
        BY DEF PollTypeOK
      <4> QED BY <4>1, FilePollerAssumption DEF Upto, EnoughTimes
    <3>2. \A g \in Files : ingested'[g] = IF g = f THEN Upto(ingested[f], EnoughTimes) ELSE ingested[g]
      BY <1>5 DEF IngestOk, PollTypeOK
    <3> QED BY <3>1, <3>2 DEF Took
  <2>2. /\ config' = config /\ step' = step
        /\ \A q \in Requests : snap'[q] = IF q = p THEN Cleared(c, f) ELSE snap[q]
        /\ \A q \in Pollers : batch'[q] = IF q = p THEN batch[p] \ {f} ELSE batch[q]
        /\ \A q \in Pollers : done'[q] = IF q = p THEN Append(done[p], f) ELSE done[q]
    BY <1>5 DEF IngestOk, PollTypeOK
  <2>3. c \in Config /\ done[p] \in Seq(Files) /\ f \in batch[p] /\ step[p] = "ingest"
    BY <1>0, <1>5 DEF IngestOk, PollTypeOK
  <2>4. Clean(c, Took') /\ Working(c, batch[p], done[p], Took')
    BY <1>0, <2>1, Grows DEF MemoryInv
  <2>5. Clean(Cleared(c, f), Took')
    BY <2>3, <2>4, ClearedClean
  <2>6. Working(Cleared(c, f), batch[p] \ {f}, Append(done[p], f), Took')
    BY <2>1, <2>3, <2>4, IngestedWorking
  <2> HIDE DEF c
  <2>7. Clean(config', Took')
    BY <2>1, <2>2, Grows DEF MemoryInv
  <2>8. ASSUME NEW q \in Requests PROVE Clean(snap'[q], Took')
    BY <2>1, <2>2, <2>5, Grows DEF MemoryInv
  <2>9. ASSUME NEW q \in Pollers PROVE Working(snap'[q], batch'[q], done'[q], Took')
    <3>1. CASE q = p
      BY <3>1, <1>0, <2>2, <2>6
    <3>2. CASE q # p
      <4>1. snap'[q] = snap[q] /\ batch'[q] = batch[q] /\ done'[q] = done[q]
        BY <3>2, <1>0, <2>2
      <4> QED BY <4>1, <2>1, Grows DEF MemoryInv
    <3> QED BY <3>1, <3>2
  <2>10. \A q \in Pollers : step'[q] # "ingest" => batch'[q] = {} /\ done'[q] = <<>>
    BY <2>2, <2>3 DEF MemoryInv
  <2> QED BY <2>7, <2>8, <2>9, <2>10 DEF MemoryInv
<1>6. ASSUME NEW p \in Pollers, NEW f \in Files, IngestFails(p, f) PROVE MemoryInv'
  <2> DEFINE c == snap[p]
  <2>1. /\ config' = config /\ step' = step /\ done' = done /\ Took' = Took
        /\ \A q \in Requests : snap'[q] = IF q = p THEN Failed(c, f) ELSE snap[q]
        /\ \A q \in Pollers : batch'[q] = IF q = p THEN batch[p] \ {f} ELSE batch[q]
    BY <1>6 DEF IngestFails, PollTypeOK, Took
  <2>2. c \in Config /\ f \in batch[p] /\ step[p] = "ingest"
    BY <1>0, <1>6 DEF IngestFails, PollTypeOK
  <2>3. Clean(c, Took) /\ Working(c, batch[p], done[p], Took)
    BY <1>0 DEF MemoryInv
  <2>4. /\ Clean(Failed(c, f), Took)
        /\ Working(Failed(c, f), batch[p] \ {f}, done[p], Took)
    BY <2>2, <2>3, FailedClean
  <2> HIDE DEF c
  <2>5. ASSUME NEW q \in Requests PROVE Clean(snap'[q], Took')
    BY <2>1, <2>4 DEF MemoryInv
  <2>6. ASSUME NEW q \in Pollers PROVE Working(snap'[q], batch'[q], done'[q], Took')
    BY <1>0, <2>1, <2>4 DEF MemoryInv
  <2>7. \A q \in Pollers : step'[q] # "ingest" => batch'[q] = {} /\ done'[q] = <<>>
    BY <2>1, <2>2 DEF MemoryInv
  <2> QED BY <2>1, <2>5, <2>6, <2>7 DEF MemoryInv
<1>7. ASSUME NEW p \in Pollers, Persist(p) PROVE MemoryInv'
  <2>1. Took' = Took
    BY <1>7 DEF Persist, Took
  <2>2. Clean(config', Took')
    BY <1>0, <1>7, <2>1, RememberedClean DEF Persist, MemoryInv, PollTypeOK
  <2> QED BY <1>0, <1>7, <2>1, <2>2, ReleaseMemory DEF Persist, MemoryInv
<1>8. ASSUME NEW p \in Pollers, PersistFails(p) PROVE MemoryInv'
  <2>1. Took' = Took /\ config' = config
    BY <1>8 DEF PersistFails, Took
  <2> QED BY <1>0, <1>8, <2>1, ReleaseMemory DEF PersistFails, MemoryInv
<1>9. ASSUME NEW e \in Editors, NEW f \in Files, Requeue(e, f) PROVE MemoryInv'
  <2>1. Took' = Took
    BY <1>9 DEF Requeue, Took
  <2>2. Clean(config', Took')
    BY <1>0, <1>9, <2>1, ClearedClean DEF Requeue, MemoryInv, PollTypeOK
  <2> QED BY <1>0, <1>9, <2>1, <2>2, ReleaseMemory DEF Requeue, MemoryInv
<1>10. ASSUME NEW e \in Editors, Patch(e) PROVE MemoryInv'
  <2>1. Took' = Took
    BY <1>10 DEF Patch, Took
  <2>2. snap[e] \in Config /\ Clean(snap[e], Took) /\ edits + 1 \in Nat
    BY <1>0 DEF PollTypeOK, MemoryInv
  <2>3. Clean(config', Took')
    BY <1>10, <2>1, <2>2, PatchedColumn DEF Patch, Clean, Sane
  <2> QED BY <1>0, <1>10, <2>1, <2>3, ReleaseMemory DEF Patch, MemoryInv
<1>11. ASSUME NEW e \in Editors, EditEnds(e) PROVE MemoryInv'
  <2>1. Took' = Took /\ config' = config
    BY <1>11 DEF EditEnds, Took
  <2> QED BY <1>0, <1>11, <2>1, ReleaseMemory DEF EditEnds, MemoryInv
<1>12. CASE Restart
  <2>1. Took' = Took /\ config' = config
    BY <1>12 DEF Restart, Took
  <2>2. \A p \in Pollers : Working(NoConfig, {}, <<>>, Took)
    BY StartsWorking
  <2> QED BY <1>0, <1>12, <2>1, <2>2, NoConfigClean DEF Restart, MemoryInv
<1>13. CASE UNCHANGED pollVars
  BY <1>13 DEF pollVars, MemoryInv, Took
<1> QED
  BY <1>1, <1>2, <1>3, <1>4, <1>5, <1>6, <1>7, <1>8, <1>9, <1>10, <1>11, <1>12, <1>13
     DEF PollNext, IngestNext

\* Whatever polls, requeues and PATCHes overlap, restart or fail, the three
\* memories in the stored column never disagree about a file.
THEOREM FilePollerSane == PollSpec => []ConfigSane
<1>1. MemoryInv => ConfigSane
  BY DEF MemoryInv, Clean, ConfigSane
<1> QED BY InitType, TypeStep, InitMemory, MemoryStep, <1>1, PTL DEF PollSpec

\* No file is remembered as processed, and skipped for good, that never took
\* effect.
THEOREM FilePollerTookEffect == PollSpec => []ProcessedTookEffect
<1>1. MemoryInv => ProcessedTookEffect
  BY DEF MemoryInv, Clean, Took, ProcessedTookEffect
<1> QED BY InitType, TypeStep, InitMemory, MemoryStep, <1>1, PTL DEF PollSpec

\* The memory of an endpoint can be relied on.
THEOREM FilePollerMemory == PollSpec => []MemorySound
  BY FilePollerSane, FilePollerTookEffect, PTL DEF MemorySound

-----------------------------------------------------------------------------
(* Dead letters.  A column never claims more failures than there were, as  *)
(* long as no operator requeues: failures only add up, in every snapshot.  *)

Marked(c, fs) == \A f \in Files : c.retry[f] <= fs[f] /\ (f \in c.dead => fs[f] = MaxRetries)

FailuresTrue == Marked(config, fails) /\ \A r \in Requests : Marked(snap[r], fails)

LEMMA NoConfigMarked == ASSUME PollTypeOK PROVE Marked(NoConfig, fails)
  BY DEF Marked, NoConfig, PollTypeOK

LEMMA ClearedMarked ==
  ASSUME NEW c \in Config, NEW f \in Files, NEW fs \in [Files -> 0..MaxRetries], Marked(c, fs)
  PROVE  Marked(Cleared(c, f), fs)
<1>1. /\ Cleared(c, f).dead = c.dead \ {f}
      /\ Cleared(c, f).retry = [c.retry EXCEPT ![f] = 0]
  BY DEF Cleared, Config
<1>2. c.retry \in [Files -> 0..(MaxRetries - 1)]
  BY ConfigParts
<1> QED BY <1>1, <1>2 DEF Marked

\* Failures are never forgotten, so what a column claims stays true.
LEMMA MarkedGrows ==
  ASSUME NEW c \in Config, NEW fs \in [Files -> 0..MaxRetries], NEW more \in [Files -> 0..MaxRetries],
         \A f \in Files : fs[f] <= more[f], Marked(c, fs)
  PROVE  Marked(c, more)
<1>1. c.retry \in [Files -> 0..(MaxRetries - 1)]
  BY ConfigParts
<1> QED BY <1>1, FilePollerAssumption DEF Marked

\* recordFailure counts one failure, and gives up at the last.
LEMMA FailedMarked ==
  ASSUME NEW c \in Config, NEW f \in Files, NEW fs \in [Files -> 0..MaxRetries], Marked(c, fs),
         NEW more, more = [fs EXCEPT ![f] = Upto(@, MaxRetries)]
  PROVE  /\ more \in [Files -> 0..MaxRetries] /\ \A g \in Files : fs[g] <= more[g]
         /\ Marked(Failed(c, f), more)
<1>0. c.retry \in [Files -> 0..(MaxRetries - 1)] /\ MaxRetries \in Nat \ {0}
  BY ConfigParts, FilePollerAssumption
<1>1. /\ more \in [Files -> 0..MaxRetries] /\ \A g \in Files : fs[g] <= more[g]
      /\ more[f] = Upto(fs[f], MaxRetries) /\ \A g \in Files : g # f => more[g] = fs[g]
  BY <1>0 DEF Upto
<1>2. CASE c.retry[f] + 1 >= MaxRetries
  <2>1. /\ Failed(c, f).dead = c.dead \cup {f}
        /\ Failed(c, f).retry = [c.retry EXCEPT ![f] = 0]
    BY <1>2 DEF Failed, Config
  <2>2. more[f] = MaxRetries
    <3>1. c.retry[f] <= fs[f] /\ c.retry[f] \in Nat /\ fs[f] \in 0..MaxRetries
      BY <1>0 DEF Marked
    <3> QED BY <1>0, <1>1, <1>2, <3>1 DEF Upto
  <2>3. \A g \in Files : Failed(c, f).retry[g] <= more[g]
    BY <1>0, <1>1, <2>1 DEF Marked
  <2>4. \A g \in Files : g \in Failed(c, f).dead => more[g] = MaxRetries
    BY <1>1, <2>1, <2>2 DEF Marked
  <2> QED BY <1>1, <2>3, <2>4 DEF Marked
<1>3. CASE ~(c.retry[f] + 1 >= MaxRetries)
  <2>1. /\ Failed(c, f).dead = c.dead
        /\ Failed(c, f).retry = [c.retry EXCEPT ![f] = @ + 1]
    BY <1>3 DEF Failed, Config
  <2>2. \A g \in Files : Failed(c, f).retry[g] <= more[g]
    <3>1. c.retry[f] + 1 <= more[f]
      <4>1. c.retry[f] <= fs[f] /\ c.retry[f] \in Nat /\ fs[f] \in 0..MaxRetries
        BY <1>0 DEF Marked
      <4> QED BY <1>0, <1>1, <1>3, <4>1 DEF Upto
    <3> QED BY <1>0, <1>1, <2>1, <3>1 DEF Marked
  <2>3. \A g \in Files : g \in Failed(c, f).dead => more[g] = MaxRetries
    <3>1. \A g \in Files : g \in c.dead => fs[g] = MaxRetries /\ more[g] = MaxRetries
      BY <1>0, <1>1 DEF Marked, Upto
    <3> QED BY <2>1, <3>1
  <2> QED BY <1>1, <2>2, <2>3 DEF Marked
<1> QED BY <1>2, <1>3

LEMMA InitFailures == PollInit => FailuresTrue
  BY DEF PollInit, FailuresTrue, Marked, NoConfig

\* A request lets go of its snapshot, or writes back what it knows.
LEMMA ReleaseMarked ==
  ASSUME PollTypeOK, FailuresTrue, NEW p \in Requests, Release(p), UNCHANGED fails,
         config' = config \/ Marked(config', fails)
  PROVE  FailuresTrue'
  BY NoConfigMarked DEF FailuresTrue, Release, PollTypeOK

LEMMA FailuresStep ==
  ASSUME PollTypeOK, FailuresTrue, [PollNext]_pollVars,
         \A e \in Editors, f \in Files : ~Requeue(e, f)
  PROVE  FailuresTrue'
<1>0. /\ \A p \in Pollers : p \in Requests
      /\ \A e \in Editors : e \in Requests
  BY DEF Requests
<1>1. ASSUME UNCHANGED <<config, snap, fails>> PROVE FailuresTrue'
  BY <1>1 DEF FailuresTrue
<1>2. ASSUME NEW f \in Files, Publish(f) PROVE FailuresTrue'
  BY <1>1, <1>2 DEF Publish
<1>3. ASSUME NEW p \in Requests, Read(p) PROVE FailuresTrue'
  BY <1>3 DEF Read, FailuresTrue, PollTypeOK
<1>4. ASSUME NEW p \in Pollers, NEW waiting \in SUBSET Retrying(snap[p]), Fetch(p, waiting)
      PROVE FailuresTrue'
  BY <1>1, <1>4 DEF Fetch
<1>5. ASSUME NEW p \in Pollers, FetchThrows(p) PROVE FailuresTrue'
  BY <1>1, <1>5 DEF FetchThrows
<1>6. ASSUME NEW p \in Pollers, NEW f \in Files, IngestOk(p, f) PROVE FailuresTrue'
  <2>1. Marked(Cleared(snap[p], f), fails)
    BY <1>0, ClearedMarked DEF FailuresTrue, PollTypeOK
  <2>2. UNCHANGED <<config, fails>> /\ snap' = [snap EXCEPT ![p] = Cleared(@, f)]
    BY <1>6 DEF IngestOk
  <2> QED BY <2>1, <2>2 DEF FailuresTrue, PollTypeOK
<1>7. ASSUME NEW p \in Pollers, NEW f \in Files, IngestFails(p, f) PROVE FailuresTrue'
  <2>1. /\ fails' = [fails EXCEPT ![f] = Upto(@, MaxRetries)]
        /\ snap' = [snap EXCEPT ![p] = Failed(@, f)] /\ config' = config
    BY <1>7 DEF IngestFails
  <2>2. fails \in [Files -> 0..MaxRetries] /\ config \in Config /\ \A r \in Requests : snap[r] \in Config
    BY DEF PollTypeOK
  <2>3. /\ fails' \in [Files -> 0..MaxRetries] /\ \A g \in Files : fails[g] <= fails'[g]
        /\ Marked(Failed(snap[p], f), fails')
    BY <1>0, <2>1, <2>2, FailedMarked DEF FailuresTrue
  <2>4. Marked(config, fails') /\ \A r \in Requests : Marked(snap[r], fails')
    BY <2>2, <2>3, MarkedGrows DEF FailuresTrue
  <2> QED BY <2>1, <2>3, <2>4 DEF FailuresTrue, PollTypeOK
<1>8. ASSUME NEW p \in Pollers, Persist(p) PROVE FailuresTrue'
  <2>1. Release(p) /\ config' = Remembered(p) /\ UNCHANGED fails
    BY <1>8 DEF Persist
  <2>2. Remembered(p).retry = snap[p].retry /\ Remembered(p).dead = snap[p].dead
    BY <1>0 DEF Remembered, PollTypeOK, Config
  <2>3. Marked(config', fails)
    BY <1>0, <2>1, <2>2 DEF FailuresTrue, Marked
  <2> QED BY <1>0, <2>1, <2>3, ReleaseMarked
<1>9. ASSUME NEW p \in Pollers, PersistFails(p) PROVE FailuresTrue'
  BY <1>0, <1>9, ReleaseMarked DEF PersistFails
<1>10. ASSUME NEW e \in Editors, Patch(e) PROVE FailuresTrue'
  <2>1. Release(e) /\ config' = [snap[e] EXCEPT !.settings = edits + 1] /\ UNCHANGED fails
    BY <1>10 DEF Patch
  <2>2. config'.retry = snap[e].retry /\ config'.dead = snap[e].dead
    BY <1>0, <2>1 DEF PollTypeOK, Config
  <2>3. Marked(config', fails)
    BY <1>0, <2>2 DEF FailuresTrue, Marked
  <2> QED BY <1>0, <2>1, <2>3, ReleaseMarked
<1>11. ASSUME NEW e \in Editors, EditEnds(e) PROVE FailuresTrue'
  BY <1>0, <1>11, ReleaseMarked DEF EditEnds
<1>12. CASE Restart
  BY <1>12, NoConfigMarked DEF Restart, FailuresTrue, PollTypeOK
<1>13. CASE UNCHANGED pollVars
  BY <1>1, <1>13 DEF pollVars
<1> QED
  BY <1>2, <1>3, <1>4, <1>5, <1>6, <1>7, <1>8, <1>9, <1>10, <1>11, <1>12, <1>13
     DEF PollNext, IngestNext

LEMMA MarkedEarned == PollTypeOK /\ FailuresTrue => DeadLetterEarned
  BY ConfigParts DEF FailuresTrue, Marked, DeadLetterEarned, PollTypeOK

\* Polls alone, however many overlap and whatever faults they meet, never
\* dead-letter a file that has not failed max_retries times.
THEOREM FilePollerEarned == ASSUME Editors = {} PROVE PollSpec => []DeadLetterEarned
<1>1. PollTypeOK /\ FailuresTrue /\ [PollNext]_pollVars => (PollTypeOK /\ FailuresTrue)'
  BY TypeStep, FailuresStep
<1> QED BY InitType, InitFailures, <1>1, MarkedEarned, PTL DEF PollSpec

\* The same where operators exist but do not act: "dead-lettered after
\* max_retries" holds of an endpoint that cron has to itself.
THEOREM FilePollerEarnsDeadLetters ==
  ASSUME Alone \subseteq Pollers PROVE MCSpec => []AloneEarnsDeadLetters
<1> DEFINE Inv == PollTypeOK /\ (cast = Alone => (FailuresTrue /\ \A e \in Editors : step[e] = "idle"))
<1>1. MCInit => Inv
  BY InitType, InitFailures DEF MCInit, PollInit, Requests
<1>2. Inv /\ [MCNext]_mcvars => Inv'
  <2> SUFFICES ASSUME Inv, [MCNext]_mcvars PROVE Inv'
    OBVIOUS
  <2>1. [PollNext]_pollVars /\ cast' = cast
    BY DEF MCNext, mcvars, Plays
  <2>2. PollTypeOK'
    BY <2>1, TypeStep
  <2>3. ASSUME cast = Alone PROVE FailuresTrue'
    <3>1. \A e \in Editors, f \in Files : ~Requeue(e, f)
      BY <2>3 DEF Requeue
    <3> QED BY <2>1, <2>3, <3>1, FailuresStep
  <2>4. ASSUME cast = Alone PROVE \A e \in Editors : step'[e] = "idle"
    BY <2>4, FilePollerAssumption DEF MCNext, mcvars, pollVars, Plays, Requests
  <2> QED BY <2>1, <2>2, <2>3, <2>4
<1>3. Inv => AloneEarnsDeadLetters
  BY MarkedEarned DEF AloneEarnsDeadLetters
<1> QED BY <1>1, <1>2, <1>3, PTL DEF MCSpec

-----------------------------------------------------------------------------
(* Once each.  A lone poller knows every file that took effect, in the     *)
(* column or in hand, but for one per fault; the column never drops any    *)
(* while the memory is as large as the directory.                          *)

Distinct(s) == \A i, j \in 1..Len(s) : s[i] = s[j] => i = j

Known(p) == config.processed \o done[p]

KnownOnce(p) ==
  /\ step[p] # "idle" => snap[p].processed = config.processed
  /\ Distinct(Known(p))
  /\ \A f \in Files : ingested[f] <= pollFaults + (IF f \in Elements(Known(p)) THEN 1 ELSE 0)

OnlyOne(p) == \A r \in Requests \ {p} : step[r] = "idle"

\* A list of distinct files is no longer than the directory.
LEMMA DistinctShort ==
  ASSUME NEW s \in Seq(Files), Distinct(s), IsFiniteSet(Files), Cardinality(Files) <= Keep
  PROVE  Len(s) <= Keep
<1>1. s \in Injection(1..Len(s), Files)
  BY DEF Injection, IsInjective, Distinct
<1>2. Cardinality(1..Len(s)) <= Cardinality(Files)
  BY <1>1, FS_Injection
<1>3. Cardinality(Files) \in Nat
  BY FS_CardinalityType
<1>4. Len(s) \in Nat /\ 1 \in Int /\ Len(s) \in Int
  OBVIOUS
<1>5. Cardinality(1..Len(s)) = IF 1 > Len(s) THEN 0 ELSE Len(s) - 1 + 1
  BY <1>4, FS_Interval
<1> QED BY <1>2, <1>3, <1>4, <1>5, FilePollerAssumption

LEMMA DistinctAppend ==
  ASSUME NEW s \in Seq(Files), NEW t \in Seq(Files), NEW f \in Files,
         Distinct(s \o t), f \notin Elements(s), f \notin Elements(t)
  PROVE  /\ Distinct(s \o Append(t, f))
         /\ Elements(s \o Append(t, f)) = Elements(s \o t) \cup {f}
<1> DEFINE u == s \o t
<1>1. u \in Seq(Files) /\ f \notin Elements(u)
  BY ElementsConcat
<1>2. s \o Append(t, f) = Append(u, f)
  OBVIOUS
<1> HIDE DEF u
<1>3. Distinct(Append(u, f))
  <2>1. /\ Len(Append(u, f)) = Len(u) + 1 /\ Len(u) \in Nat
        /\ \A i \in 1..Len(u) : Append(u, f)[i] = u[i] /\ u[i] # f
        /\ Append(u, f)[Len(u) + 1] = f
    BY <1>1 DEF Elements
  <2>2. Distinct(u)
    BY DEF u
  <2>3. ASSUME NEW i \in 1..(Len(u) + 1), NEW j \in 1..(Len(u) + 1),
               Append(u, f)[i] = Append(u, f)[j]
        PROVE  i = j
    <3>1. CASE i = Len(u) + 1
      BY <2>1, <2>3, <3>1
    <3>2. CASE j = Len(u) + 1
      BY <2>1, <2>3, <3>2
    <3>3. CASE i \in 1..Len(u) /\ j \in 1..Len(u)
      BY <2>1, <2>2, <2>3, <3>3 DEF Distinct
    <3> QED BY <2>1, <3>1, <3>2, <3>3
  <2> QED BY <2>1, <2>3 DEF Distinct
<1> QED BY <1>1, <1>2, <1>3, ElementsAppend DEF u

LEMMA DistinctPrefix ==
  ASSUME NEW s \in Seq(Files), NEW t \in Seq(Files), Distinct(s \o t)
  PROVE  s \o <<>> = s /\ Distinct(s)
<1>1. s \o <<>> = s
  OBVIOUS
<1>2. \A i \in 1..Len(s) : i \in 1..Len(s \o t) /\ (s \o t)[i] = s[i]
  OBVIOUS
<1> QED BY <1>1, <1>2 DEF Distinct

\* The poller lets go after a fault: one ingestion per file may be forgotten.
LEMMA ForgetOne ==
  ASSUME PollTypeOK, NEW p \in Pollers, KnownOnce(p), pollFaults' = pollFaults + 1,
         step'[p] = "idle", done'[p] = <<>>, UNCHANGED <<config, ingested>>
  PROVE  KnownOnce(p)'
<1>1. config.processed \in Seq(Files) /\ done[p] \in Seq(Files)
  BY ConfigParts DEF PollTypeOK
<1>2. Distinct(Known(p)')
  BY <1>1, DistinctPrefix DEF KnownOnce, Known
<1>3. ASSUME NEW f \in Files PROVE ingested[f] <= pollFaults'
  BY DEF KnownOnce, PollTypeOK
<1>4. ASSUME NEW f \in Files
      PROVE ingested'[f] <= pollFaults' + (IF f \in Elements(Known(p)') THEN 1 ELSE 0)
  BY <1>3 DEF PollTypeOK
<1> QED BY <1>2, <1>4 DEF KnownOnce

LEMMA KnownStep ==
  ASSUME NEW p \in Pollers, IsFiniteSet(Files), Cardinality(Files) <= Keep,
         PollTypeOK, MemoryInv, OnlyOne(p), OnlyOne(p)', KnownOnce(p), [PollNext]_pollVars
  PROVE  KnownOnce(p)'
<1>0. /\ \A q \in Pollers : q \in Requests
      /\ \A e \in Editors : e \in Requests \ {p}
      /\ config.processed \in Seq(Files) /\ done[p] \in Seq(Files)
  BY FilePollerAssumption, ConfigParts DEF Requests, PollTypeOK
<1>1. ASSUME UNCHANGED <<config, done, ingested>>, pollFaults' \in {pollFaults, pollFaults + 1},
             step'[p] # "idle" => snap'[p].processed = config.processed
      PROVE KnownOnce(p)'
  <2>1. Known(p)' = Known(p)
    BY <1>1 DEF Known
  <2>2. ASSUME NEW f \in Files
        PROVE ingested'[f] <= pollFaults' + (IF f \in Elements(Known(p)') THEN 1 ELSE 0)
    <3>1. ingested[f] \in Nat /\ pollFaults \in Nat
      BY FilePollerAssumption DEF PollTypeOK, EnoughTimes
    <3>2. ingested[f] <= pollFaults + (IF f \in Elements(Known(p)) THEN 1 ELSE 0)
      BY DEF KnownOnce
    <3> QED BY <1>1, <2>1, <3>1, <3>2
  <2> QED BY <1>1, <2>1, <2>2 DEF KnownOnce
<1>2. ASSUME NEW f \in Files, Publish(f) PROVE KnownOnce(p)'
  BY <1>1, <1>2 DEF Publish, KnownOnce
<1>3. ASSUME NEW q \in Requests, Read(q) PROVE KnownOnce(p)'
  <2>1. q = p
    BY <1>3 DEF Read, OnlyOne, PollTypeOK
  <2> QED BY <1>1, <1>3, <2>1 DEF Read, PollTypeOK
<1>4. ASSUME NEW q \in Pollers, step[q] # "idle" PROVE q = p
  BY <1>0, <1>4 DEF OnlyOne
<1>5. ASSUME NEW q \in Pollers, NEW waiting \in SUBSET Retrying(snap[q]), Fetch(q, waiting)
      PROVE KnownOnce(p)'
  BY <1>1, <1>4, <1>5 DEF Fetch, KnownOnce
<1>6. ASSUME NEW q \in Pollers, FetchThrows(q) PROVE KnownOnce(p)'
  BY <1>1, <1>4, <1>6 DEF FetchThrows, KnownOnce
<1>7. ASSUME NEW q \in Pollers, NEW f \in Files, IngestOk(q, f) PROVE KnownOnce(p)'
  <2>1. /\ q = p /\ step[p] = "ingest" /\ f \in batch[p] /\ UNCHANGED <<config, step, pollFaults>>
        /\ ingested' = [ingested EXCEPT ![f] = Upto(@, EnoughTimes)]
        /\ done' = [done EXCEPT ![p] = Append(@, f)]
        /\ snap' = [snap EXCEPT ![p] = Cleared(@, f)]
    BY <1>4, <1>7 DEF IngestOk
  <2>2. snap[p].processed = config.processed /\ snap'[p].processed = config.processed
    <3>1. snap[p] \in Config /\ snap'[p] = Cleared(snap[p], f)
      BY <1>0, <2>1 DEF PollTypeOK
    <3> QED BY <2>1, <3>1, ClearedColumn DEF KnownOnce
  <2>3. f \notin Elements(config.processed) /\ f \notin Elements(done[p])
    BY <1>0, <2>1, <2>2 DEF MemoryInv, Working
  <2>4. Known(p)' = config.processed \o Append(done[p], f)
    BY <2>1 DEF Known, PollTypeOK
  <2>5. Distinct(Known(p)') /\ Elements(Known(p)') = Elements(Known(p)) \cup {f}
    BY <1>0, <2>3, <2>4, DistinctAppend DEF KnownOnce, Known
  <2>6. f \notin Elements(Known(p))
    BY <1>0, <2>3, ElementsConcat DEF Known
  <2>7. ASSUME NEW g \in Files
        PROVE ingested'[g] <= pollFaults' + (IF g \in Elements(Known(p)') THEN 1 ELSE 0)
    <3>1. ingested[g] \in Nat /\ pollFaults \in Nat /\ EnoughTimes \in Nat
      BY FilePollerAssumption DEF PollTypeOK, EnoughTimes
    <3>2. ingested[g] <= pollFaults + (IF g \in Elements(Known(p)) THEN 1 ELSE 0)
      BY DEF KnownOnce
    <3>3. ingested'[g] <= (IF g = f THEN ingested[g] + 1 ELSE ingested[g])
      <4>1. ingested'[g] = (IF g = f THEN Upto(ingested[g], EnoughTimes) ELSE ingested[g])
        BY <2>1 DEF PollTypeOK
      <4>2. ingested[g] <= EnoughTimes
        BY FilePollerAssumption DEF PollTypeOK, EnoughTimes
      <4> QED BY <3>1, <4>1, <4>2 DEF Upto
    <3>4. ingested'[g] \in Int
      BY <2>1, <3>1, FilePollerAssumption DEF PollTypeOK, Upto, EnoughTimes
    <3> QED BY <2>1, <2>5, <2>6, <3>1, <3>2, <3>3, <3>4
  <2> QED BY <2>1, <2>2, <2>5, <2>7 DEF KnownOnce
<1>8. ASSUME NEW q \in Pollers, NEW f \in Files, IngestFails(q, f) PROVE KnownOnce(p)'
  <2>1. q = p /\ UNCHANGED <<config, step, done, ingested, pollFaults>> /\ step[p] = "ingest"
        /\ snap' = [snap EXCEPT ![p] = Failed(@, f)]
    BY <1>4, <1>8 DEF IngestFails
  <2>2. snap'[p].processed = config.processed
    <3>1. snap[p] \in Config /\ snap'[p] = Failed(snap[p], f)
      BY <1>0, <2>1 DEF PollTypeOK
    <3> QED BY <2>1, <3>1, FailedColumn DEF KnownOnce
  <2> QED BY <1>1, <2>1, <2>2
<1>9. ASSUME NEW q \in Pollers, Persist(q) PROVE KnownOnce(p)'
  <2>1. /\ q = p /\ step[p] = "ingest" /\ config' = Remembered(p) /\ Release(p)
        /\ done' = [done EXCEPT ![p] = <<>>] /\ UNCHANGED <<ingested, pollFaults>>
    BY <1>4, <1>9 DEF Persist
  <2>2. Known(p) \in Seq(Files) /\ Len(Known(p)) <= Keep
    BY <1>0, ElementsConcat, DistinctShort DEF Known, KnownOnce
  <2>3. config'.processed = Known(p)
    <3>1. Remembered(p).processed = Latest(snap[p].processed \o done[p])
      BY <1>0 DEF Remembered, PollTypeOK, Config
    <3>2. snap[p].processed = config.processed
      BY <2>1 DEF KnownOnce
    <3> QED BY <2>1, <2>2, <3>1, <3>2 DEF Known, Latest
  <2>4. done'[p] = <<>> /\ step'[p] = "idle"
    BY <1>0, <2>1 DEF Release, PollTypeOK
  <2>5. Known(p)' = Known(p)
    BY <2>2, <2>3, <2>4 DEF Known
  <2> QED BY <2>1, <2>4, <2>5 DEF KnownOnce
<1>10. ASSUME NEW q \in Pollers, PersistFails(q) PROVE KnownOnce(p)'
  <2>1. q = p /\ Release(p) /\ done' = [done EXCEPT ![p] = <<>>] /\ pollFaults' = pollFaults + 1
        /\ UNCHANGED <<config, ingested>>
    BY <1>4, <1>10 DEF PersistFails
  <2>2. done'[p] = <<>> /\ step'[p] = "idle"
    BY <1>0, <2>1 DEF Release, PollTypeOK
  <2> QED BY <2>1, <2>2, ForgetOne
<1>11. ASSUME NEW e \in Editors PROVE step[e] # "read"
  BY <1>0 DEF OnlyOne
<1>12. CASE Restart
  <2>1. done'[p] = <<>> /\ step'[p] = "idle" /\ pollFaults' = pollFaults + 1 /\ UNCHANGED <<config, ingested>>
    BY <1>0, <1>12 DEF Restart
  <2> QED BY <2>1, ForgetOne
<1>13. CASE UNCHANGED pollVars
  BY <1>1, <1>13 DEF pollVars, KnownOnce
<1> QED
  BY <1>2, <1>3, <1>5, <1>6, <1>7, <1>8, <1>9, <1>10, <1>11, <1>12, <1>13
     DEF PollNext, IngestNext, Patch, EditEnds, Requeue

\* "Download new files", "an unchanged document is not ingested twice": where
\* one poller has the endpoint to itself and PROCESSED_KEEP is not exceeded by
\* the directory, a file takes effect once, and once more per fault.
THEOREM FilePollerIngestsOnce ==
  ASSUME NEW p \in Pollers, Alone = {p}, IsFiniteSet(Files), Cardinality(Files) <= Keep
  PROVE  MCSpec => []AloneIngestsOnce
<1> DEFINE Inv == PollTypeOK /\ MemoryInv /\ (cast = Alone => (OnlyOne(p) /\ KnownOnce(p)))
<1>1. MCInit => Inv
  <2> SUFFICES ASSUME MCInit PROVE Inv
    OBVIOUS
  <2>1. OnlyOne(p)
    BY DEF MCInit, PollInit, OnlyOne
  <2>2. Known(p) = <<>> /\ pollFaults = 0 /\ \A f \in Files : ingested[f] = 0
    BY DEF MCInit, PollInit, Known, NoConfig
  <2>3. KnownOnce(p)
    BY <2>2, ElementsEmpty DEF MCInit, PollInit, KnownOnce, Distinct, Requests
  <2> QED BY <2>1, <2>3, InitType, InitMemory DEF MCInit
<1>2. Inv /\ [MCNext]_mcvars => Inv'
  <2> SUFFICES ASSUME Inv, [MCNext]_mcvars PROVE Inv'
    OBVIOUS
  <2>1. [PollNext]_pollVars /\ cast' = cast
    BY DEF MCNext, mcvars, Plays
  <2>2. PollTypeOK' /\ MemoryInv'
    BY <2>1, TypeStep, MemoryStep
  <2>3. ASSUME cast = Alone PROVE OnlyOne(p)'
    BY <2>3 DEF MCNext, mcvars, pollVars, Plays, OnlyOne
  <2>4. ASSUME cast = Alone PROVE KnownOnce(p)'
    BY <2>1, <2>3, <2>4, KnownStep
  <2> QED BY <2>1, <2>2, <2>3, <2>4
<1>3. Inv => AloneIngestsOnce
  <2> SUFFICES ASSUME Inv, cast = Alone, NEW f \in Files PROVE ingested[f] <= 1 + pollFaults
    BY DEF AloneIngestsOnce, IngestedOnce
  <2>1. ingested[f] \in Nat /\ pollFaults \in Nat
    BY FilePollerAssumption DEF PollTypeOK, EnoughTimes
  <2> QED BY <2>1 DEF KnownOnce
<1> QED BY <1>1, <1>2, <1>3, PTL DEF MCSpec
=============================================================================
