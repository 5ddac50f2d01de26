------------------------ MODULE ProductImportProofs ------------------------
(***************************************************************************)
(* The importer, for any files, any number of importers and any batch size:  *)
(* where an importer is in its file, that the table changes by whole batches *)
(* only, what the counts of a run say, and how normalized prices order.      *)
(***************************************************************************)
EXTENDS ProductImport, FiniteSetTheorems, WellFoundedInduction, TLAPS

(* A finite set of positions has a last one.                                *)
LEMMA Max ==
    ASSUME NEW S \in SUBSET Nat, IsFiniteSet(S), S # {}
    PROVE  \E j \in S : \A h \in S : h <= j
<1>. DEFINE Above(j) == {h \in S : h > j}
            T == {Above(j) : j \in S}
<1>1. T # {} /\ T \subseteq FiniteSubsetsOf(S)
  <2>1. \A j \in S : Above(j) \in SUBSET S /\ IsFiniteSet(Above(j))
    BY FS_Subset
  <2>. QED  BY <2>1, Zenon DEF FiniteSubsetsOf
<1>2. PICK X \in T : \A Y \in T : <<Y, X>> \notin StrictSubsetOrdering(S)
  BY <1>1, FS_StrictSubsetOrderingWellFounded, WFMin
<1>3. PICK j \in S : X = Above(j)
  BY <1>2
<1>4. ASSUME NEW h \in S, ~ h <= j
      PROVE  FALSE
  <2>0. h > j /\ h \in X /\ h \notin Above(h)
    <3>1. h \in Nat /\ j \in Nat
      OBVIOUS
    <3>2. h > j /\ ~ h > h
      BY <1>4, <3>1
    <3>. QED  BY <1>3, <3>2
  <2>1. Above(h) \subseteq X /\ Above(h) # X
    <3>1. \A x \in S : x > h => x > j
      BY <2>0
    <3>. QED  BY <2>0, <3>1, <1>3
  <2>2. <<Above(h), X>> \in StrictSubsetOrdering(S)
    BY <2>1, <1>3 DEF StrictSubsetOrdering
  <2>. QED  BY <1>2, <2>2
<1>. QED  BY <1>4
-----------------------------------------------------------------------------
LEMMA SpanFinite ==
    ASSUME NEW f, NEW from \in Nat, NEW to \in Int
    PROVE  /\ Complete(f, from, to) \subseteq from..to
           /\ IsFiniteSet(Complete(f, from, to))
           /\ Cardinality(Complete(f, from, to)) \in Nat
           /\ Cardinality(Complete(f, from, to)) > 0 <=> Complete(f, from, to) # {}
<1>1. Complete(f, from, to) \subseteq from..to
  BY DEF Complete
<1>2. IsFiniteSet(Complete(f, from, to))
  BY <1>1, FS_Interval, FS_Subset
<1>. QED  BY <1>1, <1>2, FS_CardinalityType, FS_EmptySet

(* The products of a span of a file.                                        *)
LEMMA BatchTyped ==
    ASSUME NEW f \in File, NEW from \in Nat, NEW to \in Int,
           1 <= from, to <= Len(Rows[f])
    PROVE  LET batch == BatchOf(f, from, to)
           IN  /\ DOMAIN batch = Complete(f, from, to)
               /\ \A j \in DOMAIN batch : /\ batch[j] \in Item
                                          /\ batch[j].key \in Key
                                          /\ batch[j].facts \in Facts
<1>1. Len(Rows[f]) \in Nat
  BY ImportAssumption
<1>2. ASSUME NEW j \in Complete(f, from, to)
      PROVE  Items[f][j] \in Item
  <2>1. j \in 1..Len(Rows[f])
    BY <1>1, <1>2 DEF Complete
  <2>2. j \in DOMAIN Items[f]
    BY <2>1 DEF Items
  <2>. QED  BY <2>2 DEF Item
<1>. QED  BY <1>2 DEF BatchOf, Key, Facts

LEMMA LastTyped ==
    ASSUME NEW f \in File, NEW from \in Nat, NEW to \in Int,
           1 <= from, to <= Len(Rows[f]),
           NEW k \in Store!Keys(BatchOf(f, from, to))
    PROVE  k \in Key /\ Store!LastFacts(BatchOf(f, from, to), k) \in Facts
<1>. DEFINE batch == BatchOf(f, from, to)
            rows == {j \in DOMAIN batch : batch[j].key = k}
<1>1. DOMAIN batch \subseteq Nat /\ IsFiniteSet(DOMAIN batch)
  <2>1. DOMAIN batch = Complete(f, from, to)
    BY BatchTyped
  <2>2. from..to \subseteq Nat
    OBVIOUS
  <2>. QED  BY <2>1, <2>2, SpanFinite
<1>2. rows # {} /\ rows \in SUBSET Nat /\ IsFiniteSet(rows)
  BY <1>1, FS_Subset DEF Store!Keys
<1>3. \E j \in rows : \A h \in rows : h <= j
  BY <1>2, Max
<1>4. (CHOOSE j \in rows : \A h \in rows : h <= j) \in DOMAIN batch
  BY <1>3
<1>5. Store!LastFacts(batch, k) \in Facts
  BY <1>4, BatchTyped DEF Store!LastFacts
<1>6. k \in Key
  BY <1>2, BatchTyped
<1>. QED  BY <1>5, <1>6

Table == UNION {[D -> [category : Category \cup {NoCategory}, facts : Facts]] : D \in SUBSET Key}

(* A batch that is upserted into the table leaves it a table.               *)
LEMMA UpsertedTyped ==
    ASSUME NEW f \in File, NEW from \in Nat, NEW to \in Int,
           1 <= from, to <= Len(Rows[f]), products \in Table
    PROVE  Store!Upserted(products, BatchOf(f, from, to)) \in Table
<1>. DEFINE batch == BatchOf(f, from, to)
            after == Store!Upserted(products, batch)
<1>1. Store!Keys(batch) \subseteq Key
  BY LastTyped
<1>2. PICK D \in SUBSET Key :
        products \in [D -> [category : Category \cup {NoCategory}, facts : Facts]]
  BY DEF Table
<1>3. ASSUME NEW k \in D \cup Store!Keys(batch)
      PROVE  after[k] \in [category : Category \cup {NoCategory}, facts : Facts]
  <2>1. Store!CategoryOf(products, k) \in Category \cup {NoCategory}
    BY <1>2 DEF Store!CategoryOf
  <2>2. k \in Store!Keys(batch) => Store!LastFacts(batch, k) \in Facts
    BY LastTyped
  <2>. QED  BY <1>2, <1>3, <2>1, <2>2 DEF Store!Upserted
<1>4. after \in [D \cup Store!Keys(batch) ->
                   [category : Category \cup {NoCategory}, facts : Facts]]
  BY <1>2, <1>3 DEF Store!Upserted
<1>. QED  BY <1>1, <1>2, <1>4 DEF Table
-----------------------------------------------------------------------------
(* Where a run is in its file; a batch that is being upserted was due, and  *)
(* no batch outlives its file.                                              *)
Place(r) ==
    /\ r.todo \subseteq r.found
    /\ r.step = "files" => r.batch.left = {}
    /\ r.step \in {"rows", "upsert"} =>
        /\ r.file \in r.found \ r.todo
        /\ 1 <= r.from /\ r.from <= r.pos /\ r.pos <= Len(Rows[r.file]) + 1
        /\ r.batch.left \subseteq Complete(r.file, r.from, r.pos - 1)
        /\ r.step = "upsert" => IsBatch(r.file, r.from, r.pos - 1)

Inv ==
    /\ products \in Table
    /\ scenario \in Scenarios
    /\ imp \in [Importer -> Run]
    /\ \A i \in Importer : Place(imp[i])

LEMMA InvTyped == Inv => TypeOK
<1>. SUFFICES ASSUME Inv PROVE TypeOK
  OBVIOUS
<1>1. /\ DOMAIN products \subseteq Key
      /\ products \in [DOMAIN products ->
                          [category : Category \cup {NoCategory}, facts : Facts]]
  BY DEF Inv, Table
<1>2. ASSUME NEW i \in Importer, Reading(i)
      PROVE  /\ imp[i].file \in imp[i].found \ imp[i].todo
             /\ 1 <= imp[i].from /\ imp[i].from <= imp[i].pos
             /\ imp[i].pos <= LastRow(i) + 1
             /\ imp[i].batch.left \subseteq InBatch(i)
  BY <1>2 DEF Inv, Place, Reading, LastRow, InBatch
<1>. QED  BY <1>1, <1>2 DEF Inv, TypeOK

(* A run that begins is a run, and so is one between two files.             *)
LEMMA RunsTyped ==
    /\ NoStats \in Stats /\ NoBatch \in Batching /\ NoRun \in Run
    /\ NoRun.found = {} /\ NoRun.todo = {} /\ NoRun.batch.left = {}
    /\ \A r \in Run : /\ Between(r) \in Run /\ Between(r).stats = r.stats
                      /\ Between(r).step = "files" /\ Between(r).batch.left = {}
                      /\ Between(r).found = r.found /\ Between(r).todo = r.todo
<1>1. NoStats \in Stats
  BY DEF NoStats, Stats
<1>2. NoBatch \in Batching
  BY DEF NoBatch, Batching
<1>3. NoRun \in Run
  BY <1>1, <1>2 DEF NoRun, Run, Step
<1>4. ASSUME NEW r \in Run
      PROVE  /\ Between(r) \in Run /\ Between(r).stats = r.stats
             /\ Between(r).step = "files" /\ Between(r).batch.left = {}
             /\ Between(r).found = r.found /\ Between(r).todo = r.todo
  BY <1>2 DEF Between, Run, Step, NoBatch
<1>5. NoRun.found = {} /\ NoRun.todo = {} /\ NoRun.batch.left = {}
  BY DEF NoRun, NoBatch
<1>. QED  BY <1>1, <1>2, <1>3, <1>4, <1>5

LEMMA InitInv == Init => Inv
<1>. SUFFICES ASSUME Init PROVE Inv
  OBVIOUS
<1>1. products \in Table
  <2>1. products \in [{} -> [category : Category \cup {NoCategory}, facts : Facts]]
    BY DEF Init
  <2>. QED  BY <2>1 DEF Table
<1>2. imp \in [Importer -> Run]
  BY RunsTyped DEF Init
<1>3. \A i \in Importer : Place(imp[i])
  BY DEF Init, Place, NoRun
<1>. QED  BY <1>1, <1>2, <1>3 DEF Init, Inv

(* What a step of i does to the runs.                                       *)
Moved(i) ==
    /\ imp' = [imp EXCEPT ![i] = imp'[i]]
    /\ imp'[i] \in Run
    /\ Place(imp'[i])

(* What a span that is due says of the position.                            *)
LEMMA DueIsBatch ==
    ASSUME Inv, NEW i \in Importer, imp[i].step = "rows", BatchIsDue(i)
    PROVE  IsBatch(imp[i].file, imp[i].from, imp[i].pos - 1)
<1>1. /\ imp[i].file \in File /\ imp[i].from \in Nat /\ imp[i].pos \in Nat
      /\ imp[i].pos <= LastRow(i) + 1 /\ LastRow(i) \in Nat
  BY ImportAssumption DEF Inv, Run, Place, LastRow
<1>2. Cardinality(InBatch(i)) \in Nat
      /\ (Cardinality(InBatch(i)) > 0 <=> InBatch(i) # {})
  <2>1. imp[i].pos - 1 \in Int
    BY <1>1
  <2>. QED  BY <1>1, <2>1, SpanFinite, Zenon DEF InBatch
<1>. QED  BY <1>1, <1>2 DEF BatchIsDue, AtEnd, IsBatch, InBatch, LastRow
-----------------------------------------------------------------------------
(* What is known of a run that is in a file.                                *)
LEMMA InFile ==
    ASSUME Inv, NEW i \in Importer, Reading(i)
    PROVE  /\ imp[i] \in Run /\ imp[i].file \in File
           /\ LastRow(i) \in Nat
           /\ imp[i].from \in Nat /\ imp[i].pos \in Nat /\ imp[i].pos - 1 \in Int
           /\ 1 <= imp[i].from /\ imp[i].from <= imp[i].pos
           /\ imp[i].pos <= LastRow(i) + 1
           /\ imp[i].batch.left \subseteq InBatch(i)
           /\ InBatch(i) \subseteq Nat
           /\ Cardinality(InBatch(i)) \in Nat
<1>1. /\ imp[i] \in Run /\ imp[i].file \in File
      /\ LastRow(i) \in Nat
      /\ imp[i].from \in Nat /\ imp[i].pos \in Nat /\ imp[i].pos - 1 \in Int
      /\ 1 <= imp[i].from /\ imp[i].from <= imp[i].pos
      /\ imp[i].pos <= LastRow(i) + 1
      /\ imp[i].batch.left \subseteq InBatch(i)
  BY ImportAssumption DEF Inv, Run, Place, LastRow, Reading, InBatch
<1>2. InBatch(i) \subseteq imp[i].from..(imp[i].pos - 1)
  BY <1>1, SpanFinite DEF InBatch
<1>3. imp[i].from..(imp[i].pos - 1) \subseteq Nat
  BY <1>1
<1>4. Cardinality(InBatch(i)) \in Nat
  BY <1>1, SpanFinite, Zenon DEF InBatch
<1>. QED  BY <1>1, <1>2, <1>3, <1>4

LEMMA StartMoves ==
    ASSUME Inv, NEW i \in Importer, NEW filter \in Filter, Start(i, filter)
    PROVE  Moved(i)
<1>. DEFINE r(t) == [NoRun EXCEPT !.step = t, !.found = Scanned(filter),
                                 !.todo = Scanned(filter)]
            bad == [NoRun EXCEPT !.step = "failed"]
<1>1. Scanned(filter) \in SUBSET File
  BY ImportAssumption DEF Inv, Scanned
<1>2. bad \in Run /\ bad.step = "failed" /\ bad.todo \subseteq bad.found
  BY RunsTyped DEF Run, Step
<1>3. ASSUME NEW t \in {"done", "files"}
      PROVE  /\ r(t) \in Run /\ r(t).step = t
             /\ r(t).todo \subseteq r(t).found /\ r(t).batch.left = {}
  BY <1>1, RunsTyped DEF Run, Step
<1>4. \/ imp' = [imp EXCEPT ![i] = bad]
      \/ imp' = [imp EXCEPT ![i] = r("done")]
      \/ imp' = [imp EXCEPT ![i] = r("files")]
  BY DEF Start
<1>. HIDE DEF r, bad
<1>. QED  BY <1>2, <1>3, <1>4 DEF Inv, Moved, Place

LEMMA NextFileMoves ==
    ASSUME Inv, NEW i \in Importer, NextFile(i)
    PROVE  Moved(i)
<1>1. PICK f \in imp[i].todo :
        imp' = [imp EXCEPT ![i] =
                   [imp[i] EXCEPT !.step = "rows", !.file = f, !.from = 1, !.pos = 1,
                                  !.todo = @ \ {f}]]
  BY DEF NextFile
<1>2. PICK r, new : /\ r = imp[i]
                    /\ new = [r EXCEPT !.step = "rows", !.file = f, !.from = 1, !.pos = 1,
                                       !.todo = @ \ {f}]
  OBVIOUS
<1>3. imp' = [imp EXCEPT ![i] = new]
  BY <1>1, <1>2
<1>4. r \in Run /\ f \in r.todo /\ f \in File
  BY <1>2 DEF Inv, Run
<1>5. new \in Run
  BY ONLY <1>2, <1>4 DEF Run, Step
<1>6. Place(new)
  <2>1. /\ new.step = "rows" /\ new.file = f /\ new.from = 1 /\ new.pos = 1
        /\ new.found = r.found /\ new.todo = r.todo \ {f} /\ new.batch = r.batch
    BY ONLY <1>2, <1>4 DEF Run
  <2>2. r.todo \subseteq r.found /\ r.batch.left = {}
    BY <1>2 DEF Inv, Place, NextFile
  <2>3. Len(Rows[f]) \in Nat
    BY <1>4, ImportAssumption
  <2>. QED  BY <1>4, <2>1, <2>2, <2>3 DEF Place
<1>. QED  BY <1>3, <1>5, <1>6 DEF Inv, Moved

LEMMA FinishMoves ==
    ASSUME Inv, NEW i \in Importer, Finish(i)
    PROVE  Moved(i)
BY DEF Finish, Inv, Moved, Run, Place, Step

LEMMA LeavesFileMoves ==
    ASSUME Inv, NEW i \in Importer, LeavesFile(i)
    PROVE  Moved(i)
<1>1. imp[i] \in Run /\ imp[i].todo \subseteq imp[i].found
  BY DEF Inv, Place
<1>2. Place(Between(imp[i])) /\ Between(imp[i]) \in Run
  BY <1>1, RunsTyped DEF Place
<1>. QED  BY <1>2 DEF LeavesFile, Inv, Moved

LEMMA FileDoneMoves ==
    ASSUME Inv, NEW i \in Importer, FileDone(i)
    PROVE  Moved(i)
<1>. DEFINE r == Between(imp[i])
            new == [r EXCEPT !.stats.processed = @ + 1]
<1>1. /\ r \in Run /\ r.step = "files" /\ r.stats.processed \in Nat
      /\ r.todo \subseteq r.found /\ r.batch.left = {}
  BY RunsTyped DEF Inv, Run, Stats, Place
<1>2. imp' = [imp EXCEPT ![i] = new]
  BY DEF FileDone
<1>. HIDE DEF r
<1>3. new \in Run
  BY <1>1 DEF Run, Stats
<1>4. Place(new)
  <2>1. new.step = r.step /\ new.todo = r.todo /\ new.found = r.found /\ new.batch = r.batch
    BY <1>1 DEF Run
  <2>. HIDE DEF new
  <2>. QED  BY <1>1, <2>1 DEF Place
<1>. HIDE DEF new
<1>. QED  BY <1>2, <1>3, <1>4 DEF Inv, Moved

LEMMA ReadRowMoves ==
    ASSUME Inv, NEW i \in Importer, ReadRow(i)
    PROVE  Moved(i)
<1>. DEFINE r == imp[i]
            n == IF Rows[r.file][r.pos].complete THEN r.stats.failed
                 ELSE r.stats.failed + 1
            new == [r EXCEPT !.pos = @ + 1, !.stats.failed = n]
<1>1. /\ r \in Run /\ r.step = "rows" /\ r.pos <= LastRow(i) /\ LastRow(i) \in Nat
      /\ r.from \in Nat /\ r.pos \in Nat /\ 1 <= r.from /\ r.from <= r.pos
      /\ r.file \in r.found \ r.todo /\ r.todo \subseteq r.found
      /\ r.batch.left \subseteq Complete(r.file, r.from, r.pos - 1)
  BY InFile DEF ReadRow, Reading, Inv, Place
<1>2. imp' = [imp EXCEPT ![i] = new]
  BY <1>1 DEF ReadRow
<1>3. new \in Run
  <2>1. n \in Nat
    BY <1>1 DEF Run, Stats
  <2>2. [r.stats EXCEPT !.failed = n] \in Stats
    BY <1>1, <2>1 DEF Run, Stats
  <2>3. new = [r EXCEPT !.pos = @ + 1, !.stats = [r.stats EXCEPT !.failed = n]]
    BY <1>1 DEF Run
  <2>4. r.pos + 1 \in Nat
    BY <1>1
  <2>. HIDE DEF n, new
  <2>. QED  BY <1>1, <2>2, <2>3, <2>4 DEF Run
<1>4. Place(new)
  <2>1. r.from..(r.pos - 1) \subseteq r.from..(r.pos + 1 - 1)
    BY <1>1
  <2>2. Complete(r.file, r.from, r.pos - 1) \subseteq Complete(r.file, r.from, r.pos + 1 - 1)
    BY <2>1 DEF Complete
  <2>3. /\ new.step = "rows" /\ new.file = r.file /\ new.found = r.found
        /\ new.todo = r.todo /\ new.from = r.from /\ new.pos = r.pos + 1
        /\ new.batch = r.batch
    BY <1>1 DEF Run
  <2>. HIDE DEF new
  <2>. QED  BY <1>1, <2>2, <2>3 DEF Place, LastRow
<1>. HIDE DEF new
<1>. QED  BY <1>2, <1>3, <1>4 DEF Inv, Moved

LEMMA BeginBatchMoves ==
    ASSUME Inv, NEW i \in Importer, BeginBatch(i)
    PROVE  Moved(i)
<1>. DEFINE r == imp[i]
            new == [r EXCEPT !.step = "upsert", !.batch = [NoBatch EXCEPT !.left = InBatch(i)]]
<1>1. Reading(i) /\ r.step = "rows" /\ BatchIsDue(i)
  BY DEF BeginBatch, Reading
<1>2. new \in Run
  <2>1. [NoBatch EXCEPT !.left = InBatch(i)] \in Batching
    BY <1>1, InFile DEF NoBatch, Batching
  <2>. QED  BY <1>1, <2>1, InFile DEF Run, Step
<1>3. Place(new)
  <2>1. /\ new.file = r.file /\ new.found = r.found /\ new.todo = r.todo
        /\ new.from = r.from /\ new.pos = r.pos /\ new.batch.left = InBatch(i)
        /\ new.step = "upsert"
    BY <1>1, InFile DEF Run, NoBatch
  <2>2. IsBatch(r.file, r.from, r.pos - 1)
    BY <1>1, DueIsBatch
  <2>. HIDE DEF new
  <2>. QED  BY <1>1, <2>1, <2>2 DEF Inv, Place, InBatch
<1>4. imp' = [imp EXCEPT ![i] = new]
  BY DEF BeginBatch
<1>. HIDE DEF new
<1>. QED  BY <1>2, <1>3, <1>4 DEF Inv, Moved

(* The batch of i goes on to b: its rows and counts change, not its span.   *)
LEMMA BatchMoves ==
    ASSUME Inv, NEW i \in Importer, imp[i].step = "upsert",
           NEW b \in Batching, b.left \subseteq imp[i].batch.left,
           imp' = [imp EXCEPT ![i].batch = b]
    PROVE  Moved(i)
<1>1. Reading(i) /\ imp[i] \in Run
  BY DEF Reading, Inv
<1>2. /\ imp'[i] = [imp[i] EXCEPT !.batch = b]
      /\ imp'[i] \in Run
      /\ imp' = [imp EXCEPT ![i] = imp'[i]]
  BY <1>1 DEF Inv, Run
<1>3. Place(imp'[i])
  BY <1>1, <1>2 DEF Inv, Place, Run
<1>. QED  BY <1>2, <1>3 DEF Moved

LEMMA RowFailsMoves ==
    ASSUME Inv, NEW i \in Importer, imp[i].step = "upsert", NEW j, RowFails(i, j)
    PROVE  Moved(i)
<1>. DEFINE b == [imp[i].batch EXCEPT !.left = @ \ {j}, !.failed = @ + 1, !.aborted = TRUE]
<1>1. imp[i] \in Run
  BY DEF Inv
<1>2. b \in Batching /\ b.left \subseteq imp[i].batch.left
  <2>1. imp[i].batch \in Batching
    BY <1>1 DEF Run
  <2>2. imp[i].batch.left \ {j} \in SUBSET Nat /\ imp[i].batch.failed + 1 \in Nat
    BY <2>1 DEF Batching
  <2>. QED  BY <2>1, <2>2 DEF Batching
<1>3. imp' = [imp EXCEPT ![i].batch = b]
  BY DEF RowFails
<1>. HIDE DEF b
<1>. QED  BY <1>2, <1>3, BatchMoves

LEMMA UpsertRowMoves ==
    ASSUME Inv, NEW i \in Importer, UpsertRow(i)
    PROVE  Moved(i)
<1>. DEFINE b(j, n, m) == [imp[i].batch EXCEPT !.left = @ \ {j}, !.inserted = n, !.updated = m]
<1>1. imp[i] \in Run /\ imp[i].step = "upsert" /\ imp[i].batch \in Batching
  BY DEF Inv, UpsertRow, Run
<1>2. PICK j \in InBatch(i) :
        \/ imp' = [imp EXCEPT ![i].batch = b(j, imp[i].batch.inserted + 1, imp[i].batch.updated)]
        \/ imp' = [imp EXCEPT ![i].batch = b(j, imp[i].batch.inserted, imp[i].batch.updated + 1)]
  BY <1>1, Zenon DEF UpsertRow
<1>3. \A n, m \in Nat : b(j, n, m) \in Batching /\ b(j, n, m).left \subseteq imp[i].batch.left
  <2>1. imp[i].batch.left \ {j} \in SUBSET Nat
    BY <1>1 DEF Batching
  <2>. QED  BY <1>1, <2>1 DEF Batching
<1>4. imp[i].batch.inserted \in Nat /\ imp[i].batch.updated \in Nat
  BY <1>1 DEF Batching
<1>5. imp[i].batch.inserted + 1 \in Nat /\ imp[i].batch.updated + 1 \in Nat
  BY <1>4
<1>. HIDE DEF b
<1>. QED  BY <1>1, <1>2, <1>3, <1>4, <1>5, BatchMoves

LEMMA ReturnsMoves ==
    ASSUME Inv, NEW i \in Importer, imp[i].step = "upsert",
           NEW n \in Nat, NEW m \in Nat, NEW l \in Nat, Returns(i, n, m, l)
    PROVE  Moved(i)
<1>. DEFINE r == imp[i]
            stats == [r.stats EXCEPT !.inserted = @ + n, !.updated = @ + m,
                                     !.failed = @ + l, !.total = @ + Cardinality(InBatch(i))]
            new == [r EXCEPT !.step = "rows", !.from = r.pos, !.batch = NoBatch,
                             !.stats = stats]
<1>1. Reading(i) /\ r \in Run /\ r.stats \in Stats
  BY DEF Reading, Inv, Run
<1>2. stats \in Stats
  <2>1. Cardinality(InBatch(i)) \in Nat
    BY <1>1, InFile
  <2>2. /\ r.stats.inserted + n \in Nat /\ r.stats.updated + m \in Nat
        /\ r.stats.failed + l \in Nat /\ r.stats.total + Cardinality(InBatch(i)) \in Nat
    BY <1>1, <2>1 DEF Stats
  <2>. QED  BY <1>1, <2>2 DEF Stats
<1>3. imp' = [imp EXCEPT ![i] = new]
  BY <1>1 DEF Returns, Inv, Run
<1>. HIDE DEF stats
<1>4. new \in Run
  BY <1>1, <1>2, RunsTyped DEF Run, Step
<1>5. /\ new.step = "rows" /\ new.from = r.pos /\ new.pos = r.pos /\ new.file = r.file
      /\ new.found = r.found /\ new.todo = r.todo /\ new.batch.left = {}
  BY <1>1 DEF Run, NoBatch
<1>. HIDE DEF new
<1>6. Place(new)
  <2>1. /\ r.file \in r.found \ r.todo /\ r.pos \in Nat /\ 1 <= r.pos
        /\ r.pos <= Len(Rows[r.file]) + 1 /\ r.todo \subseteq r.found
    <3>1. r.from \in Nat /\ 1 <= r.from /\ r.from <= r.pos /\ r.pos \in Nat
      BY <1>1, InFile
    <3>2. Place(r)
      BY DEF Inv
    <3>. QED  BY <3>1, <3>2 DEF Place
  <2>. QED  BY ONLY <1>5, <2>1 DEF Place
<1>. QED  BY <1>3, <1>4, <1>6 DEF Inv, Moved

LEMMA KillMoves ==
    ASSUME Inv, NEW i \in Importer, Kill(i)
    PROVE  Moved(i)
<1>1. [NoRun EXCEPT !.step = "failed"] \in Run
  BY RunsTyped DEF Run, Step
<1>2. /\ [NoRun EXCEPT !.step = "failed"].step = "failed"
      /\ [NoRun EXCEPT !.step = "failed"].todo \subseteq [NoRun EXCEPT !.step = "failed"].found
  BY DEF NoRun
<1>. QED  BY <1>1, <1>2 DEF Kill, Inv, Moved, Place

(* Every step of an importer moves it in its file, and leaves the table, or *)
(* upserts a whole batch.                                                   *)
WholeBatch(i) ==
    /\ imp[i].step = "upsert"
    /\ products' = Store!Upserted(products, Current(i))

LEMMA ImportMoves ==
    ASSUME Inv, NEW i \in Importer, Import(i)
    PROVE  Moved(i) /\ scenario' = scenario /\ (products' = products \/ WholeBatch(i))
<1>. USE DEF Keeps
<1>1. CASE \E filter \in Filter : Start(i, filter)
  BY <1>1, StartMoves DEF Start
<1>2. CASE NextFile(i)
  BY <1>2, NextFileMoves DEF NextFile
<1>3. CASE Finish(i)
  BY <1>3, FinishMoves DEF Finish
<1>4. CASE ReadRow(i)
  BY <1>4, ReadRowMoves DEF ReadRow
<1>5. CASE FileDone(i)
  BY <1>5, FileDoneMoves DEF FileDone
<1>6. CASE ParseFails(i)
  BY <1>6, LeavesFileMoves DEF ParseFails
<1>7. CASE BeginBatch(i)
  BY <1>7, BeginBatchMoves DEF BeginBatch
<1>8. CASE FailRow(i)
  <2>1. PICK j : imp[i].step = "upsert" /\ RowFails(i, j)
    BY <1>8, Zenon DEF FailRow
  <2>. QED  BY <2>1, RowFailsMoves DEF RowFails
<1>9. CASE UpsertRow(i)
  BY <1>9, UpsertRowMoves DEF UpsertRow
<1>10. CASE Deadlock(i)
  <2>1. PICK j : RowFails(i, j)
    BY <1>10, Zenon DEF Deadlock
  <2>2. imp[i].step = "upsert"
    BY <1>10 DEF Deadlock, WaitsFor
  <2>. QED  BY <2>1, <2>2, RowFailsMoves DEF RowFails
<1>11. CASE CommitBatch(i)
  <2>1. /\ imp[i].step = "upsert" /\ imp[i].batch.inserted \in Nat
        /\ imp[i].batch.updated \in Nat /\ imp[i].batch.failed \in Nat
    BY <1>11 DEF CommitBatch, Inv, Run, Batching
  <2>. QED  BY <1>11, <2>1, ReturnsMoves DEF CommitBatch, WholeBatch
<1>12. CASE RollBack(i)
  <2>1. imp[i].step = "upsert" /\ Cardinality(InBatch(i)) \in Nat
    BY <1>12, InFile DEF RollBack, Reading
  <2>. QED  BY <1>12, <2>1, ReturnsMoves DEF RollBack
<1>13. CASE LoseConnection(i)
  BY <1>13, LeavesFileMoves DEF LoseConnection, WholeBatch
<1>14. CASE Kill(i)
  BY <1>14, KillMoves DEF Kill
<1>. QED  BY <1>1, <1>2, <1>3, <1>4, <1>5, <1>6, <1>7, <1>8, <1>9, <1>10, <1>11,
             <1>12, <1>13, <1>14 DEF Import, Works
-----------------------------------------------------------------------------
LEMMA AssignTyped ==
    ASSUME products \in Table, NEW k \in Key, NEW c \in Category, Store!Assign(k, c)
    PROVE  products' \in Table
<1>1. PICK D \in SUBSET Key :
        products \in [D -> [category : Category \cup {NoCategory}, facts : Facts]]
  BY DEF Table
<1>2. products' \in [D -> [category : Category \cup {NoCategory}, facts : Facts]]
  BY <1>1 DEF Store!Assign
<1>. QED  BY <1>2 DEF Table

LEMMA BatchTable ==
    ASSUME Inv, NEW i \in Importer, WholeBatch(i)
    PROVE  products' \in Table
<1>1. imp[i].pos - 1 <= Len(Rows[imp[i].file])
  BY InFile DEF WholeBatch, Reading, LastRow
<1>. QED  BY <1>1, InFile, UpsertedTyped DEF WholeBatch, Reading, Current, Inv

LEMMA NextInv == Inv /\ [Next]_vars => Inv'
<1>. SUFFICES ASSUME Inv, [Next]_vars PROVE Inv'
  OBVIOUS
<1>1. ASSUME NEW i \in Importer, Import(i)
      PROVE  Inv'
  <2>1. Moved(i) /\ scenario' = scenario /\ (products' = products \/ WholeBatch(i))
    BY <1>1, ImportMoves
  <2>2. products' \in Table
    BY <2>1, BatchTable DEF Inv
  <2>3. \A p \in Importer : imp'[p] \in Run /\ Place(imp'[p])
    BY <2>1 DEF Moved, Inv
  <2>4. imp' \in [Importer -> Run]
    BY <2>1, <2>3 DEF Moved, Inv
  <2>. QED  BY <2>1, <2>2, <2>3, <2>4 DEF Inv
<1>2. ASSUME NEW k \in Key, NEW c \in Category, Assign(k, c)
      PROVE  Inv'
  BY <1>2, AssignTyped DEF Assign, Inv
<1>3. CASE UNCHANGED vars
  BY <1>3 DEF vars, Inv
<1>. QED  BY <1>1, <1>2, <1>3 DEF Next

(* Every reachable state satisfies the invariant the theorems rest on: where  *)
(* runImport, processFile and upsertBatch leave an importer in its file.     *)
THEOREM SpecInv == Spec => []Inv
<1>. QED  BY InitInv, NextInv, PTL DEF Spec

(* The tables and the runs keep their types, and an importer never loses    *)
(* its place: whatever file fails and whenever it is killed, the rows it    *)
(* upserts are rows of the file it reads, up to where it has read.          *)
THEOREM TypeCorrect == Spec => []TypeOK
<1>. QED  BY SpecInv, InvTyped, PTL

(* What is committed is one of the batches of the files.                    *)
LEMMA CommitsBatch ==
    ASSUME Inv, NEW i \in Importer, imp[i].step = "upsert"
    PROVE  Current(i) \in Batch
<1>. DEFINE f == imp[i].file
            from == imp[i].from
            to == imp[i].pos - 1
            n == Cardinality(Complete(f, from, to))
<1>1. /\ f \in File /\ from \in Nat /\ to \in Int /\ 1 <= from
      /\ Len(Rows[f]) \in Nat /\ to <= Len(Rows[f])
  BY InFile DEF Reading, LastRow
<1>2. IsBatch(f, from, to)
  BY DEF Inv, Place
<1>3. /\ n \in Nat /\ (n > 0 <=> Complete(f, from, to) # {})
      /\ Complete(f, from, to) \subseteq from..to
  BY <1>1, SpanFinite, Zenon
<1>4. n > 0
  BY <1>2, <1>3, ImportAssumption DEF IsBatch
<1>5. from <= to
  BY <1>1, <1>3, <1>4
<1>6. from \in 1..Len(Rows[f]) /\ to \in from..Len(Rows[f])
  BY <1>1, <1>5
<1>7. BatchOf(f, from, to) \in Batches(f)
  <2>. DEFINE Tos(a) == {t \in a..Len(Rows[f]) : IsBatch(f, a, t)}
  <2>1. to \in Tos(from)
    BY <1>2, <1>6
  <2>2. BatchOf(f, from, to) \in {BatchOf(f, from, t) : t \in Tos(from)}
    BY <2>1, Zenon
  <2>. HIDE DEF f, from, to
  <2>. QED  BY <1>6, <2>2, Zenon DEF Batches
<1>. QED  BY <1>1, <1>7 DEF Batch, Current

(* The importer implements the store: a batch that aborts, a deadlock, a    *)
(* lost connection, a file cut off or a kill never leaves a part of a batch *)
(* in the table, whatever the batch size and however many importers run.    *)
THEOREM ImportRefinesStore == Spec => Implements
<1>1. Init => Store!Init
  BY DEF Init, Store!Init
<1>2. Inv /\ [Next]_vars => [Store!Next]_products
  <2>. SUFFICES ASSUME Inv, [Next]_vars PROVE [Store!Next]_products
    OBVIOUS
  <2>1. ASSUME NEW i \in Importer, Import(i)
        PROVE  [Store!Next]_products
    <3>1. products' = products \/ WholeBatch(i)
      BY <2>1, ImportMoves
    <3>. QED  BY <3>1, CommitsBatch DEF WholeBatch, Store!Next, Store!Import
  <2>2. ASSUME NEW k \in Key, NEW c \in Category, Assign(k, c)
        PROVE  [Store!Next]_products
    BY <2>2 DEF Assign, Store!Next
  <2>3. CASE UNCHANGED vars
    BY <2>3 DEF vars
  <2>. QED  BY <2>1, <2>2, <2>3 DEF Next
<1>. QED  BY <1>1, <1>2, SpecInv, PTL DEF Spec, Implements, Store!Spec
-----------------------------------------------------------------------------
(* Rounding to the nearest keeps the order of two quotients p/q and r/s.    *)
LEMMA DivBounds ==
    ASSUME NEW a \in Int, NEW q \in Nat \ {0}
    PROVE  (a \div q) \in Int /\ (a \div q) * q <= a /\ a < (a \div q) * q + q
OBVIOUS

LEMMA RoundingMonotone ==
    ASSUME NEW p \in Int, NEW q \in Nat \ {0}, NEW r \in Int, NEW s \in Nat \ {0},
           NEW m \in Nat, p * s < r * q
    PROVE  (p * m + q \div 2) \div q <= (r * m + s \div 2) \div s
<1>. DEFINE x == (p * m + q \div 2) \div q
            y == (r * m + s \div 2) \div s
<1>1. /\ q \div 2 \in Int /\ 2 * (q \div 2) <= q
      /\ s \div 2 \in Int /\ s < 2 * (s \div 2) + 2
  OBVIOUS
<1>2. p * m \in Int /\ r * m \in Int /\ p * m + q \div 2 \in Int /\ r * m + s \div 2 \in Int
  BY <1>1
<1>3. /\ x \in Int /\ x * q <= p * m + q \div 2
      /\ y \in Int /\ r * m + s \div 2 < y * s + s
  BY <1>2, DivBounds
<1>. HIDE DEF x, y
<1>4. 2 * (x * q) <= 2 * (p * m) + q
  <2>1. x * q \in Int
    BY <1>3
  <2>. QED  BY <1>1, <1>2, <1>3, <2>1
<1>5. 2 * (r * m) + s <= 2 * (y * s) + 2 * s
  <2>1. y * s \in Int
    BY <1>3
  <2>. QED  BY <1>1, <1>2, <1>3, <2>1
<1>. QED  BY <1>3, <1>4, <1>5

LEMMA FactorPositive == \A unit : Factor(unit) \in Nat \ {0}
BY DEF Factor

(* A label the patterns read in full gives the quantity it says.            *)
LEMMA PlainRead ==
    ASSUME NEW label, Plain(label), label.packs \in Nat, label.size \in Nat
    PROVE  /\ Normalize(ExtractUnit(label)) # NoUnit
           /\ Normalize(ExtractUnit(label)).quantity = Contents(label)
           /\ Contents(label) \in Nat \ {0}
<1>. DEFINE n == label.packs * label.size
<1>1. /\ label.form \in {"plain", "pack"} /\ label.unit \in Known /\ n \in Nat \ {0}
      /\ label.form = "pack" => PackUnit(label.unit) = label.unit
      /\ label.form = "plain" => n = label.size
      /\ Read(label) = label.size
  BY DEF Plain
<1>2. label.unit # "none"
  BY <1>1 DEF Known, Metric, Count
<1>3. ExtractUnit(label) = [quantity |-> n, unit |-> label.unit]
  <2>1. CASE label.form = "plain"
    BY <1>1, <2>1 DEF ExtractUnit
  <2>2. CASE label.form = "pack"
    <3>1. PackUnit(label.unit) = label.unit /\ label.unit \notin Count
      BY <1>1, <2>2 DEF PackUnit, Count, Known, Metric
    <3>2. label.decimal = label.size
      BY <1>1, <3>1 DEF Read
    <3>. QED  BY <1>1, <1>2, <2>2, <3>1, <3>2 DEF ExtractUnit
  <2>. QED  BY <1>1, <2>1, <2>2
<1>4. ExtractUnit(label) # NoUnit
  BY <1>2, <1>3 DEF NoUnit
<1>5. Normalize(ExtractUnit(label)) =
          [quantity |-> n * Factor(label.unit), unit |-> Standard(label.unit)]
  BY <1>3, <1>4 DEF Normalize
<1>6. Contents(label) = n * Factor(label.unit)
  BY DEF Contents
<1>7. Contents(label) \in Nat \ {0}
  BY <1>1, <1>6, FactorPositive
<1>. HIDE DEF n
<1>. QED  BY <1>5, <1>6, <1>7 DEF NoUnit, Nothing

(* The price column of a product with a plain label and a price.            *)
LEMMA PlainPriced ==
    ASSUME NEW facts \in Facts, Plain(facts.label), facts.price # Nothing
    PROVE  /\ facts.price \in Int /\ Contents(facts.label) \in Nat \ {0}
           /\ facts.normalizedPrice =
                 (facts.price * 1000000 + Contents(facts.label) \div 2)
                     \div Contents(facts.label)
<1>1. PICK f \in File : \E j \in DOMAIN Items[f] : Items[f][j].facts = facts
  BY DEF Facts, Item
<1>2. PICK j \in 1..Len(Rows[f]) : facts = Transform(Rows[f][j])
  BY <1>1 DEF Items
<1>3. PICK row : row = Rows[f][j]
  OBVIOUS
<1>4. PICK label : label = row.unit
  OBVIOUS
<1>5. /\ row.price.form = "amount" => row.price.cents \in Int
      /\ label.form \in {"plain", "pack"} => label.packs \in Nat /\ label.size \in Nat
  BY <1>2, <1>3, <1>4, RowsAssumption
<1>6. PICK price, normalized :
          price = ParsePrice(row.price) /\ normalized = Normalize(ExtractUnit(label))
  OBVIOUS
<1>7. /\ facts.label = label /\ facts.price = price
      /\ facts.normalizedPrice = NormalizedPrice(price, normalized)
  BY <1>2, <1>3, <1>4, <1>6 DEF Transform
<1>8. price \in Int
  BY <1>5, <1>6, <1>7 DEF ParsePrice
<1>9. /\ normalized # NoUnit /\ normalized.quantity = Contents(label)
      /\ Contents(label) \in Nat \ {0}
  BY <1>5, <1>6, <1>7, PlainRead DEF Plain
<1>10. NormalizedPrice(price, normalized) =
          (price * 1000000 + normalized.quantity \div 2) \div normalized.quantity
  BY <1>7, <1>9 DEF NormalizedPrice
<1>. QED  BY <1>7, <1>8, <1>9, <1>10

(* Whatever rows the files have, in whichever units: of two stored products *)
(* with labels read in full, the one cheaper for what it contains has not   *)
(* the higher normalized_price, rounding to cents included.                 *)
THEOREM SpecCheaperIsNotDearer == Spec => []CheaperIsNotDearer
<1>1. ASSUME Inv, NEW k \in DOMAIN products, NEW h \in DOMAIN products
      PROVE  LET a == products[k].facts
                 b == products[h].facts
             IN  /\ Plain(a.label) /\ Plain(b.label)
                 /\ a.normalized.unit = b.normalized.unit
                 /\ a.price # Nothing /\ b.price # Nothing
                 /\ a.price * Contents(b.label) < b.price * Contents(a.label)
                 => a.normalizedPrice <= b.normalizedPrice
  <2>1. products[k].facts \in Facts /\ products[h].facts \in Facts
    BY <1>1 DEF Inv, Table
  <2>2. PICK a, b : a = products[k].facts /\ b = products[h].facts
    OBVIOUS
  <2>3. ASSUME Plain(a.label), Plain(b.label), a.price # Nothing, b.price # Nothing,
               a.price * Contents(b.label) < b.price * Contents(a.label)
        PROVE  a.normalizedPrice <= b.normalizedPrice
    <3>1. PICK p, q, r, s : /\ p = a.price /\ q = Contents(a.label)
                            /\ r = b.price /\ s = Contents(b.label)
      OBVIOUS
    <3>2. /\ p \in Int /\ q \in Nat \ {0} /\ r \in Int /\ s \in Nat \ {0}
          /\ a.normalizedPrice = (p * 1000000 + q \div 2) \div q
          /\ b.normalizedPrice = (r * 1000000 + s \div 2) \div s
      BY <2>1, <2>2, <2>3, <3>1, PlainPriced
    <3>3. p * s < r * q /\ 1000000 \in Nat
      BY <2>3, <3>1
    <3>4. (p * 1000000 + q \div 2) \div q <= (r * 1000000 + s \div 2) \div s
      BY ONLY <3>2, <3>3, RoundingMonotone
    <3>. QED  BY <3>2, <3>4
  <2>. QED  BY <2>2, <2>3
<1>2. Inv => CheaperIsNotDearer
  BY <1>1 DEF CheaperIsNotDearer
<1>. QED  BY <1>2, SpecInv, PTL
-----------------------------------------------------------------------------
(* The files a run has left, the rows of some files, and the rows a run has *)
(* upserted if nothing went wrong: those of the files it has left and, of   *)
(* the file it is in, those before the batch.                               *)
InRows(r) == r.step \in {"rows", "upsert"}

Behind(r) == (r.found \ r.todo) \ (IF InRows(r) THEN {r.file} ELSE {})

RowsOf(files) == UNION {{f} \X (1..Len(Rows[f])) : f \in files}

Past(r) == RowsOf(Behind(r)) \cup (IF InRows(r) THEN {r.file} \X (1..(r.from - 1)) ELSE {})

(* A report without a failed row or a file left early.                      *)
Clean(r) == r.stats.failed = 0 /\ r.stats.processed = Cardinality(Behind(r))

(* What the counts of a run say, when keys are those of the stored products.*)
Report(r, keys) ==
    r.step \in {"files", "rows", "upsert", "done"} =>
        /\ r.todo \subseteq r.found /\ IsFiniteSet(r.found)
        /\ r.step = "done" => r.todo = {}
        /\ r.stats.processed <= Cardinality(Behind(r))
        /\ Clean(r) =>
              /\ \A x \in Past(r) : Items[x[1]][x[2]].key \in keys
              /\ r.stats.inserted + r.stats.updated = Cardinality(Past(r))
              /\ r.stats.total = Cardinality(Past(r))
              /\ InRows(r) => \A j \in 1..(r.pos - 1) : Rows[r.file][j].complete
        /\ r.step = "upsert" =>
              IF r.batch.aborted THEN r.batch.failed > 0
              ELSE /\ r.batch.failed = 0
                   /\ r.batch.inserted + r.batch.updated
                        = Cardinality(Complete(r.file, r.from, r.pos - 1) \ r.batch.left)

ReportInv == \A i \in Importer : Report(imp[i], DOMAIN products)

LEMMA MoreKeys ==
    ASSUME NEW r, NEW keys, NEW more, Report(r, keys), keys \subseteq more
    PROVE  Report(r, more)
BY DEF Report

LEMMA IntervalSize ==
    \A a, b \in Int : /\ IsFiniteSet(a..b)
                      /\ a <= b + 1 => Cardinality(a..b) = b - a + 1
BY FS_Interval

(* The rows of finitely many files are finitely many.                       *)
LEMMA RowsFinite ==
    ASSUME NEW files \in SUBSET File, IsFiniteSet(files)
    PROVE  IsFiniteSet(RowsOf(files))
<1>. DEFINE span == [f \in files |-> {f} \X (1..Len(Rows[f]))]
            T == {{f} \X (1..Len(Rows[f])) : f \in files}
<1>1. span \in Surjection(files, T)
  BY DEF Surjection
<1>2. IsFiniteSet(T)
  BY <1>1, FS_Surjection
<1>3. ASSUME NEW f \in files  PROVE IsFiniteSet({f} \X (1..Len(Rows[f])))
  <2>1. IsFiniteSet(1..Len(Rows[f])) /\ IsFiniteSet({f})
    <3>1. Len(Rows[f]) \in Int /\ 1 \in Int
      BY ImportAssumption
    <3>. QED  BY <3>1, IntervalSize, FS_Singleton
  <2>. QED  BY <2>1, FS_Product
<1>. QED  BY <1>2, <1>3, FS_UNION DEF RowsOf

LEMMA PastFinite ==
    ASSUME NEW r \in Run, IsFiniteSet(r.found)
    PROVE  /\ IsFiniteSet(Behind(r)) /\ IsFiniteSet(Past(r))
           /\ Cardinality(Behind(r)) \in Nat /\ Cardinality(Past(r)) \in Nat
           /\ Behind(r) \in SUBSET File
<1>1. Behind(r) \subseteq r.found /\ r.found \subseteq File
  BY DEF Behind, Run
<1>2. IsFiniteSet(Behind(r)) /\ IsFiniteSet(RowsOf(Behind(r)))
  BY <1>1, FS_Subset, RowsFinite
<1>3. IsFiniteSet({r.file} \X (1..(r.from - 1)))
  <2>1. IsFiniteSet(1..(r.from - 1)) /\ IsFiniteSet({r.file})
    <3>1. r.from - 1 \in Int /\ 1 \in Int
      BY DEF Run
    <3>. QED  BY <3>1, IntervalSize, FS_Singleton
  <2>. QED  BY <2>1, FS_Product
<1>4. IsFiniteSet(Past(r))
  BY <1>2, <1>3, FS_Union DEF Past
<1>. QED  BY <1>1, <1>2, <1>4, FS_CardinalityType

(* A run that is about to read its first row, or leaves a file it was in.   *)
LEMMA LeavesBehind ==
    ASSUME NEW r \in Run, NEW new, IsFiniteSet(r.found), InRows(r),
           r.file \in r.found \ r.todo, new.step = "files",
           new.found = r.found, new.todo = r.todo
    PROVE  /\ Behind(new) = Behind(r) \cup {r.file}
           /\ Cardinality(Behind(new)) = Cardinality(Behind(r)) + 1
           /\ RowsOf(Behind(new)) =
                 RowsOf(Behind(r)) \cup ({r.file} \X (1..Len(Rows[r.file])))
<1>1. Behind(new) = Behind(r) \cup {r.file} /\ r.file \notin Behind(r)
  BY DEF Behind, InRows
<1>2. Cardinality(Behind(new)) = Cardinality(Behind(r)) + 1
  BY <1>1, PastFinite, FS_AddElement
<1>. QED  BY <1>1, <1>2 DEF RowsOf

(* The rows of a batch, on top of those before it.                          *)
LEMMA SpanCounted ==
    ASSUME NEW r \in Run, IsFiniteSet(r.found), InRows(r),
           1 <= r.from, r.from <= r.pos
    PROVE  LET span == {r.file} \X (r.from..(r.pos - 1))
               all == Past(r) \cup span
           IN  /\ all = RowsOf(Behind(r)) \cup ({r.file} \X (1..(r.pos - 1)))
               /\ Cardinality(all) = Cardinality(Past(r)) + (r.pos - r.from)
<1>. DEFINE span == {r.file} \X (r.from..(r.pos - 1))
            all == Past(r) \cup span
<1>1. r.from \in Nat /\ r.pos \in Nat
  BY DEF Run
<1>2. 1..(r.pos - 1) = (1..(r.from - 1)) \cup (r.from..(r.pos - 1))
  BY <1>1
<1>3. all = RowsOf(Behind(r)) \cup ({r.file} \X (1..(r.pos - 1)))
  BY <1>2 DEF Past
<1>4. Past(r) \cap span = {}
  <2>1. \A x \in RowsOf(Behind(r)) : x[1] # r.file
    BY DEF RowsOf, Behind
  <2>2. \A x \in {r.file} \X (1..(r.from - 1)) : x[2] < r.from
    BY <1>1
  <2>3. \A x \in span : x[1] = r.file /\ x[2] >= r.from
    BY <1>1
  <2>. QED  BY <1>1, <2>1, <2>2, <2>3 DEF Past
<1>5. IsFiniteSet(span) /\ Cardinality(span) = r.pos - r.from
  <2>1. IsFiniteSet(r.from..(r.pos - 1)) /\ Cardinality(r.from..(r.pos - 1)) = r.pos - r.from
    <3>1. PICK a, b \in Int : a = r.from /\ b = r.pos - 1 /\ a <= b + 1
      BY <1>1
    <3>2. IsFiniteSet(a..b) /\ Cardinality(a..b) = b - a + 1
      BY <3>1, IntervalSize
    <3>3. b - a + 1 = r.pos - r.from
      BY <1>1, <3>1
    <3>. QED  BY <3>1, <3>2, <3>3
  <2>2. IsFiniteSet({r.file}) /\ Cardinality({r.file}) = 1
    BY FS_Singleton
  <2>3. PICK S, T : S = {r.file} /\ T = r.from..(r.pos - 1)
    OBVIOUS
  <2>4. /\ IsFiniteSet(S) /\ Cardinality(S) = 1
        /\ IsFiniteSet(T) /\ Cardinality(T) = r.pos - r.from
    BY <2>1, <2>2, <2>3
  <2>5. IsFiniteSet(S \X T) /\ Cardinality(S \X T) = Cardinality(S) * Cardinality(T)
    BY ONLY <2>4, FS_Product
  <2>. QED  BY ONLY <1>1, <2>3, <2>4, <2>5
<1>6. Cardinality(all) = Cardinality(Past(r)) + (r.pos - r.from)
  <2>1. Cardinality(all) =
            Cardinality(Past(r)) + Cardinality(span) - Cardinality(Past(r) \cap span)
    BY <1>5, PastFinite, FS_Union
  <2>2. Cardinality(Past(r)) \in Nat /\ Cardinality(Past(r) \cap span) = 0
    BY <1>4, PastFinite, FS_EmptySet
  <2>. QED  BY ONLY <1>1, <1>5, <2>1, <2>2
<1>. QED  BY <1>3, <1>6
-----------------------------------------------------------------------------
(* The report of a run, step by step.                                       *)
LEMMA StartReports ==
    ASSUME Inv, NEW i \in Importer, NEW filter \in Filter, Start(i, filter), NEW keys
    PROVE  Report(imp'[i], keys)
<1>. DEFINE r(t) == [NoRun EXCEPT !.step = t, !.found = Scanned(filter),
                                 !.todo = Scanned(filter)]
            bad == [NoRun EXCEPT !.step = "failed"]
<1>1. IsFiniteSet(Scanned(filter))
  <2>1. IsFiniteSet(scenario.files)
    BY ImportAssumption DEF Inv
  <2>. QED  BY <2>1, FS_Subset DEF Scanned
<1>2. \/ imp'[i] = bad
      \/ imp'[i] = r("done") /\ Scanned(filter) = {}
      \/ imp'[i] = r("files")
  BY DEF Start, Inv
<1>3. Report(bad, keys)
  BY DEF Report, NoRun
<1>4. ASSUME NEW t \in {"done", "files"}, t = "done" => Scanned(filter) = {}
      PROVE  Report(r(t), keys)
  <2>1. PICK new : new = r(t)
    OBVIOUS
  <2>2. /\ new.step = t /\ new.found = Scanned(filter) /\ new.todo = Scanned(filter)
        /\ new.stats = NoStats
    BY <2>1 DEF NoRun
  <2>3. Behind(new) = {} /\ Past(new) = {} /\ ~ InRows(new)
    BY <2>2 DEF Behind, Past, RowsOf, InRows
  <2>4. Cardinality(Behind(new)) = 0 /\ Cardinality(Past(new)) = 0
    BY <2>3, FS_EmptySet
  <2>5. /\ new.stats.processed = 0 /\ new.stats.inserted + new.stats.updated = 0
        /\ new.stats.total = 0
    BY <2>2 DEF NoStats
  <2>. HIDE DEF r
  <2>6. Report(new, keys)
    BY <1>1, <1>4, <2>2, <2>3, <2>4, <2>5 DEF Report
  <2>. QED  BY <2>1, <2>6
<1>. HIDE DEF bad, r
<1>. QED  BY <1>2, <1>3, <1>4

LEMMA NextFileReports ==
    ASSUME Inv, NEW i \in Importer, NEW keys, Report(imp[i], keys), NextFile(i)
    PROVE  Report(imp'[i], keys)
<1>1. PICK r, new : r = imp[i] /\ new = imp'[i]
  OBVIOUS
<1>2. r \in Run /\ r.step = "files" /\ r.todo \subseteq r.found /\ IsFiniteSet(r.found)
  BY <1>1 DEF Inv, NextFile, Report
<1>3. PICK f \in r.todo : /\ new.step = "rows" /\ new.file = f /\ new.from = 1 /\ new.pos = 1
                          /\ new.todo = r.todo \ {f} /\ new.found = r.found
                          /\ new.stats = r.stats
  BY <1>1, <1>2 DEF NextFile, Inv, Run
<1>4. Behind(new) = Behind(r) /\ InRows(new) /\ ~ InRows(r)
  BY <1>2, <1>3 DEF Behind, InRows
<1>5. {new.file} \X (1..(new.from - 1)) = {} /\ 1..(new.pos - 1) = {}
  BY <1>3
<1>6. Past(new) = Past(r)
  BY <1>4, <1>5 DEF Past
<1>. QED  BY <1>1, <1>2, <1>3, <1>4, <1>5, <1>6 DEF Report, Clean

LEMMA FinishReports ==
    ASSUME Inv, NEW i \in Importer, NEW keys, Report(imp[i], keys), Finish(i)
    PROVE  Report(imp'[i], keys)
<1>1. PICK r, new : r = imp[i] /\ new = imp'[i]
  OBVIOUS
<1>2. /\ r.step = "files" /\ r.todo = {} /\ new.step = "done" /\ new.todo = r.todo
      /\ new.found = r.found /\ new.stats = r.stats
  BY <1>1 DEF Inv, Finish, Run
<1>3. Behind(new) = Behind(r) /\ Past(new) = Past(r) /\ ~ InRows(new) /\ ~ InRows(r)
  BY <1>2 DEF Behind, Past, InRows
<1>. QED  BY <1>1, <1>2, <1>3 DEF Report, Clean

LEMMA ReadRowReports ==
    ASSUME Inv, NEW i \in Importer, NEW keys, Report(imp[i], keys), ReadRow(i)
    PROVE  Report(imp'[i], keys)
<1>1. PICK r, new : r = imp[i] /\ new = imp'[i]
  OBVIOUS
<1>2. r \in Run /\ r.step = "rows" /\ r.stats \in Stats /\ r.pos \in Nat
  BY <1>1 DEF Inv, ReadRow, Run
<1>3. /\ new.step = "rows" /\ new.todo = r.todo /\ new.found = r.found /\ new.file = r.file
      /\ new.from = r.from /\ new.pos = r.pos + 1
      /\ new.stats.processed = r.stats.processed /\ new.stats.total = r.stats.total
      /\ new.stats.inserted = r.stats.inserted /\ new.stats.updated = r.stats.updated
      /\ new.stats.failed = IF Rows[r.file][r.pos].complete THEN r.stats.failed
                            ELSE r.stats.failed + 1
  BY <1>1, <1>2 DEF ReadRow, Inv, Run, Stats
<1>4. Behind(new) = Behind(r) /\ Past(new) = Past(r) /\ InRows(new) /\ InRows(r)
  BY <1>2, <1>3 DEF Behind, Past, InRows
<1>5. Clean(new) => Clean(r) /\ Rows[r.file][r.pos].complete
  BY <1>2, <1>3, <1>4 DEF Clean, Stats
<1>6. 1..(new.pos - 1) = (1..(r.pos - 1)) \cup {r.pos} \/ r.pos = 0
  BY <1>2, <1>3
<1>7. r.pos # 0
  BY <1>1, <1>2 DEF Inv, Place, Run
<1>8. \A j \in 1..(new.pos - 1) : j \in 1..(r.pos - 1) \/ j = r.pos
  BY <1>6, <1>7
<1>. QED  BY <1>1, <1>2, <1>3, <1>4, <1>5, <1>8 DEF Report

(* All rows of a file are behind a run when it is done with the file.       *)
LEMMA FileDoneReports ==
    ASSUME Inv, NEW i \in Importer, NEW keys, Report(imp[i], keys), FileDone(i)
    PROVE  Report(imp'[i], keys)
<1>1. PICK r, new : r = imp[i] /\ new = imp'[i]
  OBVIOUS
<1>2. /\ r \in Run /\ r.step = "rows" /\ InRows(r) /\ r.stats \in Stats
      /\ r.file \in r.found \ r.todo /\ r.file \in File
      /\ r.from \in Nat /\ r.pos \in Nat /\ Len(Rows[r.file]) \in Nat
      /\ 1 <= r.from /\ r.from <= r.pos /\ r.pos = Len(Rows[r.file]) + 1
      /\ r.todo \subseteq r.found /\ IsFiniteSet(r.found)
      /\ Complete(r.file, r.from, r.pos - 1) = {}
  <2>1. /\ imp[i].step = "rows" /\ imp[i].pos > LastRow(i) /\ InBatch(i) = {}
        /\ Reading(i)
    BY DEF FileDone, Reading, AtEnd, BatchIsDue
  <2>2. /\ r \in Run /\ r.step = "rows" /\ InRows(r) /\ r.stats \in Stats
        /\ r.file \in r.found \ r.todo
    BY <1>1, <2>1 DEF Inv, Place, Run, InRows
  <2>3. /\ r.file \in File /\ r.from \in Nat /\ r.pos \in Nat /\ Len(Rows[r.file]) \in Nat
        /\ 1 <= r.from /\ r.from <= r.pos /\ r.pos <= Len(Rows[r.file]) + 1
    BY <1>1, <2>1, InFile DEF LastRow
  <2>4. /\ r.pos > Len(Rows[r.file]) /\ Complete(r.file, r.from, r.pos - 1) = {}
    BY <1>1, <2>1 DEF LastRow, InBatch
  <2>5. r.todo \subseteq r.found /\ IsFiniteSet(r.found)
    BY <1>1, <2>2 DEF Report
  <2>. QED  BY <2>2, <2>3, <2>4, <2>5
<1>3. /\ new.step = "files" /\ new.todo = r.todo /\ new.found = r.found
      /\ new.stats.processed = r.stats.processed + 1 /\ new.stats.total = r.stats.total
      /\ new.stats.inserted = r.stats.inserted /\ new.stats.updated = r.stats.updated
      /\ new.stats.failed = r.stats.failed
  <2>1. PICK b : b = Between(r)
    OBVIOUS
  <2>2. /\ b \in Run /\ b.step = "files" /\ b.todo = r.todo /\ b.found = r.found
        /\ b.stats = r.stats
    BY <1>2, <2>1, RunsTyped DEF Between, Run
  <2>3. new = [b EXCEPT !.stats.processed = @ + 1]
    BY <1>1, <2>1 DEF FileDone, Inv
  <2>. QED  BY ONLY <1>2, <2>2, <2>3 DEF Run, Stats
<1>4. /\ Behind(new) = Behind(r) \cup {r.file}
      /\ Cardinality(Behind(new)) = Cardinality(Behind(r)) + 1
      /\ RowsOf(Behind(new)) = RowsOf(Behind(r)) \cup ({r.file} \X (1..Len(Rows[r.file])))
  BY <1>2, <1>3, LeavesBehind
<1>5. Cardinality(Behind(r)) \in Nat
  BY <1>2, PastFinite
<1>6. Clean(new) => Clean(r)
  <2>1. r.stats.processed \in Nat
    BY <1>2 DEF Stats
  <2>. QED  BY ONLY <1>3, <1>4, <1>5, <2>1 DEF Clean
<1>7. ASSUME Clean(r)  PROVE Past(new) = Past(r)
  <2>1. \A j \in 1..(r.pos - 1) : Rows[r.file][j].complete
    BY <1>1, <1>2, <1>7 DEF Report
  <2>2. r.from..(r.pos - 1) = {}
    BY <1>2, <2>1 DEF Complete
  <2>3. r.from = r.pos
    BY <1>2, <2>2
  <2>4. 1..(r.from - 1) = 1..Len(Rows[r.file])
    BY <1>2, <2>3
  <2>. QED  BY <1>2, <1>3, <1>4, <2>4 DEF Past, InRows
<1>8. r.stats.processed <= Cardinality(Behind(r))
  BY <1>1, <1>2 DEF Report
<1>9. new.stats.processed <= Cardinality(Behind(new))
  BY <1>2, <1>3, <1>4, <1>5, <1>8 DEF Stats
<1>. QED  BY <1>1, <1>2, <1>3, <1>6, <1>7, <1>9 DEF Report, InRows

(* A file that is left early is missing from the count of processed files.  *)
LEMMA LeavesFileReports ==
    ASSUME Inv, NEW i \in Importer, NEW keys, Report(imp[i], keys), Reading(i), LeavesFile(i)
    PROVE  Report(imp'[i], keys)
<1>1. PICK r, new : r = imp[i] /\ new = imp'[i]
  OBVIOUS
<1>2. /\ r \in Run /\ InRows(r) /\ r.stats \in Stats
      /\ r.file \in r.found \ r.todo /\ IsFiniteSet(r.found) /\ r.todo \subseteq r.found
      /\ r.stats.processed <= Cardinality(Behind(r))
  BY <1>1 DEF Reading, Inv, Place, InRows, Report, Run
<1>3. /\ new.step = "files" /\ new.todo = r.todo /\ new.found = r.found
      /\ new.stats = r.stats
  BY <1>1, <1>2 DEF LeavesFile, Inv, Between, Run
<1>4. Cardinality(Behind(new)) = Cardinality(Behind(r)) + 1
  BY <1>2, <1>3, LeavesBehind
<1>5. Cardinality(Behind(r)) \in Nat /\ r.stats.processed \in Nat
  BY <1>2, PastFinite DEF Stats
<1>6. ~ Clean(new) /\ new.stats.processed <= Cardinality(Behind(new))
  BY <1>2, <1>3, <1>4, <1>5 DEF Clean
<1>. QED  BY <1>1, <1>2, <1>3, <1>6 DEF Report
-----------------------------------------------------------------------------
(* A step within a file that only changes the batch.                        *)
LEMMA BatchReports ==
    ASSUME NEW r, NEW new, NEW keys, Report(r, keys), InRows(r), new.step = "upsert",
           new.found = r.found, new.todo = r.todo, new.file = r.file,
           new.from = r.from, new.pos = r.pos, new.stats = r.stats,
           IF new.batch.aborted THEN new.batch.failed > 0
           ELSE /\ new.batch.failed = 0
                /\ new.batch.inserted + new.batch.updated
                     = Cardinality(Complete(r.file, r.from, r.pos - 1) \ new.batch.left)
    PROVE  Report(new, keys)
<1>1. InRows(new) /\ Behind(new) = Behind(r) /\ Past(new) = Past(r)
  BY DEF InRows, Behind, Past
<1>2. Clean(new) => Clean(r)
  BY <1>1 DEF Clean
<1>. QED  BY <1>1, <1>2 DEF Report, InRows

LEMMA BeginBatchReports ==
    ASSUME Inv, NEW i \in Importer, NEW keys, Report(imp[i], keys), BeginBatch(i)
    PROVE  Report(imp'[i], keys)
<1>1. PICK r, new : r = imp[i] /\ new = imp'[i]
  OBVIOUS
<1>2. r \in Run /\ InRows(r)
  BY <1>1 DEF Inv, BeginBatch, InRows
<1>3. /\ new.step = "upsert" /\ new.found = r.found /\ new.todo = r.todo
      /\ new.file = r.file /\ new.from = r.from /\ new.pos = r.pos /\ new.stats = r.stats
      /\ new.batch = [NoBatch EXCEPT !.left = Complete(r.file, r.from, r.pos - 1)]
  BY <1>1, <1>2 DEF BeginBatch, Inv, Run, InBatch
<1>4. /\ ~ new.batch.aborted /\ new.batch.failed = 0
      /\ new.batch.inserted + new.batch.updated = 0
      /\ new.batch.left = Complete(r.file, r.from, r.pos - 1)
  BY <1>3 DEF NoBatch
<1>5. Cardinality(Complete(r.file, r.from, r.pos - 1) \ new.batch.left) = 0
  BY <1>4, FS_EmptySet
<1>6. IF new.batch.aborted THEN new.batch.failed > 0
      ELSE /\ new.batch.failed = 0
           /\ new.batch.inserted + new.batch.updated
                = Cardinality(Complete(r.file, r.from, r.pos - 1) \ new.batch.left)
  BY <1>4, <1>5
<1>7. Report(r, keys)
  BY <1>1
<1>8. Report(new, keys)
  BY <1>2, <1>3, <1>6, <1>7, BatchReports
<1>. QED  BY <1>1, <1>8

LEMMA RowFailsReports ==
    ASSUME Inv, NEW i \in Importer, NEW keys, Report(imp[i], keys),
           imp[i].step = "upsert", NEW j, RowFails(i, j)
    PROVE  Report(imp'[i], keys)
<1>1. PICK r, new : r = imp[i] /\ new = imp'[i]
  OBVIOUS
<1>2. r \in Run /\ InRows(r) /\ r.step = "upsert" /\ r.batch \in Batching
  BY <1>1 DEF Inv, InRows, Run
<1>3. PICK b : b = [r.batch EXCEPT !.left = @ \ {j}, !.failed = @ + 1, !.aborted = TRUE]
  OBVIOUS
<1>4. b.aborted /\ b.failed > 0
  BY ONLY <1>2, <1>3 DEF Batching
<1>5. /\ new.step = "upsert" /\ new.found = r.found /\ new.todo = r.todo
      /\ new.file = r.file /\ new.from = r.from /\ new.pos = r.pos /\ new.stats = r.stats
      /\ new.batch = b
  BY <1>1, <1>2, <1>3 DEF RowFails, Inv, Run
<1>. QED  BY <1>1, <1>2, <1>4, <1>5, BatchReports

LEMMA UpsertRowReports ==
    ASSUME Inv, NEW i \in Importer, NEW keys, Report(imp[i], keys), UpsertRow(i)
    PROVE  Report(imp'[i], keys)
<1>1. PICK r, new, span : /\ r = imp[i] /\ new = imp'[i]
                          /\ span = Complete(r.file, r.from, r.pos - 1)
  OBVIOUS
<1>2. /\ r \in Run /\ InRows(r) /\ r.step = "upsert" /\ r.batch \in Batching
      /\ ~ r.batch.aborted
  BY <1>1 DEF Inv, InRows, Run, UpsertRow
<1>. DEFINE upd(j, n, m) ==
              [imp[i].batch EXCEPT !.left = @ \ {j}, !.inserted = n, !.updated = m]
<1>3. PICK j \in InBatch(i) :
          /\ j \in imp[i].batch.left
          /\ \/ imp' = [imp EXCEPT ![i].batch =
                           upd(j, imp[i].batch.inserted + 1, imp[i].batch.updated)]
             \/ imp' = [imp EXCEPT ![i].batch =
                           upd(j, imp[i].batch.inserted, imp[i].batch.updated + 1)]
  BY <1>1, Zenon DEF UpsertRow, IsNext
<1>. HIDE DEF upd
<1>4. PICK n, m \in Nat :
          /\ n + m = r.batch.inserted + r.batch.updated + 1
          /\ imp' = [imp EXCEPT ![i].batch = upd(j, n, m)]
  <2>1. /\ r.batch.inserted \in Nat /\ r.batch.updated \in Nat
        /\ r.batch.inserted + 1 \in Nat /\ r.batch.updated + 1 \in Nat
    BY <1>2 DEF Batching
  <2>2. /\ (r.batch.inserted + 1) + r.batch.updated = r.batch.inserted + r.batch.updated + 1
        /\ r.batch.inserted + (r.batch.updated + 1) = r.batch.inserted + r.batch.updated + 1
    BY <2>1
  <2>. QED  BY <1>1, <1>3, <2>1, <2>2
<1>5. PICK b : b = [r.batch EXCEPT !.left = @ \ {j}, !.inserted = n, !.updated = m]
               /\ b = upd(j, n, m)
  BY <1>1 DEF upd
<1>6. /\ b.left = r.batch.left \ {j} /\ b.inserted = n /\ b.updated = m
      /\ b.failed = r.batch.failed /\ b.aborted = r.batch.aborted
  BY ONLY <1>2, <1>5 DEF Batching
<1>7. /\ new.step = "upsert" /\ new.found = r.found /\ new.todo = r.todo
      /\ new.file = r.file /\ new.from = r.from /\ new.pos = r.pos /\ new.stats = r.stats
      /\ new.batch = b
  BY <1>1, <1>2, <1>4, <1>5 DEF Inv, Run
<1>8. IsFiniteSet(span) /\ r.batch.left \subseteq span
  <2>1. r.from \in Nat /\ r.pos - 1 \in Int /\ r.batch.left \subseteq span
    BY <1>1, <1>2, InFile DEF Reading, InBatch
  <2>2. IsFiniteSet(span)
    BY <1>1, <2>1, SpanFinite
  <2>. QED  BY <2>1, <2>2
<1>9. /\ Cardinality(span \ b.left) = Cardinality(span \ r.batch.left) + 1
      /\ Cardinality(span \ r.batch.left) \in Nat
  <2>1. PICK S, T : S = span \ r.batch.left /\ T = span \ b.left
    OBVIOUS
  <2>2. T = S \cup {j} /\ j \notin S
    BY <1>1, <1>3, <1>6, <1>8, <2>1
  <2>3. IsFiniteSet(S)
    BY <1>8, <2>1, FS_Subset
  <2>4. Cardinality(T) = Cardinality(S) + 1 /\ Cardinality(S) \in Nat
    BY <2>2, <2>3, FS_AddElement, FS_CardinalityType
  <2>. QED  BY <2>1, <2>4
<1>10. /\ r.batch.failed = 0
       /\ r.batch.inserted + r.batch.updated = Cardinality(span \ r.batch.left)
  BY <1>1, <1>2 DEF Report
<1>11. IF new.batch.aborted THEN new.batch.failed > 0
       ELSE /\ new.batch.failed = 0
            /\ new.batch.inserted + new.batch.updated
                 = Cardinality(Complete(r.file, r.from, r.pos - 1) \ new.batch.left)
  BY <1>1, <1>2, <1>4, <1>6, <1>7, <1>9, <1>10
<1>12. Report(r, keys)
  BY <1>1
<1>13. Report(new, keys)
  BY <1>2, <1>7, <1>11, <1>12, BatchReports
<1>. QED  BY <1>1, <1>13

(* What upsertBatch returns is added: all of the batch, with its rows in    *)
(* the table, or a failure.                                                 *)
LEMMA ReturnsReports ==
    ASSUME Inv, NEW i \in Importer, NEW keys, Report(imp[i], keys), imp[i].step = "upsert",
           NEW n \in Nat, NEW m \in Nat, NEW l \in Nat, Returns(i, n, m, l),
           \/ l > 0
           \/ /\ n + m = Cardinality(InBatch(i))
              /\ \A j \in InBatch(i) : Items[imp[i].file][j].key \in keys
    PROVE  Report(imp'[i], keys)
<1>1. PICK r, new, size : /\ r = imp[i] /\ new = imp'[i]
                          /\ size = Cardinality(InBatch(i))
  OBVIOUS
<1>2. /\ r \in Run /\ InRows(r) /\ r.step = "upsert" /\ r.stats \in Stats /\ size \in Nat
      /\ r.file \in File /\ r.from \in Nat /\ r.pos \in Nat
      /\ 1 <= r.from /\ r.from <= r.pos
      /\ r.todo \subseteq r.found /\ IsFiniteSet(r.found)
      /\ r.stats.processed <= Cardinality(Behind(r))
  <2>1. Reading(i)
    BY DEF Reading
  <2>2. r \in Run /\ InRows(r) /\ r.step = "upsert" /\ r.stats \in Stats
    BY <1>1 DEF Inv, Run, InRows
  <2>3. /\ size \in Nat /\ r.file \in File /\ r.from \in Nat /\ r.pos \in Nat
        /\ 1 <= r.from /\ r.from <= r.pos
    BY <1>1, <2>1, InFile
  <2>4. /\ r.todo \subseteq r.found /\ IsFiniteSet(r.found)
        /\ r.stats.processed <= Cardinality(Behind(r))
    BY <1>1, <2>2 DEF Report
  <2>. QED  BY <2>2, <2>3, <2>4
<1>3. /\ new.step = "rows" /\ new.found = r.found /\ new.todo = r.todo
      /\ new.file = r.file /\ new.from = r.pos /\ new.pos = r.pos
      /\ new.stats.processed = r.stats.processed /\ new.stats.failed = r.stats.failed + l
      /\ new.stats.inserted = r.stats.inserted + n
      /\ new.stats.updated = r.stats.updated + m
      /\ new.stats.total = r.stats.total + size
  <2>1. PICK stats : stats = [r.stats EXCEPT
            !.inserted = @ + n, !.updated = @ + m, !.failed = @ + l, !.total = @ + size]
    OBVIOUS
  <2>2. /\ stats.processed = r.stats.processed /\ stats.failed = r.stats.failed + l
        /\ stats.inserted = r.stats.inserted + n /\ stats.updated = r.stats.updated + m
        /\ stats.total = r.stats.total + size
    BY ONLY <1>2, <2>1 DEF Stats
  <2>3. /\ new.step = "rows" /\ new.found = r.found /\ new.todo = r.todo
        /\ new.file = r.file /\ new.from = r.pos /\ new.pos = r.pos /\ new.stats = stats
    BY <1>1, <1>2, <2>1 DEF Returns, Inv, Run
  <2>. QED  BY <2>2, <2>3
<1>4. InRows(new) /\ Behind(new) = Behind(r)
  BY <1>2, <1>3 DEF InRows, Behind
<1>5. Clean(new) => Clean(r) /\ l = 0
  BY <1>2, <1>3, <1>4 DEF Clean, Stats
<1>6. ASSUME Clean(new)
      PROVE  /\ \A x \in Past(new) : Items[x[1]][x[2]].key \in keys
             /\ new.stats.inserted + new.stats.updated = Cardinality(Past(new))
             /\ new.stats.total = Cardinality(Past(new))
             /\ \A j \in 1..(new.pos - 1) : Rows[new.file][j].complete
  <2>1. /\ Clean(r) /\ n + m = size
        /\ \A j \in InBatch(i) : Items[r.file][j].key \in keys
    BY <1>1, <1>5, <1>6
  <2>2. /\ \A x \in Past(r) : Items[x[1]][x[2]].key \in keys
        /\ r.stats.inserted + r.stats.updated = Cardinality(Past(r))
        /\ r.stats.total = Cardinality(Past(r))
        /\ \A j \in 1..(r.pos - 1) : Rows[r.file][j].complete
    BY <1>1, <1>2, <2>1 DEF Report
  <2>3. InBatch(i) = r.from..(r.pos - 1)
    <3>1. \A j \in r.from..(r.pos - 1) : j \in 1..(r.pos - 1)
      BY <1>2
    <3>. QED  BY <1>1, <2>2, <3>1 DEF InBatch, Complete
  <2>4. size = r.pos - r.from
    <3>1. PICK a, b \in Int : a = r.from /\ b = r.pos - 1 /\ a <= b + 1
      BY <1>2
    <3>2. Cardinality(a..b) = b - a + 1
      BY <3>1, IntervalSize
    <3>. QED  BY <1>1, <1>2, <2>3, <3>1, <3>2
  <2>5. PICK span : span = {r.file} \X (r.from..(r.pos - 1))
    OBVIOUS
  <2>6. /\ Past(r) \cup span = RowsOf(Behind(r)) \cup ({r.file} \X (1..(r.pos - 1)))
        /\ Cardinality(Past(r) \cup span) = Cardinality(Past(r)) + (r.pos - r.from)
    BY <1>2, <2>5, SpanCounted
  <2>7. Past(new) = Past(r) \cup span
    BY <1>3, <1>4, <2>6 DEF Past
  <2>8. Cardinality(Past(r)) \in Nat
    BY <1>2, PastFinite
  <2>9. \A x \in span : Items[x[1]][x[2]].key \in keys
    BY <2>1, <2>3, <2>5
  <2>10. /\ new.stats.inserted + new.stats.updated = Cardinality(Past(r)) + size
         /\ new.stats.total = Cardinality(Past(r)) + size
    BY <1>2, <1>3, <2>1, <2>2, <2>8 DEF Stats
  <2>. QED  BY <1>3, <2>2, <2>4, <2>6, <2>7, <2>9, <2>10
<1>. QED  BY <1>1, <1>2, <1>3, <1>4, <1>6 DEF Report, InRows

LEMMA KillReports ==
    ASSUME Inv, NEW i \in Importer, NEW keys, Kill(i)
    PROVE  Report(imp'[i], keys)
BY DEF Kill, Inv, Report, NoRun

(* No product leaves the table, and a committed batch is in it.             *)
LEMMA TablesGrow ==
    ASSUME Inv, [Next]_vars
    PROVE  DOMAIN products \subseteq DOMAIN products'
<1>1. ASSUME NEW i \in Importer, Import(i)
      PROVE  DOMAIN products \subseteq DOMAIN products'
  BY <1>1, ImportMoves DEF WholeBatch, Store!Upserted
<1>2. ASSUME NEW k \in Key, NEW c \in Category, Assign(k, c)
      PROVE  DOMAIN products \subseteq DOMAIN products'
  BY <1>2 DEF Assign, Store!Assign
<1>. QED  BY <1>1, <1>2 DEF Next, vars

LEMMA BatchIsThere ==
    ASSUME Inv, NEW i \in Importer, imp[i].step = "upsert",
           products' = Store!Upserted(products, Current(i)), NEW j \in InBatch(i)
    PROVE  Items[imp[i].file][j].key \in DOMAIN products'
<1>1. Current(i)[j] = Items[imp[i].file][j] /\ j \in DOMAIN Current(i)
  BY DEF Current, InBatch, BatchOf
<1>2. Current(i)[j].key \in Store!Keys(Current(i))
  BY <1>1 DEF Store!Keys
<1>. QED  BY <1>1, <1>2 DEF Store!Upserted

LEMMA CommitBatchReports ==
    ASSUME Inv, NEW i \in Importer, CommitBatch(i), Report(imp[i], DOMAIN products')
    PROVE  Report(imp'[i], DOMAIN products')
<1>1. PICK b : b = imp[i].batch
  OBVIOUS
<1>2. /\ imp[i].step = "upsert" /\ b.left = {}
      /\ b.inserted \in Nat /\ b.updated \in Nat /\ b.failed \in Nat
      /\ Returns(i, b.inserted, b.updated, b.failed)
  BY <1>1 DEF CommitBatch, Inv, Run, Batching
<1>3. IF b.aborted THEN b.failed > 0
      ELSE b.inserted + b.updated = Cardinality(InBatch(i) \ b.left)
  BY <1>1, <1>2 DEF Report, InBatch
<1>4. CASE b.aborted
  BY <1>2, <1>3, <1>4, ReturnsReports
<1>5. CASE ~ b.aborted
  <2>1. b.inserted + b.updated = Cardinality(InBatch(i))
    <3>1. InBatch(i) \ b.left = InBatch(i)
      BY <1>2
    <3>. QED  BY <1>3, <1>5, <3>1
  <2>2. products' = Store!Upserted(products, Current(i))
    BY <1>1, <1>5 DEF CommitBatch
  <2>3. \A j \in InBatch(i) : Items[imp[i].file][j].key \in DOMAIN products'
    BY <1>2, <2>2, BatchIsThere
  <2>. QED  BY <1>2, <2>1, <2>3, ReturnsReports
<1>. QED  BY <1>4, <1>5

(* The rows of a batch that is rolled back are all counted as failed.       *)
LEMMA RollBackReports ==
    ASSUME Inv, NEW i \in Importer, NEW keys, Report(imp[i], keys), RollBack(i)
    PROVE  Report(imp'[i], keys)
<1>1. PICK n : n = Cardinality(InBatch(i))
  OBVIOUS
<1>2. imp[i].step = "upsert" /\ Returns(i, 0, 0, n)
  BY <1>1 DEF RollBack
<1>3. Reading(i)
  BY <1>2 DEF Reading
<1>4. n \in Nat /\ n > 0
  <2>1. n \in Nat
    BY <1>1, <1>3, InFile
  <2>2. IsBatch(imp[i].file, imp[i].from, imp[i].pos - 1)
    BY <1>2 DEF Inv, Place
  <2>. QED  BY <1>1, <2>1, <2>2, ImportAssumption DEF IsBatch, InBatch
<1>. QED  BY <1>2, <1>4, ReturnsReports

LEMMA ImportReports ==
    ASSUME Inv, NEW i \in Importer, Import(i), Report(imp[i], DOMAIN products')
    PROVE  Report(imp'[i], DOMAIN products')
<1>1. CASE \E filter \in Filter : Start(i, filter)
  BY <1>1, StartReports
<1>2. CASE NextFile(i)
  BY <1>2, NextFileReports
<1>3. CASE Finish(i)
  BY <1>3, FinishReports
<1>4. CASE ReadRow(i)
  BY <1>4, ReadRowReports
<1>5. CASE FileDone(i)
  BY <1>5, FileDoneReports
<1>6. CASE ParseFails(i)
  BY <1>6, LeavesFileReports DEF ParseFails, Reading
<1>7. CASE BeginBatch(i)
  BY <1>7, BeginBatchReports
<1>8. CASE FailRow(i)
  <2>1. PICK j : imp[i].step = "upsert" /\ RowFails(i, j)
    BY <1>8, Zenon DEF FailRow
  <2>. QED  BY <2>1, RowFailsReports
<1>9. CASE UpsertRow(i)
  BY <1>9, UpsertRowReports
<1>10. CASE Deadlock(i)
  <2>1. PICK j : RowFails(i, j)
    BY <1>10, Zenon DEF Deadlock
  <2>2. imp[i].step = "upsert"
    BY <1>10 DEF Deadlock, WaitsFor
  <2>. QED  BY <2>1, <2>2, RowFailsReports
<1>11. CASE CommitBatch(i)
  BY <1>11, CommitBatchReports
<1>12. CASE RollBack(i)
  BY <1>12, RollBackReports
<1>13. CASE LoseConnection(i)
  <2>1. Reading(i) /\ LeavesFile(i)
    BY <1>13 DEF LoseConnection, Reading
  <2>. QED  BY <2>1, LeavesFileReports
<1>14. CASE Kill(i)
  BY <1>14, KillReports
<1>. QED  BY <1>1, <1>2, <1>3, <1>4, <1>5, <1>6, <1>7, <1>8, <1>9, <1>10, <1>11,
             <1>12, <1>13, <1>14 DEF Import, Works

LEMMA ReportInvStep ==
    ASSUME Inv, ReportInv, [Next]_vars
    PROVE  ReportInv'
<1>1. \A i \in Importer : Report(imp[i], DOMAIN products')
  BY TablesGrow, MoreKeys DEF ReportInv
<1>2. ASSUME NEW i \in Importer, Import(i)
      PROVE  ReportInv'
  <2>1. Report(imp'[i], DOMAIN products')
    BY <1>1, <1>2, ImportReports
  <2>2. \A p \in Importer : p # i => imp'[p] = imp[p]
    BY <1>2, ImportMoves DEF Moved, Inv
  <2>3. \A p \in Importer : Report(imp'[p], DOMAIN products')
    BY <1>1, <2>1, <2>2
  <2>. QED  BY <2>3 DEF ReportInv
<1>3. CASE imp' = imp
  <2>1. \A p \in Importer : Report(imp'[p], DOMAIN products')
    BY <1>1, <1>3
  <2>. QED  BY <2>1 DEF ReportInv
<1>. QED  BY <1>2, <1>3 DEF Next, Assign, vars

LEMMA ReportInvSays == Inv /\ ReportInv => CleanReportIsTrue
<1>. SUFFICES ASSUME Inv, ReportInv, NEW i \in Importer, NEW r, NEW rows,
                     r = imp[i], rows = RowsOf(r.found),
                     r.step = "done", r.stats.failed = 0,
                     r.stats.processed = Cardinality(r.found)
              PROVE  /\ \A x \in rows : Items[x[1]][x[2]].key \in DOMAIN products
                     /\ r.stats.inserted + r.stats.updated = Cardinality(rows)
                     /\ r.stats.total = Cardinality(rows)
  BY DEF CleanReportIsTrue, RowsOf
<1>1. Report(r, DOMAIN products) /\ r.todo = {} /\ ~ InRows(r)
  BY DEF ReportInv, Report, InRows
<1>2. Behind(r) = r.found /\ Past(r) = rows
  BY <1>1 DEF Behind, Past
<1>. QED  BY <1>1, <1>2 DEF Report, Clean

(* An import that reports every file processed and no row failed has left   *)
(* every row of every file it found in the table, and its counts add up to  *)
(* the rows, whatever other importers and the discovery did meanwhile: the  *)
(* positions of runImport, the counts of upsertBatch and the table agree.   *)
THEOREM SpecCleanReportIsTrue == Spec => []CleanReportIsTrue
<1>1. Init => ReportInv
  BY DEF Init, ReportInv, Report, NoRun
<1>2. Inv /\ ReportInv /\ [Next]_vars => ReportInv'
  BY ReportInvStep
<1>3. Spec => []ReportInv
  BY <1>1, <1>2, SpecInv, PTL DEF Spec
<1>. QED  BY <1>3, SpecInv, ReportInvSays, PTL
=============================================================================
