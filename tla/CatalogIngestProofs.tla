------------------------ MODULE CatalogIngestProofs ------------------------
(***************************************************************************)
(* The catalog, and the ingest statement by statement as an implementation  *)
(* of it, for any number of processes, retailers, files and policies.       *)
(***************************************************************************)
EXTENDS CatalogIngest, TLAPS

(* The definitions Catalog takes from CatalogFiles and Tables are the ones  *)
(* used here.                                                               *)
LEMMA SameFiles ==
    ASSUME NEW r, NEW c, NEW f, NEW rows, NEW table, NEW value
    PROVE  /\ Cat!Matched(r, c, f) = Matched(r, c, f)
           /\ Cat!Unique(r, c) = Unique(r, c)
           /\ Cat!Seen(c, rows) = Seen(c, rows)
           /\ Cat!Put(table, c, value) = Put(table, c, value)
           /\ Cat!InNamespace(r) = InNamespace(r)
BY DEF Cat!Matched, Matched, Cat!Unique, Unique, Cat!Observations, Observations,
       Cat!Seen, Seen, Cat!Put, Put, Cat!InNamespace, InNamespace

(* The rows a file brings.                                                  *)
LEMMA SeenRows ==
    ASSUME NEW r \in Retailer, NEW c \in Content, NEW f
    PROVE  /\ Seen(c, Matched(r, c, f)) \subseteq Identity
           /\ \A i \in Seen(c, Matched(r, c, f)) :
                 NsOf[i] = r /\ \E n \in Unique(r, c) : Rows[c][n] = i
           /\ f = Bulk => Matched(r, c, f) = Unique(r, c)
<1>1. \A n \in Unique(r, c) : Rows[c][n] \in Identity /\ NsOf[Rows[c][n]] = r
  BY CatalogFilesAssumption DEF Unique, Observations
<1>. QED  BY <1>1 DEF Seen, Matched, Bulk
-----------------------------------------------------------------------------
(* What an import of content c that saw these identities writes, in the     *)
(* terms the properties are about.                                          *)
Imported(r, c, seen, policy, time) ==
    /\ DOMAIN snapshots' = DOMAIN snapshots \cup {c}
    /\ \A d \in DOMAIN snapshots : snapshots'[d] = snapshots[d]
    /\ c \notin DOMAIN snapshots => snapshots'[c].ns = r /\ snapshots'[c].observed = time
    /\ DOMAIN products' = DOMAIN products \cup seen
    /\ \A i \in seen : products'[i].snap = c /\ products'[i].policy = policy
    /\ \A i \in DOMAIN products \ seen : products'[i] = products[i]
    /\ \A i \in DOMAIN products : products'[i].row = products[i].row

LEMMA ImportedEffect ==
    ASSUME Cat!TypeOK, NEW r \in Retailer, NEW c \in Content, NEW seen \in SUBSET Identity,
           NEW policy \in Policy, NEW time \in 1..MaxFiles,
           products' = Cat!Upserted(c, seen, policy), snapshots' = Cat!Registered(c, r, time)
    PROVE  Cat!TypeOK' /\ Imported(r, c, seen, policy, time)
<1>1. /\ DOMAIN products' = DOMAIN products \cup seen
      /\ products' \in [DOMAIN products' -> Cat!ProductRow]
      /\ \A i \in seen : products'[i].snap = c /\ products'[i].policy = policy
      /\ \A i \in DOMAIN products \ seen : products'[i] = products[i]
      /\ \A i \in DOMAIN products : products'[i].row = products[i].row
  BY DEF Cat!TypeOK, Cat!Upserted, Cat!ProductRow
<1>2. /\ DOMAIN snapshots' = DOMAIN snapshots \cup {c}
      /\ snapshots' \in [DOMAIN snapshots' -> Cat!Snapshot]
      /\ \A d \in DOMAIN snapshots : snapshots'[d] = snapshots[d]
      /\ c \notin DOMAIN snapshots => snapshots'[c].ns = r /\ snapshots'[c].observed = time
  BY DEF Cat!TypeOK, Cat!Registered, Cat!Put, Cat!Snapshot
<1>3. \A i \in DOMAIN products' : products'[i].snap \in DOMAIN snapshots'
  BY <1>1, <1>2 DEF Cat!TypeOK
<1>. QED  BY <1>1, <1>2, <1>3 DEF Cat!TypeOK, Imported

(* What an import keeps, however it was carried out.                        *)
LEMMA ImportedKeepsIds ==
    ASSUME NEW r, NEW c, NEW seen, NEW policy, NEW time, Imported(r, c, seen, policy, time)
    PROVE  Cat!KeepsIds
BY DEF Imported, Cat!KeepsIds

LEMMA ImportedKeepsPolicy ==
    ASSUME NEW r, NEW c, NEW seen, NEW policy, NEW time, Imported(r, c, seen, policy, time),
           Cat!OnePolicy, \A i \in seen : NsOf[i] = r,
           \A i \in InNamespace(r) : products[i].policy = policy
    PROVE  Cat!OnePolicy'
<1>1. \A i \in DOMAIN products' : NsOf[i] = r => products'[i].policy = policy
  BY DEF Imported, InNamespace
<1>2. \A i \in DOMAIN products' :
          NsOf[i] # r => i \in DOMAIN products /\ products'[i] = products[i]
  BY DEF Imported
<1>. QED  BY <1>1, <1>2 DEF Cat!OnePolicy

LEMMA ImportedKeepsFacts ==
    ASSUME NEW r, NEW c, NEW seen, NEW policy, NEW time, Imported(r, c, seen, policy, time),
           Cat!FactsWereObserved,
           \A i \in seen : NsOf[i] = r /\ \E n \in Unique(r, c) : Rows[c][n] = i
    PROVE  Cat!FactsWereObserved'
<1>1. ASSUME NEW i \in DOMAIN products'
      PROVE  /\ products'[i].snap \in DOMAIN snapshots'
             /\ \E n \in Cat!Unique(NsOf[i], products'[i].snap) : Rows[products'[i].snap][n] = i
  <2>1. CASE i \in seen
    <3>1. products'[i].snap = c /\ c \in DOMAIN snapshots'
      BY <2>1 DEF Imported
    <3>. QED  BY <2>1, <3>1, SameFiles
  <2>2. CASE i \notin seen
    <3>1. i \in DOMAIN products /\ products'[i].snap = products[i].snap
      BY <2>2 DEF Imported
    <3>2. /\ products[i].snap \in DOMAIN snapshots
          /\ \E n \in Cat!Unique(NsOf[i], products[i].snap) : Rows[products[i].snap][n] = i
      BY <3>1 DEF Cat!FactsWereObserved
    <3>. QED  BY <3>1, <3>2 DEF Imported
  <2>. QED  BY <2>1, <2>2
<1>. QED  BY <1>1 DEF Cat!FactsWereObserved

LEMMA ImportedKeepsBulk ==
    ASSUME NEW r, NEW c, NEW seen, NEW policy, NEW time, Imported(r, c, seen, policy, time),
           Cat!BulkIsWhole, Filter = {Bulk} => seen = Seen(c, Unique(r, c))
    PROVE  Cat!BulkIsWhole'
<1>. SUFFICES ASSUME Filter = {Bulk}, NEW d \in DOMAIN snapshots'
              PROVE  Seen(d, Unique(snapshots'[d].ns, d)) \subseteq DOMAIN products'
  BY DEF Cat!BulkIsWhole, Cat!Bulk, Bulk, Cat!Seen, Seen, Cat!Unique, Unique,
         Cat!Observations, Observations
<1>1. CASE d \in DOMAIN snapshots
  <2>1. Seen(d, Unique(snapshots[d].ns, d)) \subseteq DOMAIN products
    BY <1>1, SameFiles DEF Cat!BulkIsWhole, Cat!Bulk, Bulk
  <2>. QED  BY <1>1, <2>1 DEF Imported
<1>2. CASE d \notin DOMAIN snapshots
  <2>1. d = c /\ snapshots'[d].ns = r
    BY <1>2 DEF Imported
  <2>. QED  BY <2>1 DEF Imported
<1>. QED  BY <1>1, <1>2
-----------------------------------------------------------------------------
LEMMA ImportEffect ==
    ASSUME Cat!TypeOK, Cat!Next
    PROVE  /\ Cat!TypeOK'
           /\ \E r \in Retailer, c \in Content, f \in Filter, policy \in Policy,
                 time \in 1..MaxFiles :
                    /\ Imported(r, c, Seen(c, Matched(r, c, f)), policy, time)
                    /\ \A i \in InNamespace(r) : products[i].policy = policy
<1>1. PICK r \in Retailer, c \in Content, f \in Filter, policy \in Policy, time \in 1..MaxFiles :
          Cat!Import(r, c, f, policy, time)
  BY DEF Cat!Next
<1>2. PICK seen : seen = Seen(c, Matched(r, c, f))
  OBVIOUS
<1>3. /\ seen \in SUBSET Identity
      /\ products' = Cat!Upserted(c, seen, policy) /\ snapshots' = Cat!Registered(c, r, time)
      /\ \A i \in InNamespace(r) : products[i].policy = policy
  BY <1>1, <1>2, SeenRows, SameFiles DEF Cat!Import
<1>4. Cat!TypeOK' /\ Imported(r, c, seen, policy, time)
  BY <1>3, ImportedEffect
<1>. QED  BY <1>2, <1>3, <1>4

(* The tables keep their types, and every product refers to a snapshot that *)
(* is there.                                                                *)
THEOREM CatalogTyped == Cat!Spec => []Cat!TypeOK
<1>1. Cat!Init => Cat!TypeOK
  BY DEF Cat!Init, Cat!TypeOK
<1>2. Cat!TypeOK /\ [Cat!Next]_(Cat!vars) => Cat!TypeOK'
  BY ImportEffect DEF Cat!vars, Cat!TypeOK
<1>. QED  BY <1>1, <1>2, PTL DEF Cat!Spec

(* Product ids and snapshot rows are for ever.                              *)
THEOREM CatalogIdsAreStable == Cat!Spec => Cat!IdsAreStable
<1>1. Cat!TypeOK /\ [Cat!Next]_(Cat!vars) => [Cat!KeepsIds]_(Cat!vars)
  BY ImportEffect, ImportedKeepsIds
<1>. QED  BY <1>1, CatalogTyped, PTL DEF Cat!Spec, Cat!IdsAreStable

(* One identity policy per namespace.                                       *)
THEOREM CatalogOnePolicy == Cat!Spec => []Cat!OnePolicy
<1>1. Cat!Init => Cat!OnePolicy
  BY DEF Cat!Init, Cat!OnePolicy
<1>2. ASSUME Cat!TypeOK, Cat!OnePolicy, Cat!Next  PROVE Cat!OnePolicy'
  BY <1>2, ImportEffect, ImportedKeepsPolicy, SeenRows
<1>3. Cat!TypeOK /\ Cat!OnePolicy /\ [Cat!Next]_(Cat!vars) => Cat!OnePolicy'
  BY <1>2 DEF Cat!vars, Cat!OnePolicy
<1>. QED  BY <1>1, <1>3, CatalogTyped, PTL DEF Cat!Spec

(* A product's facts come from a registered file with one row for it.       *)
THEOREM CatalogFactsWereObserved == Cat!Spec => []Cat!FactsWereObserved
<1>1. Cat!Init => Cat!FactsWereObserved
  BY DEF Cat!Init, Cat!FactsWereObserved
<1>2. ASSUME Cat!TypeOK, Cat!FactsWereObserved, Cat!Next  PROVE Cat!FactsWereObserved'
  BY <1>2, ImportEffect, ImportedKeepsFacts, SeenRows
<1>3. Cat!TypeOK /\ Cat!FactsWereObserved /\ [Cat!Next]_(Cat!vars) => Cat!FactsWereObserved'
  BY <1>2 DEF Cat!vars, Cat!FactsWereObserved
<1>. QED  BY <1>1, <1>3, CatalogTyped, PTL DEF Cat!Spec

(* A file imported in bulk is imported whole.                               *)
THEOREM CatalogBulkIsWhole == Cat!Spec => []Cat!BulkIsWhole
<1>1. Cat!Init => Cat!BulkIsWhole
  BY DEF Cat!Init, Cat!BulkIsWhole
<1>2. ASSUME Cat!TypeOK, Cat!BulkIsWhole, Cat!Next  PROVE Cat!BulkIsWhole'
  <2>1. PICK r \in Retailer, c \in Content, f \in Filter,
             policy \in Policy, time \in 1..MaxFiles :
            Imported(r, c, Seen(c, Matched(r, c, f)), policy, time)
    BY <1>2, ImportEffect
  <2>2. Filter = {Bulk} => Seen(c, Matched(r, c, f)) = Seen(c, Unique(r, c))
    BY SeenRows
  <2>3. PICK seen : seen = Seen(c, Matched(r, c, f))
    OBVIOUS
  <2>. QED  BY <1>2, <2>1, <2>2, <2>3, ImportedKeepsBulk
<1>3. Cat!TypeOK /\ Cat!BulkIsWhole /\ [Cat!Next]_(Cat!vars) => Cat!BulkIsWhole'
  BY <1>2 DEF Cat!vars, Cat!BulkIsWhole
<1>. QED  BY <1>1, <1>3, CatalogTyped, PTL DEF Cat!Spec
-----------------------------------------------------------------------------
Importing(s) == run[s].step \in {"get_policy", "get_snapshot", "insert", "upsert"}

(* What a run knows: the file it picked parses, and once its transaction    *)
(* has begun to write, whether the content was registered before it.        *)
Knows(s) ==
    /\ Importing(s) =>
          /\ run[s].todo # <<>>
          /\ run[s].content \in Content \ Malformed
          /\ run[s].time \in 1..MaxFiles
    /\ run[s].step = "insert" => run[s].isNew /\ run[s].left = ToUpsert(s)
    /\ run[s].step = "upsert" =>
          /\ run[s].left \subseteq ToUpsert(s)
          /\ run[s].isNew <=> run[s].content \notin DOMAIN snapshots

(* No two transactions have written the same product, or registered the     *)
(* same content, at once: what they wrote can be seen as written at the     *)
(* commit.                                                                  *)
RowsAreHeld ==
    \A s, t \in Session :
        s # t /\ run[s].step = "upsert" /\ run[t].step = "upsert" =>
            /\ Written(s) \cap Written(t) = {}
            /\ run[s].isNew /\ run[t].isNew => run[s].content # run[t].content

Inv == TypeOK /\ RowsAreHeld /\ \A s \in Session : Knows(s)

LEMMA InitInv == Init => Inv
BY CatalogIngestAssumption
   DEF Init, Inv, TypeOK, Cat!TypeOK, RowsAreHeld, Knows, Importing, NoRun

(* A step of one run that leaves the tables alone.                          *)
Quiet(s) ==
    /\ UNCHANGED <<files, tables>>
    /\ \A t \in Session \ {s} : run'[t] = run[t]

(* What such a step leaves of the invariant to show: the run's own part.    *)
Own(s) ==
    /\ run' \in [Session -> Run \cup {NoRun}]
    /\ Knows(s)'
    /\ \A t \in Session \ {s} :
          run'[s].step = "upsert" /\ run[t].step = "upsert" =>
              /\ Written(s)' \cap Written(t) = {}
              /\ run'[s].isNew /\ run[t].isNew => run'[s].content # run[t].content

(* The steps of a run, by what they change of it.                           *)
Same(s) ==
    /\ run'[s].wanted = run[s].wanted /\ run'[s].filter = run[s].filter
    /\ run'[s].policy = run[s].policy

Stops(s) == Quiet(s) /\ run'[s] = NoRun

Starts(s) ==
    /\ Quiet(s) /\ run'[s].step = "next"
    /\ Overlap \/ \A t \in Session : run[t] = NoRun
    /\ run'[s].todo = Order /\ run'[s].results = {}

Skips(s) ==
    /\ Quiet(s) /\ Same(s) /\ run[s].step = "next" /\ run'[s].step = "next"
    /\ run[s].todo # <<>> /\ Retail(s) \notin run[s].wanted \cap DOMAIN files
    /\ run'[s].todo = Tail(run[s].todo) /\ run'[s].results = run[s].results

Picks(s) ==
    /\ Quiet(s) /\ Same(s) /\ run[s].step = "next" /\ run'[s].step = "get_policy"
    /\ run[s].todo # <<>> /\ Retail(s) \in run[s].wanted \cap DOMAIN files
    /\ run'[s].todo = run[s].todo /\ run'[s].results = run[s].results
    /\ run'[s].time = Len(files[Retail(s)])
    /\ run'[s].content = files[Retail(s)][Len(files[Retail(s)])]

GoesOn(s) ==
    /\ Quiet(s) /\ Same(s) /\ Importing(s) /\ Importing(s)'
    /\ run'[s].step # "get_policy"
    /\ run'[s].todo = run[s].todo /\ run'[s].results = run[s].results
    /\ run'[s].content = run[s].content /\ run'[s].time = run[s].time
    /\ run[s].step = "get_policy" =>
          \/ InNamespace(Retail(s)) = {}
          \/ \E i \in InNamespace(Retail(s)) : products[i].policy = run[s].policy

Commits(s) ==
    /\ Commit(s) /\ files' = files /\ \A t \in Session \ {s} : run'[t] = run[t]
    /\ Same(s) /\ run[s].step = "upsert" /\ run'[s].step = "next"
    /\ run'[s].todo = Tail(run[s].todo)
    /\ run'[s].results = run[s].results \cup {<<Retail(s), run[s].content>>}
    /\ Written(s) = Seen(run[s].content, ToUpsert(s))
    /\ Imported(Retail(s), run[s].content, Written(s), run[s].policy, run[s].time)

(* The data directory, which only grows.                                    *)
Grows ==
    /\ UNCHANGED <<tables, run>>
    /\ DOMAIN files \subseteq DOMAIN files'
    /\ \A r \in DOMAIN files :
          Len(files[r]) <= Len(files'[r]) /\ \A n \in DOMAIN files[r] : files'[r][n] = files[r][n]
    /\ \/ \E r \in Retailer :
             /\ DOMAIN files' = DOMAIN files \cup {r} /\ r \notin DOMAIN files
             /\ files'[r] = <<>> /\ \A q \in DOMAIN files : files'[q] = files[q]
       \/ \E r \in DOMAIN files, c \in Content :
             /\ AnyFile \/ Genuine(r, c)
             /\ files' = [files EXCEPT ![r] = Append(@, c)]

LEMMA QuietInv ==
    ASSUME Inv, NEW s \in Session, Quiet(s), Own(s)
    PROVE  Inv'
<1>1. /\ files' = files /\ snapshots' = snapshots /\ products' = products
      /\ \A t \in Session \ {s} : run'[t] = run[t]
  BY DEF Quiet, tables
<1>2. TypeOK'
  BY <1>1 DEF Inv, TypeOK, Cat!TypeOK, Own
<1>3. ASSUME NEW t \in Session \ {s}
      PROVE  Written(t)' = Written(t) /\ Knows(t)'
  <2>1. run'[t] = run[t]
    BY <1>1
  <2>2. ToUpsert(t)' = ToUpsert(t)
    BY <2>1 DEF ToUpsert, Retail
  <2>3. Written(t)' = Written(t)
    BY <2>1, <2>2 DEF Written
  <2>4. Knows(t)'
    BY <1>1, <2>1, <2>2 DEF Inv, Knows, Importing
  <2>. QED  BY <2>3, <2>4
<1>4. RowsAreHeld'
  BY <1>1, <1>3 DEF Inv, RowsAreHeld, Own
<1>. QED  BY <1>2, <1>3, <1>4 DEF Inv, Own
-----------------------------------------------------------------------------
LEMMA RunTyped ==
    ASSUME Inv, NEW s \in Session, run[s].step # "idle"
    PROVE  run[s] \in Run /\ Knows(s)
BY DEF Inv, TypeOK, NoRun

LEMMA RaiseStep ==
    ASSUME Inv, NEW s \in Session, Raise(s)
    PROVE  Inv' /\ Stops(s)
<1>1. Quiet(s) /\ run'[s] = NoRun /\ run' \in [Session -> Run \cup {NoRun}]
  BY DEF Raise, Quiet, Inv, TypeOK
<1>2. Own(s)
  BY <1>1 DEF Own, Knows, Importing, NoRun
<1>. QED  BY <1>1, <1>2, QuietInv DEF Stops

LEMMA BeginStep ==
    ASSUME Inv, NEW s \in Session, NEW wanted \in Wanted, NEW policy \in Policy,
           NEW f \in Filter, Begin(s, wanted, policy, f)
    PROVE  Inv' /\ Starts(s)
<1>. DEFINE new == [step |-> "next", wanted |-> wanted, todo |-> Order,
                    policy |-> policy, filter |-> f, content |-> Untrusted,
                    time |-> 0, isNew |-> FALSE, left |-> {}, results |-> {}]
<1>1. new \in Run
  BY CatalogIngestAssumption DEF Run
<1>2. /\ run' = [run EXCEPT ![s] = new] /\ UNCHANGED <<files, tables>>
      /\ new.step = "next" /\ new.todo = Order /\ new.results = {}
      /\ Overlap \/ \A t \in Session : run[t] = NoRun
  BY DEF Begin
<1>. HIDE DEF new
<1>3. Quiet(s) /\ run'[s] = new /\ run' \in [Session -> Run \cup {NoRun}]
  BY <1>1, <1>2 DEF Quiet, Inv, TypeOK
<1>4. Own(s)
  BY <1>2, <1>3 DEF Own, Knows, Importing
<1>. QED  BY <1>2, <1>3, <1>4, QuietInv DEF Starts

(* A step into a record new of the run s that has not begun to write.       *)
LEMMA ReadStep ==
    ASSUME Inv, NEW s \in Session, NEW new \in Run,
           run' = [run EXCEPT ![s] = new], UNCHANGED <<files, tables>>,
           Knows(s)', new.step # "upsert"
    PROVE  Inv' /\ Quiet(s)
<1>1. Quiet(s) /\ run'[s] = new /\ run' \in [Session -> Run \cup {NoRun}]
  BY DEF Quiet, Inv, TypeOK
<1>2. Own(s)
  BY <1>1 DEF Own
<1>. QED  BY <1>1, <1>2, QuietInv

LEMMA SkipStep ==
    ASSUME Inv, NEW s \in Session, Skip(s)
    PROVE  Inv' /\ Skips(s)
<1>1. /\ run[s] \in Run /\ run[s].step = "next" /\ run[s].todo # <<>>
      /\ Retail(s) \notin run[s].wanted \cap DOMAIN files
  BY RunTyped DEF Skip
<1>. DEFINE new == [run[s] EXCEPT !.todo = Tail(@)]
<1>2. run' = [run EXCEPT ![s] = new] /\ UNCHANGED <<files, tables>>
  BY <1>1 DEF Skip, Inv, TypeOK
<1>3. /\ new \in Run /\ new.step = "next" /\ new.todo = Tail(run[s].todo)
      /\ new.wanted = run[s].wanted /\ new.filter = run[s].filter
      /\ new.policy = run[s].policy /\ new.results = run[s].results
  <2>. DEFINE rest == Tail(run[s].todo)
  <2>1. rest \in Seq(Retailer) /\ new = [run[s] EXCEPT !.todo = rest]
    BY <1>1 DEF Run
  <2>2. PICK old : old = run[s]
    OBVIOUS
  <2>. HIDE DEF rest, new
  <2>3. old \in Run /\ old.step = "next" /\ new = [old EXCEPT !.todo = rest]
    BY <1>1, <2>1, <2>2
  <2>4. /\ new \in Run /\ new.step = "next" /\ new.todo = rest
        /\ new.wanted = old.wanted /\ new.filter = old.filter
        /\ new.policy = old.policy /\ new.results = old.results
    BY ONLY <2>1, <2>3 DEF Run
  <2>. QED  BY <2>2, <2>4 DEF rest
<1>. HIDE DEF new
<1>4. run'[s] = new
  BY <1>2 DEF Inv, TypeOK
<1>5. Inv' /\ Quiet(s)
  BY <1>2, <1>3, <1>4, ReadStep DEF Knows, Importing
<1>. QED  BY <1>1, <1>3, <1>4, <1>5 DEF Skips, Same

LEMMA PickStep ==
    ASSUME Inv, NEW s \in Session, PickLatest(s)
    PROVE  Inv' /\ (Stops(s) \/ Picks(s))
<1>1. CASE Raise(s)
  BY <1>1, RaiseStep
<1>2. CASE ~ Raise(s)
  <2>1. /\ run[s] \in Run /\ run[s].step = "next" /\ run[s].todo # <<>>
        /\ Retail(s) \in run[s].wanted \cap DOMAIN files
    BY RunTyped DEF PickLatest
  <2>. DEFINE scrapes == files[Retail(s)]
              n == Len(scrapes)
              c == scrapes[n]
              new == [run[s] EXCEPT !.step = "get_policy", !.content = c, !.time = n]
  <2>2. /\ run' = [run EXCEPT ![s] = new] /\ UNCHANGED <<files, tables>>
        /\ n > 0 /\ c \notin Malformed /\ Retail(s) \in DOMAIN files
    BY <1>2, <2>1 DEF PickLatest, Inv, TypeOK
  <2>3. n \in 1..MaxFiles /\ c \in Content
    BY <2>2, CatalogIngestAssumption DEF Inv, TypeOK
  <2>. HIDE DEF c, n
  <2>4. /\ new \in Run /\ new.step = "get_policy" /\ new.todo = run[s].todo
        /\ new.content \in Content \ Malformed /\ new.time \in 1..MaxFiles
    <3>1. n \in 0..MaxFiles /\ c \in Content \cup {Untrusted} /\ c \in Content \ Malformed
      BY <2>2, <2>3, CatalogIngestAssumption
    <3>2. new \in Run
      BY <2>1, <3>1 DEF Run
    <3>. QED  BY <2>1, <2>3, <3>1, <3>2 DEF Run
  <2>5. /\ new.wanted = run[s].wanted /\ new.filter = run[s].filter
        /\ new.policy = run[s].policy /\ new.results = run[s].results
        /\ new.content = c /\ new.time = n
    BY <2>1 DEF Run
  <2>. HIDE DEF new
  <2>6. run'[s] = new
    BY <2>2 DEF Inv, TypeOK
  <2>7. Knows(s)'
    BY <2>1, <2>4, <2>6 DEF Knows
  <2>8. Inv' /\ Quiet(s)
    BY <2>2, <2>4, <2>7, ReadStep
  <2>. QED  BY <2>1, <2>4, <2>5, <2>6, <2>8 DEF Picks, Same, c, n
<1>. QED  BY <1>1, <1>2

LEMMA PolicyStep ==
    ASSUME Inv, NEW s \in Session, GetPolicy(s)
    PROVE  Inv' /\ (Stops(s) \/ GoesOn(s))
<1>1. CASE Raise(s)
  BY <1>1, RaiseStep
<1>2. ASSUME Goto(s, "get_snapshot"),
             \/ InNamespace(Retail(s)) = {}
             \/ \E i \in InNamespace(Retail(s)) : products[i].policy = run[s].policy
      PROVE  Inv' /\ GoesOn(s)
  <2>1. run[s] \in Run /\ run[s].step = "get_policy" /\ Knows(s)
    BY RunTyped DEF GetPolicy
  <2>. DEFINE new == [run[s] EXCEPT !.step = "get_snapshot"]
  <2>2. run' = [run EXCEPT ![s] = new] /\ UNCHANGED <<files, tables>>
    BY <1>2, <2>1 DEF Goto, Inv, TypeOK
  <2>3. /\ new \in Run /\ new.step = "get_snapshot" /\ new.todo = run[s].todo
        /\ new.content = run[s].content /\ new.time = run[s].time
    BY <2>1 DEF Run
  <2>4. /\ new.wanted = run[s].wanted /\ new.filter = run[s].filter
        /\ new.policy = run[s].policy /\ new.results = run[s].results
    BY <2>1 DEF Run
  <2>. HIDE DEF new
  <2>5. run'[s] = new
    BY <2>2 DEF Inv, TypeOK
  <2>6. Knows(s)'
    BY <2>1, <2>3, <2>5 DEF Knows, Importing
  <2>7. Inv' /\ Quiet(s)
    BY <2>2, <2>3, <2>6, ReadStep
  <2>. QED  BY <1>2, <2>1, <2>3, <2>4, <2>5, <2>7 DEF GoesOn, Same, Importing
<1>. QED  BY <1>1, <1>2 DEF GetPolicy, Check

LEMMA ToUpsertRows ==
    ASSUME Inv, NEW s \in Session, Importing(s)
    PROVE  ToUpsert(s) \subseteq Nat
<1>1. run[s].content \in Content
  BY RunTyped DEF Importing, Knows
<1>. QED  BY <1>1, CatalogFilesAssumption
          DEF ToUpsert, Matched, Unique, Observations

LEMMA SnapshotStep ==
    ASSUME Inv, NEW s \in Session, GetSnapshot(s)
    PROVE  Inv' /\ GoesOn(s)
<1>1. run[s] \in Run /\ run[s].step = "get_snapshot" /\ Knows(s) /\ Importing(s)
  BY RunTyped DEF GetSnapshot, Importing
<1>. DEFINE isNew == run[s].content \notin DOMAIN snapshots
            step == IF isNew THEN "insert" ELSE "upsert"
            new == [run[s] EXCEPT !.step = step, !.isNew = isNew, !.left = ToUpsert(s)]
<1>2. run' = [run EXCEPT ![s] = new] /\ UNCHANGED <<files, tables>>
  BY <1>1 DEF GetSnapshot, Inv, TypeOK
<1>3. /\ new \in Run /\ new.step = step /\ new.todo = run[s].todo
      /\ new.content = run[s].content /\ new.time = run[s].time
      /\ new.filter = run[s].filter /\ new.left = ToUpsert(s) /\ new.isNew = isNew
      /\ new.wanted = run[s].wanted /\ new.policy = run[s].policy
      /\ new.results = run[s].results
  BY <1>1, ToUpsertRows DEF Run
<1>. HIDE DEF new
<1>4. run'[s] = new /\ Quiet(s) /\ run' \in [Session -> Run \cup {NoRun}]
  BY <1>2, <1>3 DEF Inv, TypeOK, Quiet
<1>5. ToUpsert(s)' = ToUpsert(s)
  BY <1>3, <1>4 DEF ToUpsert, Retail
<1>6. Knows(s)'
  BY <1>1, <1>2, <1>3, <1>4, <1>5 DEF Knows, Importing, tables
<1>7. Written(s)' = {}
  BY <1>3, <1>4, <1>5 DEF Written, Seen
<1>8. new.step = "upsert" => ~ new.isNew
  BY <1>3
<1>9. Own(s)
  BY <1>4, <1>6, <1>7, <1>8 DEF Own
<1>10. Inv'
  BY <1>4, <1>9, QuietInv
<1>. QED  BY <1>1, <1>3, <1>4, <1>10 DEF GoesOn, Same, Importing, GetSnapshot

LEMMA InsertStep ==
    ASSUME Inv, NEW s \in Session, InsertSnapshot(s)
    PROVE  Inv' /\ (Stops(s) \/ GoesOn(s))
<1>1. CASE Raise(s)
  BY <1>1, RaiseStep
<1>2. CASE Goto(s, "upsert") /\ run[s].content \notin DOMAIN snapshots
  <2>1. run[s] \in Run /\ run[s].step = "insert" /\ Knows(s) /\ Importing(s) /\ Free(s)
    BY RunTyped DEF InsertSnapshot, Importing
  <2>. DEFINE new == [run[s] EXCEPT !.step = "upsert"]
  <2>2. run' = [run EXCEPT ![s] = new] /\ UNCHANGED <<files, tables>>
    BY <1>2, <2>1 DEF Goto, Inv, TypeOK
  <2>3. /\ new \in Run /\ new.step = "upsert" /\ new.todo = run[s].todo
        /\ new.content = run[s].content /\ new.time = run[s].time
        /\ new.filter = run[s].filter /\ new.left = run[s].left /\ new.isNew = run[s].isNew
        /\ new.wanted = run[s].wanted /\ new.policy = run[s].policy
        /\ new.results = run[s].results
    BY <2>1 DEF Run
  <2>. HIDE DEF new
  <2>4. run'[s] = new /\ Quiet(s) /\ run' \in [Session -> Run \cup {NoRun}]
    BY <2>2, <2>3 DEF Inv, TypeOK, Quiet
  <2>5. ToUpsert(s)' = ToUpsert(s)
    BY <2>3, <2>4 DEF ToUpsert, Retail
  <2>6. Knows(s)'
    BY <1>2, <2>1, <2>2, <2>3, <2>4, <2>5 DEF Knows, Importing, tables
  <2>7. Written(s)' = {}
    BY <2>1, <2>3, <2>4, <2>5 DEF Written, Seen, Knows
  <2>8. \A t \in Session \ {s} :
            run[t].step = "upsert" /\ run[t].isNew => run[s].content # run[t].content
    BY <2>1 DEF Free, Waits
  <2>9. Own(s)
    BY <2>3, <2>4, <2>6, <2>7, <2>8 DEF Own
  <2>10. Inv'
    BY <2>4, <2>9, QuietInv
  <2>. QED  BY <2>1, <2>3, <2>4, <2>10 DEF GoesOn, Same, Importing
<1>. QED  BY <1>1, <1>2 DEF InsertSnapshot, Check

LEMMA UpsertStep ==
    ASSUME Inv, NEW s \in Session, UpsertObservation(s)
    PROVE  Inv' /\ GoesOn(s)
<1>1. run[s] \in Run /\ run[s].step = "upsert" /\ Knows(s) /\ Importing(s) /\ Free(s)
      /\ run[s].left # {}
  BY RunTyped DEF UpsertObservation, Importing
<1>. DEFINE first == FirstLeft(s)
            new == [run[s] EXCEPT !.left = @ \ {first}]
<1>2. run' = [run EXCEPT ![s] = new] /\ UNCHANGED <<files, tables>>
  BY <1>1 DEF UpsertObservation, Inv, TypeOK
<1>3. /\ new \in Run /\ new.step = "upsert" /\ new.todo = run[s].todo
      /\ new.content = run[s].content /\ new.time = run[s].time
      /\ new.filter = run[s].filter /\ new.left = run[s].left \ {first}
      /\ new.isNew = run[s].isNew
      /\ new.wanted = run[s].wanted /\ new.policy = run[s].policy
      /\ new.results = run[s].results
  BY <1>1 DEF Run
<1>. HIDE DEF new
<1>4. run'[s] = new /\ Quiet(s) /\ run' \in [Session -> Run \cup {NoRun}]
  BY <1>2, <1>3 DEF Inv, TypeOK, Quiet
<1>5. ToUpsert(s)' = ToUpsert(s)
  BY <1>3, <1>4 DEF ToUpsert, Retail
<1>6. Knows(s)'
  BY <1>1, <1>2, <1>3, <1>4, <1>5 DEF Knows, Importing, tables
<1>7. Written(s)' \subseteq Written(s) \cup {Rows[run[s].content][first]}
  <2>1. /\ Written(s)' = Seen(run[s].content, ToUpsert(s) \ (run[s].left \ {first}))
        /\ Written(s) = Seen(run[s].content, ToUpsert(s) \ run[s].left)
    BY <1>1, <1>3, <1>4, <1>5 DEF Written, Seen
  <2>. HIDE DEF first
  <2>. QED  BY <2>1 DEF Seen
<1>8. \A t \in Session \ {s} :
          run[t].step = "upsert" =>
              /\ Rows[run[s].content][first] \notin Written(t)
              /\ Written(s) \cap Written(t) = {}
              /\ run[s].isNew /\ run[t].isNew => run[s].content # run[t].content
  BY <1>1 DEF Free, Waits, Inv, RowsAreHeld
<1>9. Own(s)
  BY <1>3, <1>4, <1>6, <1>7, <1>8 DEF Own
<1>10. Inv'
  BY <1>4, <1>9, QuietInv
<1>. QED  BY <1>1, <1>3, <1>4, <1>10 DEF GoesOn, Same, Importing
-----------------------------------------------------------------------------
(* What a commit writes, and what the others still know afterwards.         *)
LEMMA CommitTables ==
    ASSUME Inv, NEW s \in Session, Commit(s)
    PROVE  /\ run[s] \in Run /\ Knows(s) /\ Importing(s)
           /\ Retail(s) \in Retailer
           /\ Written(s) = Seen(run[s].content, ToUpsert(s))
           /\ Written(s) \subseteq Identity
           /\ products' = Cat!Upserted(run[s].content, Written(s), run[s].policy)
           /\ DOMAIN snapshots' = DOMAIN snapshots \cup {run[s].content}
           /\ snapshots' = Cat!Registered(run[s].content, Retail(s), run[s].time)
<1>1. run[s] \in Run /\ run[s].step = "upsert" /\ Knows(s) /\ Importing(s) /\ run[s].left = {}
  BY RunTyped DEF Commit, Importing
<1>2. run[s].content \in Content /\ run[s].todo \in Seq(Retailer) /\ run[s].todo # <<>>
  BY <1>1 DEF Knows, Run
<1>3. Retail(s) \in Retailer
  BY <1>2 DEF Retail
<1>4. Written(s) = Seen(run[s].content, ToUpsert(s))
  BY <1>1 DEF Written, Seen
<1>5. Written(s) \subseteq Identity
  <2>1. ToUpsert(s) \subseteq Observations(Retail(s), run[s].content)
    BY DEF ToUpsert, Matched, Unique
  <2>2. \A n \in Observations(Retail(s), run[s].content) : Rows[run[s].content][n] \in Identity
    BY <1>2, CatalogFilesAssumption DEF Observations
  <2>. QED  BY <1>4, <2>1, <2>2 DEF Seen
<1>6. products' = Cat!Upserted(run[s].content, Written(s), run[s].policy)
  BY DEF Commit
<1>7. run[s].isNew <=> run[s].content \notin DOMAIN snapshots
  BY <1>1 DEF Knows
<1>8. snapshots' = Cat!Registered(run[s].content, Retail(s), run[s].time)
  BY <1>7, SameFiles DEF Commit, Cat!Registered
<1>9. DOMAIN snapshots' = DOMAIN snapshots \cup {run[s].content}
  BY <1>7 DEF Commit, Put
<1>. QED  BY <1>1, <1>3, <1>4, <1>5, <1>6, <1>8, <1>9

LEMMA CommitImports ==
    ASSUME Inv, NEW s \in Session, Commit(s)
    PROVE  /\ Cat!TypeOK'
           /\ Imported(Retail(s), run[s].content, Written(s), run[s].policy, run[s].time)
<1>1. PICK r, c, seen, policy, time :
          /\ r = Retail(s) /\ c = run[s].content /\ seen = Written(s)
          /\ policy = run[s].policy /\ time = run[s].time
  OBVIOUS
<1>2. /\ c \in Content /\ policy \in Policy /\ time \in 1..MaxFiles
      /\ r \in Retailer /\ seen \in SUBSET Identity
  BY <1>1, CommitTables DEF Run, Knows
<1>3. products' = Cat!Upserted(c, seen, policy) /\ snapshots' = Cat!Registered(c, r, time)
  BY <1>1, CommitTables
<1>4. Cat!TypeOK
  BY DEF Inv, TypeOK
<1>5. Cat!TypeOK' /\ Imported(r, c, seen, policy, time)
  BY <1>2, <1>3, <1>4, ImportedEffect
<1>. QED  BY <1>1, <1>5

LEMMA CommitStep ==
    ASSUME Inv, NEW s \in Session, Commit(s)
    PROVE  Inv' /\ Commits(s)
<1>. DEFINE rest == Tail(run[s].todo)
            results == run[s].results \cup {<<Retail(s), run[s].content>>}
            new == [run[s] EXCEPT !.step = "next", !.todo = rest, !.results = results]
<1>1. /\ run[s] \in Run /\ Knows(s) /\ Importing(s) /\ Retail(s) \in Retailer
      /\ run[s].step = "upsert" /\ run[s].todo \in Seq(Retailer) /\ run[s].todo # <<>>
  BY CommitTables DEF Commit, Run, Knows
<1>2. run' = [run EXCEPT ![s] = new] /\ files' = files
  BY <1>1 DEF Commit, Inv, TypeOK
<1>3. rest \in Seq(Retailer) /\ results \subseteq Retailer \X Content
  BY <1>1 DEF Run, Knows
<1>. HIDE DEF rest, results
<1>4. /\ new \in Run /\ new.step = "next" /\ new.todo = rest /\ new.results = results
      /\ new.wanted = run[s].wanted /\ new.filter = run[s].filter
      /\ new.policy = run[s].policy
  BY <1>1, <1>3 DEF Run
<1>. HIDE DEF new
<1>5. /\ run' \in [Session -> Run \cup {NoRun}] /\ run'[s] = new /\ run'[s].step = "next"
      /\ \A t \in Session \ {s} : run'[t] = run[t]
  BY <1>2, <1>4 DEF Inv, TypeOK
<1>6. TypeOK'
  BY <1>2, <1>5, CommitImports DEF Inv, TypeOK
<1>7. ASSUME NEW t \in Session \ {s}  PROVE Knows(t)' /\ Written(t)' = Written(t)
  <2>1. run'[t] = run[t] /\ Knows(t)
    BY <1>5 DEF Inv
  <2>2. ToUpsert(t)' = ToUpsert(t)
    BY <2>1 DEF ToUpsert, Retail
  <2>3. run[t].step = "upsert" =>
            (run[t].isNew <=> run[t].content \notin DOMAIN snapshots')
    <3>1. DOMAIN snapshots' = DOMAIN snapshots \cup {run[s].content}
      BY CommitTables
    <3>2. run[t].step = "upsert" => (run[t].isNew <=> run[t].content \notin DOMAIN snapshots)
      BY <2>1 DEF Knows
    <3>3. run[s].isNew <=> run[s].content \notin DOMAIN snapshots
      BY <1>1 DEF Knows
    <3>4. run[t].step = "upsert" /\ run[s].isNew /\ run[t].isNew =>
              run[s].content # run[t].content
      BY <1>1 DEF Inv, RowsAreHeld
    <3>. QED  BY <3>1, <3>2, <3>3, <3>4
  <2>. QED  BY <2>1, <2>2, <2>3 DEF Knows, Importing, Written
<1>8. RowsAreHeld'
  BY <1>5, <1>7 DEF Inv, RowsAreHeld
<1>9. Knows(s)'
  BY <1>5 DEF Knows, Importing
<1>10. Commits(s)
  BY <1>1, <1>2, <1>4, <1>5, CommitTables, CommitImports DEF Commits, Same, rest, results
<1>. QED  BY <1>6, <1>7, <1>8, <1>9, <1>10 DEF Inv

LEMMA FolderStep ==
    ASSUME Inv, NEW r \in Retailer, MakeFolder(r) \/ \E c \in Content : Publish(r, c)
    PROVE  Inv' /\ Grows
<1>1. UNCHANGED <<snapshots, products, run>>
  BY DEF MakeFolder, Publish, tables
<1>2. /\ DOMAIN files' \subseteq Retailer
      /\ \A q \in DOMAIN files' : files'[q] \in Seq(Content) /\ Len(files'[q]) <= MaxFiles
      /\ Grows
  <2>1. CASE MakeFolder(r)
    BY <1>1, <2>1, CatalogIngestAssumption DEF MakeFolder, Put, Inv, TypeOK, Grows, tables
  <2>2. ASSUME NEW c \in Content, Publish(r, c)
        PROVE  /\ DOMAIN files' \subseteq Retailer
               /\ \A q \in DOMAIN files' :
                     files'[q] \in Seq(Content) /\ Len(files'[q]) <= MaxFiles
               /\ Grows
    <3>1. /\ DOMAIN files' \subseteq Retailer
          /\ \A q \in DOMAIN files' :
                files'[q] \in Seq(Content) /\ Len(files'[q]) <= MaxFiles
      BY <2>2, CatalogIngestAssumption DEF Publish, Inv, TypeOK
    <3>2. /\ DOMAIN files' = DOMAIN files /\ files[r] \in Seq(Content)
          /\ files'[r] = Append(files[r], c) /\ \A q \in DOMAIN files \ {r} : files'[q] = files[q]
      BY <2>2 DEF Publish, Inv, TypeOK
    <3>3. \A n \in DOMAIN files[r] : files'[r][n] = files[r][n]
      BY <3>2
    <3>4. Len(files[r]) <= Len(files'[r])
      BY <3>2
    <3>5. \A q \in DOMAIN files :
              /\ Len(files[q]) <= Len(files'[q])
              /\ \A n \in DOMAIN files[q] : files'[q][n] = files[q][n]
      BY <3>2, <3>3, <3>4 DEF Inv, TypeOK
    <3>6. \E q \in DOMAIN files, d \in Content :
              (AnyFile \/ Genuine(q, d)) /\ files' = [files EXCEPT ![q] = Append(@, d)]
      BY <2>2 DEF Publish
    <3>. QED  BY <1>1, <3>1, <3>2, <3>5, <3>6 DEF Grows, tables
  <2>. QED  BY <2>1, <2>2
<1>3. TypeOK'
  BY <1>1, <1>2 DEF Inv, TypeOK, Cat!TypeOK
<1>4. RowsAreHeld' /\ \A s \in Session : Knows(s)'
  BY <1>1 DEF Inv, RowsAreHeld, Written, ToUpsert, Retail, Knows, Importing
<1>. QED  BY <1>1, <1>2, <1>3, <1>4 DEF Inv

(* Every step is one of these.                                              *)
RunStep(s) == Stops(s) \/ Starts(s) \/ Skips(s) \/ Picks(s) \/ GoesOn(s) \/ Commits(s)

LEMMA EveryStep ==
    ASSUME Inv, [Next]_vars
    PROVE  Inv' /\ (UNCHANGED vars \/ Grows \/ \E s \in Session : RunStep(s))
<1>1. CASE UNCHANGED vars
  <2>1. UNCHANGED <<files, snapshots, products, run>>
    BY <1>1 DEF vars
  <2>. QED  BY <1>1, <2>1 DEF Inv, TypeOK, Cat!TypeOK, RowsAreHeld, Written, ToUpsert,
                              Retail, Knows, Importing
<1>2. ASSUME NEW r \in Retailer, MakeFolder(r) \/ \E c \in Content : Publish(r, c)
      PROVE  Inv' /\ Grows
  BY <1>2, FolderStep
<1>3. ASSUME NEW s \in Session, NEW wanted \in Wanted, NEW policy \in Policy,
             NEW f \in Filter, Begin(s, wanted, policy, f)
      PROVE  Inv' /\ RunStep(s)
  BY <1>3, BeginStep DEF RunStep
<1>4. ASSUME NEW s \in Session, Proceed(s)
      PROVE  Inv' /\ RunStep(s)
  BY <1>4, SkipStep, PickStep, PolicyStep, SnapshotStep, CommitStep, RaiseStep
     DEF Proceed, Finish, RunStep
<1>5. ASSUME NEW s \in Session, Write(s) \/ Crash(s) \/ AbortVictim(s)
      PROVE  Inv' /\ RunStep(s)
  BY <1>5, InsertStep, UpsertStep, RaiseStep DEF Write, Crash, AbortVictim, RunStep
<1>. QED  BY <1>1, <1>2, <1>3, <1>4, <1>5 DEF Next

(* Only a commit changes the tables.                                        *)
LEMMA OnlyCommits ==
    ASSUME Inv, [Next]_vars
    PROVE  UNCHANGED tables \/ \E s \in Session : Commits(s)
<1>1. \A s \in Session : RunStep(s) => UNCHANGED tables \/ Commits(s)
  BY DEF RunStep, Stops, Starts, Skips, Picks, GoesOn, Quiet, tables
<1>2. UNCHANGED vars \/ Grows => UNCHANGED tables
  BY DEF vars, Grows, tables
<1>. QED  BY <1>1, <1>2, EveryStep

(* A commit, as an import of the file that was picked.                      *)
LEMMA CommitsRows ==
    ASSUME Inv, NEW s \in Session, Commits(s)
    PROVE  \E r \in Retailer, c \in Content, seen \in SUBSET Identity,
              policy \in Policy, time \in 1..MaxFiles :
              /\ r = Retail(s) /\ c = run[s].content /\ seen = Written(s)
              /\ policy = run[s].policy /\ time = run[s].time
              /\ Imported(r, c, seen, policy, time)
              /\ run[s].filter \in Filter /\ seen = Seen(c, Matched(r, c, run[s].filter))
              /\ \A i \in seen : NsOf[i] = r /\ \E n \in Unique(r, c) : Rows[c][n] = i
<1>1. PICK r, c, seen, policy, time, f :
          /\ r = Retail(s) /\ c = run[s].content /\ seen = Written(s)
          /\ policy = run[s].policy /\ time = run[s].time /\ f = run[s].filter
  OBVIOUS
<1>2. /\ r \in Retailer /\ c \in Content /\ seen \in SUBSET Identity
      /\ policy \in Policy /\ time \in 1..MaxFiles /\ f \in Filter
  BY <1>1, CommitTables DEF Commits, Run, Knows
<1>3. Imported(r, c, seen, policy, time) /\ seen = Seen(c, Matched(r, c, f))
  BY <1>1 DEF Commits, ToUpsert
<1>4. \A i \in seen : NsOf[i] = r /\ \E n \in Unique(r, c) : Rows[c][n] = i
  BY <1>2, <1>3, SeenRows
<1>. QED  BY <1>1, <1>2, <1>3, <1>4

LEMMA IngestInv == Spec => []Inv
BY InitInv, EveryStep, PTL DEF Spec
-----------------------------------------------------------------------------
(* The types of the data directory, of the tables and of the runs; every    *)
(* product refers to a snapshot that is there.                              *)
THEOREM IngestTyped == Spec => []TypeOK
<1>1. Inv => TypeOK
  BY DEF Inv
<1>. QED  BY <1>1, IngestInv, PTL

(* However ingests overlap, crash or deadlock, a committed snapshot row     *)
(* stays as it is and a product keeps its id.                               *)
THEOREM IngestIdsAreStable == Spec => IdsAreStable
<1>1. ASSUME Inv, NEW s \in Session, Commits(s)  PROVE Cat!KeepsIds
  BY <1>1, CommitsRows, ImportedKeepsIds
<1>2. Inv /\ [Next]_vars => [Cat!KeepsIds]_(Cat!vars)
  BY <1>1, OnlyCommits DEF tables, Cat!vars
<1>. QED  BY <1>2, IngestInv, PTL DEF Spec, IdsAreStable, Cat!IdsAreStable

(* And its facts come from a registered file with exactly one row for it.   *)
THEOREM IngestFactsWereObserved == Spec => []FactsWereObserved
<1>1. Init => Cat!FactsWereObserved
  BY DEF Init, Cat!FactsWereObserved
<1>2. ASSUME Inv, Cat!FactsWereObserved, NEW s \in Session, Commits(s)
      PROVE  Cat!FactsWereObserved'
  BY <1>2, CommitsRows, ImportedKeepsFacts
<1>3. Inv /\ Cat!FactsWereObserved /\ [Next]_vars => Cat!FactsWereObserved'
  BY <1>2, OnlyCommits DEF tables, Cat!FactsWereObserved
<1>. QED  BY <1>1, <1>3, IngestInv, PTL DEF Spec, FactsWereObserved

(* A file that was ever registered by bulk ingests is in the catalog whole: *)
(* no overlap, crash or deadlock leaves a part of one behind.               *)
THEOREM IngestBulkIsWhole == Spec => []Cat!BulkIsWhole
<1>1. Init => Cat!BulkIsWhole
  BY DEF Init, Cat!BulkIsWhole
<1>2. ASSUME Inv, Cat!BulkIsWhole, NEW s \in Session, Commits(s)
      PROVE  Cat!BulkIsWhole'
  <2>1. PICK r \in Retailer, c \in Content, seen \in SUBSET Identity,
             policy \in Policy, time \in 1..MaxFiles :
             /\ Imported(r, c, seen, policy, time)
             /\ run[s].filter \in Filter /\ seen = Seen(c, Matched(r, c, run[s].filter))
    BY <1>2, CommitsRows
  <2>2. Filter = {Bulk} => seen = Seen(c, Unique(r, c))
    BY <2>1, SeenRows
  <2>. QED  BY <1>2, <2>1, <2>2, ImportedKeepsBulk
<1>3. Inv /\ Cat!BulkIsWhole /\ [Next]_vars => Cat!BulkIsWhole'
  BY <1>2, OnlyCommits DEF tables, Cat!BulkIsWhole
<1>. QED  BY <1>1, <1>3, IngestInv, PTL DEF Spec
-----------------------------------------------------------------------------
(* Who runs, and what a run that has checked the policy may rely on.        *)
SoleRun == Overlap \/ \A s, t \in Session : run[s] # NoRun /\ run[t] # NoRun => s = t

Checked(s) ==
    run[s].step \in {"get_snapshot", "insert", "upsert"} =>
        \A i \in InNamespace(Retail(s)) : products[i].policy = run[s].policy

PolicyInv == Cat!OnePolicy /\ \A s \in Session : Checked(s)

(* What has been imported, and what of what was asked for is still to come. *)
Elements(seq) == {seq[n] : n \in DOMAIN seq}

SnapshotsHaveFolders ==
    \A c \in DOMAIN snapshots : snapshots[c].ns \in DOMAIN files \cap Elements(Order)

Accounts(s) ==
    run[s].step # "idle" =>
        /\ Elements(run[s].todo) \subseteq Elements(Order)
        /\ Importing(s) => Retail(s) \in DOMAIN files
        /\ \A x \in run[s].results :
              /\ x[2] \in DOMAIN snapshots
              /\ Seen(x[2], Matched(x[1], x[2], run[s].filter)) \subseteq DOMAIN products
        /\ ~ Overlap =>
              \A r \in run[s].wanted :
                  \/ r \in Elements(run[s].todo)
                  \/ \E c \in Content : <<r, c>> \in run[s].results
                  \/ \A c \in DOMAIN snapshots : snapshots[c].ns # r

AccountInv == SnapshotsHaveFolders /\ \A s \in Session : Accounts(s)

(* Files that are genuine scrapes, and where the snapshots are among them.  *)
FilesAreGenuine ==
    \A r \in DOMAIN files :
        /\ \A m, n \in DOMAIN files[r] : files[r][m] = files[r][n] => m = n
        /\ \A n \in DOMAIN files[r], q \in Retailer \ {r} : Observations(q, files[r][n]) = {}

SnapshotsAreFiles ==
    \A c \in DOMAIN snapshots :
        /\ snapshots[c].ns \in DOMAIN files
        /\ snapshots[c].observed \in DOMAIN files[snapshots[c].ns]
        /\ files[snapshots[c].ns][snapshots[c].observed] = c

Latest(s) ==
    Importing(s) =>
        /\ Retail(s) \in DOMAIN files
        /\ run[s].time \in DOMAIN files[Retail(s)]
        /\ files[Retail(s)][run[s].time] = run[s].content
        /\ \A c \in DOMAIN snapshots :
              snapshots[c].ns = Retail(s) => snapshots[c].observed <= run[s].time

AgeInv == FilesAreGenuine /\ SnapshotsAreFiles /\ \A s \in Session : Latest(s)
-----------------------------------------------------------------------------
(* A run that has been started is not the record of no run.                 *)
LEMMA Idle ==
    ASSUME Inv, NEW s \in Session
    PROVE  run[s] = NoRun <=> run[s].step = "idle"
BY DEF Inv, TypeOK, Run, NoRun

(* Whose steps a run needs not have been started by.                        *)
LEMMA RunStepFrom ==
    ASSUME Inv, NEW s \in Session, RunStep(s)
    PROVE  /\ \A t \in Session \ {s} : run'[t] = run[t]
           /\ \/ run'[s] = NoRun
              \/ run[s] # NoRun
              \/ Overlap \/ \A t \in Session : run[t] = NoRun
BY Idle DEF RunStep, Stops, Starts, Skips, Picks, GoesOn, Commits, Quiet, Importing

LEMMA SoleRunStep ==
    ASSUME Inv, SoleRun, [Next]_vars
    PROVE  SoleRun'
<1>1. CASE UNCHANGED run
  BY <1>1 DEF SoleRun
<1>2. ASSUME NEW s \in Session, RunStep(s)  PROVE SoleRun'
  BY <1>2, RunStepFrom DEF SoleRun
<1>. QED  BY <1>1, <1>2, EveryStep DEF Grows, vars

LEMMA InitSoleRun == Init => SoleRun
BY DEF Init, SoleRun

(* Whoever runs alone finds every other process idle.                       *)
LEMMA Alone ==
    ASSUME Inv, SoleRun, ~ Overlap, NEW s \in Session, run[s].step # "idle",
           NEW t \in Session \ {s}
    PROVE  run[t].step = "idle"
BY Idle DEF SoleRun
-----------------------------------------------------------------------------
(* The policy of a namespace is checked before the import that may add to   *)
(* it, and still holds at the commit: nobody else runs, or everybody has    *)
(* the same one.                                                            *)
OneVersion == Overlap => \A v, w \in Policy : v = w

LEMMA OneVersionChecks ==
    ASSUME \A v, w \in Policy : v = w
    PROVE  (Inv => PolicyInv) /\ (Inv' => PolicyInv')
<1>1. Inv => \A i \in DOMAIN products : products[i].policy \in Policy
  BY DEF Inv, TypeOK, Cat!TypeOK, Cat!ProductRow
<1>2. Inv => \A s \in Session : run[s].step # "idle" => run[s].policy \in Policy
  BY RunTyped DEF Run
<1>3. Inv => PolicyInv
  BY <1>1, <1>2 DEF PolicyInv, Cat!OnePolicy, Checked, InNamespace
<1>. QED  BY <1>3, PTL

LEMMA PolicyInvStep ==
    ASSUME Inv, SoleRun, PolicyInv, OneVersion, [Next]_vars
    PROVE  PolicyInv'
<1>1. CASE Overlap
  <2>1. \A v, w \in Policy : v = w
    BY <1>1 DEF OneVersion
  <2>. QED  BY <2>1, OneVersionChecks, EveryStep
<1>. SUFFICES ASSUME ~ Overlap  PROVE PolicyInv'
  BY <1>1
<1>2. ASSUME UNCHANGED products, NEW t \in Session, run'[t] = run[t]
      PROVE  Checked(t)'
  BY <1>2 DEF PolicyInv, Checked, InNamespace, Retail
<1>3. CASE UNCHANGED <<products, run>>
  BY <1>2, <1>3 DEF PolicyInv, Cat!OnePolicy
<1>4. ASSUME NEW s \in Session, UNCHANGED products, \A t \in Session \ {s} : run'[t] = run[t],
             run'[s].step \in {"idle", "next", "get_policy"}
      PROVE  PolicyInv'
  <2>1. Checked(s)'
    BY <1>4 DEF Checked
  <2>. QED  BY <1>2, <1>4, <2>1 DEF PolicyInv, Cat!OnePolicy
<1>5. ASSUME NEW s \in Session, GoesOn(s)  PROVE PolicyInv'
  <2>1. UNCHANGED products /\ \A t \in Session \ {s} : run'[t] = run[t]
    BY <1>5 DEF GoesOn, Quiet, tables
  <2>2. /\ run'[s].policy = run[s].policy /\ Retail(s)' = Retail(s)
        /\ InNamespace(Retail(s))' = InNamespace(Retail(s))
    BY <1>5, <2>1 DEF GoesOn, Same, Retail, InNamespace
  <2>3. \A i \in InNamespace(Retail(s)) : products[i].policy = run[s].policy
    <3>1. CASE run[s].step = "get_policy"
      BY <1>5, <3>1 DEF GoesOn, PolicyInv, Cat!OnePolicy, InNamespace
    <3>2. CASE run[s].step # "get_policy"
      BY <1>5, <3>2 DEF GoesOn, Importing, PolicyInv, Checked
    <3>. QED  BY <3>1, <3>2
  <2>4. Checked(s)'
    BY <2>1, <2>2, <2>3 DEF Checked
  <2>. QED  BY <1>2, <2>1, <2>4 DEF PolicyInv, Cat!OnePolicy
<1>6. ASSUME NEW s \in Session, Commits(s)  PROVE PolicyInv'
  <2>1. PICK r \in Retailer, c \in Content, seen \in SUBSET Identity,
             policy \in Policy, time \in 1..MaxFiles :
             /\ r = Retail(s) /\ policy = run[s].policy
             /\ Imported(r, c, seen, policy, time)
             /\ \A i \in seen : NsOf[i] = r
    BY <1>6, CommitsRows
  <2>2. \A i \in InNamespace(r) : products[i].policy = policy
    BY <1>6, <2>1 DEF Commits, PolicyInv, Checked
  <2>3. Cat!OnePolicy'
    BY <2>1, <2>2, ImportedKeepsPolicy DEF PolicyInv
  <2>4. ASSUME NEW t \in Session  PROVE run'[t].step \in {"idle", "next"}
    <3>1. run[s].step # "idle"
      BY <1>6 DEF Commits
    <3>. QED  BY <1>6, <3>1, Alone DEF Commits
  <2>. QED  BY <2>3, <2>4 DEF PolicyInv, Checked
<1>7. ASSUME NEW s \in Session, RunStep(s)  PROVE PolicyInv'
  BY <1>4, <1>5, <1>6, <1>7
     DEF RunStep, Stops, Starts, Skips, Picks, Quiet, tables, NoRun
<1>. QED  BY <1>3, <1>7, EveryStep DEF Grows, vars, tables

LEMMA IngestPolicyInv ==
    ASSUME OneVersion
    PROVE  Spec => [](Inv /\ PolicyInv)
<1>1. Init => SoleRun /\ PolicyInv
  BY InitSoleRun DEF Init, PolicyInv, Cat!OnePolicy, Checked, NoRun
<1>2. Inv /\ SoleRun /\ PolicyInv /\ [Next]_vars => SoleRun' /\ PolicyInv'
  BY SoleRunStep, PolicyInvStep
<1>. QED  BY <1>1, <1>2, IngestInv, PTL DEF Spec

(* The products of a retailer are known under one identity policy, when no  *)
(* two versions of the program ingest at once.                              *)
THEOREM IngestOnePolicy ==
    ASSUME OneVersion
    PROVE  Spec => []OnePolicy
<1>1. PolicyInv => OnePolicy
  BY DEF PolicyInv, OnePolicy
<1>. QED  BY <1>1, IngestPolicyInv, PTL

(* When no two versions of the program ingest at once, any number of        *)
(* overlapping, crashing and deadlocking ingests is a sequence of whole     *)
(* imports.                                                                 *)
THEOREM IngestImplements ==
    ASSUME OneVersion
    PROVE  Spec => Implements
<1>1. Init => Cat!Init
  BY DEF Init, Cat!Init
<1>2. ASSUME Inv, PolicyInv, NEW s \in Session, Commits(s)  PROVE Cat!Next
  <2>. DEFINE r == Retail(s)
              c == run[s].content
              f == run[s].filter
              policy == run[s].policy
              time == run[s].time
  <2>1. /\ r \in Retailer /\ c \in Content \ Malformed /\ f \in Filter
        /\ policy \in Policy /\ time \in 1..MaxFiles
    BY <1>2, CommitTables DEF Run, Knows, Commits
  <2>2. snapshots' = Cat!Registered(c, r, time)
    BY <1>2, CommitTables DEF Commits
  <2>3. products' = Cat!Upserted(c, Cat!Seen(c, Cat!Matched(r, c, f)), policy)
    <3>1. products' = Cat!Upserted(c, Written(s), policy)
      BY <1>2, CommitTables DEF Commits
    <3>2. Written(s) = Seen(c, Matched(r, c, f))
      BY <1>2 DEF Commits, ToUpsert
    <3>. QED  BY <3>1, <3>2, SameFiles
  <2>4. \A i \in Cat!InNamespace(r) : products[i].policy = policy
    <3>1. \A i \in InNamespace(Retail(s)) : products[i].policy = run[s].policy
      BY <1>2 DEF Commits, PolicyInv, Checked
    <3>. QED  BY <3>1, SameFiles
  <2>5. Cat!Import(r, c, f, policy, time)
    BY <2>2, <2>3, <2>4 DEF Cat!Import
  <2>. HIDE DEF r, c, f, policy, time
  <2>. QED  BY <2>1, <2>5 DEF Cat!Next
<1>3. Inv /\ PolicyInv /\ [Next]_vars => [Cat!Next]_(Cat!vars)
  BY <1>2, OnlyCommits DEF tables, Cat!vars
<1>. QED  BY <1>1, <1>3, IngestPolicyInv, PTL DEF Spec, Implements, Cat!Spec
-----------------------------------------------------------------------------
(* What a step of a run changes beside the run.                             *)
LEMMA RunStepTables ==
    ASSUME NEW s \in Session, RunStep(s)
    PROVE  /\ files' = files /\ \A t \in Session \ {s} : run'[t] = run[t]
           /\ UNCHANGED <<snapshots, products>> \/ Commits(s)
BY DEF RunStep, Stops, Starts, Skips, Picks, GoesOn, Commits, Quiet, tables

LEMMA ElementsOfTail ==
    ASSUME NEW S, NEW seq \in Seq(S), seq # <<>>
    PROVE  Head(seq) \in S /\ Elements(seq) = {Head(seq)} \cup Elements(Tail(seq))
<1>1. /\ Len(seq) \in Nat \ {0} /\ DOMAIN seq = 1..Len(seq) /\ Head(seq) = seq[1]
      /\ DOMAIN Tail(seq) = 1..(Len(seq) - 1)
      /\ \A n \in 1..(Len(seq) - 1) : Tail(seq)[n] = seq[n + 1]
  OBVIOUS
<1>2. Elements(seq) \subseteq {Head(seq)} \cup Elements(Tail(seq))
  <2>1. ASSUME NEW n \in DOMAIN seq, n # 1
        PROVE  n - 1 \in DOMAIN Tail(seq) /\ Tail(seq)[n - 1] = seq[n]
    BY <1>1, <2>1
  <2>. QED  BY <1>1, <2>1 DEF Elements
<1>3. {Head(seq)} \cup Elements(Tail(seq)) \subseteq Elements(seq)
  <2>1. ASSUME NEW n \in DOMAIN Tail(seq)
        PROVE  n + 1 \in DOMAIN seq /\ Tail(seq)[n] = seq[n + 1]
    BY <1>1
  <2>. QED  BY <1>1, <2>1 DEF Elements
<1>. QED  BY <1>1, <1>2, <1>3

(* The retailer a run is at, among those it was to visit.                   *)
LEMMA RetailFirst ==
    ASSUME Inv, NEW s \in Session, run[s].step # "idle", run[s].todo # <<>>
    PROVE  /\ Retail(s) \in Retailer
           /\ Elements(run[s].todo) = {Retail(s)} \cup Elements(Tail(run[s].todo))
<1>1. run[s].todo \in Seq(Retailer)
  BY RunTyped DEF Run
<1>. QED  BY <1>1, ElementsOfTail DEF Retail

LEMMA AccountsOfOthers ==
    ASSUME Inv, SoleRun, NEW s \in Session, RunStep(s),
           NEW t \in Session \ {s}, Accounts(t)
    PROVE  Accounts(t)'
<1>1. run'[t] = run[t] /\ files' = files
  BY RunStepTables
<1>2. CASE UNCHANGED <<snapshots, products>>
  BY <1>1, <1>2 DEF Accounts, Importing, Retail
<1>3. CASE Commits(s)
  <2>1. /\ DOMAIN snapshots \subseteq DOMAIN snapshots'
        /\ DOMAIN products \subseteq DOMAIN products'
    BY <1>3 DEF Commits, Imported
  <2>2. run[t].step # "idle" => Overlap
    BY <1>3, Alone DEF Commits
  <2>. QED  BY <1>1, <2>1, <2>2 DEF Accounts, Importing, Retail
<1>. QED  BY <1>2, <1>3, RunStepTables

LEMMA AccountsOfSkip ==
    ASSUME Inv, SnapshotsHaveFolders, NEW s \in Session, Accounts(s), Skips(s)
    PROVE  Accounts(s)'
<1>1. /\ run[s].step = "next" /\ run'[s].step = "next" /\ run[s].todo # <<>>
      /\ run'[s].todo = Tail(run[s].todo) /\ run'[s].results = run[s].results
      /\ run'[s].wanted = run[s].wanted /\ run'[s].filter = run[s].filter
      /\ Retail(s) \notin run[s].wanted \cap DOMAIN files
      /\ files' = files /\ snapshots' = snapshots /\ products' = products
  BY DEF Skips, Same, Quiet, tables
<1>2. Elements(run[s].todo) = {Retail(s)} \cup Elements(run'[s].todo)
  BY <1>1, RetailFirst
<1>3. Retail(s) \in run[s].wanted => \A c \in DOMAIN snapshots : snapshots[c].ns # Retail(s)
  BY <1>1 DEF SnapshotsHaveFolders
<1>. QED  BY <1>1, <1>2, <1>3 DEF Accounts, Importing

LEMMA AccountsOfCommit ==
    ASSUME Inv, NEW s \in Session, Accounts(s), Commits(s)
    PROVE  Accounts(s)'
<1>1. /\ run[s].step = "upsert" /\ run'[s].step = "next"
      /\ run'[s].todo = Tail(run[s].todo)
      /\ run'[s].results = run[s].results \cup {<<Retail(s), run[s].content>>}
      /\ run'[s].wanted = run[s].wanted /\ run'[s].filter = run[s].filter
  BY DEF Commits, Same
<1>2. Elements(run[s].todo) = {Retail(s)} \cup Elements(run'[s].todo)
  BY <1>1, RetailFirst DEF Inv, Knows, Importing
<1>3. PICK r \in Retailer, c \in Content, seen \in SUBSET Identity,
           policy \in Policy, time \in 1..MaxFiles :
          /\ r = Retail(s) /\ c = run[s].content
          /\ Imported(r, c, seen, policy, time)
          /\ seen = Seen(c, Matched(r, c, run[s].filter))
  BY CommitsRows
<1>4. /\ DOMAIN snapshots' = DOMAIN snapshots \cup {c}
      /\ DOMAIN products' = DOMAIN products \cup seen
      /\ \A d \in DOMAIN snapshots' \ {c} : snapshots'[d].ns = snapshots[d].ns
      /\ c \in DOMAIN snapshots => snapshots'[c].ns = snapshots[c].ns
      /\ c \notin DOMAIN snapshots => snapshots'[c].ns = r
  BY <1>3 DEF Imported
<1>5. \A x \in run'[s].results :
          /\ x[2] \in DOMAIN snapshots'
          /\ Seen(x[2], Matched(x[1], x[2], run[s].filter)) \subseteq DOMAIN products'
  BY <1>1, <1>3, <1>4 DEF Accounts
<1>6. ASSUME ~ Overlap, NEW q \in run[s].wanted
      PROVE  \/ q \in Elements(run'[s].todo)
             \/ \E d \in Content : <<q, d>> \in run'[s].results
             \/ \A d \in DOMAIN snapshots' : snapshots'[d].ns # q
  <2>1. CASE q = r
    BY <1>1, <1>3, <2>1
  <2>2. CASE q # r
    BY <1>1, <1>2, <1>3, <1>4, <1>6, <2>2 DEF Accounts
  <2>. QED  BY <2>1, <2>2
<1>. QED  BY <1>1, <1>2, <1>5, <1>6 DEF Accounts, Importing

LEMMA AccountInvStep ==
    ASSUME Inv, SoleRun, AccountInv, [Next]_vars
    PROVE  AccountInv'
<1>1. CASE UNCHANGED <<tables, run>> /\ DOMAIN files \subseteq DOMAIN files'
  BY <1>1 DEF AccountInv, SnapshotsHaveFolders, Accounts, Importing, Retail, tables
<1>2. ASSUME NEW s \in Session, RunStep(s)  PROVE AccountInv'
  <2>1. SnapshotsHaveFolders'
    <3>1. CASE UNCHANGED <<snapshots, products>>
      BY <1>2, <3>1, RunStepTables DEF AccountInv, SnapshotsHaveFolders
    <3>2. CASE Commits(s)
      <4>1. Retail(s) \in DOMAIN files \cap Elements(Order)
        <5>1. run[s].step = "upsert" /\ run[s].todo # <<>> /\ Importing(s)
          BY <3>2 DEF Commits, Inv, Knows, Importing
        <5>. QED  BY <5>1, RetailFirst DEF AccountInv, Accounts
      <4>2. PICK c, seen, policy, time : Imported(Retail(s), c, seen, policy, time)
        BY <3>2 DEF Commits
      <4>3. files' = files
        BY <3>2 DEF Commits
      <4>. QED  BY <4>1, <4>2, <4>3 DEF Imported, AccountInv, SnapshotsHaveFolders
    <3>. QED  BY <1>2, <3>1, <3>2, RunStepTables
  <2>3. Stops(s) => Accounts(s)'
    BY DEF Stops, Accounts, NoRun
  <2>4. Starts(s) => Accounts(s)'
    BY DEF Starts, Quiet, tables, Accounts, Importing, AccountInv, SnapshotsHaveFolders
  <2>5. ASSUME Picks(s) \/ GoesOn(s)  PROVE Accounts(s)'
    <3>1. /\ run[s].step # "idle" /\ run'[s].todo = run[s].todo
          /\ run'[s].results = run[s].results
          /\ run'[s].wanted = run[s].wanted /\ run'[s].filter = run[s].filter
          /\ files' = files /\ snapshots' = snapshots /\ products' = products
      BY <2>5 DEF Picks, GoesOn, Same, Quiet, tables, Importing
    <3>2. Retail(s)' = Retail(s) /\ Accounts(s)
      BY <3>1 DEF Retail, AccountInv
    <3>3. Retail(s) \in DOMAIN files
      BY <2>5, <3>1, <3>2 DEF Picks, GoesOn, Accounts
    <3>. QED  BY <3>1, <3>2, <3>3 DEF Accounts
  <2>6. Accounts(s)'
    BY <1>2, <2>3, <2>4, <2>5, AccountsOfSkip, AccountsOfCommit DEF RunStep, AccountInv
  <2>7. \A t \in Session \ {s} : Accounts(t)'
    BY <1>2, AccountsOfOthers DEF AccountInv
  <2>. QED  BY <2>1, <2>6, <2>7 DEF AccountInv
<1>. QED  BY <1>1, <1>2, EveryStep DEF Grows, vars, tables

(* Ingests that do not overlap, by one or by several versions of the        *)
(* program: a run that ends without an error has imported every retailer it *)
(* was asked for, though it concludes it from the snapshots' namespaces.    *)
THEOREM IngestOkMeansImported ==
    ASSUME ~ Overlap
    PROVE  Spec => []OkMeansImported
<1>1. Init => SoleRun /\ AccountInv
  BY InitSoleRun DEF Init, AccountInv, SnapshotsHaveFolders, Accounts, NoRun
<1>2. Inv /\ SoleRun /\ AccountInv /\ [Next]_vars => SoleRun' /\ AccountInv'
  BY SoleRunStep, AccountInvStep
<1>3. Inv /\ AccountInv => OkMeansImported
  <2>. SUFFICES ASSUME Inv, AccountInv, NEW s \in Session, AtEnd(s), Missing(s) = {},
                       NEW r \in run[s].wanted
                PROVE  \E c \in Content :
                          /\ <<r, c>> \in run[s].results
                          /\ Seen(c, Matched(r, c, run[s].filter)) \subseteq DOMAIN products
    BY DEF OkMeansImported
  <2>1. run[s].step = "next" /\ run[s].todo = <<>> /\ Accounts(s)
    BY DEF AtEnd, AccountInv
  <2>2. PICK x \in run[s].results : snapshots[x[2]].ns = r
    BY DEF Missing
  <2>3. x[2] \in DOMAIN snapshots
    BY <2>1 DEF Accounts
  <2>4. r \notin Elements(run[s].todo)
    BY <2>1 DEF Elements
  <2>5. PICK c \in Content : <<r, c>> \in run[s].results
    BY <2>1, <2>2, <2>3, <2>4 DEF Accounts
  <2>. QED  BY <2>1, <2>5 DEF Accounts
<1>. QED  BY <1>1, <1>2, <1>3, IngestInv, PTL DEF Spec
-----------------------------------------------------------------------------
(* Where a file of a retailer's folder comes from, and when.                *)
LEMMA RegisteredUnder ==
    ASSUME AgeInv, NEW r \in Retailer, NEW c \in DOMAIN snapshots, Observations(r, c) # {}
    PROVE  snapshots[c].ns = r
BY DEF AgeInv, FilesAreGenuine, SnapshotsAreFiles

LEMMA FilesGrow ==
    ASSUME Inv, Inv', AgeInv, Grows, ~ AnyFile
    PROVE  AgeInv'
<1>1. /\ snapshots' = snapshots /\ products' = products /\ run' = run
      /\ DOMAIN files \subseteq DOMAIN files'
  BY DEF Grows, tables
<1>2. \A r \in DOMAIN files : \A n \in DOMAIN files[r] :
          n \in DOMAIN files'[r] /\ files'[r][n] = files[r][n]
  <2>. SUFFICES ASSUME NEW r \in DOMAIN files, NEW n \in DOMAIN files[r]
                PROVE  n \in DOMAIN files'[r]
    BY DEF Grows
  <2>1. files[r] \in Seq(Content) /\ Len(files[r]) <= Len(files'[r])
    BY DEF Grows, Inv, TypeOK
  <2>2. files'[r] \in Seq(Content)
    BY <1>1, <2>1 DEF Inv, TypeOK
  <2>. QED  BY <2>1, <2>2
<1>3. SnapshotsAreFiles'
  BY <1>1, <1>2 DEF AgeInv, SnapshotsAreFiles
<1>4. \A s \in Session : Latest(s)'
  BY <1>1, <1>2 DEF AgeInv, Latest, Importing, Retail
<1>5. FilesAreGenuine'
  <2>1. ASSUME NEW r \in Retailer, r \notin DOMAIN files,
               DOMAIN files' = DOMAIN files \cup {r}, files'[r] = <<>>,
               \A q \in DOMAIN files : files'[q] = files[q]
        PROVE  FilesAreGenuine'
    BY <2>1 DEF AgeInv, FilesAreGenuine
  <2>2. ASSUME NEW r \in DOMAIN files, NEW c \in Content, Genuine(r, c),
               files' = [files EXCEPT ![r] = Append(@, c)]
        PROVE  FilesAreGenuine'
    <3>1. files[r] \in Seq(Content) /\ Len(files[r]) \in Nat
      BY DEF Inv, TypeOK
    <3>2. /\ DOMAIN files' = DOMAIN files /\ files'[r] = Append(files[r], c)
          /\ \A q \in DOMAIN files \ {r} : files'[q] = files[q]
      BY <2>2
    <3>3. /\ DOMAIN files'[r] = DOMAIN files[r] \cup {Len(files[r]) + 1}
          /\ files'[r][Len(files[r]) + 1] = c
          /\ \A n \in DOMAIN files[r] : files'[r][n] = files[r][n]
      BY <3>1, <3>2
    <3>4. /\ \A m, n \in DOMAIN files'[r] : files'[r][m] = files'[r][n] => m = n
          /\ \A n \in DOMAIN files'[r], q \in Retailer \ {r} :
                Observations(q, files'[r][n]) = {}
      BY <2>2, <3>3 DEF AgeInv, FilesAreGenuine, Genuine
    <3>. QED  BY <3>2, <3>4 DEF AgeInv, FilesAreGenuine
  <2>. QED  BY <2>1, <2>2 DEF Grows
<1>. QED  BY <1>3, <1>4, <1>5 DEF AgeInv

LEMMA AgeInvRun ==
    ASSUME Inv, Inv', SoleRun, AgeInv, ~ Overlap, NEW s \in Session, RunStep(s)
    PROVE  AgeInv'
<1>1. files' = files /\ FilesAreGenuine'
  BY RunStepTables DEF AgeInv, FilesAreGenuine
<1>2. ASSUME NEW t \in Session, run'[t] = run[t], UNCHANGED snapshots
      PROVE  Latest(t)'
  BY <1>1, <1>2 DEF AgeInv, Latest, Importing, Retail
<1>3. CASE Commits(s)
  <2>1. PICK r \in Retailer, c \in Content, seen \in SUBSET Identity,
             policy \in Policy, time \in 1..MaxFiles :
             /\ r = Retail(s) /\ c = run[s].content /\ time = run[s].time
             /\ Imported(r, c, seen, policy, time)
    BY <1>3, CommitsRows
  <2>2. /\ r \in DOMAIN files /\ time \in DOMAIN files[r] /\ files[r][time] = c
        /\ run[s].step # "idle" /\ run'[s].step = "next"
    BY <1>3, <2>1 DEF AgeInv, Latest, Commits, Importing
  <2>3. SnapshotsAreFiles'
    BY <1>1, <2>1, <2>2 DEF Imported, AgeInv, SnapshotsAreFiles
  <2>4. ASSUME NEW t \in Session  PROVE Latest(t)'
    <3>1. t # s => run[t].step = "idle" /\ run'[t] = run[t]
      BY <1>3, <2>2, Alone DEF Commits
    <3>. QED  BY <2>2, <3>1 DEF Latest, Importing
  <2>. QED  BY <1>1, <2>3, <2>4 DEF AgeInv
<1>4. CASE UNCHANGED <<snapshots, products>> /\ ~ Commits(s)
  <2>1. SnapshotsAreFiles'
    BY <1>1, <1>4 DEF AgeInv, SnapshotsAreFiles
  <2>3. Stops(s) \/ Starts(s) \/ Skips(s) => Latest(s)'
    BY DEF Stops, Starts, Skips, NoRun, Latest, Importing
  <2>4. GoesOn(s) => Latest(s)'
    BY <1>1, <1>4 DEF GoesOn, AgeInv, Latest, Importing, Retail
  <2>5. ASSUME Picks(s)  PROVE Latest(s)'
    <3>1. /\ Retail(s) \in DOMAIN files /\ Retail(s)' = Retail(s)
          /\ run'[s].time = Len(files[Retail(s)])
          /\ run'[s].content = files[Retail(s)][Len(files[Retail(s)])]
      BY <2>5 DEF Picks, Retail
    <3>2. run'[s].time \in 1..MaxFiles
      BY <2>5 DEF Inv, Knows, Importing, Picks
    <3>3. files[Retail(s)] \in Seq(Content)
      BY <3>1 DEF Inv, TypeOK
    <3>4. \A c \in DOMAIN snapshots :
              snapshots[c].ns = Retail(s) => snapshots[c].observed <= Len(files[Retail(s)])
      BY <3>3 DEF AgeInv, SnapshotsAreFiles
    <3>. QED  BY <1>1, <1>4, <3>1, <3>2, <3>3, <3>4 DEF Latest
  <2>6. \A t \in Session \ {s} : Latest(t)'
    BY <1>2, <1>4, RunStepTables
  <2>. QED  BY <1>1, <1>4, <2>1, <2>3, <2>4, <2>5, <2>6 DEF AgeInv, RunStep
<1>. QED  BY <1>3, <1>4, RunStepTables

LEMMA AgeInvStep ==
    ASSUME Inv, SoleRun, AgeInv, ~ Overlap, ~ AnyFile, [Next]_vars
    PROVE  AgeInv'
<1>1. CASE UNCHANGED vars
  BY <1>1 DEF vars, AgeInv, FilesAreGenuine, SnapshotsAreFiles, Latest, Importing, Retail
<1>. QED  BY <1>1, EveryStep, FilesGrow, AgeInvRun

LEMMA CommitNeverOlder ==
    ASSUME Inv, AgeInv, Cat!FactsWereObserved, NEW s \in Session, Commits(s),
           NEW i \in DOMAIN products
    PROVE  snapshots[products[i].snap].observed <= snapshots'[products'[i].snap].observed
<1>1. PICK r \in Retailer, c \in Content, seen \in SUBSET Identity,
           policy \in Policy, time \in 1..MaxFiles :
           /\ r = Retail(s) /\ c = run[s].content /\ time = run[s].time
           /\ Imported(r, c, seen, policy, time)
           /\ run[s].filter \in Filter /\ seen = Seen(c, Matched(r, c, run[s].filter))
  BY CommitsRows
<1>2. PICK d : d = products[i].snap
  OBVIOUS
<1>3. /\ d \in DOMAIN snapshots /\ snapshots'[d] = snapshots[d]
      /\ snapshots[d].observed \in 1..MaxFiles
      /\ NsOf[i] \in Retailer /\ Observations(NsOf[i], d) # {}
  <2>1. d \in DOMAIN snapshots /\ \E n \in Cat!Unique(NsOf[i], d) : Rows[d][n] = i
    BY <1>2 DEF Cat!FactsWereObserved
  <2>2. Observations(NsOf[i], d) # {}
    <3>1. \A q : Cat!Unique(q, d) = Unique(q, d)
      BY SameFiles
    <3>. QED  BY <2>1, <3>1 DEF Unique
  <2>3. snapshots[d].observed \in 1..MaxFiles /\ NsOf[i] \in Retailer
    <3>1. i \in Identity /\ snapshots[d] \in Cat!Snapshot
      BY <2>1 DEF Inv, TypeOK, Cat!TypeOK
    <3>. QED  BY <3>1, CatalogFilesAssumption DEF Cat!Snapshot
  <2>. QED  BY <1>1, <2>1, <2>2, <2>3 DEF Imported
<1>4. CASE i \notin seen
  BY <1>1, <1>2, <1>3, <1>4 DEF Imported
<1>5. CASE i \in seen
  <2>1. /\ NsOf[i] = r /\ Observations(r, c) # {}
        /\ products'[i].snap = c /\ c \in DOMAIN snapshots'
    <3>1. NsOf[i] = r /\ Unique(r, c) # {}
      BY <1>1, <1>5, SeenRows
    <3>. QED  BY <1>1, <1>5, <3>1 DEF Unique, Imported
  <2>2. /\ r \in DOMAIN files /\ time \in DOMAIN files[r] /\ files[r][time] = c
        /\ \A e \in DOMAIN snapshots : snapshots[e].ns = r => snapshots[e].observed <= time
    BY <1>1 DEF AgeInv, Latest, Commits, Importing
  <2>3. snapshots[d].observed <= time
    BY <1>3, <2>1, <2>2, RegisteredUnder
  <2>4. snapshots'[c].observed = time
    <3>1. CASE c \notin DOMAIN snapshots
      BY <1>1, <3>1 DEF Imported
    <3>2. CASE c \in DOMAIN snapshots
      <4>1. snapshots[c].ns = r
        BY <2>1, <3>2, RegisteredUnder
      <4>2. snapshots[c].observed = time
        BY <2>2, <3>2, <4>1 DEF AgeInv, SnapshotsAreFiles, FilesAreGenuine
      <4>. QED  BY <1>1, <3>2, <4>2 DEF Imported
    <3>. QED  BY <3>1, <3>2
  <2>. QED  BY <1>2, <2>1, <2>3, <2>4
<1>. QED  BY <1>4, <1>5

(* Scrapes that are new and hold no other retailer's products, ingested by  *)
(* runs that do not overlap: the facts of a product never go back to an     *)
(* older scrape.                                                            *)
THEOREM IngestNeverOlder ==
    ASSUME ~ Overlap, ~ AnyFile
    PROVE  Spec => NeverOlder
<1>. DEFINE NotOlder ==
              \A i \in DOMAIN products :
                  snapshots[products[i].snap].observed
                      <= snapshots'[products'[i].snap].observed
<1>1. Init => SoleRun /\ AgeInv
  BY InitSoleRun
     DEF Init, AgeInv, FilesAreGenuine, SnapshotsAreFiles, Latest, Importing, NoRun
<1>2. Inv /\ SoleRun /\ AgeInv /\ [Next]_vars => SoleRun' /\ AgeInv'
  BY SoleRunStep, AgeInvStep
<1>3. ASSUME Inv, AgeInv, Cat!FactsWereObserved, [Next]_vars  PROVE NotOlder
  <2>1. CASE UNCHANGED tables
    <3>1. \A i \in DOMAIN products : snapshots[products[i].snap].observed \in 1..MaxFiles
      BY <1>3 DEF Cat!FactsWereObserved, Inv, TypeOK, Cat!TypeOK, Cat!Snapshot
    <3>. QED  BY <2>1, <3>1 DEF tables
  <2>2. ASSUME NEW s \in Session, Commits(s)  PROVE NotOlder
    BY <1>3, <2>2, CommitNeverOlder
  <2>. QED  BY <1>3, <2>1, <2>2, OnlyCommits
<1>. HIDE DEF NotOlder
<1>4. Inv /\ AgeInv /\ Cat!FactsWereObserved /\ [Next]_vars => [NotOlder]_vars
  BY <1>3
<1>5. Spec => [][NotOlder]_vars
  BY <1>1, <1>2, <1>4, IngestInv, IngestFactsWereObserved, PTL DEF Spec, FactsWereObserved
<1>. QED  BY <1>5 DEF NeverOlder, NotOlder
=============================================================================
