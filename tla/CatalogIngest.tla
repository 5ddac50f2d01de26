--------------------------- MODULE CatalogIngest ---------------------------
(***************************************************************************)
(* "agentic-cataloger ingest" (platform/ingest/runner.py) run by several    *)
(* processes against one data directory and one Postgres.  A run takes the  *)
(* retailers one by one: it picks the latest file, parses it, and imports   *)
(* it in one transaction, statement by statement, committing before it goes *)
(* on to the next retailer.  Written rows stay locked and invisible until   *)
(* the commit; a run that raises or is killed loses the transaction it is   *)
(* in and keeps the ones it committed.                                      *)
(***************************************************************************)
EXTENDS CatalogFiles, Tables

CONSTANTS Policy,
          Order,        \* RETAILERS, the order of iter_retailer_dirs
          Wanted,       \* the values of --retailer an operator uses
          Session,
          MaxFiles,     \* bound on the scrapes a retailer publishes
          Overlap,      \* whether an operator starts an ingest during another
          AnyFile       \* whether a folder may hold any file at all

ASSUME CatalogIngestAssumption ==
    /\ Order \in Seq(Retailer)
    /\ Wanted \subseteq SUBSET Retailer
    /\ MaxFiles \in Nat
    /\ Overlap \in BOOLEAN
    /\ AnyFile \in BOOLEAN

VARIABLES files,                    \* retailer -> contents under its folder, oldest first
          snapshots, products,      \* the committed rows, as in Catalog
          run                       \* what each process is doing

tables == <<snapshots, products>>
vars == <<files, snapshots, products, run>>

Cat == INSTANCE Catalog WITH Time <- 1..MaxFiles

(* A run: the retailers still to visit, the file picked for the first of    *)
(* them, whether its snapshot row is new, its rows still to upsert, and the *)
(* imports committed so far.                                                *)
Run ==
    [step : {"next", "get_policy", "get_snapshot", "insert", "upsert"},
     wanted : SUBSET Retailer, todo : Seq(Retailer),
     policy : Policy, filter : Filter,
     content : Content \cup {Untrusted}, time : 0..MaxFiles,
     isNew : BOOLEAN, left : SUBSET Nat,
     results : SUBSET (Retailer \X Content)]

NoRun == [step |-> "idle"]

Init ==
    /\ files = [r \in {} |-> <<>>]
    /\ snapshots = [c \in {} |-> c]
    /\ products = [i \in {} |-> i]
    /\ run = [s \in Session |-> NoRun]

Goto(s, step) ==
    /\ run' = [run EXCEPT ![s].step = step]
    /\ UNCHANGED <<files, tables>>

(* An exception leaves "with connect_app": rollback, and the run is over.   *)
Raise(s) ==
    /\ run' = [run EXCEPT ![s] = NoRun]
    /\ UNCHANGED <<files, tables>>

Check(s, holds, step) == IF holds THEN Goto(s, step) ELSE Raise(s)

Retail(s) == Head(run[s].todo)
-----------------------------------------------------------------------------
(* The data directory: a new scrape is named after a later time than the    *)
(* ones there are.  A folder may exist before its first file.               *)
MakeFolder(r) ==
    /\ r \notin DOMAIN files
    /\ files' = Put(files, r, <<>>)
    /\ UNCHANGED <<tables, run>>

(* A scrape of r: new, and without another retailer's products.             *)
Genuine(r, c) ==
    /\ \A n \in DOMAIN files[r] : files[r][n] # c
    /\ \A q \in Retailer \ {r} : Observations(q, c) = {}

Publish(r, c) ==
    /\ r \in DOMAIN files
    /\ Len(files[r]) < MaxFiles
    /\ AnyFile \/ Genuine(r, c)
    /\ files' = [files EXCEPT ![r] = Append(@, c)]
    /\ UNCHANGED <<tables, run>>
-----------------------------------------------------------------------------
Begin(s, wanted, policy, f) ==
    /\ run[s] = NoRun
    /\ Overlap \/ \A t \in Session : run[t] = NoRun
    /\ run' = [run EXCEPT ![s] =
                [step |-> "next", wanted |-> wanted, todo |-> Order,
                 policy |-> policy, filter |-> f, content |-> Untrusted,
                 time |-> 0, isNew |-> FALSE, left |-> {}, results |-> {}]]
    /\ UNCHANGED <<files, tables>>

(* Mutant: the loop never goes on to the next folder.                       *)
SkipNothing(s) ==
    /\ run[s].step = "next"
    /\ run[s].todo # <<>>
    /\ Retail(s) \notin run[s].wanted \cap DOMAIN files
    /\ UNCHANGED vars

(* iter_retailer_dirs yields the folders there are when it gets to them.    *)
Skip(s) ==
    /\ run[s].step = "next"
    /\ run[s].todo # <<>>
    /\ Retail(s) \notin run[s].wanted \cap DOMAIN files
    /\ run' = [run EXCEPT ![s].todo = Tail(@)]
    /\ UNCHANGED <<files, tables>>

(* Mutant: the file is any of the folder, not the latest.                   *)
PickAny(s) ==
    /\ run[s].step = "next"
    /\ run[s].todo # <<>>
    /\ Retail(s) \in run[s].wanted \cap DOMAIN files
    /\ \E n \in DOMAIN files[Retail(s)] :
          /\ files[Retail(s)][n] \notin Malformed
          /\ run' = [run EXCEPT ![s] =
                        [run[s] EXCEPT !.step = "get_policy",
                                       !.content = files[Retail(s)][n], !.time = n]]
    /\ UNCHANGED <<files, tables>>

(* Mutant: the scrape is dated one position off its name.                   *)
PickMisdated(s) ==
    /\ run[s].step = "next"
    /\ run[s].todo # <<>>
    /\ Retail(s) \in run[s].wanted \cap DOMAIN files
    /\ LET scrapes == files[Retail(s)]
           n == Len(scrapes)
       IN  IF n > 0 /\ scrapes[n] \notin Malformed
           THEN /\ run' = [run EXCEPT ![s] =
                              [run[s] EXCEPT !.step = "get_policy",
                                             !.content = scrapes[n], !.time = n - 1]]
                /\ UNCHANGED <<files, tables>>
           ELSE Raise(s)

(* find_latest_csv and parse_csv_snapshot: a folder without a file, or a    *)
(* file that does not parse, ends the run here.                             *)
PickLatest(s) ==
    /\ run[s].step = "next"
    /\ run[s].todo # <<>>
    /\ Retail(s) \in run[s].wanted \cap DOMAIN files
    /\ LET scrapes == files[Retail(s)]
           n == Len(scrapes)
       IN  IF n > 0 /\ scrapes[n] \notin Malformed
           THEN /\ run' = [run EXCEPT ![s] =
                              [run[s] EXCEPT !.step = "get_policy",
                                             !.content = scrapes[n], !.time = n]]
                /\ UNCHANGED <<files, tables>>
           ELSE Raise(s)
-----------------------------------------------------------------------------
InNamespace(r) == {i \in DOMAIN products : NsOf[i] = r}

(* Mutant: the policy of the catalog is not compared with the program's.    *)
GetPolicyUnchecked(s) == run[s].step = "get_policy" /\ Goto(s, "get_snapshot")

(* "SELECT identity_policy_version ... LIMIT 1": any row of the namespace.  *)
GetPolicy(s) ==
    /\ run[s].step = "get_policy"
    /\ \/ InNamespace(Retail(s)) = {} /\ Goto(s, "get_snapshot")
       \/ \E i \in InNamespace(Retail(s)) :
             Check(s, products[i].policy = run[s].policy, "get_snapshot")

ToUpsert(s) == Matched(Retail(s), run[s].content, run[s].filter)

GetSnapshot(s) ==
    /\ run[s].step = "get_snapshot"
    /\ LET isNew == run[s].content \notin DOMAIN snapshots
       IN  run' = [run EXCEPT ![s] =
                      [run[s] EXCEPT !.step = IF isNew THEN "insert" ELSE "upsert",
                                     !.isNew = isNew, !.left = ToUpsert(s)]]
    /\ UNCHANGED <<files, tables>>

(* The identities whose rows a running transaction has written, and the one *)
(* it writes next: rows go in the order of the file.                        *)
Written(s) ==
    IF run[s].step = "upsert" THEN Seen(run[s].content, ToUpsert(s) \ run[s].left)
                              ELSE {}

FirstLeft(s) == CHOOSE n \in run[s].left : \A m \in run[s].left : n <= m

(* s must wait for t: both insert the same snapshot, or t has written the   *)
(* row s upserts.                                                           *)
Waits(s, t) ==
    /\ s # t
    /\ run[t].step = "upsert"
    /\ \/ /\ run[s].step = "insert"
          /\ run[t].isNew
          /\ run[t].content = run[s].content
       \/ /\ run[s].step = "upsert"
          /\ run[s].left # {}
          /\ Rows[run[s].content][FirstLeft(s)] \in Written(t)

Free(s) == \A t \in Session : ~ Waits(s, t)

(* The unique key (content_checksum, adapter_version) of migration 002.     *)
InsertSnapshot(s) ==
    /\ run[s].step = "insert"
    /\ Free(s)
    /\ Check(s, run[s].content \notin DOMAIN snapshots, "upsert")

(* Mutant: autocommit, each upserted row is visible at once.                *)
UpsertAutocommit(s) ==
    /\ run[s].step = "upsert"
    /\ run[s].left # {}
    /\ Free(s)
    /\ products' = Cat!Upserted(run[s].content,
                                {Rows[run[s].content][FirstLeft(s)]}, run[s].policy)
    /\ run' = [run EXCEPT ![s].left = @ \ {FirstLeft(s)}]
    /\ UNCHANGED <<files, snapshots>>

UpsertObservation(s) ==
    /\ run[s].step = "upsert"
    /\ run[s].left # {}
    /\ Free(s)
    /\ run' = [run EXCEPT ![s].left = @ \ {FirstLeft(s)}]
    /\ UNCHANGED <<files, tables>>

Commit(s) ==
    /\ run[s].step = "upsert"
    /\ run[s].left = {}
    /\ snapshots' = IF run[s].isNew
                    THEN Put(snapshots, run[s].content,
                             [ns |-> Retail(s), observed |-> run[s].time])
                    ELSE snapshots
    /\ products' = Cat!Upserted(run[s].content, Written(s), run[s].policy)
    /\ run' = [run EXCEPT ![s] =
                  [run[s] EXCEPT !.step = "next", !.todo = Tail(@),
                                 !.results = @ \cup {<<Retail(s), run[s].content>>}]]
    /\ UNCHANGED files

(* Mutant: a retailer with a folder is taken as imported.                   *)
MissingFolders(s) == run[s].wanted \ DOMAIN files

(* still_missing: wanted minus the namespaces of the snapshots the imports  *)
(* returned.  Nothing missing is success, the rest raises.                  *)
Missing(s) == run[s].wanted \ {snapshots[x[2]].ns : x \in run[s].results}

AtEnd(s) == run[s].step = "next" /\ run[s].todo = <<>>

Finish(s) == AtEnd(s) /\ Raise(s)

(* Every other way to end: the process is killed, or the connection lost.   *)
Crash(s) == run[s] # NoRun /\ Raise(s)

(* Postgres ends a cycle of waits by aborting one of the transactions.      *)
InDeadlock(s) ==
    \E S \in SUBSET Session :
        /\ s \in S
        /\ \A t \in S : \E u \in S : Waits(t, u)
        /\ \A t \in S : \E u \in S : Waits(u, t)

AbortVictim(s) == InDeadlock(s) /\ Raise(s)
-----------------------------------------------------------------------------
Proceed(s) ==
    \/ Skip(s) \/ PickLatest(s) \/ GetPolicy(s) \/ GetSnapshot(s)
    \/ Commit(s) \/ Finish(s)

Write(s) == InsertSnapshot(s) \/ UpsertObservation(s)

Next ==
    \/ \E r \in Retailer : MakeFolder(r) \/ \E c \in Content : Publish(r, c)
    \/ \E s \in Session :
          \/ \E wanted \in Wanted, policy \in Policy, f \in Filter :
                Begin(s, wanted, policy, f)
          \/ Proceed(s) \/ Write(s) \/ Crash(s) \/ AbortVictim(s)

Spec == Init /\ [][Next]_vars

(* A process that runs gets its answers; Postgres queues the waiters of a   *)
(* row and looks for deadlocks among them.                                  *)
FairSpec ==
    /\ Spec
    /\ \A s \in Session :
          WF_vars(Proceed(s)) /\ SF_vars(Write(s)) /\ WF_vars(AbortVictim(s))
-----------------------------------------------------------------------------
TypeOK ==
    /\ DOMAIN files \subseteq Retailer
    /\ \A r \in DOMAIN files : files[r] \in Seq(Content) /\ Len(files[r]) <= MaxFiles
    /\ Cat!TypeOK
    /\ run \in [Session -> Run \cup {NoRun}]

(* Whatever overlaps, crashes or deadlocks: each commit is one whole import *)
(* of Catalog, and nothing else touches the tables.                         *)
Implements == Cat!Spec

(* What Catalog promises, of the committed tables.                          *)
(* The products of a retailer are known under one identity policy.          *)
OnePolicy == Cat!OnePolicy

(* A product's facts come from a registered file with one row for it.       *)
FactsWereObserved == Cat!FactsWereObserved

(* Snapshot rows and product ids, once committed, stay as they are.         *)
IdsAreStable == Cat!IdsAreStable

(* A run that ends without an error has imported every retailer it was      *)
(* asked for.  The runner concludes it from the namespaces of the snapshots *)
(* alone, which may be another retailer's.                                  *)
OkMeansImported ==
    \A s \in Session :
        AtEnd(s) /\ Missing(s) = {} =>
            \A r \in run[s].wanted : \E c \in Content :
                /\ <<r, c>> \in run[s].results
                /\ Seen(c, Matched(r, c, run[s].filter)) \subseteq DOMAIN products

(* "ValueError: If a requested retailer is unknown or has no CSV"           *)
(* (run_ingest): a retailer reported missing at the end was not imported.   *)
MissingMeansNotImported ==
    \A s \in Session :
        AtEnd(s) => \A x \in run[s].results : x[1] \notin Missing(s)

(* The facts of a product never go back to an older scrape.                 *)
NeverOlder ==
    [][\A i \in DOMAIN products :
          snapshots[products[i].snap].observed <= snapshots'[products'[i].snap].observed]_vars

(* Every run that was started ends, deadlocks included.                     *)
RunsEnd == \A s \in Session : run[s] # NoRun ~> run[s] = NoRun
=============================================================================
