--------------------------- MODULE ProductImport ---------------------------
(***************************************************************************)
(* The data importer: a process scans a directory for CSV files, reads each  *)
(* row by row, and upserts every BatchSize rows, and the rest of the file,   *)
(* in a transaction of one statement per row.  Several importers may run at  *)
(* once, and the discovery assigns categories meanwhile.                     *)
(***************************************************************************)
EXTENDS ProductRows, FiniteSets

CONSTANTS Importer, File, NoFile,
          Rows,         \* the rows of a file: [name, complete, price, unit]
          Broken,       \* files whose rows end in an error of the CSV parser
          Shop,         \* the supermarket in a file's path, or "unknown"
          Filter,       \* the values of --supermarket, "all" without it
          BatchSize,
          Category, NoCategory,
          Scenarios     \* what the directory holds, and who runs on it

Shops == {"migros", "lidl", "coop", "denner"}

ASSUME ImportAssumption ==
    /\ \A f \in File : Len(Rows[f]) \in Nat
    /\ Broken \subseteq File
    /\ BatchSize \in Nat \ {0}
    /\ \A s \in Scenarios :
          /\ s.files \subseteq File /\ IsFiniteSet(s.files)
          /\ s.importers \subseteq Importer /\ s.assigning \in BOOLEAN

(* What the patterns of parsePrice and extractUnit take for numbers.        *)
ASSUME RowsAssumption ==
    \A f \in File : \A j \in 1..Len(Rows[f]) :
        LET price == Rows[f][j].price
            label == Rows[f][j].unit
        IN  /\ price.form = "amount" => price.cents \in Int
            /\ label.form \in {"plain", "pack"} =>
                  /\ label.packs \in Nat /\ label.size \in Nat
                  /\ label.decimal \in Nat /\ label.whole \in Nat

VARIABLES products,     \* the committed table: key |-> [category, facts]
          scenario, imp

vars == <<products, scenario, imp>>

(* The product of each row.                                                 *)
Items ==
    [f \in File |-> [j \in 1..Len(Rows[f]) |->
        [key |-> <<Rows[f][j].name, Shop[f]>>, facts |-> Transform(Rows[f][j])]]]

Item == UNION {{Items[f][j] : j \in DOMAIN Items[f]} : f \in File}

Key == {item.key : item \in Item}

(* The rows from..to of a file that have a name and a url, by position: the *)
(* others are skipped.                                                      *)
Complete(f, from, to) == {j \in from..to : Rows[f][j].complete}

BatchOf(f, from, to) == [j \in Complete(f, from, to) |-> Items[f][j]]

(* A batch is BatchSize products long, or shorter at the end of the file.   *)
IsBatch(f, from, to) ==
    LET n == Cardinality(Complete(f, from, to))
    IN  n >= BatchSize \/ (n > 0 /\ to = Len(Rows[f]))

Batches(f) ==
    UNION {{BatchOf(f, from, to) : to \in {t \in from..Len(Rows[f]) : IsBatch(f, from, t)}} :
               from \in 1..Len(Rows[f])}

Batch == UNION {Batches(f) : f \in File}

Store == INSTANCE ProductStore
-----------------------------------------------------------------------------
Step == {"idle", "files", "rows", "upsert", "done", "failed"}

NoBatch == [left |-> {}, aborted |-> FALSE, inserted |-> 0, updated |-> 0, failed |-> 0]
NoStats == [processed |-> 0, total |-> 0, inserted |-> 0, updated |-> 0, failed |-> 0]

(* found: the files of the scan; todo: those not begun; file: the one being *)
(* read, up to pos, its batch from from; batch: the rows left and the       *)
(* counts of upsertBatch.                                                   *)
NoRun == [step |-> "idle", found |-> {}, todo |-> {}, file |-> NoFile, from |-> 1,
          pos |-> 1, batch |-> NoBatch, stats |-> NoStats]

Init ==
    /\ products = [k \in {} |-> NoCategory]
    /\ scenario \in Scenarios
    /\ imp = [i \in Importer |-> NoRun]

Reading(i) == imp[i].step \in {"rows", "upsert"}
Active(i) == imp[i].step \in {"files", "rows", "upsert"}

(* The span of the batch, and the batch.                                    *)
InBatch(i) == Complete(imp[i].file, imp[i].from, imp[i].pos - 1)
Current(i) == BatchOf(imp[i].file, imp[i].from, imp[i].pos - 1)
LastRow(i) == Len(Rows[imp[i].file])

(* Rows this transaction has written and not committed; a transaction that  *)
(* is aborted has let go of its own.                                        *)
Written(i) ==
    IF imp[i].step = "upsert" /\ ~ imp[i].batch.aborted
    THEN {Current(i)[j].key : j \in InBatch(i) \ imp[i].batch.left} ELSE {}

Keeps == UNCHANGED <<products, scenario>>
-----------------------------------------------------------------------------
(* main and scanDirectory: an unknown supermarket, or a directory that      *)
(* cannot be read, is exit code 1; no file is exit code 0.  The files come  *)
(* in the order of the directory, which is any.                             *)
Scanned(filter) == {f \in scenario.files : filter \in {"all", Shop[f]}}

Start(i, filter) ==
    /\ imp[i].step = "idle"
    /\ imp' = [imp EXCEPT ![i] =
          IF filter \notin Shops \cup {"all"} THEN [NoRun EXCEPT !.step = "failed"]
          ELSE [NoRun EXCEPT !.step = IF Scanned(filter) = {} THEN "done" ELSE "files",
                             !.found = Scanned(filter), !.todo = Scanned(filter)]]
    /\ Keeps

NextFile(i) ==
    /\ imp[i].step = "files"
    /\ \E f \in imp[i].todo :
          imp' = [imp EXCEPT ![i] =
                     [imp[i] EXCEPT !.step = "rows", !.file = f, !.from = 1, !.pos = 1,
                                    !.todo = @ \ {f}]]
    /\ Keeps

(* runImport returns: exit code 0, whatever has failed.                     *)
Finish(i) ==
    /\ imp[i].step = "files" /\ imp[i].todo = {}
    /\ imp' = [imp EXCEPT ![i].step = "done"]
    /\ Keeps

(* A row without a name or a url is skipped and counted as failed.          *)
ReadRow(i) ==
    /\ imp[i].step = "rows"
    /\ imp[i].pos <= LastRow(i)
    /\ Cardinality(InBatch(i)) < BatchSize
    /\ imp' = [imp EXCEPT ![i] =
          [imp[i] EXCEPT
              !.pos = @ + 1,
              !.stats.failed = IF Rows[imp[i].file][imp[i].pos].complete THEN @ ELSE @ + 1]]
    /\ Keeps

AtEnd(i) == imp[i].pos > LastRow(i) /\ imp[i].file \notin Broken

(* Mutant: what is left at the end of the file is not upserted.             *)
FullBatchOnly(i) == Cardinality(InBatch(i)) >= BatchSize

(* upsertBatch is called: the batch is full, or the last of its file.       *)
BatchIsDue(i) ==
    \/ Cardinality(InBatch(i)) >= BatchSize
    \/ AtEnd(i) /\ InBatch(i) # {}

(* The run is between two files.                                            *)
Between(r) ==
    [r EXCEPT !.step = "files", !.file = NoFile, !.from = 1, !.pos = 1,
              !.batch = NoBatch]

FileDone(i) ==
    /\ imp[i].step = "rows" /\ AtEnd(i) /\ ~ BatchIsDue(i)
    /\ imp' = [imp EXCEPT ![i] = [Between(imp[i]) EXCEPT !.stats.processed = @ + 1]]
    /\ Keeps

(* Mutant: the batch and the position outlive the file.                     *)
LeavesBatch(i) == imp' = [imp EXCEPT ![i].step = "files"]

(* Mutant: a file that failed is put back in the list.                      *)
LeavesFileForLater(i) ==
    imp' = [imp EXCEPT ![i] = [Between(imp[i]) EXCEPT !.todo = @ \cup {imp[i].file}]]

(* processFile throws: the batch is lost, runImport goes on.                *)
LeavesFile(i) == imp' = [imp EXCEPT ![i] = Between(@)]

(* The parser throws at what it cannot parse.                               *)
ParseFails(i) ==
    /\ imp[i].step = "rows" /\ imp[i].file \in Broken /\ ~ BatchIsDue(i)
    /\ LeavesFile(i)
    /\ Keeps
-----------------------------------------------------------------------------
(* pool.connect and BEGIN.                                                  *)
BeginBatch(i) ==
    /\ imp[i].step = "rows" /\ BatchIsDue(i)
    /\ imp' = [imp EXCEPT ![i] =
                  [imp[i] EXCEPT !.step = "upsert",
                                 !.batch = [NoBatch EXCEPT !.left = InBatch(i)]]]
    /\ Keeps

(* The row whose statement is next.                                         *)
IsNext(i, j) == j \in imp[i].batch.left /\ \A h \in imp[i].batch.left : j <= h

(* The CHECK on supermarket, and a price DECIMAL cannot hold.               *)
Refused(item) ==
    item.key[2] \notin Shops \/ item.facts.normalizedPrice = Infinite

RowFails(i, j) ==
    /\ imp' = [imp EXCEPT ![i].batch =
          [imp[i].batch EXCEPT !.left = @ \ {j}, !.failed = @ + 1, !.aborted = TRUE]]
    /\ Keeps

Blocks(q, item) == item.key \in Written(q)

(* The statement of a row: it fails when the transaction is aborted, and    *)
(* aborts it when the row is refused.                                       *)
FailRow(i) ==
    /\ imp[i].step = "upsert"
    /\ \E j \in InBatch(i) :
          /\ IsNext(i, j)
          /\ imp[i].batch.aborted \/ Refused(Current(i)[j])
          /\ RowFails(i, j)

(* xmax = 0: the key is in no row the statement sees.  It waits for a       *)
(* transaction that has written the key.                                    *)
UpsertRow(i) ==
    /\ imp[i].step = "upsert" /\ ~ imp[i].batch.aborted
    /\ \E j \in InBatch(i) :
          LET item == Current(i)[j]
              isNew == item.key \notin DOMAIN products \cup Written(i)
          IN  /\ IsNext(i, j) /\ ~ Refused(item)
              /\ \A q \in Importer \ {i} : ~ Blocks(q, item)
              /\ imp' = [imp EXCEPT ![i].batch =
                    [imp[i].batch EXCEPT !.left = @ \ {j},
                                         !.inserted = IF isNew THEN @ + 1 ELSE @,
                                         !.updated = IF isNew THEN @ ELSE @ + 1]]
    /\ Keeps

WaitsFor(i, q) ==
    /\ i # q /\ imp[i].step = "upsert" /\ ~ imp[i].batch.aborted
    /\ \E j \in InBatch(i) : IsNext(i, j) /\ ~ Refused(Current(i)[j])
                              /\ Blocks(q, Current(i)[j])

(* Postgres aborts one of the transactions that wait for each other.        *)
Deadlock(i) ==
    /\ \E S \in SUBSET Importer :
          i \in S /\ \A p \in S : \E q \in S : WaitsFor(p, q)
    /\ \E j \in InBatch(i) : IsNext(i, j) /\ RowFails(i, j)
-----------------------------------------------------------------------------
(* upsertBatch returns its counts.                                          *)
Returns(i, inserted, updated, failed) ==
    imp' = [imp EXCEPT ![i] =
        [imp[i] EXCEPT
            !.step = "rows", !.from = imp[i].pos, !.batch = NoBatch,
            !.stats = [imp[i].stats EXCEPT
                !.inserted = @ + inserted, !.updated = @ + updated, !.failed = @ + failed,
                !.total = @ + Cardinality(InBatch(i))]]]

(* Mutant: each row has a savepoint, so that the others stay.               *)
CommitRest(i) ==
    LET accepted == {j \in InBatch(i) : ~ Refused(Current(i)[j])}
    IN  /\ imp[i].step = "upsert" /\ imp[i].batch.left = {}
        /\ products' = Store!Upserted(products, [j \in accepted |-> Current(i)[j]])
        /\ Returns(i, imp[i].batch.inserted, imp[i].batch.updated, imp[i].batch.failed)
        /\ UNCHANGED scenario

(* COMMIT: of an aborted transaction it is a rollback, and no error.        *)
CommitBatch(i) ==
    /\ imp[i].step = "upsert" /\ imp[i].batch.left = {}
    /\ products' = IF imp[i].batch.aborted THEN products
                   ELSE Store!Upserted(products, Current(i))
    /\ Returns(i, imp[i].batch.inserted, imp[i].batch.updated, imp[i].batch.failed)
    /\ UNCHANGED scenario

(* BEGIN or COMMIT fails and ROLLBACK succeeds.                             *)
RollBack(i) ==
    /\ imp[i].step = "upsert"
    /\ imp[i].batch.left \in {{}, InBatch(i)}
    /\ Returns(i, 0, 0, Cardinality(InBatch(i)))
    /\ Keeps

(* No connection: pool.connect throws, or ROLLBACK does, and that is the    *)
(* file's end.  A COMMIT that was sent may have been done.                  *)
LoseConnection(i) ==
    /\ \/ imp[i].step = "rows" /\ BatchIsDue(i) /\ UNCHANGED products
       \/ imp[i].step = "upsert" /\ UNCHANGED products
       \/ /\ imp[i].step = "upsert" /\ imp[i].batch.left = {}
          /\ ~ imp[i].batch.aborted
          /\ products' = Store!Upserted(products, Current(i))
    /\ LeavesFile(i)
    /\ UNCHANGED scenario

(* The process is killed, or ended by an error nobody handles, as that of a  *)
(* file that cannot be opened or read, which pipe does not pass on to the    *)
(* parser: Postgres rolls its transaction back.                              *)
Kill(i) ==
    /\ Active(i)
    /\ imp' = [imp EXCEPT ![i] = [NoRun EXCEPT !.step = "failed"]]
    /\ Keeps

(* assignProducts of the discovery commits, as far as one product goes: it  *)
(* waits for an importer that has written the row.                          *)
Assign(k, c) ==
    /\ scenario.assigning
    /\ \A i \in Importer : k \notin Written(i)
    /\ Store!Assign(k, c)
    /\ UNCHANGED <<scenario, imp>>

(* What an importer does on its own.                                        *)
Works(i) ==
    \/ NextFile(i) \/ Finish(i) \/ ReadRow(i) \/ FileDone(i) \/ ParseFails(i)
    \/ BeginBatch(i) \/ FailRow(i) \/ CommitBatch(i)

Import(i) ==
    \/ \E filter \in Filter : Start(i, filter)
    \/ Works(i) \/ UpsertRow(i) \/ Deadlock(i)
    \/ RollBack(i) \/ LoseConnection(i) \/ Kill(i)

Next ==
    \/ \E i \in Importer : i \in scenario.importers /\ Import(i)
    \/ \E k \in Key, c \in Category : Assign(k, c)

Spec == Init /\ [][Next]_vars

(* The importer runs, the database answers it, and row locks are granted in *)
(* turn.                                                                    *)
ImportFair(i) ==
    WF_vars(Works(i)) /\ SF_vars(UpsertRow(i)) /\ WF_vars(Deadlock(i))

FairSpec == Spec /\ \A i \in Importer : ImportFair(i)
-----------------------------------------------------------------------------
Facts == {item.facts : item \in Item}
Batching == [left : SUBSET Nat, aborted : BOOLEAN, inserted : Nat, updated : Nat,
             failed : Nat]
Stats == [processed : Nat, total : Nat, inserted : Nat, updated : Nat, failed : Nat]

Run == [step : Step, found : SUBSET File, todo : SUBSET File, file : File \cup {NoFile},
        from : Nat, pos : Nat, batch : Batching, stats : Stats]

(* With the shape of every variable, where in its file an importer is: the  *)
(* batch is a span of it, and what is left to upsert is in the batch.       *)
TypeOK ==
    /\ DOMAIN products \subseteq Key
    /\ products \in [DOMAIN products ->
                        [category : Category \cup {NoCategory}, facts : Facts]]
    /\ scenario \in Scenarios
    /\ imp \in [Importer -> Run]
    /\ \A i \in Importer :
          Reading(i) => /\ imp[i].file \in imp[i].found \ imp[i].todo
                        /\ 1 <= imp[i].from /\ imp[i].from <= imp[i].pos
                        /\ imp[i].pos <= LastRow(i) + 1
                        /\ imp[i].batch.left \subseteq InBatch(i)

(* Whatever fails, overlaps or is killed, the table changes by whole        *)
(* batches, and by the categories others assign.                            *)
Implements == Store!Spec

(* An import that ends well and reports no failure has upserted every row   *)
(* of every file it found, and has counted each of them once.               *)
CleanReportIsTrue ==
    \A i \in Importer :
        LET stats == imp[i].stats
            rows == UNION {{f} \X (1..Len(Rows[f])) : f \in imp[i].found}
        IN  /\ imp[i].step = "done" /\ stats.failed = 0
            /\ stats.processed = Cardinality(imp[i].found)
            => /\ \A r \in rows : Items[r[1]][r[2]].key \in DOMAIN products
               /\ stats.inserted + stats.updated = Cardinality(rows)
               /\ stats.total = Cardinality(rows)

(* Of two stored products of a dimension whose labels the patterns read in   *)
(* full, the one that costs less for what its label says it contains has not *)
(* the higher normalized_price.  (False of a fraction of a count: 1.5 Stk at *)
(* 3.00 is stored at 0.60 per piece, 1 Stk at 1.00 at 1.00.)                 *)
CheaperIsNotDearer ==
    \A k, h \in DOMAIN products :
        LET a == products[k].facts
            b == products[h].facts
        IN  /\ Plain(a.label) /\ Plain(b.label)
            /\ a.normalized.unit = b.normalized.unit
            /\ a.price # Nothing /\ b.price # Nothing
            /\ a.price * Contents(b.label) < b.price * Contents(a.label)
            => a.normalizedPrice <= b.normalizedPrice

(* An import ends, with two importers that wait for each other's rows and   *)
(* with files that cannot be parsed.                                        *)
ImportsEnd == \A i \in Importer : Active(i) ~> ~ Active(i)

(* "Result containing counts of inserted, updated, and failed records": the *)
(* products an import that has ended counts as inserted are there.          *)
CountsMatchStore ==
    \A i \in Importer :
        imp[i].step = "done" => imp[i].stats.inserted <= Cardinality(DOMAIN products)
=============================================================================
