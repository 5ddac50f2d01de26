------------------------- MODULE CategoryDiscovery -------------------------
(***************************************************************************)
(* discover-categories: a CLI process reads the products of a filter, asks   *)
(* the LLM for categories, logs the execution, then stores the categories    *)
(* one by one and links them to the newest execution.  Every statement is    *)
(* committed on its own, but for assignProducts, which is a transaction of   *)
(* two UPDATEs at READ COMMITTED.                                            *)
(***************************************************************************)
EXTENDS LegacyTables, LlmClient

CONSTANT Filter         \* the product sets the operator's filters list

(* An element of the answer: a category name and the ids the model put in   *)
(* it, which nothing holds to the products it was asked about.              *)
ASSUME DiscoveryAssumption ==
    /\ \A a \in Answer : a.name \in Name
    /\ Filter \subseteq SUBSET Product

VARIABLES executions,   \* agent_executions in the order of created_at
          run           \* what each process is doing

discoveryVars == <<categoryOf, count, call, executions, run>>

Step == {"idle", "ask", "log_error", "find", "create", "assign", "commit",
         "latest", "link", "done", "failed"}
Ended == {"idle", "done", "failed"}

Active(p) == run[p].step \notin Ended

Run == [step : Step, asked : SUBSET Product, at : 1..(MaxAnswers + 1),
        left : SUBSET Product, counted : Nat, newest : Nat]
NoRun == [step |-> "idle", asked |-> {}, at |-> 1, left |-> {},
          counted |-> 0, newest |-> 0]

Execution == [status : {"success", "partial", "error"},
              asked : SUBSET Product, output : Seq(Answer), links : SUBSET Name]

InitDiscovery ==
    /\ InitTables /\ InitCall
    /\ executions = <<>>
    /\ run = [p \in Process |-> NoRun]

Output(p) == call[p].got
Current(p) == Output(p)[run[p].at]
(* The ids that are rows: an id the model made up matches none.             *)
Rows(p) == Current(p).products \cap Product
Named(p) == {Output(p)[i].name : i \in DOMAIN Output(p)}

Goto(p, step) == run' = [run EXCEPT ![p].step = step] /\ UNCHANGED call

(* The process exits: nothing of it is left but its exit code.              *)
Exit(p, step) ==
    /\ run' = [run EXCEPT ![p] = [NoRun EXCEPT !.step = step]]
    /\ call' = [call EXCEPT ![p] = NoCall]

Stored(e) == e.status # "error"
-----------------------------------------------------------------------------
(* getProductsByCategories: an empty result throws.                         *)
Begin(p, products) ==
    /\ run[p].step = "idle"
    /\ IF products = {}
       THEN Exit(p, "failed")
       ELSE /\ run' = [run EXCEPT ![p] =
                          [run[p] EXCEPT !.step = "ask", !.asked = products]]
            /\ UNCHANGED call
    /\ UNCHANGED <<legacyTables, executions>>

(* generateArray, from getAllCategories on, whose names only inform the     *)
(* prompt.                                                                  *)
Asking(p) == run[p].step = "ask" /\ UNCHANGED <<legacyTables, executions, run>>

AskOpen(p) == Asking(p) /\ Open(p)
AskProvider(p) == Asking(p) /\ Provider(p)
AskTimers(p) == Asking(p) /\ Timers(p)

NewExecution(p, status) ==
    [status |-> status, asked |-> run[p].asked,
     output |-> IF status = "error" THEN <<>> ELSE Output(p), links |-> {}]

(* The step after at elements are stored.                                   *)
NextElement(at, output) == IF at <= Len(output) THEN "find" ELSE "latest"

(* Mutant: an answer cut short is stored but not logged.                    *)
LogCompleteOnly(p) ==
    /\ run[p].step = "ask" /\ call[p].pc \in {"ok", "partial"}
    /\ executions' = IF call[p].pc = "ok"
                     THEN Append(executions, NewExecution(p, "success"))
                     ELSE executions
    /\ Goto(p, NextElement(1, Output(p)))
    /\ UNCHANGED legacyTables

LogExecution(p) ==
    /\ run[p].step = "ask" /\ call[p].pc \in {"ok", "partial"}
    /\ executions' = Append(executions,
           NewExecution(p, IF call[p].pc = "ok" THEN "success" ELSE "partial"))
    /\ Goto(p, NextElement(1, Output(p)))
    /\ UNCHANGED legacyTables

(* logExecution itself fails: the catch block logs that as an error.        *)
LogFails(p) ==
    /\ run[p].step = "ask" /\ call[p].pc \in {"ok", "partial"}
    /\ Goto(p, "log_error")
    /\ UNCHANGED <<legacyTables, executions>>

LogError(p) ==
    /\ \/ run[p].step = "ask" /\ call[p].pc = "threw"
       \/ run[p].step = "log_error"
    /\ executions' = Append(executions, NewExecution(p, "error"))
    /\ Exit(p, "failed")
    /\ UNCHANGED legacyTables
-----------------------------------------------------------------------------
(* The element is stored: on to the next, or to the link.                   *)
Advance(p) ==
    /\ run' = [run EXCEPT ![p] =
                  [run[p] EXCEPT !.at = @ + 1,
                                 !.step = NextElement(run[p].at + 1, Output(p)),
                                 !.left = {}, !.counted = 0]]
    /\ UNCHANGED call

(* The category row is there: assignProducts, unless no id was given.       *)
HaveCategory(p) ==
    IF Current(p).products = {}
    THEN Advance(p)
    ELSE /\ run' = [run EXCEPT ![p] =
                       [run[p] EXCEPT !.step = "assign", !.left = Rows(p)]]
         /\ UNCHANGED call

(* Mutant: a category found by name keeps the products it has.              *)
FindCategoryOnly(p) ==
    /\ run[p].step = "find"
    /\ IF Current(p).name \in Categories THEN Advance(p) ELSE Goto(p, "create")
    /\ UNCHANGED <<legacyTables, executions>>

(* Mutant: the category is taken to be there.                               *)
FindAssumed(p) ==
    /\ run[p].step = "find"
    /\ HaveCategory(p)
    /\ UNCHANGED <<legacyTables, executions>>

(* getCategoryByName                                                        *)
FindCategory(p) ==
    /\ run[p].step = "find"
    /\ IF Current(p).name \in Categories THEN HaveCategory(p) ELSE Goto(p, "create")
    /\ UNCHANGED <<legacyTables, executions>>

(* createCategory: the name another process has inserted since is a unique  *)
(* violation, which ends the run.                                           *)
CreateCategory(p) ==
    /\ run[p].step = "create"
    /\ IF Current(p).name \in Categories
       THEN Exit(p, "failed") /\ UNCHANGED count
       ELSE count' = Put(count, Current(p).name, 0) /\ HaveCategory(p)
    /\ UNCHANGED <<categoryOf, executions>>
-----------------------------------------------------------------------------
(* The product rows p's transaction has updated and not committed.          *)
Held(p) == IF run[p].step \in {"assign", "commit"} THEN Rows(p) \ run[p].left ELSE {}

Waits(p, q) == p # q /\ run[p].step = "assign" /\ run[p].left \cap Held(q) # {}

(* UPDATE products, row by row in the order the scan meets them: a row      *)
(* another transaction has updated is waited for.                           *)
TakeRow(p) ==
    /\ run[p].step = "assign"
    /\ \E x \in run[p].left :
          /\ \A q \in Process \ {p} : x \notin Held(q)
          /\ run' = [run EXCEPT ![p].left = @ \ {x}]
    /\ UNCHANGED <<legacyTables, call, executions>>

(* Mutant: the count is taken before the products are updated.              *)
CountFirst(p) ==
    /\ run[p].step = "assign" /\ run[p].left = {}
    /\ run' = [run EXCEPT ![p] =
                  [run[p] EXCEPT !.step = "commit",
                                 !.counted = Cardinality(Members(Current(p).name))]]
    /\ UNCHANGED <<legacyTables, call, executions>>

(* UPDATE categories: the COUNT sees what is committed and the              *)
(* transaction's own rows.  A wait for the category row after it does not   *)
(* count again, so the row's lock is left to the commit.                    *)
CountMembers(p) ==
    /\ run[p].step = "assign" /\ run[p].left = {}
    /\ run' = [run EXCEPT ![p] =
                  [run[p] EXCEPT !.step = "commit",
                                 !.counted = Cardinality(Members(Current(p).name) \cup Rows(p))]]
    /\ UNCHANGED <<legacyTables, call, executions>>

CommitAssign(p) ==
    /\ run[p].step = "commit"
    /\ categoryOf' = [x \in Product |->
           IF x \in Rows(p) THEN Current(p).name ELSE categoryOf[x]]
    /\ count' = [count EXCEPT ![Current(p).name] = run[p].counted]
    /\ Advance(p)
    /\ UNCHANGED executions

(* Postgres rolls back one of the transactions that wait for each other.    *)
Deadlock(p) ==
    /\ \E S \in SUBSET Process :
          p \in S /\ \A q \in S : \E t \in S : Waits(q, t)
    /\ Exit(p, "failed")
    /\ UNCHANGED <<legacyTables, executions>>
-----------------------------------------------------------------------------
(* Mutant: the oldest execution of the phase, not the newest.               *)
OldestExecution(p) ==
    /\ run[p].step = "latest"
    /\ IF Output(p) = <<>>
       THEN Exit(p, "done")
       ELSE /\ run' = [run EXCEPT ![p] = [run[p] EXCEPT !.step = "link", !.newest = 1]]
            /\ UNCHANGED call
    /\ UNCHANGED <<legacyTables, executions>>

(* getExecutionsByPhase(phase, 1): whichever process it is of.              *)
LatestExecution(p) ==
    /\ run[p].step = "latest"
    /\ IF Output(p) = <<>>
       THEN Exit(p, "done")
       ELSE /\ run' = [run EXCEPT ![p] =
                          [run[p] EXCEPT !.step = "link", !.newest = Len(executions)]]
            /\ UNCHANGED call
    /\ UNCHANGED <<legacyTables, executions>>

(* updateExecutionWithCategoryIds overwrites category_ids; its failure is   *)
(* swallowed.                                                               *)
Link(p) ==
    /\ run[p].step = "link"
    /\ \/ executions' = [executions EXCEPT ![run[p].newest].links = Named(p)]
       \/ UNCHANGED executions
    /\ Exit(p, "done")
    /\ UNCHANGED legacyTables

(* A statement fails, or the process is killed: the open transaction is     *)
(* rolled back and the process ends.                                        *)
Abort(p) ==
    /\ Active(p)
    /\ Exit(p, "failed")
    /\ UNCHANGED <<legacyTables, executions>>

Store(p) ==
    \/ FindCategory(p) \/ CreateCategory(p) \/ CountMembers(p) \/ CommitAssign(p)
    \/ LatestExecution(p) \/ Link(p)

Logs(p) == LogExecution(p) \/ LogError(p)

Discover(p) ==
    \/ \E products \in Filter : Begin(p, products)
    \/ AskOpen(p) \/ AskProvider(p) \/ AskTimers(p)
    \/ Logs(p) \/ LogFails(p) \/ Store(p) \/ TakeRow(p) \/ Deadlock(p) \/ Abort(p)

(* A process that runs gets its answers from the database, its timers fire, *)
(* row locks are granted in turn.  Of the provider nothing is assumed.      *)
DiscoveryFair(p) ==
    /\ WF_discoveryVars(AskOpen(p)) /\ WF_discoveryVars(AskTimers(p))
    /\ WF_discoveryVars(Logs(p)) /\ WF_discoveryVars(Store(p))
    /\ SF_discoveryVars(TakeRow(p)) /\ WF_discoveryVars(Deadlock(p))
=============================================================================
