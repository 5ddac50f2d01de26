------------------------ MODULE LegacyBackendProofs ------------------------
(***************************************************************************)
(* The legacy backend, for any number of processes, clients, products and    *)
(* retries.  The discovery first, then the registry and the page, which only *)
(* need to know that categories and executions are never taken away.         *)
(***************************************************************************)
EXTENDS LegacyBackend, FiniteSetTheorems, SequenceTheorems, WellFoundedInduction, TLAPS

(* A call has at most MaxAnswers elements and Retries attempts.             *)
CallOK(c) ==
    /\ c \in Call
    /\ Len(c.got) <= MaxAnswers
    /\ c.pc = "idle" => c.attempt = 0
    /\ c.pc = "backoff" => c.attempt < Retries

Storing == {"find", "create", "assign", "commit"}
Linking == {"latest", "link"}

(* The answer p stores is in the log.                                       *)
IsLogged(p) ==
    \E e \in DOMAIN executions :
        Stored(executions[e]) /\ executions[e].output = Output(p)

RunOK(p) ==
    /\ run[p] \in Run
    /\ run[p].step \in {"idle", "ask"} => run[p].at = 1
    /\ run[p].step \in Storing => run[p].at \in DOMAIN Output(p)
    /\ run[p].step \in {"assign", "commit"} => Current(p).name \in Categories
    /\ run[p].step \in Storing \cup Linking => IsLogged(p)

DiscoveryInv ==
    /\ TablesTyped
    /\ executions \in Seq(Execution)
    /\ call \in [Process -> Call] /\ \A p \in Process : CallOK(call[p])
    /\ run \in [Process -> Run] /\ \A p \in Process : RunOK(p)
    /\ EverythingStoredIsLogged

(* What no step takes back.                                                 *)
Grows ==
    /\ Categories \subseteq Categories'
    /\ \A e \in DOMAIN executions :
          /\ e \in DOMAIN executions'
          /\ executions'[e].status = executions[e].status
          /\ executions'[e].output = executions[e].output

LEMMA GrowsKeepsLogged ==
    ASSUME Grows
    PROVE  /\ \A n : LoggedCategory(n) => LoggedCategory(n)'
           /\ \A n, x : LoggedProduct(n, x) => LoggedProduct(n, x)'
           /\ \A p : IsLogged(p) /\ call'[p].got = call[p].got => IsLogged(p)'
<1>1. \A n : LoggedCategory(n) => LoggedCategory(n)'
  BY DEF Grows, LoggedCategory, Stored
<1>2. \A n, x : LoggedProduct(n, x) => LoggedProduct(n, x)'
  BY DEF Grows, LoggedProduct, Stored
<1>3. \A p : IsLogged(p) /\ call'[p].got = call[p].got => IsLogged(p)'
  BY DEF Grows, IsLogged, Stored, Output
<1>. QED  BY <1>1, <1>2, <1>3
-----------------------------------------------------------------------------
LEMMA InitDiscoveryInv == InitDiscovery => DiscoveryInv
<1>. SUFFICES ASSUME InitDiscovery PROVE DiscoveryInv
  OBVIOUS
<1>1. TablesTyped
  BY DEF InitDiscovery, InitTables, TablesTyped, Categories
<1>2. NoCall \in Call /\ CallOK(NoCall)
  <2>1. <<>> \in Seq(Answer) /\ Len(<<>>) = 0
    OBVIOUS
  <2>. QED  BY <2>1, LlmAssumption DEF NoCall, Call, Pc, CallOK
<1>3. NoRun \in Run
  BY LlmAssumption DEF NoRun, Run, Step
<1>4. \A p \in Process : RunOK(p)
  BY <1>3 DEF InitDiscovery, RunOK, Storing, Linking, NoRun
<1>5. EverythingStoredIsLogged
  BY DEF InitDiscovery, InitTables, EverythingStoredIsLogged, Categories
<1>. QED  BY <1>1, <1>2, <1>3, <1>4, <1>5 DEF InitDiscovery, InitCall, DiscoveryInv
-----------------------------------------------------------------------------
(* A step of p leaves the other processes as they are.                      *)
OnlyMoves(p) == \A q \in Process \ {p} : run'[q] = run[q] /\ call'[q] = call[q]

MovesWell(p) ==
    /\ run' \in [Process -> Run] /\ call' \in [Process -> Call]
    /\ OnlyMoves(p) /\ RunOK(p)' /\ CallOK(call'[p])

(* A process that moves well, while the tables only grow, keeps the          *)
(* invariant.                                                               *)
LEMMA MovesWellKeeps ==
    ASSUME DiscoveryInv, NEW p \in Process, MovesWell(p), Grows,
           TablesTyped', executions' \in Seq(Execution), EverythingStoredIsLogged'
    PROVE  DiscoveryInv'
<1>1. ASSUME NEW q \in Process PROVE RunOK(q)' /\ CallOK(call'[q])
  <2>1. CASE q = p
    BY <2>1 DEF MovesWell
  <2>2. CASE q # p
    <3>1. run'[q] = run[q] /\ call'[q] = call[q] /\ RunOK(q) /\ CallOK(call[q])
      BY <2>2 DEF MovesWell, OnlyMoves, DiscoveryInv
    <3>2. IsLogged(q) => IsLogged(q)'
      BY <3>1, GrowsKeepsLogged
    <3>. QED  BY <3>1, <3>2 DEF RunOK, Grows, Current, Output
  <2>. QED  BY <2>1, <2>2
<1>. QED  BY <1>1 DEF DiscoveryInv, MovesWell, CallOK

LEMMA NothingStored ==
    ASSUME DiscoveryInv, UNCHANGED <<legacyTables, executions>>
    PROVE  /\ Grows /\ TablesTyped' /\ executions' \in Seq(Execution)
           /\ EverythingStoredIsLogged'
<1>1. Grows /\ Categories' = Categories
  BY DEF Grows, legacyTables, Categories
<1>2. \A n, x : (LoggedCategory(n) => LoggedCategory(n)')
                /\ (LoggedProduct(n, x) => LoggedProduct(n, x)')
  BY <1>1, GrowsKeepsLogged
<1>3. EverythingStoredIsLogged'
  BY <1>1, <1>2 DEF DiscoveryInv, EverythingStoredIsLogged, legacyTables
<1>. QED  BY <1>1, <1>3 DEF DiscoveryInv, TablesTyped, legacyTables, Categories

LEMMA ExitMovesWell ==
    ASSUME DiscoveryInv, NEW p \in Process, NEW step \in Ended, Exit(p, step)
    PROVE  MovesWell(p)
<1>1. NoCall \in Call /\ CallOK(NoCall)
  <2>1. <<>> \in Seq(Answer) /\ Len(<<>>) = 0
    OBVIOUS
  <2>. QED  BY <2>1, LlmAssumption DEF NoCall, Call, Pc, CallOK
<1>2. [NoRun EXCEPT !.step = step] \in Run
  BY LlmAssumption DEF NoRun, Run, Step, Ended
<1>3. run'[p] = [NoRun EXCEPT !.step = step] /\ call'[p] = NoCall
  BY DEF Exit, DiscoveryInv
<1>4. run' \in [Process -> Run] /\ call' \in [Process -> Call] /\ OnlyMoves(p)
  BY <1>1, <1>2 DEF Exit, DiscoveryInv, OnlyMoves
<1>5. run'[p].step = step /\ run'[p].at = 1
  BY <1>3 DEF NoRun
<1>6. RunOK(p)'
  BY <1>2, <1>3, <1>5 DEF RunOK, Storing, Linking, Ended
<1>. QED  BY <1>1, <1>3, <1>4, <1>6 DEF MovesWell

(* To a step that holds nothing, or to one whose facts are at hand.         *)
LEMMA RunMovesWell ==
    ASSUME DiscoveryInv, NEW p \in Process, NEW r \in Run,
           run' = [run EXCEPT ![p] = r], UNCHANGED call, RunOK(p)'
    PROVE  MovesWell(p)
BY DEF DiscoveryInv, MovesWell, OnlyMoves
-----------------------------------------------------------------------------
(* The call of p moves: what an attempt, an answer, a failure leave.        *)
CallMoves(p) ==
    /\ call' \in [Process -> Call]
    /\ \A q \in Process \ {p} : call'[q] = call[q]
    /\ CallOK(call'[p])

LEMMA GotoOK ==
    ASSUME DiscoveryInv, NEW p \in Process, NEW pc \in Pc \ {"idle", "backoff"},
           CallGoto(p, pc)
    PROVE  CallMoves(p)
<1>1. call[p] \in Call /\ CallOK(call[p])
  BY DEF DiscoveryInv
<1>2. [call[p] EXCEPT !.pc = pc] \in Call /\ CallOK([call[p] EXCEPT !.pc = pc])
  BY <1>1 DEF Call, CallOK
<1>3. call' = [call EXCEPT ![p] = [call[p] EXCEPT !.pc = pc]]
  BY DEF CallGoto
<1>. QED  BY <1>2, <1>3 DEF DiscoveryInv, CallMoves

LEMMA ReturnsOK ==
    ASSUME DiscoveryInv, NEW p \in Process, NEW pc \in Pc \ {"backoff"}, Returns(p, pc)
    PROVE  CallMoves(p)
<1> DEFINE c == [call[p] EXCEPT !.pc = pc, !.attempt = 0]
<1>1. call[p] \in Call /\ CallOK(call[p])
  BY DEF DiscoveryInv
<1>2. c \in Call /\ CallOK(c)
  <2>1. 0 \in 0..Retries
    BY LlmAssumption
  <2>2. c \in Call
    BY <1>1, <2>1 DEF Call
  <2>3. c.pc # "backoff" /\ c.attempt = 0 /\ c.got = call[p].got
    BY <1>1 DEF Call
  <2>. QED  BY <1>1, <2>2, <2>3 DEF CallOK
<1>3. call' = [call EXCEPT ![p] = c]
  BY DEF Returns, DiscoveryInv
<1>. HIDE DEF c
<1>. QED  BY <1>2, <1>3 DEF DiscoveryInv, CallMoves

LEMMA AttemptOK ==
    ASSUME DiscoveryInv, NEW p \in Process, call[p].attempt < Retries, Attempt(p)
    PROVE  CallMoves(p)
<1> DEFINE c == [pc |-> "stream", attempt |-> call[p].attempt + 1, got |-> <<>>]
<1>1. call[p] \in Call /\ CallOK(call[p])
  BY DEF DiscoveryInv
<1>2. c.attempt \in 0..Retries
  BY <1>1, LlmAssumption DEF Call
<1>3. <<>> \in Seq(Answer) /\ Len(<<>>) = 0
  OBVIOUS
<1>4. c \in Call /\ CallOK(c)
  BY <1>2, <1>3, LlmAssumption DEF Call, CallOK, Pc
<1>5. call' = [call EXCEPT ![p] = c]
  BY DEF Attempt
<1>. HIDE DEF c
<1>. QED  BY <1>4, <1>5 DEF DiscoveryInv, CallMoves

LEMMA CaughtOK ==
    ASSUME DiscoveryInv, NEW p \in Process, NEW transient \in BOOLEAN, Caught(p, transient)
    PROVE  CallMoves(p)
<1>1. CASE CallGoto(p, "salvage")
  BY <1>1, GotoOK DEF Pc
<1>2. CASE Returns(p, "threw")
  BY <1>2, ReturnsOK DEF Pc
<1>3. CASE call[p].attempt < Retries /\ CallGoto(p, "backoff")
  <2>1. call[p] \in Call /\ CallOK(call[p])
    BY DEF DiscoveryInv
  <2>2. /\ [call[p] EXCEPT !.pc = "backoff"] \in Call
        /\ CallOK([call[p] EXCEPT !.pc = "backoff"])
    BY <1>3, <2>1 DEF Call, CallOK, Pc
  <2>3. call' = [call EXCEPT ![p] = [call[p] EXCEPT !.pc = "backoff"]]
    BY <1>3 DEF CallGoto
  <2>. QED  BY <2>2, <2>3 DEF DiscoveryInv, CallMoves
<1>. QED  BY <1>1, <1>2, <1>3 DEF Caught

LEMMA ReceiveOK ==
    ASSUME DiscoveryInv, NEW p \in Process, NEW a \in Answer, Receive(p, a)
    PROVE  CallMoves(p)
<1> DEFINE c == [call[p] EXCEPT !.got = Append(call[p].got, a)]
<1>1. call[p] \in Call /\ CallOK(call[p])
  BY DEF DiscoveryInv
<1>2. c.got \in Seq(Answer) /\ Len(c.got) <= MaxAnswers /\ c.pc = "stream"
  BY <1>1, LlmAssumption DEF Receive, Call
<1>3. c \in Call /\ CallOK(c)
  BY <1>1, <1>2 DEF Call, CallOK, Pc
<1>4. call' = [call EXCEPT ![p] = c]
  BY DEF Receive
<1>. HIDE DEF c
<1>. QED  BY <1>3, <1>4 DEF DiscoveryInv, CallMoves

LEMMA CallSteps ==
    ASSUME DiscoveryInv, NEW p \in Process, Open(p) \/ Provider(p) \/ Timers(p)
    PROVE  CallMoves(p)
<1>0. CallOK(call[p]) /\ call[p] \in Call
  BY DEF DiscoveryInv
<1>1. CASE Open(p)
  <2>1. call[p].attempt < Retries
    BY <1>0, <1>1, LlmAssumption DEF Open, CallOK
  <2>. QED  BY <1>1, <2>1, AttemptOK, ReturnsOK DEF Open, Pc
<1>2. CASE \E a \in Answer : Receive(p, a)
  BY <1>2, ReceiveOK
<1>3. CASE StreamEnds(p) \/ Resolve(p) \/ Salvage(p)
  BY <1>3, GotoOK, ReturnsOK DEF StreamEnds, Resolve, Salvage, Pc
<1>4. CASE Fails(p) \/ TimesOut(p)
  BY <1>4, CaughtOK DEF Fails, TimesOut
<1>5. CASE Retry(p)
  BY <1>0, <1>5, AttemptOK DEF Retry, CallOK
<1>. QED  BY <1>1, <1>2, <1>3, <1>4, <1>5 DEF Provider, Timers

LEMMA AskKeeps ==
    ASSUME DiscoveryInv, NEW p \in Process, AskOpen(p) \/ AskProvider(p) \/ AskTimers(p)
    PROVE  DiscoveryInv' /\ Grows
<1>1. CallMoves(p) /\ Asking(p)
  BY CallSteps DEF AskOpen, AskProvider, AskTimers
<1>2. RunOK(p)'
  BY <1>1 DEF Asking, RunOK, Storing, Linking, DiscoveryInv
<1>3. MovesWell(p)
  BY <1>1, <1>2 DEF MovesWell, CallMoves, OnlyMoves, Asking, DiscoveryInv
<1>4. UNCHANGED <<legacyTables, executions>>
  BY <1>1 DEF Asking
<1>. QED  BY <1>3, <1>4, NothingStored, MovesWellKeeps
-----------------------------------------------------------------------------
(* Where a run goes on to.                                                  *)
LEMMA GotoMovesWell ==
    ASSUME DiscoveryInv, NEW p \in Process, NEW step \in Step, Goto(p, step),
           step \notin {"idle", "ask", "assign", "commit"},
           step \in Storing => run[p].at \in DOMAIN Output(p),
           step \in Storing \cup Linking => IsLogged(p)'
    PROVE  MovesWell(p)
<1>1. run[p] \in Run
  BY DEF DiscoveryInv
<1> DEFINE r == [run[p] EXCEPT !.step = step]
<1>2. r \in Run /\ r.step = step /\ r.at = run[p].at
  BY <1>1 DEF Run
<1>3. run' = [run EXCEPT ![p] = r] /\ call' = call
  BY DEF Goto
<1>. HIDE DEF r
<1>4. run'[p] = r
  BY <1>3 DEF DiscoveryInv
<1>5. RunOK(p)'
  BY <1>2, <1>3, <1>4 DEF RunOK, Output
<1>. QED  BY <1>2, <1>3, <1>5, RunMovesWell

LEMMA OutputTyped ==
    ASSUME DiscoveryInv, NEW p \in Process
    PROVE  /\ Output(p) \in Seq(Answer) /\ Len(Output(p)) <= MaxAnswers
           /\ DOMAIN Output(p) = 1..Len(Output(p)) /\ Len(Output(p)) \in Nat
           /\ run[p].at \in Nat \ {0}
<1>1. CallOK(call[p]) /\ run[p] \in Run
  BY DEF DiscoveryInv
<1>2. Output(p) \in Seq(Answer) /\ Len(Output(p)) <= MaxAnswers
  BY <1>1 DEF CallOK, Call, Output
<1>3. run[p].at \in Nat \ {0}
  BY <1>1, LlmAssumption DEF Run
<1>. QED  BY <1>2, <1>3

LEMMA AdvanceMovesWell ==
    ASSUME DiscoveryInv, NEW p \in Process, Advance(p),
           run[p].at \in DOMAIN Output(p), IsLogged(p)'
    PROVE  MovesWell(p)
<1> DEFINE r == [run[p] EXCEPT !.at = run[p].at + 1,
                               !.step = NextElement(run[p].at + 1, Output(p)),
                               !.left = {}, !.counted = 0]
<1>1. run[p] \in Run
  BY DEF DiscoveryInv
<1>2. run[p].at + 1 \in 1..(MaxAnswers + 1)
  BY OutputTyped, LlmAssumption
<1>3. /\ NextElement(run[p].at + 1, Output(p)) \in {"find", "latest"}
      /\ NextElement(run[p].at + 1, Output(p)) = "find" =>
             run[p].at + 1 \in DOMAIN Output(p)
  BY OutputTyped DEF NextElement
<1>4. r \in Run
  BY <1>1, <1>2, <1>3 DEF Run, Step
<1>5. r.at = run[p].at + 1 /\ r.step = NextElement(run[p].at + 1, Output(p))
  BY <1>1 DEF Run
<1>6. run' = [run EXCEPT ![p] = r] /\ call' = call
  BY DEF Advance, DiscoveryInv
<1>. HIDE DEF r
<1>7. run'[p] = r
  BY <1>6 DEF DiscoveryInv
<1>8. RunOK(p)'
  BY <1>3, <1>4, <1>5, <1>6, <1>7 DEF RunOK, Storing, Linking, Output
<1>. QED  BY <1>4, <1>6, <1>8, RunMovesWell

LEMMA HaveCategoryMovesWell ==
    ASSUME DiscoveryInv, NEW p \in Process, HaveCategory(p),
           run[p].at \in DOMAIN Output(p), IsLogged(p)', Current(p).name \in Categories'
    PROVE  MovesWell(p)
<1>1. CASE Current(p).products = {}
  BY <1>1, AdvanceMovesWell DEF HaveCategory
<1>2. CASE Current(p).products # {}
  <2> DEFINE r == [run[p] EXCEPT !.step = "assign", !.left = Rows(p)]
  <2>1. run[p] \in Run
    BY DEF DiscoveryInv
  <2>2. r \in Run
    BY <2>1 DEF Run, Step, Rows
  <2>3. r.step = "assign" /\ r.at = run[p].at
    BY <2>1 DEF Run
  <2>4. run' = [run EXCEPT ![p] = r] /\ call' = call
    BY <1>2 DEF HaveCategory, DiscoveryInv
  <2>. HIDE DEF r
  <2>5. run'[p] = r
    BY <2>4 DEF DiscoveryInv
  <2>6. RunOK(p)'
    BY <2>2, <2>3, <2>4, <2>5 DEF RunOK, Storing, Linking, Output, Current
  <2>. QED  BY <2>2, <2>4, <2>6, RunMovesWell
<1>. QED  BY <1>1, <1>2
-----------------------------------------------------------------------------
(* One lemma per action of a discovery that is more than its call.          *)
LEMMA EndKeeps ==
    ASSUME DiscoveryInv, NEW p \in Process, NEW step \in Ended, Exit(p, step),
           UNCHANGED <<legacyTables, executions>>
    PROVE  DiscoveryInv' /\ Grows
BY ExitMovesWell, NothingStored, MovesWellKeeps

LEMMA BeginKeeps ==
    ASSUME DiscoveryInv, NEW p \in Process, NEW products \in Filter, Begin(p, products)
    PROVE  DiscoveryInv' /\ Grows
<1>1. CASE products = {}
  BY <1>1, EndKeeps DEF Begin, Ended
<1>2. CASE products # {}
  <2> DEFINE r == [run[p] EXCEPT !.step = "ask", !.asked = products]
  <2>1. run[p] \in Run
    BY DEF DiscoveryInv
  <2>2. r \in Run /\ r.step = "ask" /\ r.at = 1
    BY <2>1, DiscoveryAssumption DEF Run, Step, Begin, RunOK, DiscoveryInv
  <2>3. run' = [run EXCEPT ![p] = r] /\ call' = call
    BY <1>2 DEF Begin, DiscoveryInv
  <2>. HIDE DEF r
  <2>4. run'[p] = r
    BY <2>3 DEF DiscoveryInv
  <2>5. RunOK(p)'
    BY <2>2, <2>4 DEF RunOK, Storing, Linking
  <2>. QED  BY <2>2, <2>3, <2>5, RunMovesWell, NothingStored, MovesWellKeeps DEF Begin
<1>. QED  BY <1>1, <1>2

(* The execution is appended, and none before it changes.                   *)
LEMMA AppendGrows ==
    ASSUME DiscoveryInv, NEW e \in Execution, executions' = Append(executions, e),
           UNCHANGED legacyTables
    PROVE  /\ Grows /\ TablesTyped' /\ executions' \in Seq(Execution)
           /\ EverythingStoredIsLogged'
           /\ Len(executions) + 1 \in DOMAIN executions'
           /\ executions'[Len(executions) + 1] = e
<1>1. executions \in Seq(Execution)
  BY DEF DiscoveryInv
<1>2. Categories' = Categories
  BY DEF legacyTables, Categories
<1>3. /\ Grows /\ executions' \in Seq(Execution)
      /\ Len(executions) + 1 \in DOMAIN executions'
      /\ executions'[Len(executions) + 1] = e
  BY <1>1, <1>2 DEF Grows
<1>4. \A n, x : (LoggedCategory(n) => LoggedCategory(n)')
                /\ (LoggedProduct(n, x) => LoggedProduct(n, x)')
  BY <1>3, GrowsKeepsLogged
<1>5. EverythingStoredIsLogged'
  BY <1>2, <1>4 DEF DiscoveryInv, EverythingStoredIsLogged, legacyTables
<1>. QED  BY <1>3, <1>5 DEF DiscoveryInv, TablesTyped, legacyTables, Categories

LEMMA NewExecutionTyped ==
    ASSUME DiscoveryInv, NEW p \in Process, NEW status \in {"success", "partial", "error"}
    PROVE  NewExecution(p, status) \in Execution
<1>1. run[p].asked \in SUBSET Product
  BY DEF DiscoveryInv, Run
<1>2. Output(p) \in Seq(Answer) /\ <<>> \in Seq(Answer)
  BY OutputTyped
<1>. QED  BY <1>1, <1>2 DEF NewExecution, Execution

LEMMA LogExecutionKeeps ==
    ASSUME DiscoveryInv, NEW p \in Process, LogExecution(p)
    PROVE  DiscoveryInv' /\ Grows
<1>1. PICK status \in {"success", "partial"} :
         executions' = Append(executions, NewExecution(p, status))
  BY DEF LogExecution
<1> DEFINE e == NewExecution(p, status)
<1>2. e \in Execution /\ Stored(e) /\ e.output = Output(p)
  BY NewExecutionTyped DEF NewExecution, Stored
<1>. HIDE DEF e
<1>3. executions' = Append(executions, e) /\ UNCHANGED legacyTables
  BY <1>1 DEF e, LogExecution
<1>4. /\ Grows /\ TablesTyped' /\ executions' \in Seq(Execution)
      /\ EverythingStoredIsLogged'
      /\ \E i \in DOMAIN executions' : executions'[i] = e
  BY <1>2, <1>3, AppendGrows
<1>5. Goto(p, NextElement(1, Output(p)))
  BY DEF LogExecution
<1>6. Output(p)' = Output(p)
  BY <1>5 DEF Goto, Output
<1>7. IsLogged(p)'
  BY <1>2, <1>4, <1>6 DEF IsLogged, Stored
<1>8. /\ NextElement(1, Output(p)) \in {"find", "latest"}
      /\ NextElement(1, Output(p)) = "find" => Len(Output(p)) >= 1
  BY DEF NextElement
<1>9. run[p].at = 1
  BY DEF RunOK, DiscoveryInv, LogExecution
<1>10. NextElement(1, Output(p)) = "find" => run[p].at \in DOMAIN Output(p)
  BY <1>8, <1>9, OutputTyped
<1>11. MovesWell(p)
  BY <1>5, <1>7, <1>8, <1>10, GotoMovesWell DEF Step, Storing, Linking
<1>. QED  BY <1>4, <1>11, MovesWellKeeps

LEMMA LogErrorKeeps ==
    ASSUME DiscoveryInv, NEW p \in Process, LogError(p)
    PROVE  DiscoveryInv' /\ Grows
<1> DEFINE e == NewExecution(p, "error")
<1>1. e \in Execution
  BY NewExecutionTyped
<1>2. executions' = Append(executions, e) /\ UNCHANGED legacyTables /\ Exit(p, "failed")
  BY DEF LogError
<1>. HIDE DEF e
<1>. QED  BY <1>1, <1>2, AppendGrows, ExitMovesWell, MovesWellKeeps DEF Ended
LEMMA LogFailsKeeps ==
    ASSUME DiscoveryInv, NEW p \in Process, LogFails(p)
    PROVE  DiscoveryInv' /\ Grows
BY GotoMovesWell, NothingStored, MovesWellKeeps DEF LogFails, Step, Storing, Linking

(* In a storing step p has its element and its log.                         *)
LEMMA StoringFacts ==
    ASSUME DiscoveryInv, NEW p \in Process, run[p].step \in Storing
    PROVE  /\ run[p].at \in DOMAIN Output(p)
           /\ IsLogged(p)
           /\ Current(p).name \in Name
           /\ LoggedCategory(Current(p).name)
           /\ \A x \in Rows(p) : LoggedProduct(Current(p).name, x)
           /\ run[p].step \in {"assign", "commit"} => Current(p).name \in Categories
<1>1. RunOK(p)
  BY DEF DiscoveryInv
<1>2. run[p].at \in DOMAIN Output(p) /\ IsLogged(p)
  BY <1>1 DEF RunOK
<1>3. Current(p) \in Answer
  BY <1>2, OutputTyped DEF Current
<1>4. PICK e \in DOMAIN executions :
         Stored(executions[e]) /\ executions[e].output = Output(p)
  BY <1>2 DEF IsLogged
<1>5. LoggedCategory(Current(p).name)
  BY <1>2, <1>4 DEF LoggedCategory, Current
<1>6. \A x \in Rows(p) : LoggedProduct(Current(p).name, x)
  BY <1>2, <1>4 DEF LoggedProduct, Current, Rows
<1>. QED  BY <1>1, <1>2, <1>3, <1>5, <1>6, DiscoveryAssumption DEF RunOK

LEMMA FindCategoryKeeps ==
    ASSUME DiscoveryInv, NEW p \in Process, FindCategory(p)
    PROVE  DiscoveryInv' /\ Grows
<1>1. run[p].step \in Storing /\ UNCHANGED <<legacyTables, executions>>
  BY DEF FindCategory, Storing
<1>2. Grows /\ TablesTyped' /\ executions' \in Seq(Execution) /\ EverythingStoredIsLogged'
  BY <1>1, NothingStored
<1>3. call' = call /\ IsLogged(p)'
  <2>1. call' = call
    BY DEF FindCategory, HaveCategory, Advance, Goto
  <2>. QED  BY <1>1, <1>2, <2>1, StoringFacts, GrowsKeepsLogged
<1>4. CASE Current(p).name \in Categories
  BY <1>1, <1>2, <1>3, <1>4, StoringFacts, HaveCategoryMovesWell, MovesWellKeeps
  DEF FindCategory, Grows
<1>5. CASE Current(p).name \notin Categories
  BY <1>1, <1>2, <1>3, <1>5, StoringFacts, GotoMovesWell, MovesWellKeeps
  DEF FindCategory, Storing, Step
<1>. QED  BY <1>4, <1>5

LEMMA CreateCategoryKeeps ==
    ASSUME DiscoveryInv, NEW p \in Process, CreateCategory(p)
    PROVE  DiscoveryInv' /\ Grows
<1>1. run[p].step \in Storing /\ UNCHANGED <<categoryOf, executions>>
  BY DEF CreateCategory, Storing
<1>2. CASE Current(p).name \in Categories
  BY <1>2, EndKeeps DEF CreateCategory, Ended, legacyTables
<1>3. CASE Current(p).name \notin Categories
  <2>1. count' = Put(count, Current(p).name, 0) /\ HaveCategory(p)
    BY <1>3 DEF CreateCategory
  <2>2. /\ Categories' = Categories \cup {Current(p).name}
        /\ count' \in [Categories' -> Nat]
    BY <2>1 DEF Put, Categories, DiscoveryInv, TablesTyped
  <2>3. Grows
    BY <1>1, <2>2 DEF Grows
  <2>4. TablesTyped'
    BY <1>1, <2>2, StoringFacts DEF DiscoveryInv, TablesTyped
  <2>5. \A n, x : (LoggedCategory(n) => LoggedCategory(n)')
                  /\ (LoggedProduct(n, x) => LoggedProduct(n, x)')
    BY <2>3, GrowsKeepsLogged
  <2>6. EverythingStoredIsLogged'
    BY <1>1, <2>2, <2>5, StoringFacts DEF DiscoveryInv, EverythingStoredIsLogged
  <2>7. call' = call
    BY <2>1 DEF HaveCategory, Advance
  <2>8. IsLogged(p)'
    BY <1>1, <2>3, <2>7, StoringFacts, GrowsKeepsLogged
  <2>9. MovesWell(p)
    BY <1>1, <2>1, <2>2, <2>8, StoringFacts, HaveCategoryMovesWell
  <2>. QED  BY <1>1, <2>3, <2>4, <2>6, <2>9, MovesWellKeeps DEF DiscoveryInv
<1>. QED  BY <1>2, <1>3

(* Inside the transaction of assignProducts.                                *)
LEMMA AssigningKeeps ==
    ASSUME DiscoveryInv, NEW p \in Process, TakeRow(p) \/ CountMembers(p)
    PROVE  DiscoveryInv' /\ Grows
<1>1. /\ run[p].step \in {"assign", "commit"} /\ run[p].step \in Storing
      /\ UNCHANGED <<legacyTables, executions>> /\ call' = call
  BY DEF TakeRow, CountMembers, Storing
<1>2. Grows /\ TablesTyped' /\ executions' \in Seq(Execution) /\ EverythingStoredIsLogged'
  BY <1>1, NothingStored
<1>3. run[p] \in Run
  BY DEF DiscoveryInv
<1>4. PICK r \in Run : /\ run' = [run EXCEPT ![p] = r]
                       /\ r.step \in {"assign", "commit"} /\ r.at = run[p].at
  <2>1. ASSUME NEW x \in run[p].left, run' = [run EXCEPT ![p].left = @ \ {x}],
               run[p].step = "assign"
        PROVE  \E r \in Run : /\ run' = [run EXCEPT ![p] = r]
                              /\ r.step \in {"assign", "commit"} /\ r.at = run[p].at
    <3> DEFINE r == [run[p] EXCEPT !.left = run[p].left \ {x}]
    <3>1. r \in Run /\ r.step = "assign" /\ r.at = run[p].at
      BY <1>3, <2>1 DEF Run
    <3>2. run' = [run EXCEPT ![p] = r]
      BY <2>1
    <3>. QED  BY <3>1, <3>2
  <2>2. CASE CountMembers(p)
    <3> DEFINE k == Cardinality(Members(Current(p).name) \cup Rows(p))
               r == [run[p] EXCEPT !.step = "commit", !.counted = k]
    <3>1. k \in Nat
      <4>1. IsFiniteSet(Members(Current(p).name) \cup Rows(p))
        BY LegacyTablesAssumption, FS_Subset DEF Members, Rows
      <4>. QED  BY <4>1, FS_CardinalityType
    <3>. HIDE DEF k
    <3>2. r \in Run /\ r.step = "commit" /\ r.at = run[p].at
      BY <1>3, <3>1 DEF Run, Step
    <3>3. run' = [run EXCEPT ![p] = r]
      BY <2>2 DEF CountMembers, k, DiscoveryInv
    <3>. QED  BY <3>2, <3>3
  <2>. QED  BY <2>1, <2>2 DEF TakeRow
<1>5. run'[p] = r /\ IsLogged(p)'
  BY <1>1, <1>2, <1>4, StoringFacts, GrowsKeepsLogged DEF DiscoveryInv
<1>6. RunOK(p)'
  BY <1>1, <1>2, <1>4, <1>5, StoringFacts DEF RunOK, Output, Current, Grows
<1>. QED  BY <1>1, <1>2, <1>4, <1>6, RunMovesWell, MovesWellKeeps
LEMMA CommitAssignKeeps ==
    ASSUME DiscoveryInv, NEW p \in Process, CommitAssign(p)
    PROVE  DiscoveryInv' /\ Grows
<1>1. run[p].step \in Storing /\ run[p].step = "commit" /\ UNCHANGED executions
  BY DEF CommitAssign, Storing
<1>2. /\ Current(p).name \in Categories
      /\ categoryOf' = [x \in Product |->
             IF x \in Rows(p) THEN Current(p).name ELSE categoryOf[x]]
      /\ count' = [count EXCEPT ![Current(p).name] = run[p].counted]
      /\ Advance(p)
  BY <1>1, StoringFacts DEF CommitAssign
<1>3. run[p].counted \in Nat
  BY DEF DiscoveryInv, Run
<1>4. Categories' = Categories /\ TablesTyped'
  <2>1. Categories' = Categories /\ count' \in [Categories -> Nat]
    BY <1>2, <1>3 DEF DiscoveryInv, TablesTyped, Categories
  <2>2. categoryOf' \in [Product -> Categories \cup {NoCategory}]
    BY <1>2 DEF DiscoveryInv, TablesTyped
  <2>. QED  BY <2>1, <2>2 DEF DiscoveryInv, TablesTyped
<1>5. Grows
  BY <1>1, <1>4 DEF Grows
<1>6. \A n, x : (LoggedCategory(n) => LoggedCategory(n)')
                /\ (LoggedProduct(n, x) => LoggedProduct(n, x)')
  BY <1>5, GrowsKeepsLogged
<1>7. EverythingStoredIsLogged'
  <2>1. \A n \in Categories' : LoggedCategory(n)'
    BY <1>4, <1>6 DEF DiscoveryInv, EverythingStoredIsLogged
  <2>2. ASSUME NEW x \in Product, NEW n, n = categoryOf'[x], n # NoCategory
        PROVE  LoggedProduct(n, x)'
    <3>1. CASE x \in Rows(p)
      BY <1>1, <1>2, <1>6, <2>2, <3>1, StoringFacts
    <3>2. CASE x \notin Rows(p)
      BY <1>2, <1>6, <2>2, <3>2 DEF DiscoveryInv, EverythingStoredIsLogged
    <3>. QED  BY <3>1, <3>2
  <2>. QED  BY <2>1, <2>2 DEF EverythingStoredIsLogged, LoggedProduct
<1>8. call' = call
  BY <1>2 DEF Advance
<1>9. MovesWell(p)
  BY <1>1, <1>2, <1>5, <1>8, StoringFacts, GrowsKeepsLogged, AdvanceMovesWell
<1>. QED  BY <1>1, <1>4, <1>5, <1>7, <1>9, MovesWellKeeps DEF DiscoveryInv

LEMMA LatestExecutionKeeps ==
    ASSUME DiscoveryInv, NEW p \in Process, LatestExecution(p)
    PROVE  DiscoveryInv' /\ Grows
<1>1. CASE Output(p) = <<>>
  BY <1>1, EndKeeps DEF LatestExecution, Ended
<1>2. CASE Output(p) # <<>>
  <2> DEFINE r == [run[p] EXCEPT !.step = "link", !.newest = Len(executions)]
  <2>1. run[p] \in Run /\ executions \in Seq(Execution) /\ RunOK(p)
    BY DEF DiscoveryInv
  <2>2. r \in Run /\ r.step = "link"
    <3>1. Len(executions) \in Nat
      BY <2>1
    <3>. QED  BY <2>1, <3>1 DEF Run, Step
  <2>3. run' = [run EXCEPT ![p] = r] /\ call' = call /\ UNCHANGED <<legacyTables, executions>>
    BY <1>2 DEF LatestExecution, DiscoveryInv
  <2>. HIDE DEF r
  <2>4. run'[p] = r
    BY <2>3 DEF DiscoveryInv
  <2>5. IsLogged(p)'
    BY <2>1, <2>3, NothingStored, GrowsKeepsLogged
    DEF RunOK, Linking, LatestExecution
  <2>6. RunOK(p)'
    BY <2>2, <2>4, <2>5 DEF RunOK, Storing, Linking
  <2>. QED  BY <2>2, <2>3, <2>6, RunMovesWell, NothingStored, MovesWellKeeps
<1>. QED  BY <1>1, <1>2

LEMMA LinkKeeps ==
    ASSUME DiscoveryInv, NEW p \in Process, Link(p)
    PROVE  DiscoveryInv' /\ Grows
<1>1. CASE UNCHANGED executions
  BY <1>1, EndKeeps DEF Link, Ended
<1>2. CASE executions' = [executions EXCEPT ![run[p].newest].links = Named(p)]
  <2>1. executions \in Seq(Execution) /\ Named(p) \subseteq Name
    <3>1. \A i \in DOMAIN Output(p) : Output(p)[i] \in Answer
      BY OutputTyped
    <3>. QED  BY <3>1, DiscoveryAssumption DEF DiscoveryInv, Named
  <2>2. executions' \in Seq(Execution) /\ DOMAIN executions' = DOMAIN executions
    <3> DEFINE i == run[p].newest
               e == [executions[i] EXCEPT !.links = Named(p)]
    <3>1. executions' = [executions EXCEPT ![i] = e]
      BY <1>2
    <3>2. CASE i \in DOMAIN executions
      <4>1. executions[i] \in Execution
        BY <2>1, <3>2
      <4>2. e \in Execution
        BY <2>1, <4>1 DEF Execution
      <4>. HIDE DEF i, e
      <4>. QED  BY <2>1, <3>1, <3>2, <4>2, ExceptSeq
    <3>3. CASE i \notin DOMAIN executions
      <4>1. executions' = executions
        BY <2>1, <3>1, <3>3
      <4>. QED  BY <2>1, <4>1
    <3>. QED  BY <3>2, <3>3
  <2>3. \A e \in DOMAIN executions : /\ executions'[e].status = executions[e].status
                                     /\ executions'[e].output = executions[e].output
    BY <1>2, <2>1 DEF Execution
  <2>4. UNCHANGED legacyTables /\ Exit(p, "done")
    BY DEF Link
  <2>5. Categories' = Categories
    BY <2>4 DEF legacyTables, Categories
  <2>6. Grows
    BY <2>2, <2>3, <2>5 DEF Grows
  <2>7. EverythingStoredIsLogged'
    BY <2>4, <2>5, <2>6, GrowsKeepsLogged
    DEF DiscoveryInv, EverythingStoredIsLogged, legacyTables
  <2>8. TablesTyped'
    BY <2>4, <2>5 DEF DiscoveryInv, TablesTyped, legacyTables
  <2>. QED  BY <2>2, <2>4, <2>6, <2>7, <2>8, ExitMovesWell, MovesWellKeeps DEF Ended
<1>. QED  BY <1>1, <1>2 DEF Link

LEMMA DiscoverKeeps ==
    ASSUME DiscoveryInv, NEW p \in Process, Discover(p)
    PROVE  DiscoveryInv' /\ Grows
<1>1. CASE Deadlock(p) \/ Abort(p)
  BY <1>1, EndKeeps DEF Deadlock, Abort, Ended
<1>. QED
  BY <1>1, BeginKeeps, AskKeeps, LogExecutionKeeps, LogErrorKeeps, LogFailsKeeps,
     FindCategoryKeeps, CreateCategoryKeeps, AssigningKeeps, CommitAssignKeeps,
     LatestExecutionKeeps, LinkKeeps
  DEF Discover, Logs, Store
-----------------------------------------------------------------------------
(* The registry: a client that increments has found a row, and rows stay.   *)
JobOK(c) ==
    /\ job[c].step \in {"latest", "insert_schema"} => job[c].category \in Name
    /\ job[c].step \in {"find", "increment", "insert_attribute"} =>
           job[c].attribute \in Attribute
    /\ job[c].step = "increment" => job[c].attribute \in DOMAIN usage

RegistryInv == RegistryTyped /\ UsageIsCalls /\ \A c \in Client : JobOK(c)

LEMMA InitRegistryInv == InitRegistry => RegistryInv
<1>. SUFFICES ASSUME InitRegistry PROVE RegistryInv
  OBVIOUS
<1>1. NoJob \in Job /\ NoJob.step = "idle"
  BY DEF NoJob, Job, JobStep
<1>2. RegistryTyped
  <2>1. schemas \in Seq(Schema) /\ DOMAIN schemas = {}
    BY DEF InitRegistry
  <2>2. usage \in [{} -> Nat] /\ DOMAIN usage = {}
    BY DEF InitRegistry
  <2>. QED  BY <1>1, <2>1, <2>2 DEF InitRegistry, RegistryTyped
<1>3. UsageIsCalls
  BY DEF InitRegistry, UsageIsCalls, Uses
<1>4. \A c \in Client : JobOK(c)
  BY <1>1 DEF InitRegistry, JobOK
<1>. QED  BY <1>2, <1>3, <1>4 DEF RegistryInv

(* A client that only moves its own call.                                   *)
LEMMA JobMoves ==
    ASSUME RegistryInv, NEW c \in Client, NEW j \in Job, job' = [job EXCEPT ![c] = j],
           UNCHANGED <<legacyTables, schemas, usage, registered>>, JobOK(c)',
           unanswered' \in [Attribute -> Nat],
           \A a \in Attribute : unanswered[a] <= unanswered'[a]
    PROVE  RegistryInv'
<1>1. RegistryTyped'
  BY DEF RegistryInv, RegistryTyped, legacyTables, Categories
<1>2. UsageIsCalls'
  <2>1. \A a \in Attribute : /\ registered[a] \in Nat /\ unanswered[a] \in Nat
                             /\ unanswered'[a] \in Nat
    BY DEF RegistryInv, RegistryTyped
  <2>2. ASSUME NEW a \in Attribute
        PROVE  Uses(a)' = Uses(a) /\ Uses(a) \in Nat
    BY DEF Uses, RegistryInv, RegistryTyped
  <2>. QED  BY <2>1, <2>2 DEF RegistryInv, UsageIsCalls
<1>3. \A d \in Client \ {c} : job'[d] = job[d]
  BY DEF RegistryInv, RegistryTyped
<1>4. \A d \in Client : JobOK(d)'
  BY <1>3 DEF RegistryInv, JobOK
<1>. QED  BY <1>1, <1>2, <1>4 DEF RegistryInv

LEMMA JobMovesAlone ==
    ASSUME RegistryInv, NEW c \in Client, NEW j \in Job, job' = [job EXCEPT ![c] = j],
           UNCHANGED <<legacyTables, schemas, usage, registered, unanswered>>, JobOK(c)'
    PROVE  RegistryInv'
<1>1. /\ unanswered' \in [Attribute -> Nat]
      /\ \A a \in Attribute : unanswered[a] <= unanswered'[a]
  BY DEF RegistryInv, RegistryTyped
<1>. QED  BY <1>1, JobMoves

LEMMA NoJobTyped == NoJob \in Job /\ NoJob.step = "idle"
BY DEF NoJob, Job, JobStep

LEMMA VersionsNat == ASSUME RegistryInv, NEW n PROVE Versions(n) \subseteq Nat
<1>1. \A i \in DOMAIN schemas : schemas[i] \in Schema
  BY DEF RegistryInv, RegistryTyped
<1>2. \A i \in DOMAIN schemas : schemas[i].version \in Nat
  BY <1>1 DEF Schema
<1>. QED  BY <1>2 DEF Versions

LEMMA JobStepsKeep ==
    ASSUME RegistryInv, NEW c \in Client,
           \/ \E n \in Name, given \in Given \cup {0} : BeginSave(c, n, given)
           \/ \E a \in Attribute : BeginRegister(c, a)
           \/ ReadLatest(c) \/ FindAttribute(c) \/ LoseJob(c)
    PROVE  RegistryInv'
<1>0. job \in [Client -> Job] /\ job[c] \in Job /\ JobOK(c)
  BY DEF RegistryInv, RegistryTyped
<1>1. ASSUME NEW n \in Name, NEW given \in Given \cup {0}, BeginSave(c, n, given)
      PROVE  RegistryInv'
  <2> DEFINE j == [NoJob EXCEPT !.step = "latest", !.category = n, !.given = given]
  <2>1. j \in Job /\ j.step = "latest" /\ j.category = n
    BY NoJobTyped DEF Job, JobStep
  <2>2. job' = [job EXCEPT ![c] = j]
    BY <1>1 DEF BeginSave
  <2>. HIDE DEF j
  <2>3. JobOK(c)'
    BY <1>0, <2>1, <2>2 DEF JobOK
  <2>. QED  BY <1>1, <2>1, <2>2, <2>3, JobMovesAlone DEF BeginSave
<1>2. ASSUME NEW a \in Attribute, BeginRegister(c, a)
      PROVE  RegistryInv'
  <2> DEFINE j == [NoJob EXCEPT !.step = "find", !.attribute = a]
  <2>1. j \in Job /\ j.step = "find" /\ j.attribute = a
    BY NoJobTyped DEF Job, JobStep
  <2>2. job' = [job EXCEPT ![c] = j]
    BY <1>2 DEF BeginRegister
  <2>. HIDE DEF j
  <2>3. JobOK(c)'
    BY <1>0, <2>1, <2>2 DEF JobOK
  <2>. QED  BY <1>2, <2>1, <2>2, <2>3, JobMovesAlone DEF BeginRegister
<1>3. CASE ReadLatest(c)
  <2>1. PICK v \in Versions(job[c].category) \cup {0} :
           job' = [job EXCEPT ![c] =
                      [job[c] EXCEPT !.step = "insert_schema", !.read = v]]
    BY <1>3 DEF ReadLatest
  <2>2. v \in Nat
    BY <2>1, VersionsNat
  <2> DEFINE j == [job[c] EXCEPT !.step = "insert_schema", !.read = v]
  <2>3. j \in Job /\ j.step = "insert_schema" /\ j.category = job[c].category
    BY <1>0, <2>2 DEF Job, JobStep
  <2>4. job' = [job EXCEPT ![c] = j]
    BY <1>0, <2>1
  <2>. HIDE DEF j
  <2>5. JobOK(c)'
    BY <1>0, <1>3, <2>3, <2>4 DEF JobOK, ReadLatest
  <2>. QED  BY <1>3, <2>3, <2>4, <2>5, JobMovesAlone DEF ReadLatest
<1>4. CASE FindAttribute(c)
  <2> DEFINE found == job[c].attribute \in DOMAIN usage
             step == IF found THEN "increment" ELSE "insert_attribute"
             read == IF found THEN usage[job[c].attribute] ELSE 0
             j == [job[c] EXCEPT !.step = step, !.read = read]
  <2>1. read \in Nat /\ step \in JobStep
    BY DEF RegistryInv, RegistryTyped, JobStep
  <2>2. step \in {"increment", "insert_attribute"} /\ (step = "increment" => found)
    OBVIOUS
  <2>3. job' = [job EXCEPT ![c] = j]
    BY <1>0, <1>4 DEF FindAttribute
  <2>. HIDE DEF found, step, read
  <2>4. j \in Job /\ j.step = step /\ j.attribute = job[c].attribute
    BY <1>0, <2>1 DEF Job
  <2>. HIDE DEF j
  <2>5. usage' = usage /\ job[c].attribute \in Attribute
    BY <1>0, <1>4 DEF FindAttribute, JobOK
  <2>6. job'[c] = j
    BY <1>0, <2>3
  <2>7. JobOK(c)'
    BY <2>2, <2>4, <2>5, <2>6 DEF JobOK, found
  <2>. QED  BY <1>4, <2>3, <2>4, <2>7, JobMovesAlone DEF FindAttribute
<1>5. CASE LoseJob(c)
  <2>1. job' = [job EXCEPT ![c] = NoJob]
    BY <1>5 DEF LoseJob, JobEnds
  <2>2. JobOK(c)'
    BY <1>0, <2>1, NoJobTyped DEF JobOK
  <2>0. /\ unanswered \in [Attribute -> Nat]
        /\ \A a \in Attribute : unanswered[a] \in Nat
    BY DEF RegistryInv, RegistryTyped
  <2>3. /\ unanswered' \in [Attribute -> Nat]
        /\ \A a \in Attribute : unanswered[a] <= unanswered'[a]
    <3>1. CASE UNCHANGED unanswered
      BY <2>0, <3>1
    <3>2. CASE UnansweredCounted(c)
      <4>1. unanswered' = [unanswered EXCEPT ![job[c].attribute] = unanswered[job[c].attribute] + 1]
        BY <3>2 DEF UnansweredCounted
      <4>2. ASSUME NEW a \in Attribute
            PROVE  unanswered'[a] \in Nat /\ unanswered[a] <= unanswered'[a]
        BY <2>0, <4>1
      <4>. QED  BY <2>0, <4>1, <4>2
    <3>. QED  BY <1>5, <3>1, <3>2 DEF LoseJob
  <2>. QED  BY <1>5, <2>1, <2>2, <2>3, NoJobTyped, JobMoves DEF LoseJob
<1>. QED  BY <1>1, <1>2, <1>3, <1>4, <1>5

LEMMA InsertSchemaKeeps ==
    ASSUME RegistryInv, NEW c \in Client, InsertSchema(c)
    PROVE  RegistryInv'
<1>0. job \in [Client -> Job] /\ job[c] \in Job /\ JobOK(c)
  BY DEF RegistryInv, RegistryTyped
<1>1. /\ job' = [job EXCEPT ![c] = NoJob]
      /\ UNCHANGED <<usage, registered, unanswered>> /\ Categories' = Categories
  BY DEF InsertSchema, JobEnds, legacyTables, Categories
<1>2. \A d \in Client : JobOK(d)'
  <2>1. ASSUME NEW d \in Client PROVE JobOK(d)'
    <3>1. JobOK(d) /\ job'[d] = IF d = c THEN NoJob ELSE job[d]
      BY <1>0, <1>1 DEF RegistryInv
    <3>. QED  BY <1>1, <3>1, NoJobTyped DEF JobOK
  <2>. QED  BY <2>1
<1>3. job' \in [Client -> Job]
  BY <1>0, <1>1, NoJobTyped
<1>4. schemas' \in Seq(Schema) /\ \A i \in DOMAIN schemas' : schemas'[i].category \in Categories
  <2> DEFINE e == NewSchema(c)
  <2>1. schemas \in Seq(Schema) /\ \A i \in DOMAIN schemas : schemas[i].category \in Categories
    BY DEF RegistryInv, RegistryTyped
  <2>2. CASE schemas' = schemas
    BY <2>1, <2>2
  <2>3. CASE schemas' = Append(schemas, e) /\ job[c].category \in Categories
    <3>1. job[c].category \in Name /\ job[c].read \in Nat /\ job[c].given \in Nat
      <4>1. job[c].step = "insert_schema"
        BY DEF InsertSchema
      <4>2. job[c].category \in Name
        BY <1>0, <4>1 DEF JobOK
      <4>3. job[c].read \in Nat /\ job[c].given \in Given \cup {0}
        BY <1>0 DEF Job
      <4>4. Given \cup {0} \subseteq Nat
        BY RegistryAssumption
      <4>. QED  BY <4>2, <4>3, <4>4
    <3>2. (job[c].given # 0) \in BOOLEAN
          /\ (IF job[c].given # 0 THEN job[c].given ELSE job[c].read + 1) \in Nat
      BY <3>1
    <3>3. e \in Schema
      BY <3>1, <3>2, Zenon DEF NewSchema, Schema
    <3>4. e.category \in Categories
      BY <2>3 DEF NewSchema
    <3>. HIDE DEF e
    <3>. QED  BY <2>1, <2>3, <3>3, <3>4
  <2>. QED  BY <2>2, <2>3 DEF InsertSchema
<1>. QED  BY <1>1, <1>2, <1>3, <1>4 DEF RegistryInv, RegistryTyped, UsageIsCalls, Uses

(* A call of registerAttribute that wrote has added one use, and is one     *)
(* more that returned or one more that lost the connection.                 *)
LEMMA WriteEndsCounts ==
    ASSUME RegistryInv, NEW c \in Client, job[c].attribute \in Attribute, WriteEnds(c)
    PROVE  /\ registered' \in [Attribute -> Nat] /\ unanswered' \in [Attribute -> Nat]
           /\ \A b \in Attribute \ {job[c].attribute} :
                 registered'[b] = registered[b] /\ unanswered'[b] = unanswered[b]
           /\ LET a == job[c].attribute
              IN  \/ registered'[a] = registered[a] + 1 /\ unanswered'[a] = unanswered[a]
                  \/ registered'[a] = registered[a] /\ unanswered'[a] = unanswered[a] + 1
<1>1. registered \in [Attribute -> Nat] /\ unanswered \in [Attribute -> Nat]
  BY DEF RegistryInv, RegistryTyped
<1>. QED  BY <1>1 DEF WriteEnds, UnansweredCounted

LEMMA AttributeWritesKeep ==
    ASSUME RegistryInv, NEW c \in Client, IncrementUsage(c) \/ InsertAttribute(c)
    PROVE  RegistryInv'
<1>. PICK a \in Attribute : a = job[c].attribute
  BY DEF RegistryInv, JobOK, IncrementUsage, InsertAttribute
<1>0. /\ job \in [Client -> Job] /\ job[c] \in Job /\ JobOK(c)
      /\ registered \in [Attribute -> Nat] /\ unanswered \in [Attribute -> Nat]
      /\ UsageIsCalls
      /\ DOMAIN usage \subseteq Attribute /\ usage \in [DOMAIN usage -> Nat]
  BY DEF RegistryInv, RegistryTyped, JobOK, IncrementUsage, InsertAttribute
<1>1. /\ job' = [job EXCEPT ![c] = NoJob]
      /\ UNCHANGED <<legacyTables, schemas>> /\ Categories' = Categories
  BY DEF IncrementUsage, InsertAttribute, WriteEnds, JobEnds, legacyTables, Categories
<1>2. /\ DOMAIN usage \subseteq DOMAIN usage' /\ DOMAIN usage' \subseteq Attribute
      /\ usage' \in [DOMAIN usage' -> Nat]
      /\ registered' \in [Attribute -> Nat] /\ unanswered' \in [Attribute -> Nat]
      /\ UsageIsCalls'
  <2>1. CASE /\ WriteEnds(c)
             /\ \/ a \in DOMAIN usage /\ usage' = [usage EXCEPT ![a] = usage[a] + 1]
                \/ a \notin DOMAIN usage /\ usage' = Put(usage, a, 1)
    <3>1. /\ DOMAIN usage' = DOMAIN usage \cup {a} /\ usage' \in [DOMAIN usage' -> Nat]
          /\ \A b \in DOMAIN usage \ {a} : usage'[b] = usage[b]
          /\ usage'[a] = Uses(a) + 1
      BY <1>0, <2>1 DEF Put, Uses
    <3>2. /\ Uses(a) \in Nat /\ Uses(a)' = Uses(a) + 1
          /\ \A b \in Attribute \ {a} : Uses(b)' = Uses(b)
      BY <1>0, <3>1 DEF Uses
    <3>3. /\ registered' \in [Attribute -> Nat] /\ unanswered' \in [Attribute -> Nat]
          /\ \A b \in Attribute \ {a} :
                registered'[b] = registered[b] /\ unanswered'[b] = unanswered[b]
          /\ \/ registered'[a] = registered[a] + 1 /\ unanswered'[a] = unanswered[a]
             \/ registered'[a] = registered[a] /\ unanswered'[a] = unanswered[a] + 1
      BY <1>0, <2>1, WriteEndsCounts
    <3>4. /\ registered[a] \in Nat /\ unanswered[a] \in Nat
          /\ registered[a] <= Uses(a) /\ Uses(a) <= registered[a] + unanswered[a]
      BY <1>0 DEF UsageIsCalls
    <3>5. /\ registered'[a] <= Uses(a)'
          /\ Uses(a)' <= registered'[a] + unanswered'[a]
      BY <3>2, <3>3, <3>4
    <3>6. UsageIsCalls'
      BY <1>0, <3>2, <3>3, <3>5 DEF UsageIsCalls
    <3>. QED  BY <1>0, <3>1, <3>3, <3>6
  <2>2. CASE UNCHANGED <<usage, registered, unanswered>>
    BY <1>0, <2>2 DEF UsageIsCalls, Uses
  <2>3. IncrementUsage(c) => a \in DOMAIN usage
    BY <1>0 DEF IncrementUsage, JobOK
  <2>. QED  BY <2>1, <2>2, <2>3 DEF IncrementUsage, InsertAttribute
<1>3. \A d \in Client : JobOK(d)'
  <2>1. ASSUME NEW d \in Client PROVE JobOK(d)'
    <3>1. JobOK(d) /\ job'[d] = IF d = c THEN NoJob ELSE job[d]
      BY <1>0, <1>1 DEF RegistryInv
    <3>. QED  BY <1>1, <1>2, <3>1, NoJobTyped DEF JobOK
  <2>. QED  BY <2>1
<1>4. job' \in [Client -> Job]
  BY <1>0, <1>1, NoJobTyped
<1>5. schemas' \in Seq(Schema) /\ \A i \in DOMAIN schemas' : schemas'[i].category \in Categories'
  BY <1>1 DEF RegistryInv, RegistryTyped
<1>. QED  BY <1>2, <1>3, <1>4, <1>5 DEF RegistryInv, RegistryTyped

LEMMA RegistryKeeps ==
    ASSUME RegistryInv, NEW c \in Client, CallRegistry(c) PROVE RegistryInv'
BY JobStepsKeep, InsertSchemaKeeps, AttributeWritesKeep DEF CallRegistry

LEMMA OthersKeepRegistry ==
    ASSUME RegistryInv, UNCHANGED registryVars, Categories \subseteq Categories'
    PROVE  RegistryInv'
BY DEF RegistryInv, RegistryTyped, UsageIsCalls, Uses, JobOK, registryVars
-----------------------------------------------------------------------------
(* The versions nobody numbered by hand.  That a client inserts the number   *)
(* after the last follows because what it read is never above the last, and  *)
(* what is up to the last is taken.                                         *)
SchemasOf(n) == {i \in DOMAIN schemas : schemas[i].category = n}
Unnumbered(n) == \A i \in SchemasOf(n) : ~ schemas[i].given

CountsUp(n) ==
    /\ Versions(n) = 1..Cardinality(SchemasOf(n))
    /\ \A i \in SchemasOf(n) :
          schemas[i].version = Cardinality({j \in SchemasOf(n) : j <= i})

ReadOK(c) ==
    job[c].step = "insert_schema" /\ Unnumbered(job[c].category) =>
        job[c].read <= Cardinality(SchemasOf(job[c].category))

VersionsInv ==
    /\ \A n \in Name : Unnumbered(n) => CountsUp(n)
    /\ \A c \in Client : ReadOK(c)

LEMMA SchemasFinite ==
    ASSUME RegistryInv, NEW n
    PROVE  /\ IsFiniteSet(SchemasOf(n)) /\ Cardinality(SchemasOf(n)) \in Nat
           /\ DOMAIN schemas = 1..Len(schemas) /\ Len(schemas) \in Nat
<1>1. DOMAIN schemas = 1..Len(schemas) /\ Len(schemas) \in Nat
  BY DEF RegistryInv, RegistryTyped
<1>2. IsFiniteSet(DOMAIN schemas)
  BY <1>1, FS_Interval
<1>3. IsFiniteSet(SchemasOf(n))
  BY <1>2, FS_Subset DEF SchemasOf
<1>. QED  BY <1>1, <1>3, FS_CardinalityType

LEMMA SameSchemas ==
    ASSUME UNCHANGED schemas
    PROVE  \A n : /\ SchemasOf(n)' = SchemasOf(n) /\ Versions(n)' = Versions(n)
                  /\ Unnumbered(n)' <=> Unnumbered(n)
                  /\ CountsUp(n)' <=> CountsUp(n)
BY DEF SchemasOf, Versions, Unnumbered, CountsUp

(* The new row is the last of its category.                                 *)
LEMMA NewSchemaCounts ==
    ASSUME RegistryInv, NEW n \in Name, NEW e \in Schema, e.category = n,
           schemas' = Append(schemas, e), CountsUp(n),
           e.version = Cardinality(SchemasOf(n)) + 1
    PROVE  CountsUp(n)'
<1> DEFINE K == Cardinality(SchemasOf(n))
           k == Len(schemas) + 1
<1>1. /\ IsFiniteSet(SchemasOf(n)) /\ K \in Nat
      /\ DOMAIN schemas = 1..Len(schemas) /\ Len(schemas) \in Nat
  BY SchemasFinite
<1>2. /\ DOMAIN schemas' = 1..k
      /\ \A i \in 1..Len(schemas) : schemas'[i] = schemas[i]
      /\ schemas'[k] = e
  BY <1>1 DEF RegistryInv, RegistryTyped
<1>3. SchemasOf(n)' = SchemasOf(n) \cup {k} /\ k \notin SchemasOf(n)
  BY <1>1, <1>2 DEF SchemasOf
<1>4. Cardinality(SchemasOf(n)') = K + 1
  BY <1>1, <1>3, FS_AddElement
<1>5. Versions(n)' = Versions(n) \cup {K + 1}
  <2>1. Versions(n) = {schemas[i].version : i \in SchemasOf(n)}
    BY DEF Versions, SchemasOf
  <2>2. Versions(n)' = {schemas'[i].version : i \in SchemasOf(n)'}
    BY DEF Versions, SchemasOf
  <2>3. SchemasOf(n) \subseteq 1..Len(schemas)
    BY <1>1 DEF SchemasOf
  <2>. QED  BY <1>2, <1>3, <2>1, <2>2, <2>3
<1>6. Versions(n)' = 1..(K + 1)
  BY <1>1, <1>5 DEF CountsUp
<1>7. ASSUME NEW i \in SchemasOf(n)'
      PROVE  schemas'[i].version = Cardinality({j \in SchemasOf(n)' : j <= i})
  <2>0. SchemasOf(n) \subseteq 1..Len(schemas)
    BY <1>1 DEF SchemasOf
  <2>1. CASE i = k
    <3>1. {j \in SchemasOf(n)' : j <= i} = SchemasOf(n)'
      BY <1>1, <1>3, <2>0, <2>1
    <3>. QED  BY <1>2, <1>4, <2>1, <3>1
  <2>2. CASE i # k
    <3>1. i \in SchemasOf(n)
      BY <1>3, <2>2
    <3>2. {j \in SchemasOf(n)' : j <= i} = {j \in SchemasOf(n) : j <= i}
      BY <1>1, <1>3, <2>0, <3>1
    <3>. QED  BY <1>2, <2>0, <3>1, <3>2 DEF CountsUp
  <2>. QED  BY <2>1, <2>2
<1>. QED  BY <1>4, <1>6, <1>7 DEF CountsUp

LEMMA OtherSchemasCount ==
    ASSUME RegistryInv, NEW e \in Schema, schemas' = Append(schemas, e),
           NEW n, n # e.category
    PROVE  /\ SchemasOf(n)' = SchemasOf(n)
           /\ Unnumbered(n)' => Unnumbered(n)
           /\ CountsUp(n) => CountsUp(n)'
<1> DEFINE k == Len(schemas) + 1
<1>1. DOMAIN schemas = 1..Len(schemas) /\ Len(schemas) \in Nat
  BY SchemasFinite
<1>2. /\ DOMAIN schemas' = 1..k
      /\ \A i \in 1..Len(schemas) : schemas'[i] = schemas[i]
      /\ schemas'[k] = e
  BY <1>1 DEF RegistryInv, RegistryTyped
<1>3. SchemasOf(n)' = SchemasOf(n) /\ SchemasOf(n) \subseteq 1..Len(schemas)
  BY <1>1, <1>2 DEF SchemasOf
<1>4. Unnumbered(n)' => Unnumbered(n)
  BY <1>2, <1>3 DEF Unnumbered
<1>5. Versions(n)' = Versions(n)
  <2>1. Versions(n) = {schemas[i].version : i \in SchemasOf(n)}
    BY DEF Versions, SchemasOf
  <2>2. Versions(n)' = {schemas'[i].version : i \in SchemasOf(n)'}
    BY DEF Versions, SchemasOf
  <2>. QED  BY <1>2, <1>3, <2>1, <2>2
<1>. QED  BY <1>2, <1>3, <1>4, <1>5 DEF CountsUp
LEMMA InitVersions == ASSUME InitRegistry PROVE VersionsInv
<1>1. \A n : SchemasOf(n) = {} /\ Versions(n) = {}
  BY DEF InitRegistry, SchemasOf, Versions
<1>2. \A n : CountsUp(n)
  <2>1. 1..Cardinality({}) = {}
    BY FS_EmptySet
  <2>. QED  BY <1>1, <2>1 DEF CountsUp
<1>3. \A c \in Client : ReadOK(c)
  BY NoJobTyped DEF InitRegistry, ReadOK
<1>. QED  BY <1>2, <1>3 DEF VersionsInv

LEMMA ReadLatestIsLow ==
    ASSUME RegistryInv, VersionsInv, NEW c \in Client, ReadLatest(c)
    PROVE  ReadOK(c)' /\ UNCHANGED schemas /\ \A d \in Client \ {c} : job'[d] = job[d]
<1> DEFINE n == job[c].category
<1>1. job \in [Client -> Job] /\ job[c] \in Job /\ JobOK(c)
  BY DEF RegistryInv, RegistryTyped
<1>2. PICK v \in Versions(n) \cup {0} :
         job' = [job EXCEPT ![c] = [job[c] EXCEPT !.step = "insert_schema", !.read = v]]
  BY DEF ReadLatest
<1>3. job'[c].read = v /\ job'[c].category = n /\ UNCHANGED schemas
  BY <1>1, <1>2 DEF ReadLatest, Job
<1>4. n \in Name
  BY <1>1 DEF ReadLatest, JobOK
<1>5. Unnumbered(n) => v <= Cardinality(SchemasOf(n))
  BY <1>2, <1>4, SchemasFinite DEF VersionsInv, CountsUp
<1>6. ReadOK(c)'
  BY <1>3, <1>5, SameSchemas DEF ReadOK
<1>. QED  BY <1>1, <1>2, <1>3, <1>6

LEMMA InsertSchemaCounts ==
    ASSUME RegistryInv, VersionsInv, NEW c \in Client, InsertSchema(c)
    PROVE  VersionsInv'
<1>0. PICK n, e : n = job[c].category /\ e = NewSchema(c)
  OBVIOUS
<1>1. job \in [Client -> Job] /\ job[c] \in Job /\ JobOK(c) /\ ReadOK(c)
  BY DEF RegistryInv, RegistryTyped, VersionsInv
<1>2. n \in Name /\ job[c].read \in Nat /\ job[c].given \in Nat
  <2>1. n \in Name
    BY <1>0, <1>1 DEF InsertSchema, JobOK
  <2>2. job[c].read \in Nat /\ job[c].given \in Given \cup {0}
    BY <1>1 DEF Job
  <2>3. Given \cup {0} \subseteq Nat
    BY RegistryAssumption
  <2>. QED  BY <2>1, <2>2, <2>3
<1>3. \A d \in Client : job'[d] = IF d = c THEN NoJob ELSE job[d]
  BY <1>1 DEF InsertSchema, JobEnds
<1>4. CASE UNCHANGED schemas
  <2>1. \A d \in Client : ReadOK(d)'
    BY <1>3, <1>4, SameSchemas, NoJobTyped DEF VersionsInv, ReadOK
  <2>. QED  BY <1>4, <2>1, SameSchemas DEF VersionsInv
<1>5. CASE schemas' = Append(schemas, e) /\ e.version \notin Versions(n)
  <2>1. e \in Schema /\ e.category = n
    <3>1. (job[c].given # 0) \in BOOLEAN
          /\ (IF job[c].given # 0 THEN job[c].given ELSE job[c].read + 1) \in Nat
      BY <1>2
    <3>2. e \in Schema
      BY <1>0, <1>2, <3>1, Zenon DEF NewSchema, Schema
    <3>. QED  BY <1>0, <3>2 DEF NewSchema
  <2>2. e.given = (job[c].given # 0) /\ (~ e.given => e.version = job[c].read + 1)
    BY <1>0 DEF NewSchema
  <2>3. /\ DOMAIN schemas = 1..Len(schemas) /\ Len(schemas) \in Nat
        /\ Cardinality(SchemasOf(n)) \in Nat /\ IsFiniteSet(SchemasOf(n))
    BY SchemasFinite
  <2>4. /\ DOMAIN schemas' = 1..(Len(schemas) + 1)
        /\ \A i \in 1..Len(schemas) : schemas'[i] = schemas[i]
        /\ schemas'[Len(schemas) + 1] = e
    BY <1>5, <2>1, <2>3 DEF RegistryInv, RegistryTyped
  <2>5. SchemasOf(n)' = SchemasOf(n) \cup {Len(schemas) + 1}
        /\ Len(schemas) + 1 \notin SchemasOf(n) /\ SchemasOf(n) \subseteq 1..Len(schemas)
    BY <2>1, <2>3, <2>4 DEF SchemasOf
  <2>6. Unnumbered(n)' => Unnumbered(n) /\ ~ e.given
    BY <2>3, <2>4, <2>5 DEF Unnumbered
  <2>7. ASSUME Unnumbered(n)' PROVE CountsUp(n)'
    <3>1. CountsUp(n) /\ ~ e.given
      BY <1>2, <2>6, <2>7 DEF VersionsInv
    <3>2. job[c].read <= Cardinality(SchemasOf(n))
      BY <1>0, <1>1, <2>6, <2>7 DEF ReadOK, InsertSchema
    <3>3. e.version = Cardinality(SchemasOf(n)) + 1
      BY <1>2, <1>5, <2>2, <2>3, <3>1, <3>2 DEF CountsUp
    <3>. QED  BY <1>2, <1>5, <2>1, <3>1, <3>3, NewSchemaCounts
  <2>8. \A m \in Name : Unnumbered(m)' => CountsUp(m)'
    <3>1. ASSUME NEW m \in Name, m # n, Unnumbered(m)' PROVE CountsUp(m)'
      BY <1>5, <2>1, <3>1, OtherSchemasCount DEF VersionsInv
    <3>. QED  BY <2>7, <3>1
  <2>9. ASSUME NEW d \in Client PROVE ReadOK(d)'
    <3>1. CASE d = c
      BY <1>3, <3>1, NoJobTyped DEF ReadOK
    <3>2. CASE d # c /\ job[d].category = n
      <4>1. Cardinality(SchemasOf(n)') = Cardinality(SchemasOf(n)) + 1
        BY <2>3, <2>5, FS_AddElement
      <4>2. job[d].read \in Nat
        BY DEF RegistryInv, RegistryTyped, Job
      <4>. QED  BY <1>3, <2>3, <2>6, <3>2, <4>1, <4>2 DEF VersionsInv, ReadOK
    <3>3. CASE d # c /\ job[d].category # n
      BY <1>3, <1>5, <2>1, <3>3, OtherSchemasCount DEF VersionsInv, ReadOK
    <3>. QED  BY <3>1, <3>2, <3>3
  <2>. QED  BY <2>8, <2>9 DEF VersionsInv
<1>. QED  BY <1>0, <1>4, <1>5 DEF InsertSchema

LEMMA VersionsKeep ==
    ASSUME RegistryInv, VersionsInv, NEW c \in Client, CallRegistry(c) PROVE VersionsInv'
<1>0. job \in [Client -> Job]
  BY DEF RegistryInv, RegistryTyped
<1>1. CASE InsertSchema(c)
  BY <1>1, InsertSchemaCounts
<1>2. CASE ReadLatest(c)
  <2>1. \A d \in Client : ReadOK(d)'
    BY <1>2, ReadLatestIsLow, SameSchemas DEF VersionsInv, ReadOK
  <2>. QED  BY <1>2, <2>1, ReadLatestIsLow, SameSchemas DEF VersionsInv
<1>3. ASSUME UNCHANGED schemas, job'[c].step # "insert_schema",
             \A d \in Client \ {c} : job'[d] = job[d]
      PROVE  VersionsInv'
  <2>1. \A d \in Client : ReadOK(d)'
    BY <1>3, SameSchemas DEF VersionsInv, ReadOK
  <2>. QED  BY <1>3, <2>1, SameSchemas DEF VersionsInv
<1>4. CASE \E n \in Name, given \in Given \cup {0} : BeginSave(c, n, given)
  BY <1>0, <1>3, <1>4, NoJobTyped DEF BeginSave, NoJob
<1>5. CASE \E a \in Attribute : BeginRegister(c, a)
  BY <1>0, <1>3, <1>5, NoJobTyped DEF BeginRegister, NoJob
<1>6. CASE FindAttribute(c)
  <2>1. job[c] \in Job
    BY <1>0
  <2>. QED  BY <1>0, <1>3, <1>6, <2>1 DEF FindAttribute, Job
<1>7. CASE IncrementUsage(c) \/ InsertAttribute(c) \/ LoseJob(c)
  BY <1>0, <1>3, <1>7, NoJobTyped DEF IncrementUsage, InsertAttribute, LoseJob, WriteEnds, JobEnds
<1>. QED  BY <1>1, <1>2, <1>4, <1>5, <1>6, <1>7 DEF CallRegistry

LEMMA OthersKeepVersions ==
    ASSUME VersionsInv, UNCHANGED registryVars PROVE VersionsInv'
<1>1. UNCHANGED schemas /\ UNCHANGED job
  BY DEF registryVars
<1>2. \A c \in Client : ReadOK(c)'
  BY <1>1, SameSchemas DEF VersionsInv, ReadOK
<1>. QED  BY <1>1, <1>2, SameSchemas DEF VersionsInv

LEMMA VersionsInvImplies == ASSUME VersionsInv, TablesTyped PROVE VersionsCountUp
BY DEF VersionsInv, TablesTyped, VersionsCountUp, CountsUp, Unnumbered, SchemasOf
-----------------------------------------------------------------------------
(* The page: what a query may hold, by its key.                             *)
EntryOK(k) ==
    /\ k # List /\ Requested(cache[k]) => k \in Categories
    /\ k = List => cache[k].request # "found" /\ cache[k].rows \subseteq Categories
    /\ k \in Name => \A x \in cache[k].rows : LoggedProduct(k, x)
    /\ k \in Enabled => Requested(cache[k]) \/ cache[k].known \/ cache[k].failed
    /\ away = {} => cache[k].request # "paused"

BrowserInv ==
    /\ BrowserTyped
    /\ selected \in Categories \cup {NoCategory}
    /\ \A k \in Key : EntryOK(k)

LEMMA NoQueryTyped ==
    /\ NoQuery \in Query /\ ~ Requested(NoQuery) /\ NoQuery.rows = {}
    /\ NoQuery.request = "none"
BY DEF NoQuery, Query, Requested

LEMMA FetchedTyped ==
    ASSUME NEW q \in Query
    PROVE  /\ Fetched(q) \in Query /\ Requested(Fetched(q))
           /\ Fetched(q).rows = q.rows
           /\ Requested(q) => Fetched(q) = q
           /\ ~ Requested(q) => Fetched(q).request \in {"sent", "paused"}
           /\ away = {} /\ ~ Requested(q) => Fetched(q).request = "sent"
<1>1. CASE Requested(q)
  BY <1>1 DEF Fetched
<1>2. CASE ~ Requested(q)
  <2>. PICK request : request = IF "offline" \in away THEN "paused" ELSE "sent"
    OBVIOUS
  <2>1. (q.failed /\ q.known) \in BOOLEAN
    BY DEF Query
  <2>2. Fetched(q) = [q EXCEPT !.request = request, !.failed = q.failed /\ q.known]
    BY <1>2 DEF Fetched
  <2>3. request \in {"sent", "paused"} /\ (away = {} => request = "sent")
    OBVIOUS
  <2>4. Fetched(q) \in Query
    BY <2>1, <2>2, <2>3 DEF Query
  <2>5. Fetched(q).request = request /\ Fetched(q).rows = q.rows
    BY <2>2 DEF Query
  <2>. QED  BY <1>2, <2>3, <2>4, <2>5 DEF Requested
<1>. QED  BY <1>1, <1>2

LEMMA InitBrowserInv == ASSUME InitBrowser PROVE BrowserInv
<1>1. Fetched(NoQuery) \in Query /\ Requested(Fetched(NoQuery))
      /\ Fetched(NoQuery).rows = {} /\ Fetched(NoQuery).request = "sent"
  BY NoQueryTyped, FetchedTyped DEF InitBrowser
<1>2. BrowserTyped
  BY <1>1, NoQueryTyped DEF InitBrowser, BrowserTyped
<1>3. \A k \in Key : cache[k] = IF k = List THEN Fetched(NoQuery) ELSE NoQuery
  BY DEF InitBrowser
<1>4. Enabled = {List}
  BY DEF InitBrowser, Enabled
<1>5. \A k \in Key : EntryOK(k)
  BY <1>1, <1>3, <1>4, NoQueryTyped, BrowserAssumption DEF EntryOK
<1>. QED  BY <1>2, <1>5 DEF InitBrowser, BrowserInv

(* One query changes, and no other becomes enabled.                         *)
LEMMA EntryMoves ==
    ASSUME BrowserInv, NEW k \in Key, NEW q \in Query, cache' = [cache EXCEPT ![k] = q],
           selected' \in Name \cup {NoCategory}, selected' \in Categories \cup {NoCategory},
           UNCHANGED <<legacyTables, executions, away>>, Enabled' \subseteq Enabled \cup {k},
           EntryOK(k)'
    PROVE  BrowserInv'
<1>1. BrowserTyped'
  BY DEF BrowserInv, BrowserTyped
<1>2. Categories' = Categories /\ \A n, x : LoggedProduct(n, x) => LoggedProduct(n, x)'
  BY DEF legacyTables, Categories, LoggedProduct
<1>3. \A j \in Key \ {k} : cache'[j] = cache[j]
  BY DEF BrowserInv, BrowserTyped
<1>4. \A j \in Key \ {k} : EntryOK(j)'
  BY <1>2, <1>3 DEF BrowserInv, EntryOK
<1>. QED  BY <1>1, <1>2, <1>4 DEF BrowserInv

(* An answer or a failure: what the new entry must satisfy.                 *)
LEMMA AnswerMoves ==
    ASSUME BrowserInv, NEW k \in Key, NEW q \in Query, cache' = [cache EXCEPT ![k] = q],
           UNCHANGED <<legacyTables, executions, selected, away>>,
           k # List /\ Requested(q) => k \in Categories,
           k = List => q.request # "found" /\ q.rows \subseteq Categories,
           k \in Name => \A x \in q.rows : LoggedProduct(k, x),
           k \in Enabled => Requested(q) \/ q.known \/ q.failed,
           away = {} => q.request # "paused"
    PROVE  BrowserInv'
<1>1. Categories' = Categories /\ \A n, x : LoggedProduct(n, x) => LoggedProduct(n, x)'
  BY DEF legacyTables, Categories, LoggedProduct
<1>2. cache'[k] = q /\ Enabled' = Enabled
  BY DEF BrowserInv, BrowserTyped, Enabled
<1>3. EntryOK(k)'
  BY <1>1, <1>2 DEF EntryOK
<1>. QED  BY <1>2, <1>3, EntryMoves DEF BrowserInv, BrowserTyped
LEMMA SelectKeeps ==
    ASSUME BrowserInv, TablesTyped, UNCHANGED executions, NEW n \in Name, Select(n)
    PROVE  BrowserInv'
<1> DEFINE q == Fetched(cache[n])
<1>1. n \in Key /\ List \in Key /\ n # List /\ n \in Categories
  BY BrowserAssumption DEF Key, Select, BrowserInv, EntryOK
<1>2. cache[n] \in Query /\ EntryOK(n)
  BY <1>1 DEF BrowserInv, BrowserTyped
<1>3. /\ q \in Query /\ Requested(q) /\ q.rows = cache[n].rows
      /\ cache' = [cache EXCEPT ![n] = q]
      /\ away = {} => q.request # "paused"
  BY <1>2, FetchedTyped DEF Select, EntryOK
<1>. HIDE DEF q
<1>4. /\ UNCHANGED <<legacyTables, away>> /\ Categories' = Categories /\ selected' = n
      /\ \A m, x : LoggedProduct(m, x) => LoggedProduct(m, x)'
  BY DEF Select, legacyTables, Categories, LoggedProduct
<1>5. cache'[n] = q /\ Enabled' \subseteq Enabled \cup {n}
  BY <1>1, <1>3, <1>4 DEF BrowserInv, BrowserTyped, Enabled
<1>6. EntryOK(n)'
  BY <1>1, <1>2, <1>3, <1>4, <1>5 DEF EntryOK
<1>. QED  BY <1>1, <1>3, <1>4, <1>5, <1>6, EntryMoves

LEMMA BackKeeps ==
    ASSUME BrowserInv, UNCHANGED executions, Back PROVE BrowserInv'
<1>1. /\ Categories' = Categories /\ UNCHANGED <<cache, away>> /\ selected' = NoCategory
      /\ \A m, x : LoggedProduct(m, x) => LoggedProduct(m, x)'
  BY DEF Back, legacyTables, Categories, LoggedProduct
<1>2. Enabled' \subseteq Enabled
  BY <1>1 DEF Enabled
<1>3. \A k \in Key : EntryOK(k)'
  BY <1>1, <1>2 DEF BrowserInv, EntryOK
<1>. QED  BY <1>1, <1>3 DEF BrowserInv, BrowserTyped

LEMMA EntryFacts ==
    ASSUME BrowserInv, NEW k \in Key
    PROVE  /\ cache[k] \in Query /\ EntryOK(k)
           /\ List \in Enabled
           /\ cache[k].known \in BOOLEAN /\ cache[k].failed \in BOOLEAN
BY DEF BrowserInv, BrowserTyped, Enabled, Key, Query

LEMMA RefocusKeeps ==
    ASSUME BrowserInv, TablesTyped, UNCHANGED executions, NEW k \in Key, Refocus(k)
    PROVE  BrowserInv'
<1>1. cache[k] \in Query /\ EntryOK(k) /\ ~ Requested(cache[k]) /\ k \in Enabled
  BY EntryFacts DEF Refocus
<1>2. PICK q \in Query :
         /\ cache' = [cache EXCEPT ![k] = q]
         /\ Requested(q) /\ q.rows = cache[k].rows /\ q.request \in {"sent", "paused"}
         /\ away = {} => q.request = "sent"
  BY <1>1, FetchedTyped DEF Refocus
<1>3. k # List => k \in Categories
  BY <1>1 DEF Enabled, BrowserInv
<1>. QED  BY <1>1, <1>2, <1>3, AnswerMoves DEF Refocus, EntryOK

LEMMA CancelKeeps ==
    ASSUME BrowserInv, UNCHANGED executions, NEW k \in Key, Cancel(k)
    PROVE  BrowserInv'
<1>1. cache[k] \in Query /\ EntryOK(k) /\ k \notin Enabled /\ List \in Enabled
  BY EntryFacts DEF Cancel
<1> DEFINE q == [cache[k] EXCEPT !.request = "none"]
<1>2. q \in Query /\ q.rows = cache[k].rows /\ q.request = "none"
  BY <1>1 DEF Query
<1>3. cache' = [cache EXCEPT ![k] = q]
  BY DEF Cancel
<1>. HIDE DEF q
<1>. QED  BY <1>1, <1>2, <1>3, AnswerMoves DEF Cancel, EntryOK, Requested

LEMMA AnsweredTyped ==
    ASSUME NEW q \in Query, NEW rows \in SUBSET (Name \cup Product)
    PROVE  /\ Answered(q, rows) \in Query /\ Answered(q, rows).rows = rows
           /\ Answered(q, rows).request = "none" /\ Answered(q, rows).known
<1> DEFINE r == [q EXCEPT !.request = "none", !.known = TRUE, !.failed = FALSE, !.rows = rows]
<1>1. r \in Query /\ r.rows = rows /\ r.request = "none" /\ r.known = TRUE
  BY DEF Query
<1>2. Answered(q, rows) = r
  BY DEF Answered
<1>. HIDE DEF r
<1>. QED  BY <1>1, <1>2

LEMMA FailedTyped ==
    ASSUME NEW q \in Query, NEW r \in Failed(q)
    PROVE  /\ r \in Query /\ r.rows = q.rows /\ r.request # "found"
           /\ Requested(r) \/ r.failed
           /\ away = {} => r.request # "paused"
<1>. PICK request : request = IF away = {} THEN "sent" ELSE "paused"
  OBVIOUS
<1>1. CASE r = [q EXCEPT !.request = request]
  BY <1>1 DEF Query, Requested
<1>2. CASE r = [q EXCEPT !.request = "none", !.failed = TRUE]
  BY <1>2 DEF Query, Requested
<1>. QED  BY <1>1, <1>2 DEF Failed

LEMMA GetAllCategoriesKeeps ==
    ASSUME BrowserInv, TablesTyped, UNCHANGED executions, GetAllCategories
    PROVE  BrowserInv'
<1>1. List \in Key /\ List \notin Name /\ cache[List] \in Query
  BY EntryFacts, BrowserAssumption DEF Key
<1>2. PICK q \in Query :
         /\ cache' = [cache EXCEPT ![List] = q]
         /\ q.rows = Categories /\ q.request = "none" /\ q.known
  BY <1>1, AnsweredTyped DEF GetAllCategories, TablesTyped
<1>. QED  BY <1>1, <1>2, AnswerMoves DEF GetAllCategories

LEMMA FailureKeeps ==
    ASSUME BrowserInv, NEW k \in Key, NEW q \in Failed(cache[k]), Requested(cache[k]),
           cache' = [cache EXCEPT ![k] = q],
           UNCHANGED <<legacyTables, executions, selected, away>>
    PROVE  BrowserInv'
<1>1. cache[k] \in Query /\ EntryOK(k)
  BY EntryFacts
<1>2. q \in Query /\ q.rows = cache[k].rows /\ q.request # "found" /\ (Requested(q) \/ q.failed)
      /\ (away = {} => q.request # "paused")
  BY <1>1, FailedTyped
<1>. QED  BY <1>1, <1>2, AnswerMoves DEF EntryOK

LEMMA GetCategoryKeeps ==
    ASSUME BrowserInv, UNCHANGED executions, NEW k \in Key, GetCategory(k)
    PROVE  BrowserInv'
<1>1. cache[k] \in Query /\ EntryOK(k) /\ Requested(cache[k]) /\ k # List
  BY EntryFacts DEF GetCategory, Requested
<1>2. k \in Categories
  BY <1>1 DEF EntryOK
<1> DEFINE q == [cache[k] EXCEPT !.request = "found"]
<1>3. q \in Query /\ q.rows = cache[k].rows /\ Requested(q) /\ q.request = "found"
  BY <1>1 DEF Query, Requested
<1>4. cache' = [cache EXCEPT ![k] = q]
  BY <1>2 DEF GetCategory
<1>. HIDE DEF q
<1>. QED  BY <1>1, <1>2, <1>3, <1>4, AnswerMoves DEF GetCategory, EntryOK

LEMMA GetProductsKeeps ==
    ASSUME BrowserInv, TablesTyped, EverythingStoredIsLogged, UNCHANGED executions,
           NEW k \in Key, GetProducts(k)
    PROVE  BrowserInv'
<1>1. cache[k] \in Query /\ EntryOK(k) /\ Requested(cache[k]) /\ k # List
  BY EntryFacts DEF GetProducts, Requested, EntryOK
<1>2. k \in Categories /\ k # NoCategory
  BY <1>1, LegacyTablesAssumption DEF EntryOK, TablesTyped
<1>3. Members(k) \subseteq Product /\ \A x \in Members(k) : LoggedProduct(k, x)
  BY <1>2 DEF Members, EverythingStoredIsLogged
<1>4. PICK q \in Query :
         /\ cache' = [cache EXCEPT ![k] = q]
         /\ q.rows = Members(k) /\ q.request = "none" /\ q.known
  BY <1>1, <1>3, AnsweredTyped DEF GetProducts
<1>5. \A x \in q.rows : LoggedProduct(k, x)
  BY <1>3, <1>4
<1>6. UNCHANGED <<legacyTables, executions, selected, away>>
  BY DEF GetProducts
<1>. QED  BY <1>1, <1>2, <1>4, <1>5, <1>6, AnswerMoves

LEMMA GoAwayKeeps ==
    ASSUME BrowserInv, UNCHANGED executions, NEW why \in {"hidden", "offline"}, GoAway(why)
    PROVE  BrowserInv'
<1>1. /\ UNCHANGED <<legacyTables, selected, cache>> /\ Categories' = Categories
      /\ Enabled' = Enabled /\ why \in away' /\ away' \subseteq {"hidden", "offline"}
      /\ \A m, x : LoggedProduct(m, x) => LoggedProduct(m, x)'
  BY DEF GoAway, legacyTables, Categories, Enabled, LoggedProduct, BrowserInv, BrowserTyped
<1>2. \A k \in Key : EntryOK(k)'
  BY <1>1 DEF BrowserInv, EntryOK
<1>. QED  BY <1>1, <1>2 DEF BrowserInv, BrowserTyped

LEMMA ResumedTyped ==
    ASSUME NEW q \in Query
    PROVE  /\ Resumed(q) \in Query /\ Resumed(q).rows = q.rows
           /\ Resumed(q).known = q.known /\ Resumed(q).failed = q.failed
           /\ Resumed(q).request # "paused" /\ (Requested(Resumed(q)) <=> Requested(q))
           /\ Resumed(q).request = "found" => q.request = "found"
<1>1. CASE q.request = "paused"
  <2>1. Resumed(q) = [q EXCEPT !.request = "sent"]
    BY <1>1 DEF Resumed
  <2>. QED  BY <1>1, <2>1 DEF Query, Requested
<1>2. CASE q.request # "paused"
  BY <1>2 DEF Resumed
<1>. QED  BY <1>1, <1>2

LEMMA ComeBackKeeps ==
    ASSUME BrowserInv, UNCHANGED executions, NEW why \in {"hidden", "offline"}, ComeBack(why)
    PROVE  BrowserInv'
<1>1. /\ UNCHANGED <<legacyTables, selected>> /\ Categories' = Categories
      /\ Enabled' = Enabled /\ away' \subseteq {"hidden", "offline"}
      /\ \A m, x : LoggedProduct(m, x) => LoggedProduct(m, x)'
  BY DEF ComeBack, legacyTables, Categories, Enabled, LoggedProduct, BrowserInv, BrowserTyped
<1>2. \A k \in Key : cache[k] \in Query /\ EntryOK(k)
  BY EntryFacts
<1>3. CASE away' = {}
  <2>1. cache' = [k \in Key |-> Resumed(cache[k])]
    BY <1>3 DEF ComeBack
  <2>2. ASSUME NEW k \in Key PROVE cache'[k] \in Query /\ EntryOK(k)'
    <3>1. cache'[k] = Resumed(cache[k])
      BY <2>1
    <3>2. cache[k] \in Query /\ EntryOK(k)
      BY <1>2
    <3>. QED  BY <1>1, <3>1, <3>2, ResumedTyped DEF EntryOK
  <2>3. cache' \in [Key -> Query]
    BY <2>1, <2>2
  <2>. QED  BY <1>1, <2>2, <2>3 DEF BrowserInv, BrowserTyped
<1>4. CASE away' # {}
  <2>1. cache' = cache
    BY <1>4 DEF ComeBack
  <2>2. \A k \in Key : EntryOK(k)'
    BY <1>1, <1>2, <1>4, <2>1 DEF EntryOK
  <2>. QED  BY <1>1, <2>1, <2>2 DEF BrowserInv, BrowserTyped
<1>. QED  BY <1>3, <1>4

LEMMA BrowseKeeps ==
    ASSUME BrowserInv, TablesTyped, EverythingStoredIsLogged, UNCHANGED executions, Browse
    PROVE  BrowserInv'
<1>1. ASSUME NEW k \in Key, RequestFails(k) PROVE BrowserInv'
  BY <1>1, FailureKeeps DEF RequestFails, Fetching, Requested
<1>2. ASSUME NEW k \in Key,
             Refocus(k) \/ Cancel(k) \/ GetCategory(k) \/ GetProducts(k)
      PROVE  BrowserInv'
  BY <1>2, RefocusKeeps, CancelKeeps, GetCategoryKeeps, GetProductsKeeps
<1>3. CASE (\E n \in Name : Select(n)) \/ Back \/ GetAllCategories
  BY <1>3, SelectKeeps, BackKeeps, GetAllCategoriesKeeps
<1>4. CASE \E why \in {"hidden", "offline"} : GoAway(why) \/ ComeBack(why)
  BY <1>4, GoAwayKeeps, ComeBackKeeps
<1>. QED  BY <1>1, <1>2, <1>3, <1>4 DEF Browse

LEMMA OthersKeepBrowser ==
    ASSUME BrowserInv, Grows, UNCHANGED browserVars PROVE BrowserInv'
<1>1. UNCHANGED <<selected, cache, away>> /\ Enabled' = Enabled
  BY DEF browserVars, Enabled
<1>2. \A k \in Key : EntryOK(k)'
  BY <1>1, GrowsKeepsLogged DEF BrowserInv, EntryOK, Grows
<1>. QED  BY <1>1, <1>2 DEF BrowserInv, BrowserTyped, Grows
-----------------------------------------------------------------------------
(* The whole.  The registry and the page read the tables and the log and     *)
(* leave them alone; a discovery leaves the registry and the page alone.     *)
BackendInv == DiscoveryInv /\ RegistryInv /\ VersionsInv /\ BrowserInv

LEMMA ReadersLeaveTables ==
    ASSUME \/ \E c \in Client : Registry(c)
           \/ Browser
    PROVE  UNCHANGED <<legacyTables, call, executions, run>>
<1>1. ASSUME NEW c \in Client, CallRegistry(c) PROVE UNCHANGED legacyTables
  BY <1>1 DEF CallRegistry, BeginSave, ReadLatest, InsertSchema, BeginRegister,
     FindAttribute, IncrementUsage, InsertAttribute, LoseJob
<1>2. Browse => UNCHANGED legacyTables
  BY DEF Browse, Select, Back, GetAllCategories, Refocus, Cancel, GetCategory,
     GetProducts, RequestFails, GoAway, ComeBack
<1>. QED  BY <1>1, <1>2 DEF Registry, Browser

LEMMA ReadersKeepDiscovery ==
    ASSUME DiscoveryInv, UNCHANGED <<legacyTables, call, executions, run>>
    PROVE  DiscoveryInv' /\ Grows
<1>1. Grows /\ TablesTyped' /\ executions' \in Seq(Execution) /\ EverythingStoredIsLogged'
  BY NothingStored
<1>2. \A p \in Process : IsLogged(p)' <=> IsLogged(p)
  BY DEF IsLogged, Output
<1>3. \A p \in Process : RunOK(p)'
  BY <1>1, <1>2 DEF DiscoveryInv, RunOK, Grows, Current, Output
<1>. QED  BY <1>1, <1>3 DEF DiscoveryInv

LEMMA NextBackendInv == ASSUME BackendInv, [Next]_vars PROVE BackendInv' /\ Grows
<1>1. ASSUME NEW p \in Process, Discovery(p) PROVE BackendInv' /\ Grows
  <2>1. /\ DiscoveryInv' /\ Grows
        /\ UNCHANGED registryVars /\ UNCHANGED browserVars
    BY <1>1, DiscoverKeeps DEF BackendInv, Discovery
  <2>. QED
    BY <2>1, OthersKeepRegistry, OthersKeepVersions, OthersKeepBrowser
    DEF BackendInv, Grows
<1>2. ASSUME NEW c \in Client, Registry(c) PROVE BackendInv' /\ Grows
  <2>1. DiscoveryInv' /\ Grows
    BY <1>2, ReadersLeaveTables, ReadersKeepDiscovery DEF BackendInv
  <2>2. CallRegistry(c) /\ UNCHANGED browserVars
    BY <1>2 DEF Registry
  <2>. QED  BY <2>1, <2>2, RegistryKeeps, VersionsKeep, OthersKeepBrowser DEF BackendInv
<1>3. CASE Browser
  <2>1. DiscoveryInv' /\ Grows /\ UNCHANGED executions
    BY <1>3, ReadersLeaveTables, ReadersKeepDiscovery DEF BackendInv
  <2>2. Browse /\ UNCHANGED registryVars
    BY <1>3 DEF Browser
  <2>. QED
    BY <2>1, <2>2, BrowseKeeps, OthersKeepRegistry, OthersKeepVersions
    DEF BackendInv, DiscoveryInv, Grows
<1>4. CASE UNCHANGED vars
  <2>1. /\ UNCHANGED <<legacyTables, call, executions, run>>
        /\ UNCHANGED registryVars /\ UNCHANGED browserVars
    BY <1>4 DEF vars, legacyTables, registryVars, browserVars
  <2>2. DiscoveryInv' /\ Grows
    BY <2>1, ReadersKeepDiscovery DEF BackendInv
  <2>. QED
    BY <2>1, <2>2, OthersKeepRegistry, OthersKeepVersions, OthersKeepBrowser
    DEF BackendInv, Grows
<1>. QED  BY <1>1, <1>2, <1>3, <1>4 DEF Next

(* Every reachable state of the legacy backend satisfies the invariant.     *)
THEOREM SpecBackendInv == Spec => []BackendInv
<1>1. Init => BackendInv
  BY InitDiscoveryInv, InitRegistryInv, InitVersions, InitBrowserInv DEF Init, BackendInv
<1>2. BackendInv /\ [Next]_vars => BackendInv'
  BY NextBackendInv
<1>. QED  BY <1>1, <1>2, PTL DEF Spec

(* The tables, the log, every run and call, the registry and the page's      *)
(* queries are of their types.                                               *)
THEOREM TypeCorrect == Spec => []TypeOK
<1>1. BackendInv => TypeOK
  BY DEF BackendInv, DiscoveryInv, RegistryInv, BrowserInv, TypeOK
<1>. QED  BY <1>1, SpecBackendInv, PTL

(* validateAndStoreCategories: what overlaps, fails or is killed, a category *)
(* and a product's place in one were logged before they were stored.         *)
THEOREM StoredIsLogged == Spec => []EverythingStoredIsLogged
<1>1. BackendInv => EverythingStoredIsLogged
  BY DEF BackendInv, DiscoveryInv
<1>. QED  BY <1>1, SpecBackendInv, PTL

(* getCategoryProducts and the page: however late an answer, the products    *)
(* shown under a category were put there by some logged answer.             *)
THEOREM ShownWasLogged == Spec => []ShownIsLogged
<1>1. BackendInv => ShownIsLogged
  BY DEF BackendInv, BrowserInv, EntryOK, ShownIsLogged, Key
<1>. QED  BY <1>1, SpecBackendInv, PTL

(* registerAttribute loses no use to an overlapping call.                   *)
THEOREM UsageCounted == Spec => []UsageIsCalls
<1>1. BackendInv => UsageIsCalls
  BY DEF BackendInv, RegistryInv
<1>. QED  BY <1>1, SpecBackendInv, PTL

(* saveSchema: versions nobody gives by hand are 1, 2, 3, whatever overlaps.  *)
THEOREM VersionsInOrder == Spec => []VersionsCountUp
<1>1. BackendInv => VersionsCountUp
  BY VersionsInvImplies DEF BackendInv, DiscoveryInv
<1>. QED  BY <1>1, SpecBackendInv, PTL

(* The page never asks the server for a category that is not there.         *)
THEOREM NeverNotFound == Spec => []NoNotFound
<1>1. BackendInv => NoNotFound
  BY DEF BackendInv, BrowserInv, EntryOK, NoNotFound
<1>. QED  BY <1>1, SpecBackendInv, PTL

(* Seen and online, the page shows a spinner, an alert, a notice or cards,  *)
(* and a spinner never next to cards.                                       *)
THEOREM PageNeverBlank == Spec => []NeverBlank
<1>1. ASSUME NEW k \in Key, cache[k] \in Query, EntryOK(k), k \in Enabled
      PROVE  /\ away = {} => Parts(cache[k]) # {}
             /\ ~ {"spinner", "cards"} \subseteq Parts(cache[k])
  <2>1. cache[k].failed => "alert" \in Parts(cache[k])
    BY DEF Parts
  <2>2. cache[k].known => "empty" \in Parts(cache[k]) \/ "cards" \in Parts(cache[k])
    BY DEF Parts
  <2>3. Fetching(cache[k]) /\ ~ cache[k].known /\ ~ cache[k].failed =>
            "spinner" \in Parts(cache[k])
    BY DEF Parts, IsLoading
  <2>4. "spinner" \in Parts(cache[k]) /\ "cards" \in Parts(cache[k]) => FALSE
    BY DEF Parts, IsLoading
  <2>5. away = {} /\ Requested(cache[k]) => Fetching(cache[k])
    BY <1>1 DEF EntryOK, Requested, Fetching, Query
  <2>. QED  BY <1>1, <2>1, <2>2, <2>3, <2>4, <2>5 DEF EntryOK
<1>2. ASSUME BackendInv PROVE NeverBlank
  <2>1. selected \in Key /\ List \in Key /\ List \in Enabled
    BY <1>2 DEF BackendInv, BrowserInv, BrowserTyped, Key, Enabled
  <2>2. selected # NoCategory => selected \in Enabled
    BY DEF Enabled
  <2>3. /\ EntryOK(selected) /\ EntryOK(List)
        /\ cache[selected] \in Query /\ cache[List] \in Query
    BY <1>2, <2>1 DEF BackendInv, BrowserInv, BrowserTyped
  <2>. QED
    BY <1>1, <2>1, <2>2, <2>3 DEF NeverBlank, View, ProductsView, CategoriesView
<1>. QED  BY <1>2, SpecBackendInv, PTL
-----------------------------------------------------------------------------
(* Discoveries one at a time.  What the running one has counted is still so,  *)
(* and the newest execution is its own.                                     *)
CountedOK(p) ==
    run[p].step = "commit" =>
        run[p].counted = Cardinality(Members(Current(p).name) \cup Rows(p))

NewestOK(p) ==
    /\ run[p].step \in Storing \cup {"latest"} =>
           /\ Len(executions) \in DOMAIN executions
           /\ executions[Len(executions)].output = Output(p)
    /\ run[p].step = "link" => /\ run[p].newest \in DOMAIN executions
                               /\ executions[run[p].newest].output = Output(p)

CountsHigh == \A n \in Categories : count[n] >= Cardinality(Members(n))

LinksOK ==
    \A e \in DOMAIN executions :
        executions[e].links # {} =>
            executions[e].links =
                {executions[e].output[i].name : i \in DOMAIN executions[e].output}

SerialOK ==
    /\ \A p, q \in Process : Active(p) /\ Active(q) => p = q
    /\ \A p \in Process : CountedOK(p) /\ NewestOK(p)
    /\ CountsHigh /\ LinksOK

(* A step of the only one that runs: its own facts are all there is to show. *)
LEMMA SerialStep ==
    ASSUME DiscoveryInv, SerialOK, NEW p \in Process, MovesWell(p),
           \A q \in Process \ {p} : ~ Active(q),
           CountedOK(p)', NewestOK(p)', CountsHigh', LinksOK'
    PROVE  SerialOK'
<1>1. \A q \in Process \ {p} : run'[q] = run[q] /\ run[q].step \in Ended
  BY DEF MovesWell, OnlyMoves, Active
<1>2. \A q \in Process \ {p} : ~ Active(q)' /\ CountedOK(q)' /\ NewestOK(q)'
  BY <1>1 DEF Active, CountedOK, NewestOK, Ended, Storing
<1>. QED  BY <1>2 DEF SerialOK

LEMMA TablesKeepCounts ==
    ASSUME UNCHANGED legacyTables
    PROVE  /\ CountsHigh' <=> CountsHigh
           /\ \A n : Members(n)' = Members(n)
BY DEF legacyTables, CountsHigh, Categories, Members

LEMMA LogKeepsLinks == ASSUME UNCHANGED executions PROVE LinksOK' <=> LinksOK
BY DEF LinksOK

LEMMA LoggingKeepsLinks ==
    ASSUME DiscoveryInv, LinksOK, NEW e \in Execution, e.links = {},
           executions' = Append(executions, e)
    PROVE  /\ LinksOK' /\ Len(executions') \in DOMAIN executions'
           /\ executions'[Len(executions')] = e
<1>1. executions \in Seq(Execution)
  BY DEF DiscoveryInv
<1>2. /\ Len(executions) \in Nat /\ DOMAIN executions = 1..Len(executions)
      /\ Len(executions') = Len(executions) + 1
      /\ DOMAIN executions' = 1..(Len(executions) + 1)
      /\ executions'[Len(executions) + 1] = e
      /\ \A i \in DOMAIN executions : executions'[i] = executions[i]
  BY <1>1
<1>3. LinksOK'
  BY <1>2 DEF LinksOK
<1>. QED  BY <1>2, <1>3

(* The steps of a discovery that only read, or end it.                      *)
LEMMA EndSerial ==
    ASSUME DiscoveryInv, SerialOK, NEW p \in Process,
           \A q \in Process \ {p} : ~ Active(q), NEW step \in Ended, Exit(p, step),
           CountsHigh', LinksOK'
    PROVE  SerialOK'
<1>1. run'[p].step = step
  BY DEF Exit, DiscoveryInv, NoRun
<1>2. CountedOK(p)' /\ NewestOK(p)'
  BY <1>1 DEF CountedOK, NewestOK, Ended, Storing
<1>. QED  BY <1>2, ExitMovesWell, SerialStep

(* A run that goes on with its answer, to a step that has counted nothing.  *)
LEMMA GoesOnSerial ==
    ASSUME DiscoveryInv, SerialOK, NEW p \in Process, MovesWell(p),
           \A q \in Process \ {p} : ~ Active(q),
           run[p].step \in Storing, run'[p].step \notin {"commit", "link"},
           UNCHANGED <<call, executions>>, CountsHigh'
    PROVE  SerialOK'
<1>1. CountedOK(p)'
  BY DEF CountedOK
<1>2. NewestOK(p)'
  BY DEF NewestOK, SerialOK, Output
<1>3. LinksOK'
  BY LogKeepsLinks DEF SerialOK
<1>. QED  BY <1>1, <1>2, <1>3, SerialStep
LEMMA DiscoverMovesWell ==
    ASSUME DiscoveryInv, NEW p \in Process, Discover(p)
    PROVE  MovesWell(p)
<1>0. SUFFICES OnlyMoves(p)
  BY DiscoverKeeps DEF MovesWell, DiscoveryInv, CallOK
<1>1. ASSUME NEW step, Exit(p, step) PROVE OnlyMoves(p)
  BY <1>1 DEF Exit, OnlyMoves, DiscoveryInv
<1>2. ASSUME NEW step, Goto(p, step) PROVE OnlyMoves(p)
  BY <1>2 DEF Goto, OnlyMoves, DiscoveryInv
<1>3. Advance(p) \/ HaveCategory(p) => OnlyMoves(p)
  BY DEF HaveCategory, Advance, OnlyMoves, DiscoveryInv
<1>4. CASE AskOpen(p) \/ AskProvider(p) \/ AskTimers(p)
  BY <1>4, CallSteps DEF AskOpen, AskProvider, AskTimers, Asking, CallMoves, OnlyMoves
<1>5. CASE \E products \in Filter : Begin(p, products)
  BY <1>1, <1>5 DEF Begin, OnlyMoves, DiscoveryInv
<1>6. CASE Logs(p) \/ LogFails(p)
  BY <1>1, <1>2, <1>6 DEF Logs, LogExecution, LogError, LogFails
<1>7. CASE FindCategory(p) \/ CreateCategory(p) \/ CommitAssign(p)
  BY <1>1, <1>2, <1>3, <1>7 DEF FindCategory, CreateCategory, CommitAssign
<1>8. CASE TakeRow(p) \/ CountMembers(p)
  BY <1>8 DEF TakeRow, CountMembers, OnlyMoves, DiscoveryInv
<1>9. CASE LatestExecution(p)
  BY <1>1, <1>9 DEF LatestExecution, OnlyMoves, DiscoveryInv
<1>10. CASE Link(p) \/ Deadlock(p) \/ Abort(p)
  BY <1>1, <1>10 DEF Link, Deadlock, Abort
<1>. QED  BY <1>4, <1>5, <1>6, <1>7, <1>8, <1>9, <1>10 DEF Discover, Store

(* Up to the answer no step stores.                                         *)
LEMMA AskingSteps ==
    ASSUME DiscoveryInv, NEW p \in Process,
           \/ \E products \in Filter : Begin(p, products)
           \/ AskOpen(p) \/ AskProvider(p) \/ AskTimers(p) \/ LogFails(p)
    PROVE  run'[p].step \in {"ask", "log_error", "failed"}
<1>0. run \in [Process -> Run]
  BY DEF DiscoveryInv
<1>1. ASSUME NEW products \in Filter, Begin(p, products)
      PROVE  run'[p].step \in {"ask", "failed"}
  <2>1. CASE Exit(p, "failed")
    BY <1>0, <2>1 DEF Exit, NoRun
  <2>2. CASE run' = [run EXCEPT ![p] = [run[p] EXCEPT !.step = "ask", !.asked = products]]
    BY <1>0, <2>2 DEF Run
  <2>. QED  BY <1>1, <2>1, <2>2 DEF Begin
<1>2. CASE AskOpen(p) \/ AskProvider(p) \/ AskTimers(p)
  BY <1>2 DEF AskOpen, AskProvider, AskTimers, Asking
<1>3. CASE LogFails(p)
  BY <1>0, <1>3 DEF LogFails, Goto, Run
<1>. QED  BY <1>1, <1>2, <1>3

(* Up to the answer there is nothing to compare it with.                    *)
LEMMA AskingSerial ==
    ASSUME DiscoveryInv, SerialOK, NEW p \in Process,
           \A q \in Process \ {p} : ~ Active(q),
           \/ \E products \in Filter : Begin(p, products)
           \/ AskOpen(p) \/ AskProvider(p) \/ AskTimers(p) \/ LogFails(p)
    PROVE  SerialOK'
<1>1. MovesWell(p) /\ UNCHANGED <<legacyTables, executions>>
  BY DiscoverMovesWell
  DEF Discover, Begin, AskOpen, AskProvider, AskTimers, Asking, LogFails
<1>2. run'[p].step \in {"ask", "log_error", "failed"}
  BY AskingSteps
<1>3. CountedOK(p)' /\ NewestOK(p)'
  BY <1>2 DEF CountedOK, NewestOK, Storing
<1>. QED  BY <1>1, <1>3, SerialStep, TablesKeepCounts, LogKeepsLinks DEF SerialOK

LEMMA LogExecutionSerial ==
    ASSUME DiscoveryInv, SerialOK, NEW p \in Process,
           \A q \in Process \ {p} : ~ Active(q), LogExecution(p)
    PROVE  SerialOK'
<1>1. MovesWell(p) /\ UNCHANGED legacyTables
  BY DiscoverMovesWell DEF Discover, Logs, LogExecution
<1>2. PICK e \in Execution :
         executions' = Append(executions, e) /\ e.links = {} /\ e.output = Output(p)
  <2>1. PICK status \in {"success", "partial"} :
           executions' = Append(executions, NewExecution(p, status))
    BY DEF LogExecution
  <2>. QED  BY <2>1, NewExecutionTyped DEF NewExecution
<1>3. /\ LinksOK' /\ Len(executions') \in DOMAIN executions'
      /\ executions'[Len(executions')] = e
  BY <1>2, LoggingKeepsLinks DEF SerialOK
<1>4. run'[p].step \in {"find", "latest"} /\ Output(p)' = Output(p)
  BY DEF LogExecution, Goto, NextElement, Output, DiscoveryInv, Run
<1>5. CountedOK(p)' /\ NewestOK(p)'
  BY <1>2, <1>3, <1>4 DEF CountedOK, NewestOK
<1>. QED  BY <1>1, <1>3, <1>5, SerialStep, TablesKeepCounts DEF SerialOK

LEMMA LogErrorSerial ==
    ASSUME DiscoveryInv, SerialOK, NEW p \in Process,
           \A q \in Process \ {p} : ~ Active(q), LogError(p)
    PROVE  SerialOK'
<1>1. PICK e \in Execution : executions' = Append(executions, e) /\ e.links = {}
  BY NewExecutionTyped DEF LogError, NewExecution
<1>2. LinksOK'
  BY <1>1, LoggingKeepsLinks DEF SerialOK
<1>. QED  BY <1>2, EndSerial, TablesKeepCounts DEF LogError, SerialOK, Ended

LEMMA FindCategorySerial ==
    ASSUME DiscoveryInv, SerialOK, NEW p \in Process,
           \A q \in Process \ {p} : ~ Active(q), FindCategory(p)
    PROVE  SerialOK'
<1>1. /\ MovesWell(p) /\ UNCHANGED <<legacyTables, executions, call>>
      /\ run[p].step \in Storing
  BY DiscoverMovesWell
  DEF Discover, Store, FindCategory, HaveCategory, Advance, Goto, Storing
<1>2. run'[p].step \in {"find", "latest", "assign", "create"}
  <2>0. run \in [Process -> Run]
    BY DEF DiscoveryInv
  <2>1. CASE Advance(p)
    BY <2>0, <2>1 DEF Advance, NextElement, Run
  <2>2. CASE run' = [run EXCEPT ![p] = [run[p] EXCEPT !.step = "assign", !.left = Rows(p)]]
    BY <2>0, <2>2 DEF Run
  <2>3. CASE Goto(p, "create")
    BY <2>0, <2>3 DEF Goto, Run
  <2>. QED  BY <2>1, <2>2, <2>3 DEF FindCategory, HaveCategory
<1>. QED  BY <1>1, <1>2, GoesOnSerial, TablesKeepCounts DEF SerialOK
LEMMA MembersFinite == \A n : IsFiniteSet(Members(n)) /\ Cardinality(Members(n)) \in Nat
<1>1. \A n : Members(n) \subseteq Product
  BY DEF Members
<1>. QED  BY <1>1, LegacyTablesAssumption, FS_Subset, FS_CardinalityType

LEMMA CreateCategorySerial ==
    ASSUME DiscoveryInv, SerialOK, NEW p \in Process,
           \A q \in Process \ {p} : ~ Active(q), CreateCategory(p)
    PROVE  SerialOK'
<1>1. MovesWell(p) /\ UNCHANGED <<categoryOf, executions>> /\ run[p].step \in Storing
  BY DiscoverMovesWell DEF Discover, Store, CreateCategory, Storing
<1>2. CASE Current(p).name \in Categories
  BY <1>2, EndSerial, TablesKeepCounts, LogKeepsLinks
  DEF CreateCategory, SerialOK, Ended, legacyTables
<1>3. CASE Current(p).name \notin Categories
  <2>1. PICK n : n = Current(p).name
    OBVIOUS
  <2>2. count' = Put(count, n, 0) /\ HaveCategory(p) /\ n \in Name /\ n \notin Categories
    BY <1>1, <1>3, <2>1, StoringFacts DEF CreateCategory
  <2>3. /\ Categories' = Categories \cup {n}
        /\ \A m \in Categories' : count'[m] = IF m = n THEN 0 ELSE count[m]
    BY <2>2 DEF Put, Categories
  <2>4. Members(n) = {}
    BY <2>2, LegacyTablesAssumption DEF Members, DiscoveryInv, TablesTyped
  <2>5. \A m : Members(m)' = Members(m)
    BY <1>1 DEF Members
  <2>6. CountsHigh'
    BY <2>3, <2>4, <2>5, FS_EmptySet DEF CountsHigh, SerialOK
  <2>7. run'[p].step \in {"find", "latest", "assign"} /\ UNCHANGED call
    BY <2>2 DEF HaveCategory, Advance, NextElement, DiscoveryInv, Run
  <2>. QED  BY <1>1, <2>6, <2>7, GoesOnSerial
<1>. QED  BY <1>2, <1>3

LEMMA AssigningSerial ==
    ASSUME DiscoveryInv, SerialOK, NEW p \in Process,
           \A q \in Process \ {p} : ~ Active(q), TakeRow(p) \/ CountMembers(p)
    PROVE  SerialOK'
<1>1. /\ MovesWell(p) /\ UNCHANGED <<legacyTables, executions, call>>
      /\ run[p].step = "assign" /\ run[p] \in Run
  BY DiscoverMovesWell DEF Discover, Store, TakeRow, CountMembers, DiscoveryInv
<1>2. CASE TakeRow(p)
  <2>1. run'[p].step = "assign"
    BY <1>1, <1>2 DEF TakeRow, DiscoveryInv, Run
  <2>. QED  BY <1>1, <2>1, GoesOnSerial, TablesKeepCounts DEF SerialOK, Storing
<1>3. CASE CountMembers(p)
  <2>1. /\ run'[p].step = "commit" /\ run'[p].at = run[p].at
        /\ run'[p].counted = Cardinality(Members(Current(p).name) \cup Rows(p))
    BY <1>1, <1>3 DEF CountMembers, DiscoveryInv, Run
  <2>2. /\ Current(p)' = Current(p) /\ Rows(p)' = Rows(p) /\ Output(p)' = Output(p)
        /\ \A n : Members(n)' = Members(n)
    BY <1>1, <2>1, TablesKeepCounts DEF Current, Rows, Output
  <2>3. (Members(Current(p).name) \cup Rows(p))' = Members(Current(p).name) \cup Rows(p)
    BY <2>2 DEF Members
  <2>4. CountedOK(p)'
    BY <2>1, <2>3 DEF CountedOK
  <2>5. NewestOK(p)'
    BY <1>1, <2>1, <2>2 DEF NewestOK, SerialOK, Storing
  <2>. QED  BY <1>1, <2>4, <2>5, SerialStep, TablesKeepCounts, LogKeepsLinks DEF SerialOK
<1>. QED  BY <1>2, <1>3

LEMMA CommitAssignSerial ==
    ASSUME DiscoveryInv, SerialOK, NEW p \in Process,
           \A q \in Process \ {p} : ~ Active(q), CommitAssign(p)
    PROVE  SerialOK'
<1>1. /\ MovesWell(p) /\ UNCHANGED <<executions, call>> /\ run[p].step \in Storing
      /\ run[p].step = "commit" /\ CountedOK(p)
  BY DiscoverMovesWell
  DEF Discover, Store, CommitAssign, Advance, Storing, SerialOK
<1>2. PICK n, R : n = Current(p).name /\ R = Rows(p)
  OBVIOUS
<1>3. /\ n \in Categories /\ R \subseteq Product
      /\ categoryOf' = [x \in Product |-> IF x \in R THEN n ELSE categoryOf[x]]
      /\ count' = [count EXCEPT ![n] = Cardinality(Members(n) \cup R)]
  BY <1>1, <1>2, StoringFacts DEF CommitAssign, CountedOK, Rows
<1>4. /\ Categories' = Categories
      /\ \A m \in Categories :
            count'[m] = IF m = n THEN Cardinality(Members(n) \cup R) ELSE count[m]
  BY <1>3 DEF Categories, DiscoveryInv, TablesTyped
<1>5. Members(n)' = Members(n) \cup R
  BY <1>3 DEF Members
<1>6. \A m : m # n => Members(m)' \subseteq Members(m)
  BY <1>3 DEF Members
<1>7. ASSUME NEW m \in Categories PROVE count'[m] >= Cardinality(Members(m)')
  <2>1. CASE m = n
    <3>1. Cardinality(Members(n)') \in Nat
      <4>1. IsFiniteSet(Members(n) \cup R)
        BY <1>3, LegacyTablesAssumption, FS_Subset DEF Members
      <4>. QED  BY <1>5, <4>1, FS_CardinalityType
    <3>. QED  BY <1>4, <1>5, <2>1, <3>1
  <2>2. CASE m # n
    <3>1. Cardinality(Members(m)') <= Cardinality(Members(m)) /\ Cardinality(Members(m)') \in Nat
      BY <1>6, <2>2, MembersFinite, FS_Subset, FS_CardinalityType
    <3>2. count[m] >= Cardinality(Members(m)) /\ count[m] \in Nat
      BY DEF SerialOK, CountsHigh, DiscoveryInv, TablesTyped
    <3>. QED  BY <1>4, <2>2, <3>1, <3>2, MembersFinite
  <2>. QED  BY <2>1, <2>2
<1>8. CountsHigh'
  BY <1>4, <1>7 DEF CountsHigh
<1>9. run'[p].step \in {"find", "latest"}
  BY DEF CommitAssign, Advance, NextElement, DiscoveryInv, Run
<1>. QED  BY <1>1, <1>8, <1>9, GoesOnSerial
(* The newest execution is remembered, and nothing else of the run changes. *)
LEMMA LatestMoves ==
    ASSUME DiscoveryInv, NEW p \in Process, LatestExecution(p), Output(p) # <<>>
    PROVE  /\ run[p].step = "latest" /\ run'[p].step = "link"
           /\ run'[p].newest = Len(executions) /\ run'[p].at = run[p].at
           /\ UNCHANGED <<legacyTables, call>>
<1>1. /\ run' = [run EXCEPT ![p] =
                   [run[p] EXCEPT !.step = "link", !.newest = Len(executions)]]
      /\ run[p].step = "latest" /\ UNCHANGED <<legacyTables, call>>
  BY DEF LatestExecution
<1>2. run \in [Process -> Run]
  BY DEF DiscoveryInv
<1>. QED  BY <1>1, <1>2 DEF Run

LEMMA LatestExecutionSerial ==
    ASSUME DiscoveryInv, SerialOK, NEW p \in Process,
           \A q \in Process \ {p} : ~ Active(q), LatestExecution(p)
    PROVE  SerialOK'
<1>1. MovesWell(p) /\ UNCHANGED <<legacyTables, executions>> /\ run[p].step = "latest"
  BY DiscoverMovesWell DEF Discover, Store, LatestExecution
<1>2. CASE Output(p) = <<>>
  BY <1>1, <1>2, EndSerial, TablesKeepCounts, LogKeepsLinks
  DEF LatestExecution, SerialOK, Ended
<1>3. CASE Output(p) # <<>>
  <2>1. run'[p].step = "link" /\ run'[p].newest = Len(executions) /\ UNCHANGED call
    BY <1>3, LatestMoves
  <2>2. CountedOK(p)' /\ NewestOK(p)'
    BY <1>1, <2>1 DEF CountedOK, NewestOK, SerialOK, Storing, Output
  <2>. QED  BY <1>1, <2>2, SerialStep, TablesKeepCounts, LogKeepsLinks DEF SerialOK
<1>. QED  BY <1>2, <1>3

LEMMA LinkSerial ==
    ASSUME DiscoveryInv, SerialOK, NEW p \in Process,
           \A q \in Process \ {p} : ~ Active(q), Link(p)
    PROVE  SerialOK'
<1>1. PICK e, names : e = run[p].newest /\ names = Named(p)
  OBVIOUS
<1>2. /\ e \in DOMAIN executions /\ executions[e].output = Output(p)
      /\ executions \in Seq(Execution) /\ executions[e] \in Execution
  BY <1>1 DEF Link, SerialOK, NewestOK, DiscoveryInv
<1>3. names = {executions[e].output[i].name : i \in DOMAIN executions[e].output}
  BY <1>1, <1>2 DEF Named
<1>4. LinksOK'
  <2>1. CASE executions' = [executions EXCEPT ![e].links = names]
    <3>1. /\ DOMAIN executions' = DOMAIN executions
          /\ executions'[e].links = names /\ executions'[e].output = executions[e].output
          /\ \A i \in DOMAIN executions \ {e} : executions'[i] = executions[i]
      BY <1>2, <2>1 DEF Execution
    <3>. QED  BY <1>2, <1>3, <3>1 DEF LinksOK, SerialOK
  <2>2. CASE UNCHANGED executions
    BY <2>2, LogKeepsLinks DEF SerialOK
  <2>. QED  BY <1>1, <2>1, <2>2 DEF Link
<1>. QED  BY <1>4, EndSerial, TablesKeepCounts DEF Link, SerialOK, Ended

LEMMA DiscoverSerial ==
    ASSUME DiscoveryInv, SerialOK, NEW p \in Process,
           \A q \in Process \ {p} : ~ Active(q), Discover(p)
    PROVE  SerialOK'
<1>1. CASE Deadlock(p) \/ Abort(p)
  BY <1>1, EndSerial, TablesKeepCounts, LogKeepsLinks DEF Deadlock, Abort, SerialOK, Ended
<1>. QED
  BY <1>1, AskingSerial, LogExecutionSerial, LogErrorSerial, FindCategorySerial,
     CreateCategorySerial, AssigningSerial, CommitAssignSerial, LatestExecutionSerial,
     LinkSerial
  DEF Discover, Logs, Store

LEMMA ReadersKeepSerial ==
    ASSUME SerialOK, UNCHANGED <<legacyTables, call, executions, run>>
    PROVE  SerialOK'
<1>1. CountsHigh' /\ LinksOK' /\ \A n : Members(n)' = Members(n)
  BY TablesKeepCounts, LogKeepsLinks DEF SerialOK
<1>2. \A p \in Process : /\ Active(p)' <=> Active(p)
                         /\ NewestOK(p)' <=> NewestOK(p)
  BY DEF Active, NewestOK, Output
<1>3. \A p \in Process : CountedOK(p)' <=> CountedOK(p)
  BY DEF CountedOK, Current, Rows, Output, Members, legacyTables
<1>. QED  BY <1>1, <1>2, <1>3 DEF SerialOK

LEMMA SpecSerial == Spec => [](scenario.serial => SerialOK)
<1> DEFINE S == scenario.serial => SerialOK
<1>1. Init => S
  <2>. SUFFICES ASSUME Init PROVE SerialOK
    OBVIOUS
  <2>1. \A p \in Process : run[p].step = "idle"
    BY DEF Init, InitDiscovery, NoRun
  <2>2. CountsHigh
    BY DEF Init, InitDiscovery, InitTables, CountsHigh, Categories
  <2>3. LinksOK
    BY DEF Init, InitDiscovery, LinksOK
  <2>. QED
    BY <2>1, <2>2, <2>3 DEF SerialOK, Active, Ended, CountedOK, NewestOK, Storing
<1>2. BackendInv /\ S /\ [Next]_vars => S'
  <2>. SUFFICES ASSUME BackendInv, S, [Next]_vars, scenario.serial' PROVE SerialOK'
    OBVIOUS
  <2>1. UNCHANGED scenario
    BY DEF Next, Discovery, Registry, Browser, vars
  <2>2. SerialOK
    BY <2>1
  <2>3. ASSUME NEW p \in Process, Discovery(p) PROVE SerialOK'
    BY <2>1, <2>2, <2>3, DiscoverSerial DEF Discovery, Turn, BackendInv
  <2>4. CASE UNCHANGED vars
    BY <2>2, <2>4, ReadersKeepSerial DEF vars, legacyTables
  <2>. QED  BY <2>2, <2>3, <2>4, ReadersLeaveTables, ReadersKeepSerial DEF Next
<1>. QED  BY <1>1, <1>2, SpecBackendInv, PTL DEF Spec

(* assignProducts: run one at a time, a category's product_count is never    *)
(* less than the members it has.                                            *)
THEOREM CountsNeverLow == Spec => []CountNeverLow
<1>1. (scenario.serial => SerialOK) => CountNeverLow
  BY DEF SerialOK, CountsHigh, CountNeverLow
<1>. QED  BY <1>1, SpecSerial, PTL

(* updateExecutionWithCategoryIds: run one at a time, the categories linked  *)
(* to an execution are those of its own output.                             *)
THEOREM LinksAreOwn == Spec => []LinksMatchOutput
<1>1. (scenario.serial => SerialOK) => LinksMatchOutput
  BY DEF SerialOK, LinksOK, LinksMatchOutput
<1>. QED  BY <1>1, SpecSerial, PTL
-----------------------------------------------------------------------------
(* What one discovery at a time has put where: of the elements before k, each *)
(* has its category, and a product is in the last of them that lists it.     *)
Placed(p, k) ==
    \A i \in DOMAIN Output(p) : i < k =>
        /\ Output(p)[i].name \in Categories
        /\ \A x \in Product :
              /\ x \in Output(p)[i].products
              /\ \A j \in DOMAIN Output(p) :
                    i < j /\ j < k => x \notin Output(p)[j].products
              => categoryOf[x] = Output(p)[i].name

PlacedOK(p) ==
    /\ run[p].step \in Storing \cup Linking => Placed(p, run[p].at)
    /\ run[p].step \in Linking => run[p].at > Len(Output(p))

LEMMA PlacedOne ==
    ASSUME DiscoveryInv, NEW p \in Process, run[p].at \in DOMAIN Output(p),
           UNCHANGED call, Placed(p, run[p].at), Categories \subseteq Categories',
           Current(p).name \in Categories',
           \A x \in Product :
               categoryOf'[x] = IF x \in Current(p).products
                                THEN Current(p).name ELSE categoryOf[x]
    PROVE  \A k : k = run[p].at + 1 => Placed(p, k)'
<1>1. PICK at \in Nat : at = run[p].at
  BY OutputTyped
<1>2. Output(p)' = Output(p) /\ DOMAIN Output(p) \subseteq Nat
  BY OutputTyped DEF Output
<1>3. ASSUME NEW i \in DOMAIN Output(p), i < at + 1
      PROVE  /\ Output(p)[i].name \in Categories'
             /\ \A x \in Product :
                   /\ x \in Output(p)[i].products
                   /\ \A j \in DOMAIN Output(p) :
                         i < j /\ j < at + 1 => x \notin Output(p)[j].products
                   => categoryOf'[x] = Output(p)[i].name
  <2>1. CASE i = at
    BY <1>1, <2>1 DEF Current
  <2>2. CASE i # at
    <3>1. i < at
      BY <1>1, <1>2, <1>3, <2>2
    <3>2. \A j \in DOMAIN Output(p) : j < at => j < at + 1
      BY <1>1, <1>2
    <3>3. at \in DOMAIN Output(p) /\ at < at + 1 /\ Current(p) = Output(p)[at]
      BY <1>1 DEF Current
    <3>. QED  BY <1>1, <3>1, <3>2, <3>3 DEF Placed
  <2>. QED  BY <2>1, <2>2
<1>. QED  BY <1>1, <1>2, <1>3 DEF Placed

(* Nothing is assigned, or the categories grow: what is placed stays.       *)
LEMMA PlacedStays ==
    ASSUME NEW p \in Process, UNCHANGED <<call, categoryOf>>,
           Categories \subseteq Categories'
    PROVE  \A k : Placed(p, k) => Placed(p, k)'
BY DEF Placed, Output

LEMMA AdvancePlaces ==
    ASSUME DiscoveryInv, NEW p \in Process, Advance(p),
           run[p].at \in DOMAIN Output(p), \A k : k = run[p].at + 1 => Placed(p, k)'
    PROVE  PlacedOK(p)'
<1>1. /\ run'[p].at = run[p].at + 1 /\ Output(p)' = Output(p)
      /\ run'[p].step = NextElement(run[p].at + 1, Output(p))
  BY DEF Advance, DiscoveryInv, Run, Output
<1>2. run'[p].step \in Linking => run'[p].at > Len(Output(p))
  BY <1>1, OutputTyped DEF NextElement, Linking
<1>. QED  BY <1>1, <1>2 DEF PlacedOK

LEMMA HaveCategoryPlaces ==
    ASSUME DiscoveryInv, NEW p \in Process, HaveCategory(p), PlacedOK(p),
           run[p].step \in Storing, UNCHANGED categoryOf,
           Categories \subseteq Categories', Current(p).name \in Categories'
    PROVE  PlacedOK(p)'
<1>1. Placed(p, run[p].at) /\ run[p].at \in DOMAIN Output(p) /\ UNCHANGED call
  BY StoringFacts DEF PlacedOK, HaveCategory, Advance
<1>2. CASE Current(p).products = {}
  <2>1. Advance(p)
    BY <1>2 DEF HaveCategory
  <2>. QED  BY <1>1, <1>2, <2>1, PlacedOne, AdvancePlaces
<1>3. CASE Current(p).products # {}
  <2>1. run'[p].step = "assign" /\ run'[p].at = run[p].at
    BY <1>3 DEF HaveCategory, DiscoveryInv, Run
  <2>. QED  BY <1>1, <2>1, PlacedStays DEF PlacedOK, Linking
<1>. QED  BY <1>2, <1>3
LEMMA CommitAssignPlaces ==
    ASSUME DiscoveryInv, NEW p \in Process, CommitAssign(p), PlacedOK(p)
    PROVE  PlacedOK(p)'
<1>1. /\ run[p].step \in Storing /\ run[p].step = "commit"
      /\ Advance(p) /\ UNCHANGED call
      /\ categoryOf' = [x \in Product |->
             IF x \in Rows(p) THEN Current(p).name ELSE categoryOf[x]]
  BY DEF CommitAssign, Advance, Storing
<1>2. /\ Placed(p, run[p].at) /\ run[p].at \in DOMAIN Output(p)
      /\ Current(p).name \in Categories
  BY <1>1, StoringFacts DEF PlacedOK
<1>3. Categories' = Categories
  BY DEF CommitAssign, Categories, DiscoveryInv, TablesTyped
<1>4. \A x \in Product :
          categoryOf'[x] = IF x \in Current(p).products
                           THEN Current(p).name ELSE categoryOf[x]
  BY <1>1 DEF Rows
<1>. QED  BY <1>1, <1>2, <1>3, <1>4, PlacedOne, AdvancePlaces

LEMMA DiscoverPlaces ==
    ASSUME DiscoveryInv, NEW p \in Process, Discover(p), PlacedOK(p)
    PROVE  PlacedOK(p)'
<1>1. ASSUME run'[p].step \notin Storing \cup Linking PROVE PlacedOK(p)'
  BY <1>1 DEF PlacedOK
<1>2. ASSUME NEW step \in Ended, Exit(p, step) PROVE PlacedOK(p)'
  <2>1. run'[p].step = step
    BY <1>2 DEF Exit, DiscoveryInv, NoRun
  <2>. QED  BY <1>1, <2>1 DEF Ended, Storing, Linking
<1>3. CASE \/ \E products \in Filter : Begin(p, products)
           \/ AskOpen(p) \/ AskProvider(p) \/ AskTimers(p) \/ LogFails(p)
  <2>1. run'[p].step \in {"ask", "log_error", "failed"}
    BY <1>3, AskingSteps
  <2>. QED  BY <1>1, <2>1 DEF Storing, Linking
<1>4. CASE LogExecution(p)
  <2>1. /\ run'[p].step = NextElement(1, Output(p)) /\ run'[p].at = 1
        /\ Output(p)' = Output(p)
    BY <1>4 DEF LogExecution, Goto, DiscoveryInv, Run, RunOK, Output
  <2>2. \A k : k = 1 => Placed(p, k)'
    BY <2>1, OutputTyped DEF Placed
  <2>3. run'[p].step \in Linking => run'[p].at > Len(Output(p))
    BY <2>1, OutputTyped DEF NextElement, Linking
  <2>. QED  BY <2>1, <2>2, <2>3 DEF PlacedOK
<1>5. CASE LogError(p) \/ Deadlock(p) \/ Abort(p) \/ Link(p)
  BY <1>2, <1>5 DEF LogError, Deadlock, Abort, Link, Ended
<1>6. CASE FindCategory(p)
  <2>1. UNCHANGED legacyTables /\ run[p].step = "find"
    BY <1>6 DEF FindCategory
  <2>2. CASE Current(p).name \in Categories
    BY <1>6, <2>1, <2>2, HaveCategoryPlaces
    DEF FindCategory, legacyTables, Categories, Storing
  <2>3. CASE Goto(p, "create")
    <3>1. run'[p].step = "create" /\ run'[p].at = run[p].at /\ UNCHANGED call
      BY <2>3 DEF Goto, DiscoveryInv, Run
    <3>. QED
      BY <2>1, <3>1, PlacedStays DEF PlacedOK, legacyTables, Categories, Storing, Linking
  <2>. QED  BY <1>6, <2>2, <2>3 DEF FindCategory
<1>7. CASE CreateCategory(p)
  <2>1. CASE Exit(p, "failed")
    BY <1>2, <2>1 DEF Ended
  <2>2. CASE count' = Put(count, Current(p).name, 0) /\ HaveCategory(p)
    <3>1. Categories' = Categories \cup {Current(p).name}
      BY <2>2 DEF Put, Categories
    <3>. QED  BY <1>7, <2>2, <3>1, HaveCategoryPlaces DEF CreateCategory, Storing
  <2>. QED  BY <1>7, <2>1, <2>2 DEF CreateCategory
<1>8. CASE TakeRow(p) \/ CountMembers(p)
  <2>0. /\ run \in [Process -> Run]
        /\ UNCHANGED <<legacyTables, call>> /\ run[p].step = "assign"
    BY <1>8 DEF TakeRow, CountMembers, DiscoveryInv
  <2>1. run'[p].step \in {"assign", "commit"} /\ run'[p].at = run[p].at
    <3>1. CASE TakeRow(p)
      <4>1. PICK x : run' = [run EXCEPT ![p].left = @ \ {x}]
        BY <3>1 DEF TakeRow
      <4>. QED  BY <2>0, <4>1 DEF Run
    <3>2. CASE CountMembers(p)
      <4>1. PICK n : run' = [run EXCEPT ![p] = [run[p] EXCEPT !.step = "commit", !.counted = n]]
        BY <3>2 DEF CountMembers
      <4>. QED  BY <2>0, <4>1 DEF Run
    <3>. QED  BY <1>8, <3>1, <3>2
  <2>. QED
    BY <2>0, <2>1, PlacedStays DEF PlacedOK, legacyTables, Categories, Storing, Linking
<1>9. CASE CommitAssign(p)
  BY <1>9, CommitAssignPlaces
<1>10. CASE LatestExecution(p)
  <2>1. CASE Exit(p, "done")
    BY <1>2, <2>1 DEF Ended
  <2>2. CASE Output(p) # <<>>
    <3>1. /\ run'[p].step = "link" /\ run'[p].at = run[p].at
          /\ UNCHANGED <<legacyTables, call>> /\ run[p].step = "latest"
      BY <1>10, <2>2, LatestMoves
    <3>. QED
      BY <3>1, PlacedStays DEF PlacedOK, legacyTables, Categories, Linking, Output
  <2>. QED  BY <1>10, <2>1, <2>2 DEF LatestExecution
<1>. QED
  BY <1>3, <1>4, <1>5, <1>6, <1>7, <1>8, <1>9, <1>10 DEF Discover, Logs, Store
SerialPlaced == scenario.serial => \A p \in Process : PlacedOK(p)

LEMMA SpecPlaced == Spec => []SerialPlaced
<1>1. Init => SerialPlaced
  BY DEF Init, InitDiscovery, NoRun, SerialPlaced, PlacedOK, Storing, Linking
<1>2. BackendInv /\ SerialPlaced /\ [Next]_vars => SerialPlaced'
  <2>. SUFFICES ASSUME BackendInv, SerialPlaced, [Next]_vars, scenario.serial',
                       NEW q \in Process
                PROVE  PlacedOK(q)'
    BY DEF SerialPlaced
  <2>1. UNCHANGED scenario /\ PlacedOK(q)
    BY DEF Next, Discovery, Registry, Browser, vars, SerialPlaced
  <2>2. ASSUME NEW p \in Process, Discovery(p) PROVE PlacedOK(q)'
    <3>1. CASE p = q
      BY <2>1, <2>2, <3>1, DiscoverPlaces DEF Discovery, BackendInv
    <3>2. CASE p # q
      <4>1. run'[q] = run[q] /\ ~ Active(q)
        BY <2>1, <2>2, <3>2, DiscoverMovesWell
        DEF Discovery, BackendInv, MovesWell, OnlyMoves, Turn
      <4>. QED  BY <4>1 DEF Active, Ended, PlacedOK, Storing, Linking
    <3>. QED  BY <3>1, <3>2
  <2>3. CASE UNCHANGED <<legacyTables, call, executions, run>>
    <3>1. run'[q] = run[q] /\ Output(q)' = Output(q)
      BY <2>3 DEF Output
    <3>2. Placed(q, run[q].at) => Placed(q, run[q].at)'
      BY <2>3 DEF Placed, Output, legacyTables, Categories
    <3>. QED  BY <2>1, <3>1, <3>2 DEF PlacedOK
  <2>4. CASE UNCHANGED vars
    BY <2>3, <2>4 DEF vars, legacyTables
  <2>. QED  BY <2>2, <2>3, <2>4, ReadersLeaveTables DEF Next
<1>. QED  BY <1>1, <1>2, SpecBackendInv, PTL DEF Spec

(* A finite set of positions has a last one.                                *)
LEMMA LastPosition ==
    ASSUME NEW S \in SUBSET Nat, IsFiniteSet(S), S # {}
    PROVE  \E i \in S : \A j \in S : j <= i
<1>. DEFINE After(i) == {j \in S : i < j}
            Tails == {After(i) : i \in S}
<1>1. Tails # {} /\ Tails \subseteq FiniteSubsetsOf(S)
  <2>1. \A i \in S : After(i) \in SUBSET S /\ IsFiniteSet(After(i))
    BY FS_Subset
  <2>. QED  BY <2>1, Zenon DEF FiniteSubsetsOf
<1>2. PICK A \in Tails : \A B \in Tails : <<B, A>> \notin StrictSubsetOrdering(S)
  BY <1>1, FS_StrictSubsetOrderingWellFounded, WFMin
<1>3. PICK i \in S : A = After(i)
  BY <1>2
<1>4. ASSUME NEW j \in S, i < j PROVE FALSE
  <2>1. After(j) \subseteq A /\ j \in A /\ j \notin After(j)
    <3>1. i \in Nat /\ j \in Nat /\ ~ j < j
      OBVIOUS
    <3>2. \A h \in S : j < h => i < h
      BY <1>4, <3>1
    <3>. QED  BY <1>3, <1>4, <3>1, <3>2
  <2>2. <<After(j), A>> \in StrictSubsetOrdering(S)
    BY <2>1, <1>3 DEF StrictSubsetOrdering
  <2>. QED  BY <1>2, <2>2
<1>. QED  BY <1>4

(* The only steps that end a discovery well.                                *)
LEMMA DoneSteps ==
    ASSUME DiscoveryInv, NEW p \in Process, Discover(p),
           run[p].step # "done", run'[p].step = "done"
    PROVE  /\ Link(p) \/ (LatestExecution(p) /\ Output(p) = <<>>)
           /\ UNCHANGED legacyTables
<1>1. ASSUME NEW step, Exit(p, step) PROVE run'[p].step = step
  BY <1>1 DEF Exit, DiscoveryInv, NoRun
<1>2. ASSUME NEW step, Goto(p, step) PROVE run'[p].step = step
  BY <1>2 DEF Goto, DiscoveryInv, Run
<1>3. Advance(p) \/ HaveCategory(p) => run'[p].step # "done"
  BY DEF HaveCategory, Advance, NextElement, DiscoveryInv, Run
<1>4. ~ (\E products \in Filter : Begin(p, products))
  BY <1>1 DEF Begin, DiscoveryInv, Run
<1>5. ~ (AskOpen(p) \/ AskProvider(p) \/ AskTimers(p) \/ LogFails(p) \/ Logs(p))
  BY <1>1, <1>2 DEF AskOpen, AskProvider, AskTimers, Asking, LogFails, Logs, LogExecution,
     LogError, NextElement
<1>6. ~ (FindCategory(p) \/ CreateCategory(p) \/ CommitAssign(p) \/ Deadlock(p) \/ Abort(p))
  BY <1>1, <1>2, <1>3 DEF FindCategory, CreateCategory, CommitAssign, Deadlock, Abort
<1>7. ~ (TakeRow(p) \/ CountMembers(p))
  BY DEF TakeRow, CountMembers, DiscoveryInv, Run
<1>8. LatestExecution(p) => Output(p) = <<>>
  BY DEF LatestExecution, DiscoveryInv, Run
<1>. QED
  BY <1>4, <1>5, <1>6, <1>7, <1>8 DEF Discover, Store, Link, LatestExecution
(* validateAndStoreCategories: run one at a time, a discovery that ends well  *)
(* has every category its answer names, and every product the answer lists   *)
(* in the last category that lists it.                                      *)
THEOREM ResultStored == Spec => ResultIsStored
<1> DEFINE Well(p) ==
       scenario.serial /\ run[p].step # "done" /\ run'[p].step = "done" =>
           /\ Named(p) \subseteq Categories'
           /\ \A x \in Product :
                 (\E i \in DOMAIN Output(p) : x \in Output(p)[i].products) =>
                     categoryOf'[x] = LastNamed(Output(p), x)
<1>1. ASSUME DiscoveryInv, NEW p \in Process, PlacedOK(p), Discover(p),
             run[p].step # "done", run'[p].step = "done"
      PROVE  /\ Named(p) \subseteq Categories'
             /\ \A x \in Product :
                   (\E i \in DOMAIN Output(p) : x \in Output(p)[i].products) =>
                       categoryOf'[x] = LastNamed(Output(p), x)
  <2>1. /\ Link(p) \/ (LatestExecution(p) /\ Output(p) = <<>>)
        /\ Categories' = Categories /\ UNCHANGED categoryOf
    BY <1>1, DoneSteps DEF legacyTables, Categories
  <2>2. run[p].step \in Linking
    BY <2>1 DEF Link, LatestExecution, Linking
  <2>3. Placed(p, run[p].at) /\ \A i \in DOMAIN Output(p) : i \in Nat /\ i < run[p].at
    BY <1>1, <2>2, OutputTyped DEF PlacedOK
  <2>4. Named(p) \subseteq Categories'
    BY <2>1, <2>3 DEF Placed, Named
  <2>5. ASSUME NEW x \in Product,
               \E i \in DOMAIN Output(p) : x \in Output(p)[i].products
        PROVE  categoryOf[x] = LastNamed(Output(p), x)
    <3> DEFINE named == {i \in DOMAIN Output(p) : x \in Output(p)[i].products}
               last == CHOOSE i \in named : \A j \in named : j <= i
    <3>1. named \in SUBSET Nat /\ named # {} /\ IsFiniteSet(named)
      <4>1. DOMAIN Output(p) = 1..Len(Output(p)) /\ Len(Output(p)) \in Nat
        BY <1>1, OutputTyped
      <4>2. IsFiniteSet(DOMAIN Output(p))
        BY <4>1, FS_Interval
      <4>. QED  BY <2>3, <2>5, <4>2, FS_Subset
    <3>2. last \in named /\ \A j \in named : j <= last
      <4>. HIDE DEF named
      <4>. QED  BY <3>1, LastPosition
    <3>3. LastNamed(Output(p), x) = Output(p)[last].name
      BY DEF LastNamed
    <3>. HIDE DEF last
    <3>4. \A j \in DOMAIN Output(p) : last < j => x \notin Output(p)[j].products
      BY <2>3, <3>2
    <3>. QED  BY <2>3, <3>2, <3>3, <3>4 DEF Placed
  <2>. QED  BY <2>1, <2>4, <2>5
<1>2. BackendInv /\ SerialPlaced /\ [Next]_vars => [\A p \in Process : Well(p)]_vars
  <2>. SUFFICES ASSUME BackendInv, SerialPlaced, Next, NEW p \in Process, scenario.serial,
                       run[p].step # "done", run'[p].step = "done"
                PROVE  /\ Named(p) \subseteq Categories'
                       /\ \A x \in Product :
                             (\E i \in DOMAIN Output(p) : x \in Output(p)[i].products) =>
                                 categoryOf'[x] = LastNamed(Output(p), x)
    OBVIOUS
  <2>1. ASSUME NEW q \in Process, Discovery(q) PROVE q = p
    BY <2>1, DiscoverMovesWell DEF Discovery, BackendInv, MovesWell, OnlyMoves
  <2>2. ~ ((\E c \in Client : Registry(c)) \/ Browser)
    BY ReadersLeaveTables
  <2>3. Discovery(p)
    BY <2>1, <2>2 DEF Next
  <2>. QED  BY <1>1, <2>3 DEF BackendInv, SerialPlaced, Discovery
<1>. QED  BY <1>2, SpecBackendInv, SpecPlaced, PTL DEF Spec, ResultIsStored
=============================================================================
