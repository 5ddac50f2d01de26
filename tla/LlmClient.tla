----------------------------- MODULE LlmClient -----------------------------
(***************************************************************************)
(* LLMClientService.generateArray: one call per CLI process, which streams   *)
(* the elements of an array, waits for the whole object, retries what is     *)
(* worth retrying, and keeps the elements it has when an attempt fails.      *)
(* The provider is external: it may send anything, stall or fail anywhere.   *)
(***************************************************************************)
EXTENDS Naturals, Sequences

CONSTANTS Process,      \* processes of the CLI
          Answer,       \* elements a provider may send
          MaxAnswers,   \* bound: elements in one attempt
          Retries       \* attempts, 3 by default

ASSUME LlmAssumption == MaxAnswers \in Nat /\ Retries \in Nat \ {0}

VARIABLE call

Pc == {"idle", "stream", "object", "salvage", "backoff", "ok", "partial", "threw"}
Call == [pc : Pc, attempt : 0..Retries, got : Seq(Answer)]
NoCall == [pc |-> "idle", attempt |-> 0, got |-> <<>>]

InitCall == call = [p \in Process |-> NoCall]

CallGoto(p, pc) == call' = [call EXCEPT ![p].pc = pc]

(* The call is over: its attempts are forgotten.                            *)
Returns(p, pc) == call' = [call EXCEPT ![p] = [call[p] EXCEPT !.pc = pc, !.attempt = 0]]

(* collectedElements is declared in the body of the loop: an attempt begins *)
(* with none.                                                               *)
Attempt(p) ==
    call' = [call EXCEPT ![p] = [pc |-> "stream", attempt |-> @.attempt + 1,
                                 got |-> <<>>]]

(* A provider without an API key throws before the first attempt.           *)
Open(p) == call[p].pc = "idle" /\ (Attempt(p) \/ Returns(p, "threw"))

Receive(p, a) ==
    /\ call[p].pc = "stream"
    /\ Len(call[p].got) < MaxAnswers
    /\ call' = [call EXCEPT ![p].got = Append(@, a)]

(* The stream is over, result.object is awaited, then the answer returned.  *)
StreamEnds(p) == call[p].pc = "stream" /\ CallGoto(p, "object")
Resolve(p) == call[p].pc = "object" /\ Returns(p, "ok")

(* The catch block: salvage what was collected, else back off and retry a   *)
(* transient error while attempts remain, else throw.                       *)
Caught(p, transient) ==
    \/ call[p].got # <<>> /\ CallGoto(p, "salvage")
    \/ /\ call[p].got = <<>>
       /\ IF transient /\ call[p].attempt < Retries
          THEN CallGoto(p, "backoff") ELSE Returns(p, "threw")

Fails(p) ==
    /\ call[p].pc \in {"stream", "object"}
    /\ \E transient \in BOOLEAN : Caught(p, transient)

(* Mutant: the timer is set when an element has arrived, not before.        *)
TimesOutBetweenElements(p) ==
    call[p].pc = "stream" /\ call[p].got # <<>> /\ Caught(p, FALSE)

(* withTimeout: nothing came for the time allowed.  Its message says "timed *)
(* out", which is not among the texts the catch block retries.              *)
TimesOut(p) == call[p].pc = "stream" /\ Caught(p, FALSE)

(* The salvaged answer is returned after result.usage settles, either way;  *)
(* no timer runs.                                                           *)
Salvage(p) == call[p].pc = "salvage" /\ Returns(p, "partial")

Retry(p) == call[p].pc = "backoff" /\ Attempt(p)

Provider(p) ==
    \/ \E a \in Answer : Receive(p, a)
    \/ StreamEnds(p) \/ Resolve(p) \/ Fails(p) \/ Salvage(p)

Timers(p) == TimesOut(p) \/ Retry(p)

(* The two waits no timer bounds.                                           *)
AwaitsProvider(p) == call[p].pc \in {"object", "salvage"}
=============================================================================
