----------------------------- MODULE RoleProcess -----------------------------
(***************************************************************************)
(* A process of the command line: main installs the signal handlers, sets    *)
(* telemetry up, runs one command and shuts telemetry down.  A signal can    *)
(* arrive anywhere, and so can SIGKILL.  The steps of the migrate command    *)
(* are in MigrateRole.                                                       *)
(***************************************************************************)
EXTENDS Installation

CONSTANTS Process,
          MaxSignals,   \* signals a process gets at most
          Scenarios     \* what is run, on which database, how close together

Command == {"migrate", "worker", "api", "once"}

ASSUME RoleProcessAssumption ==
    \A s \in Scenarios :
        /\ s.commands \subseteq Command
        /\ s.processes \subseteq Process
        /\ s.older \in BOOLEAN      \* the database is an older release's
        /\ s.overlap \in BOOLEAN    \* two processes may live at once
        /\ s.orphans \in BOOLEAN    \* SIGKILL may leave the child alive

VARIABLES scenario, proc

Phase == {"off", "boot", "configure", "body", "flush", "exited", "killed"}
Live == {"boot", "configure", "body", "flush"}

(* handler: the disposition of SIGTERM and SIGINT; hit: the phases a signal *)
(* came in; result and why: what the command came to; code: the exit code;  *)
(* child: the alembic subprocess, which has seen revision read.             *)
Off ==
    [ command |-> "once", at |-> "off", step |-> "none", handler |-> "default",
      stopping |-> FALSE, telemetry |-> "none", result |-> "none", why |-> "none",
      code |-> 0, signals |-> 0, hit |-> {}, child |-> "none", read |-> 0, next |-> 0 ]

At(p, phase) == proc[p].at = phase
Runs(p, step) == At(p, "body") /\ proc[p].step = step
To(p, step) == proc' = [proc EXCEPT ![p].step = step]

(* The first step of each command.                                          *)
FirstStep ==
    [migrate |-> "database", worker |-> "handlers", api |-> "handlers", once |-> "command"]

(* main's finally is reached; what the command held is gone, ...            *)
Leaves(p) ==
    [proc[p] EXCEPT !.at = "flush", !.step = "none", !.child = "none", !.read = 0, !.next = 0]

(* ... with SystemExit(code) or an exception.                               *)
Ends(p, result, why, code) ==
    proc' = [proc EXCEPT ![p] =
        [Leaves(p) EXCEPT !.result = result, !.why = why, !.code = code]]

Fails(p, why) == Ends(p, "failed", why, 1)

Start(p, command) ==
    /\ At(p, "off") /\ p \in scenario.processes /\ command \in scenario.commands
    /\ scenario.overlap \/ \A q \in Process : proc[q].at \notin Live
    /\ proc' = [proc EXCEPT ![p] = [proc[p] EXCEPT !.at = "boot", !.command = command]]

(* _install_early_signal_handlers                                           *)
InstallHandlers(p) ==
    /\ At(p, "boot")
    /\ proc' = [proc EXCEPT ![p] =
                   [proc[p] EXCEPT !.at = "configure", !.handler = "early"]]

(* configure_telemetry, which is outside the try: the no-op adapter, the    *)
(* Phoenix adapter, or an exception of register.                            *)
Configure(p) ==
    /\ At(p, "configure") /\ proc[p].telemetry = "none"
    /\ \/ \E adapter \in {"noop", "active"} :
             proc' = [proc EXCEPT ![p].telemetry = adapter]
       \/ proc' = [proc EXCEPT ![p] =
                      [proc[p] EXCEPT !.at = "exited", !.result = "failed",
                                      !.why = "telemetry", !.code = 1]]

Dispatch(p) ==
    /\ At(p, "configure") /\ proc[p].telemetry # "none"
    /\ proc' = [proc EXCEPT ![p] =
                   [proc[p] EXCEPT !.at = "body", !.step = FirstStep[proc[p].command]]]

(* ingest, taxonomy, review, telemetry and the help: done, an error that is *)
(* reported or not (1), or arguments that do not parse (2).                 *)
RunOnce(p) ==
    /\ Runs(p, "command")
    /\ \/ Ends(p, "ok", "none", 0)
       \/ \E code \in {1, 2} : Ends(p, "failed", "command", code)

(* run_worker and uvicorn replace the handlers by one that sets a flag.     *)
ReplaceHandlers(p) ==
    /\ Runs(p, "handlers")
    /\ proc' = [proc EXCEPT ![p] =
                   [proc[p] EXCEPT !.handler = "flag", !.step = "serving"]]

(* The worker's loop sees the flag within its second.                       *)
StopWorker(p) ==
    /\ Runs(p, "serving") /\ proc[p].command = "worker" /\ proc[p].stopping
    /\ Ends(p, "ok", "none", 0)

(* uvicorn puts main's handlers back and raises the signal it caught again. *)
StopApi(p) ==
    /\ Runs(p, "serving") /\ proc[p].command = "api" /\ proc[p].stopping
    /\ proc' = [proc EXCEPT ![p] =
          [Leaves(p) EXCEPT !.handler = "early", !.result = "ok", !.code = 0]]

(* API_PORT is no number; uvicorn cannot listen (1), whatever it has caught, *)
(* or the application does not start (3).  The handlers are put back.       *)
ServeFails(p) ==
    /\ proc[p].command = "api"
    /\ \E code \in {1, 3} :
          /\ \/ Runs(p, "handlers") /\ code = 1
             \/ Runs(p, "serving") /\ (code = 1 \/ ~ proc[p].stopping)
          /\ proc' = [proc EXCEPT ![p] =
                [Leaves(p) EXCEPT !.handler = "early", !.result = "failed",
                                  !.why = "startup", !.code = code]]

(* shutdown_telemetry; an exception of the provider is logged.              *)
Flush(p) ==
    /\ At(p, "flush") /\ proc[p].telemetry \in {"noop", "active"}
    /\ proc' = [proc EXCEPT ![p].telemetry = "down"]

Exit(p) ==
    /\ At(p, "flush") /\ proc[p].telemetry = "down"
    /\ proc' = [proc EXCEPT ![p].at = "exited"]
-----------------------------------------------------------------------------
(* A signal reaches p: it comes in the phase p is in.                       *)
Hit(r, phase) == [r EXCEPT !.signals = @ + 1, !.hit = @ \cup {phase}]

(* Mutant: the process is gone at once, without main's finally.             *)
InterruptedAtOnce(p) == [proc[p] EXCEPT !.at = "exited", !.step = "none", !.child = "none"]

(* SystemExit(0) out of whatever p does.  In the body it ends the child and *)
(* goes through main's finally; in that finally it replaces the exit that   *)
(* was under way.                                                           *)
Interrupted(p) ==
    IF At(p, "body") THEN [Leaves(p) EXCEPT !.result = "cut", !.code = 0]
    ELSE [proc[p] EXCEPT !.at = "exited", !.code = 0]

(* Nothing runs any more, but for the child.                                *)
Dies(p, child) ==
    [Off EXCEPT !.at = "killed", !.command = proc[p].command,
                !.child = child, !.read = proc[p].read]

Signal(p) ==
    /\ proc[p].at \in Live /\ proc[p].signals < MaxSignals
    /\ \/ /\ proc[p].handler = "default"
          /\ proc' = [proc EXCEPT ![p] = Dies(p, "none")]
       \/ /\ proc[p].handler = "early"
          /\ proc' = [proc EXCEPT ![p] = Hit(Interrupted(p), proc[p].at)]
       \/ /\ proc[p].handler = "flag"
          /\ proc' = [proc EXCEPT ![p] = Hit([proc[p] EXCEPT !.stopping = TRUE], proc[p].at)]

(* SIGKILL, or the machine.  A child that runs may outlive its parent.      *)
Kill(p) ==
    /\ proc[p].at \in Live
    /\ \E child \in {"none"} \cup (IF scenario.orphans THEN {proc[p].child} ELSE {}) :
          proc' = [proc EXCEPT ![p] = Dies(p, child)]

(* What main does, and a command that is not migrate.                       *)
MainStep(p) ==
    \/ InstallHandlers(p) \/ Configure(p) \/ Dispatch(p)
    \/ RunOnce(p) \/ ReplaceHandlers(p) \/ StopWorker(p) \/ StopApi(p)
    \/ Flush(p) \/ Exit(p)
=============================================================================
