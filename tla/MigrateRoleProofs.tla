-------------------------- MODULE MigrateRoleProofs --------------------------
(***************************************************************************)
(* The migrate role for any number of processes, signals, revisions, tables  *)
(* and scenarios.                                                            *)
(***************************************************************************)
EXTENDS MigrateRole, TLAPS

(* The steps of run_migrate from each milestone on.                         *)
AllGranted == {"phoenixDatabase", "phoenixHttp", "verify"}
GraphGranted == {"defaultGraph"} \cup AllGranted
QueueDefaulted == {"grantGraph"} \cup GraphGranted
QueueGranted == {"defaultQueue"} \cup QueueDefaulted
GraphMade == {"grantQueue"} \cup QueueGranted
GraphSteps == {"graphVersion", "graphMigrate", "graphRecord"}
QueueMade == {"graphSchema"} \cup GraphSteps \cup GraphMade
Upgraded == {"hasTable", "install", "upgrade"} \cup QueueMade

Step ==
    {"none", "database", "databases", "alembic", "handlers", "serving", "command"}
        \cup Upgraded

Why ==
    {"none", "notReady", "conflict", "lost", "incomplete", "telemetry", "command", "startup"}

Proc ==
    [ command : Command, at : Phase, step : Step,
      handler : {"default", "early", "flag"}, stopping : BOOLEAN,
      telemetry : {"none", "noop", "active", "down"},
      result : {"none", "ok", "failed", "cut"},
      why : Why, code : 0..3, signals : Nat, hit : SUBSET Live,
      child : {"none", "running", "done", "conflict", "lost"},
      read : 0..Head, next : Nat ]

Queue == TablesOf("pgqueuer", QueueTables)
Graph == TablesOf("langgraph", GraphTables)

(* The database alone: migrations are recorded in order and after their     *)
(* table, a vendor's tables are in its schema, the queue table comes first. *)
DbOK ==
    /\ db \in Database
    /\ \A n \in db.recorded : 1..n \subseteq db.recorded /\ <<"langgraph", n>> \in db.tables
    /\ \A t \in db.tables : t[1] \in db.schemas
    /\ \A t \in db.tables : t[1] = "pgqueuer" => HasQueueTable

(* What a run can rely on at its step, whoever made it.                     *)
Knows(p) ==
    LET r == proc[p] IN
    /\ r.child = "done" \/ r.step \in Upgraded => db.rev = Head
    /\ r.step = "upgrade" => HasQueueTable
    /\ r.step \in QueueMade => Queue \subseteq db.tables
    /\ r.step \in GraphSteps \cup GraphMade => "langgraph" \in db.schemas
    /\ r.step \in {"graphMigrate", "graphRecord"} =>
          /\ r.next \in 1..GraphTables
          /\ 1..(r.next - 1) \subseteq db.recorded
    /\ r.step = "graphRecord" => <<"langgraph", r.next>> \in db.tables
    /\ r.step \in GraphMade => db.recorded = 1..GraphTables
    /\ r.step \in QueueGranted => Queue \subseteq db.granted
    /\ r.step \in QueueDefaulted => "pgqueuer" \in db.default
    /\ r.step \in GraphGranted => Graph \subseteq db.granted
    /\ r.step \in AllGranted => "langgraph" \in db.default

(* What the end of a process says.                                          *)
EndOK(p) ==
    LET r == proc[p] IN
    /\ r.step # "none" => r.at = "body"
    /\ r.step = "command" => r.command = "once"
    /\ r.at \in {"flush", "exited"} /\ r.command = "migrate" /\ r.code = 0 /\ r.hit = {}
         => Installed
    /\ r.at = "exited" /\ r.hit \subseteq {"body"} => r.telemetry \in {"none", "down"}

(* One process at a time, and no child left behind: what a run has read is  *)
(* still so when it acts on it.                                             *)
Alone == ~ scenario.overlap /\ ~ scenario.orphans

AloneOK(p) ==
    LET r == proc[p] IN
    /\ r.child # "none" => r.step = "alembic"
    /\ r.child # "conflict"
    /\ r.child = "running" => r.read = db.rev
    /\ r.step = "install" => ~ HasQueueTable
    /\ r.step \in {"graphMigrate", "graphRecord"} => r.next \notin db.recorded
    /\ r.why \notin {"conflict", "incomplete"}

OneAtATime == \A p, q \in Process : proc[p].at \in Live /\ proc[q].at \in Live => p = q

MigrateInv ==
    /\ scenario \in Scenarios
    /\ proc \in [Process -> Proc]
    /\ DbOK
    /\ \A p \in Process : Knows(p) /\ EndOK(p)
    /\ Alone => OneAtATime /\ \A p \in Process : AloneOK(p)
-----------------------------------------------------------------------------
LEMMA InitInv == Init => MigrateInv
<1>. SUFFICES ASSUME Init PROVE MigrateInv
  OBVIOUS
<1>. USE DEF Init
<1>1. /\ Off \in Proc /\ Off.at = "off" /\ Off.step = "none"
      /\ Off.child = "none" /\ Off.why = "none"
  BY InstallationAssumption DEF Off, Proc, Command, Phase, Step, Why
<1>2. \A p \in Process : proc[p] = Off
  OBVIOUS
<1>3. DbOK
  BY InstallationAssumption
     DEF DbOK, Fresh, Older, Database, Vendor, Table, TablesOf, HasQueueTable
<1>4. ASSUME NEW p \in Process  PROVE Knows(p) /\ EndOK(p) /\ AloneOK(p)
  BY <1>1, <1>2
     DEF Knows, EndOK, AloneOK, Upgraded, QueueMade, GraphSteps, GraphMade,
         QueueGranted, QueueDefaulted, GraphGranted, AllGranted
<1>5. OneAtATime
  BY <1>1, <1>2 DEF OneAtATime, Live
<1>. QED  BY <1>1, <1>3, <1>4, <1>5 DEF MigrateInv

(* What a step of p is for the others: their records stay, and the database *)
(* only grows.                                                              *)
Touches(p) ==
    /\ proc' \in [Process -> Proc]
    /\ \A q \in Process \ {p} : proc'[q] = proc[q]
    /\ scenario' = scenario

Grows ==
    /\ db.rev = Head => db'.rev = Head
    /\ db.schemas \subseteq db'.schemas /\ db.tables \subseteq db'.tables
    /\ db.recorded \subseteq db'.recorded
    /\ db.granted \subseteq db'.granted /\ db.default \subseteq db'.default

LEMMA Stays == UNCHANGED db => Grows
BY DEF Grows

(* Knowledge outlives the steps of others.                                  *)
LEMMA KeepsKnowing ==
    ASSUME MigrateInv, Grows, DbOK', NEW q \in Process, proc'[q] = proc[q]
    PROVE  Knows(q)' /\ EndOK(q)'
<1>1. Knows(q) /\ EndOK(q)
  BY DEF MigrateInv
<1>2. Installed => Installed'
  BY InstallationAssumption
     DEF Grows, Installed, DbOK, Database
<1>3. EndOK(q)'
  BY <1>1, <1>2 DEF EndOK
<1>4. db.recorded = 1..GraphTables => db'.recorded = 1..GraphTables
  BY DEF Grows, DbOK, Database
<1>5. HasQueueTable => HasQueueTable'
  BY DEF Grows, HasQueueTable
<1>6. Knows(q)'
  BY <1>1, <1>4, <1>5 DEF Knows, Grows, Queue, Graph, TablesOf
<1>. QED  BY <1>3, <1>6

(* So that a step has its own part to show.                                 *)
LEMMA OwnPart ==
    ASSUME MigrateInv, NEW p \in Process, Touches(p), Grows, DbOK',
           UNCHANGED db \/ proc[p].at = "body" \/ proc[p].child # "none",
           proc'[p].at \in Live => proc[p].at \in Live,
           Knows(p)', EndOK(p)', Alone => AloneOK(p)'
    PROVE  MigrateInv'
<1>1. ASSUME NEW q \in Process  PROVE Knows(q)' /\ EndOK(q)'
  BY KeepsKnowing DEF Touches
<1>2. Alone' = Alone
  BY DEF Alone, Touches
<1>3. ASSUME Alone  PROVE OneAtATime'
  BY <1>3 DEF MigrateInv, OneAtATime, Touches
<1>4. ASSUME Alone, NEW q \in Process \ {p}  PROVE AloneOK(q)'
  <2>1. AloneOK(q) /\ AloneOK(p) /\ EndOK(p) /\ EndOK(q) /\ proc'[q] = proc[q]
    BY <1>4 DEF MigrateInv, Touches
  <2>2. CASE UNCHANGED db
    BY <2>1, <2>2 DEF AloneOK, HasQueueTable
  <2>3. CASE proc[p].at = "body" \/ proc[p].child # "none"
    <3>1. proc[p].at = "body"
      BY <2>1, <2>3 DEF AloneOK, EndOK
    <3>2. proc[q].at # "body"
      BY <1>4, <3>1 DEF MigrateInv, OneAtATime, Live
    <3>. QED  BY <2>1, <3>2 DEF AloneOK, EndOK
  <2>. QED  BY <2>2, <2>3
<1>. QED  BY <1>1, <1>2, <1>3, <1>4 DEF MigrateInv, Touches
-----------------------------------------------------------------------------
(* A step that leaves the database alone, and p where nothing has to be     *)
(* known: before alembic has returned, or outside the command.              *)
LEMMA QuietStep ==
    ASSUME MigrateInv, NEW p \in Process, Touches(p), UNCHANGED db,
           proc'[p].at \in Live => proc[p].at \in Live,
           proc'[p].step \notin Upgraded, proc'[p].child \in {proc[p].child, "none"},
           EndOK(p)', Alone => AloneOK(p)'
    PROVE  MigrateInv'
<1>1. DbOK'
  BY DEF MigrateInv, DbOK, HasQueueTable
<1>2. Knows(p)'
  BY DEF MigrateInv, Knows, Upgraded, QueueMade, GraphSteps, GraphMade, QueueGranted,
         QueueDefaulted, GraphGranted, AllGranted
<1>. QED  BY <1>1, <1>2, OwnPart, Stays

(* A command that ends, or is ended, is in main's finally with nothing left *)
(* of what it was doing.                                                    *)
Left(p) == proc'[p].step = "none" /\ proc'[p].child = "none"

LEMMA LeavingStep ==
    ASSUME MigrateInv, NEW p \in Process, Touches(p), UNCHANGED db, Left(p),
           proc'[p].at \in Live => proc[p].at \in Live,
           EndOK(p)', Alone => proc'[p].why \notin {"conflict", "incomplete"}
    PROVE  MigrateInv'
<1>1. proc'[p].step \notin Upgraded
  BY DEF Left, Upgraded, QueueMade, GraphSteps, GraphMade, QueueGranted, QueueDefaulted,
         GraphGranted, AllGranted
<1>2. Alone => AloneOK(p)'
  BY DEF Left, AloneOK
<1>. QED  BY <1>1, <1>2, QuietStep DEF Left

LEMMA LeavesTyped ==
    ASSUME proc \in [Process -> Proc], NEW p \in Process
    PROVE  /\ Leaves(p) \in Proc
           /\ Leaves(p).step = "none" /\ Leaves(p).child = "none" /\ Leaves(p).at = "flush"
           /\ Leaves(p).command = proc[p].command /\ Leaves(p).hit = proc[p].hit
           /\ Leaves(p).why = proc[p].why /\ Leaves(p).telemetry = proc[p].telemetry
<1>1. 0 \in 0..Head /\ 0 \in Nat /\ "none" \in Step /\ "flush" \in Phase
      /\ "none" \in {"none", "running", "done", "conflict", "lost"}
  BY InstallationAssumption DEF Step, Phase
<1>2. proc[p] \in Proc
  OBVIOUS
<1>3. Leaves(p) \in Proc
  BY <1>1, <1>2 DEF Leaves, Proc
<1>4. Leaves(p).step = "none" /\ Leaves(p).child = "none" /\ Leaves(p).at = "flush"
  BY <1>2 DEF Leaves, Proc
<1>5. Leaves(p).command = proc[p].command
  BY <1>2 DEF Leaves, Proc
<1>6. Leaves(p).hit = proc[p].hit
  BY <1>2 DEF Leaves, Proc
<1>. QED  BY <1>2, <1>3, <1>4, <1>5, <1>6 DEF Leaves, Proc

LEMMA EndsEffect ==
    ASSUME proc \in [Process -> Proc], scenario' = scenario, NEW p \in Process,
           proc[p].at = "body",
           NEW result \in {"ok", "failed"}, NEW code \in 0..3, NEW why \in Why,
           Ends(p, result, why, code)
    PROVE  /\ Touches(p) /\ Left(p)
           /\ proc'[p].at = "flush" /\ proc'[p].command = proc[p].command
           /\ proc'[p].why = why /\ proc'[p].code = code /\ proc'[p].hit = proc[p].hit
<1>1. PICK gone : gone = Leaves(p)
  OBVIOUS
<1>2. /\ gone \in Proc /\ gone.step = "none" /\ gone.child = "none" /\ gone.at = "flush"
      /\ gone.command = proc[p].command /\ gone.hit = proc[p].hit
  BY <1>1, LeavesTyped
<1>3. PICK new : new = [gone EXCEPT !.result = result, !.why = why, !.code = code]
  OBVIOUS
<1>4. proc' = [proc EXCEPT ![p] = new]
  BY <1>1, <1>3 DEF Ends
<1>5. /\ new \in Proc /\ new.why = why /\ new.code = code
      /\ new.step = gone.step /\ new.child = gone.child /\ new.at = gone.at
      /\ new.command = gone.command /\ new.hit = gone.hit
  <2>1. result \in {"none", "ok", "failed", "cut"}
    OBVIOUS
  <2>2. new \in Proc
    BY ONLY <1>2, <1>3, <2>1, code \in 0..3, why \in Why DEF Proc
  <2>. QED  BY ONLY <1>2, <1>3, <2>2 DEF Proc
<1>. QED  BY <1>2, <1>4, <1>5 DEF Touches, Left

LEMMA FailsStep ==
    ASSUME MigrateInv, UNCHANGED <<db, scenario>>, NEW p \in Process, proc[p].at = "body",
           NEW why \in {"notReady", "conflict", "lost", "incomplete"},
           Alone => why \notin {"conflict", "incomplete"}, Fails(p, why)
    PROVE  MigrateInv'
<1>1. /\ Touches(p) /\ Left(p) /\ proc'[p].at = "flush" /\ proc'[p].code = 1
      /\ proc'[p].why = why
  BY EndsEffect DEF Fails, MigrateInv, Why
<1>2. EndOK(p)'
  BY <1>1 DEF EndOK, Left
<1>. QED  BY <1>1, <1>2, LeavingStep DEF Live
-----------------------------------------------------------------------------
(* A step of run_migrate that goes on to another one.                       *)
LEMMA ToEffect ==
    ASSUME proc \in [Process -> Proc], scenario' = scenario, NEW p \in Process,
           NEW step \in Step, To(p, step)
    PROVE  /\ Touches(p) /\ proc'[p].step = step
           /\ proc'[p].at = proc[p].at /\ proc'[p].child = proc[p].child
           /\ proc'[p].command = proc[p].command /\ proc'[p].read = proc[p].read
           /\ proc'[p].next = proc[p].next /\ proc'[p].why = proc[p].why
<1>1. PICK old : old = proc[p]
  OBVIOUS
<1>2. PICK new : new = [old EXCEPT !.step = step]
  OBVIOUS
<1>3. proc' = [proc EXCEPT ![p] = new]
  BY <1>1, <1>2 DEF To
<1>4. old \in Proc
  BY <1>1
<1>5. /\ new \in Proc /\ new.step = step /\ new.at = old.at /\ new.child = old.child
      /\ new.command = old.command /\ new.read = old.read /\ new.next = old.next
      /\ new.why = old.why
  BY ONLY <1>2, <1>4, step \in Step DEF Proc
<1>. QED  BY <1>1, <1>3, <1>5 DEF Touches

LEMMA ToStep ==
    ASSUME MigrateInv, scenario' = scenario, NEW p \in Process,
           proc[p].at = "body", proc[p].step \notin {"alembic", "none"},
           NEW step \in Step \ {"none", "command"}, To(p, step), Grows, DbOK',
           Knows(p)',
           Alone /\ step = "install" => ~ HasQueueTable',
           Alone /\ step \in {"graphMigrate", "graphRecord"} => proc[p].next \notin db'.recorded
    PROVE  MigrateInv'
<1>1. /\ Touches(p) /\ proc'[p].step = step
      /\ proc'[p].at = "body" /\ proc'[p].child = proc[p].child
      /\ proc'[p].next = proc[p].next /\ proc'[p].why = proc[p].why
  BY ToEffect DEF MigrateInv
<1>2. EndOK(p)'
  BY <1>1 DEF EndOK
<1>3. Alone => AloneOK(p)'
  BY <1>1 DEF MigrateInv, AloneOK
<1>. QED  BY <1>1, <1>2, <1>3, OwnPart DEF Live

LEMMA DbStays == ASSUME MigrateInv, UNCHANGED db  PROVE DbOK' /\ Grows
BY DEF MigrateInv, DbOK, HasQueueTable, Grows

LEMMA WaitStep ==
    ASSUME MigrateInv, UNCHANGED scenario, NEW p \in Process, Wait(p)
    PROVE  MigrateInv'
<1>1. PICK step \in DOMAIN AfterWait :
          /\ Runs(p, step)
          /\ To(p, AfterWait[step]) \/ Fails(p, "notReady")
  BY DEF Wait
<1>2. UNCHANGED db /\ proc[p].at = "body" /\ proc[p].step = step
  BY <1>1 DEF Wait, Runs, At
<1>3. CASE Fails(p, "notReady")
  BY <1>2, <1>3, FailsStep
<1>4. CASE To(p, AfterWait[step])
  <2>1. /\ step \in {"database", "databases", "phoenixDatabase", "phoenixHttp"}
        /\ step = "database" => AfterWait[step] = "databases"
        /\ step = "databases" => AfterWait[step] = "alembic"
        /\ step = "phoenixDatabase" => AfterWait[step] = "phoenixHttp"
        /\ step = "phoenixHttp" => AfterWait[step] = "verify"
    BY DEF AfterWait
  <2>2. /\ AfterWait[step] \in Step \ {"none", "command", "install"}
        /\ AfterWait[step] \notin GraphSteps
    BY <2>1 DEF Step, Upgraded, QueueMade, GraphSteps, GraphMade, QueueGranted,
                QueueDefaulted, GraphGranted, AllGranted
  <2>3. AfterWait[step] \in Upgraded => step \in AllGranted /\ AfterWait[step] \in AllGranted
    BY <2>1 DEF Upgraded, QueueMade, GraphSteps, GraphMade, QueueGranted,
                QueueDefaulted, GraphGranted, AllGranted
  <2>4. Knows(p)'
    <3>1. /\ proc'[p].step = AfterWait[step] /\ proc'[p].child = proc[p].child
          /\ proc'[p].next = proc[p].next
      BY <1>2, <1>4, <2>2, ToEffect DEF MigrateInv
    <3>2. Knows(p)
      BY DEF MigrateInv
    <3>3. CASE AfterWait[step] \notin Upgraded
      BY <1>2, <3>1, <3>2, <3>3
         DEF Knows, Upgraded, QueueMade, GraphSteps, GraphMade, QueueGranted,
             QueueDefaulted, GraphGranted, AllGranted
    <3>4. CASE step \in AllGranted /\ AfterWait[step] \in AllGranted
      BY <1>2, <3>1, <3>2, <3>4
         DEF Knows, Upgraded, QueueMade, GraphSteps, GraphMade, QueueGranted,
             QueueDefaulted, GraphGranted, AllGranted
    <3>. QED  BY <2>3, <3>3, <3>4
  <2>5. step \notin {"alembic", "none"} /\ AfterWait[step] \notin {"graphMigrate", "graphRecord"}
    BY <2>1, <2>2 DEF GraphSteps
  <2>. QED  BY <1>2, <1>4, <2>2, <2>4, <2>5, DbStays, ToStep
<1>. QED  BY <1>1, <1>3, <1>4
-----------------------------------------------------------------------------
(* What a step does to the child of p and to the revision it has read.      *)
LEMMA ChildEffect ==
    ASSUME proc \in [Process -> Proc], scenario' = scenario, NEW p \in Process,
           NEW child \in {"none", "running", "done", "conflict", "lost"}, NEW read \in 0..Head,
           proc' = [proc EXCEPT ![p] = [proc[p] EXCEPT !.child = child, !.read = read]]
    PROVE  /\ Touches(p) /\ proc'[p].child = child /\ proc'[p].read = read
           /\ proc'[p].step = proc[p].step /\ proc'[p].at = proc[p].at
           /\ proc'[p].command = proc[p].command /\ proc'[p].next = proc[p].next
           /\ proc'[p].why = proc[p].why /\ proc'[p].code = proc[p].code
           /\ proc'[p].hit = proc[p].hit /\ proc'[p].telemetry = proc[p].telemetry
<1>1. PICK old : old = proc[p]
  OBVIOUS
<1>2. PICK new : new = [old EXCEPT !.child = child, !.read = read]
  OBVIOUS
<1>3. proc' = [proc EXCEPT ![p] = new]
  BY <1>1, <1>2
<1>4. old \in Proc
  BY <1>1
<1>5. new \in Proc /\ new.child = child /\ new.read = read /\ new.step = old.step
  BY ONLY <1>2, <1>4, read \in 0..Head,
          child \in {"none", "running", "done", "conflict", "lost"} DEF Proc
<1>6. /\ new.at = old.at /\ new.command = old.command /\ new.next = old.next
      /\ new.why = old.why /\ new.code = old.code /\ new.hit = old.hit
      /\ new.telemetry = old.telemetry
  BY ONLY <1>2, <1>4 DEF Proc
<1>7. proc'[p] = new /\ Touches(p)
  BY <1>3, <1>5 DEF Touches
<1>. QED  BY ONLY <1>1, <1>5, <1>6, <1>7

LEMMA StartAlembicStep ==
    ASSUME MigrateInv, UNCHANGED scenario, NEW p \in Process, StartAlembic(p)
    PROVE  MigrateInv'
<1>1. /\ UNCHANGED db /\ proc[p].at = "body" /\ proc[p].step = "alembic"
      /\ proc' = [proc EXCEPT ![p] =
                     [proc[p] EXCEPT !.child = "running", !.read = db.rev]]
  BY DEF StartAlembic, Runs, At
<1>2. db.rev \in 0..Head
  BY DEF MigrateInv, DbOK, Database
<1>3. /\ Touches(p) /\ proc'[p].child = "running" /\ proc'[p].read = db.rev
      /\ proc'[p].step = "alembic" /\ proc'[p].at = "body" /\ proc'[p].why = proc[p].why
  BY <1>1, <1>2, ChildEffect DEF MigrateInv
<1>4. Knows(p)'
  BY <1>3 DEF Knows, Upgraded, QueueMade, GraphSteps, GraphMade, QueueGranted,
              QueueDefaulted, GraphGranted, AllGranted
<1>5. EndOK(p)' /\ (Alone => AloneOK(p)')
  BY <1>1, <1>3 DEF EndOK, MigrateInv, AloneOK
<1>. QED  BY <1>1, <1>3, <1>4, <1>5, DbStays, OwnPart DEF Live

LEMMA EndAlembicStep ==
    ASSUME MigrateInv, UNCHANGED scenario, NEW p \in Process, EndAlembic(p)
    PROVE  MigrateInv'
<1>. DEFINE child == IF proc[p].read = db.rev THEN "done" ELSE "conflict"
<1>1. /\ proc[p].child = "running"
      /\ proc' = [proc EXCEPT ![p].child = child]
      /\ IF proc[p].read = db.rev THEN db' = [db EXCEPT !.rev = Head] ELSE db' = db
  BY DEF EndAlembic, Upgrades
<1>2. /\ Grows /\ DbOK' /\ (child = "done" => db'.rev = Head)
      /\ db'.rev \in {db.rev, Head} /\ db'.schemas = db.schemas /\ db'.tables = db.tables
      /\ db'.recorded = db.recorded /\ db'.granted = db.granted /\ db'.default = db.default
  BY <1>1, InstallationAssumption DEF MigrateInv, DbOK, HasQueueTable, Grows, Database
<1>3. proc' = [proc EXCEPT ![p] =
                  [proc[p] EXCEPT !.child = child, !.read = proc[p].read]]
  BY <1>1 DEF MigrateInv, Proc
<1>4. proc[p].read \in 0..Head
  BY DEF MigrateInv, Proc
<1>5. child \in {"none", "running", "done", "conflict", "lost"}
  OBVIOUS
<1>6. /\ Touches(p) /\ proc'[p].child = child
      /\ proc'[p].step = proc[p].step /\ proc'[p].at = proc[p].at
      /\ proc'[p].command = proc[p].command /\ proc'[p].next = proc[p].next
      /\ proc'[p].why = proc[p].why /\ proc'[p].code = proc[p].code
      /\ proc'[p].hit = proc[p].hit /\ proc'[p].telemetry = proc[p].telemetry
  <2>1. proc \in [Process -> Proc] /\ scenario' = scenario
    BY DEF MigrateInv
  <2>. HIDE DEF child
  <2>. QED  BY ONLY <1>3, <1>4, <1>5, <2>1, p \in Process, ChildEffect
<1>7. Knows(p) /\ EndOK(p)
  BY DEF MigrateInv
<1>8. Knows(p)'
  BY <1>1, <1>2, <1>6, <1>7 DEF Knows, HasQueueTable
<1>9. EndOK(p)'
  BY <1>2, <1>6, <1>7 DEF EndOK, Installed
<1>10. Alone => AloneOK(p)'
  BY <1>1, <1>2, <1>6 DEF MigrateInv, AloneOK, HasQueueTable
<1>. QED  BY <1>1, <1>2, <1>6, <1>8, <1>9, <1>10, OwnPart

LEMMA AlembicReturnsStep ==
    ASSUME MigrateInv, UNCHANGED scenario, NEW p \in Process, AlembicReturns(p)
    PROVE  MigrateInv'
<1>1. /\ UNCHANGED db /\ proc[p].at = "body" /\ proc[p].step = "alembic"
      /\ proc[p].child \in {"done", "conflict", "lost"}
  BY DEF AlembicReturns, Runs, At
<1>2. CASE proc[p].child = "done"
  <2>1. proc' = [proc EXCEPT ![p] =
                    [proc[p] EXCEPT !.step = "hasTable", !.child = "none"]]
    BY <1>2 DEF AlembicReturns
  <2>2. PICK old : old = proc[p]
    OBVIOUS
  <2>3. PICK new : new = [old EXCEPT !.step = "hasTable", !.child = "none"]
    OBVIOUS
  <2>4. proc' = [proc EXCEPT ![p] = new]
    BY <2>1, <2>2, <2>3
  <2>5. old \in Proc /\ "hasTable" \in Step
    BY <2>2 DEF MigrateInv, Step, Upgraded
  <2>6. /\ new \in Proc /\ new.child = "none" /\ new.step = "hasTable" /\ new.at = old.at
        /\ new.why = old.why
    BY ONLY <2>3, <2>5 DEF Proc
  <2>7. /\ Touches(p) /\ proc'[p].step = "hasTable" /\ proc'[p].child = "none"
        /\ proc'[p].at = "body" /\ proc'[p].why = proc[p].why
    BY <1>1, <2>2, <2>4, <2>6 DEF MigrateInv, Touches
  <2>8. Knows(p)'
    BY <1>1, <1>2, <2>7 DEF MigrateInv, Knows, Upgraded, QueueMade, GraphSteps, GraphMade,
                            QueueGranted, QueueDefaulted, GraphGranted, AllGranted
  <2>9. EndOK(p)' /\ (Alone => AloneOK(p)')
    BY <2>7 DEF EndOK, MigrateInv, AloneOK
  <2>. QED  BY <1>1, <2>7, <2>8, <2>9, DbStays, OwnPart DEF Live
<1>3. CASE proc[p].child \in {"conflict", "lost"}
  <2>1. Fails(p, proc[p].child)
    BY <1>3 DEF AlembicReturns
  <2>2. Alone => proc[p].child \notin {"conflict", "incomplete"}
    BY <1>3 DEF MigrateInv, AloneOK
  <2>3. PICK why : why = proc[p].child
    OBVIOUS
  <2>. QED  BY <1>1, <1>3, <2>1, <2>2, <2>3, FailsStep
<1>. QED  BY <1>1, <1>2, <1>3
-----------------------------------------------------------------------------
LEMMA HasTableStep ==
    ASSUME MigrateInv, UNCHANGED scenario, NEW p \in Process, HasTable(p)
    PROVE  MigrateInv'
<1>1. PICK step \in {"upgrade", "install"} :
          /\ To(p, step)
          /\ step = "upgrade" => HasQueueTable
          /\ step = "install" => ~ HasQueueTable
  BY DEF HasTable
<1>2. UNCHANGED db /\ proc[p].at = "body" /\ proc[p].step = "hasTable"
  BY DEF HasTable, Runs, At
<1>3. step \in Step \ {"none", "command"} /\ step \notin {"graphMigrate", "graphRecord"}
  BY DEF Step, Upgraded
<1>4. proc'[p].step = step /\ proc'[p].child = proc[p].child
  BY <1>1, <1>3, ToEffect DEF MigrateInv
<1>5. Knows(p)'
  BY <1>1, <1>2, <1>4
     DEF MigrateInv, Knows, HasQueueTable, Upgraded, QueueMade, GraphSteps, GraphMade,
         QueueGranted, QueueDefaulted, GraphGranted, AllGranted
<1>6. step = "install" => ~ HasQueueTable'
  BY <1>1, <1>2 DEF HasQueueTable
<1>. QED  BY <1>1, <1>2, <1>3, <1>5, <1>6, DbStays, ToStep

(* Statements that make tables or schemas.                                  *)
LEMMA CreatesOK ==
    ASSUME DbOK, NEW new \in SUBSET Table, \A t \in new : t[1] \in db.schemas, HasQueueTable,
           Creates(new)
    PROVE  /\ DbOK' /\ Grows
           /\ db'.tables = db.tables \cup new /\ db'.rev = db.rev
           /\ db'.schemas = db.schemas /\ db'.recorded = db.recorded
           /\ db'.default = db.default
<1>1. /\ db' \in Database /\ Grows
      /\ db'.tables = db.tables \cup new /\ db'.rev = db.rev
      /\ db'.schemas = db.schemas /\ db'.recorded = db.recorded
      /\ db'.default = db.default
  BY DEF DbOK, Creates, Database, Grows
<1>2. DbOK'
  BY <1>1 DEF DbOK, HasQueueTable
<1>. QED  BY <1>1, <1>2

LEMMA InstallStep ==
    ASSUME MigrateInv, UNCHANGED scenario, NEW p \in Process, Install(p)
    PROVE  MigrateInv'
<1>1. proc[p].at = "body" /\ proc[p].step = "install"
  BY DEF Install, Runs, At
<1>2. CASE \E t \in db.tables : t[1] = "pgqueuer"
  <2>1. Fails(p, "conflict") /\ UNCHANGED db
    BY <1>2 DEF Install
  <2>2. ~ Alone
    BY <1>1, <1>2 DEF MigrateInv, AloneOK, DbOK
  <2>. QED  BY <1>1, <2>1, <2>2, FailsStep
<1>3. CASE ~ \E t \in db.tables : t[1] = "pgqueuer"
  <2>1. /\ db' = [db EXCEPT !.schemas = @ \cup {"pgqueuer"}, !.tables = @ \cup Queue]
        /\ To(p, "upgrade")
    BY <1>3 DEF Install, Queue
  <2>2. /\ <<"pgqueuer", 1>> \in Queue /\ Queue \subseteq Table
        /\ \A t \in Queue : t[1] = "pgqueuer"
    BY InstallationAssumption DEF Queue, TablesOf, Table
  <2>3. /\ db' \in Database /\ Grows /\ db'.tables = db.tables \cup Queue
        /\ db'.schemas = db.schemas \cup {"pgqueuer"} /\ db'.recorded = db.recorded
        /\ db'.rev = db.rev
    BY <2>1, <2>2 DEF MigrateInv, DbOK, Database, Grows, Vendor
  <2>4. DbOK' /\ HasQueueTable'
    BY <2>2, <2>3 DEF MigrateInv, DbOK, HasQueueTable
  <2>5. "upgrade" \in Step \ {"none", "command"}
    BY DEF Step, Upgraded
  <2>6. proc'[p].step = "upgrade" /\ proc'[p].child = proc[p].child
    BY <2>1, <2>5, ToEffect DEF MigrateInv
  <2>7. Knows(p)'
    BY <1>1, <2>3, <2>4, <2>6
       DEF MigrateInv, Knows, Upgraded, QueueMade, GraphSteps, GraphMade,
           QueueGranted, QueueDefaulted, GraphGranted, AllGranted
  <2>. QED  BY <1>1, <2>1, <2>3, <2>4, <2>5, <2>7, ToStep
<1>. QED  BY <1>2, <1>3

LEMMA UpgradeStep ==
    ASSUME MigrateInv, UNCHANGED scenario, NEW p \in Process, Upgrade(p)
    PROVE  MigrateInv'
<1>1. proc[p].at = "body" /\ proc[p].step = "upgrade"
  BY DEF Upgrade, Runs, At
<1>2. HasQueueTable /\ "pgqueuer" \in db.schemas
  BY <1>1 DEF MigrateInv, Knows, DbOK, HasQueueTable
<1>3. ASSUME NEW t \in MissingQueueTables, Creates({t}), UNCHANGED proc  PROVE MigrateInv'
  <2>1. {t} \in SUBSET Table /\ t[1] = "pgqueuer"
    BY DEF MissingQueueTables, TablesOf, Table
  <2>2. DbOK' /\ Grows /\ db'.tables = db.tables \cup {t}
    BY <1>2, <1>3, <2>1, CreatesOK DEF MigrateInv
  <2>3. Touches(p)
    BY <1>3 DEF MigrateInv, Touches
  <2>4. Knows(p)' /\ EndOK(p)'
    BY <1>3, <2>2, KeepsKnowing
  <2>5. Alone => AloneOK(p)'
    BY <1>1, <1>3 DEF MigrateInv, AloneOK
  <2>. QED  BY <1>1, <1>3, <2>2, <2>3, <2>4, <2>5, OwnPart
<1>4. ASSUME MissingQueueTables = {}, To(p, "graphSchema"), UNCHANGED db  PROVE MigrateInv'
  <2>1. Queue \subseteq db.tables
    BY <1>4 DEF MissingQueueTables, Queue
  <2>2. "graphSchema" \in Step \ {"none", "command"}
    BY DEF Step, Upgraded, QueueMade
  <2>3. proc'[p].step = "graphSchema" /\ proc'[p].child = proc[p].child
    BY <1>4, <2>2, ToEffect DEF MigrateInv
  <2>4. Knows(p)'
    BY <1>1, <1>4, <2>1, <2>3
       DEF MigrateInv, Knows, Upgraded, QueueMade, GraphSteps, GraphMade,
           QueueGranted, QueueDefaulted, GraphGranted, AllGranted
  <2>. QED  BY <1>1, <1>4, <2>2, <2>4, DbStays, ToStep
<1>. QED  BY <1>3, <1>4 DEF Upgrade
-----------------------------------------------------------------------------
LEMMA GraphSchemaStep ==
    ASSUME MigrateInv, UNCHANGED scenario, NEW p \in Process, GraphSchema(p)
    PROVE  MigrateInv'
<1>1. /\ proc[p].at = "body" /\ proc[p].step = "graphSchema" /\ To(p, "graphVersion")
      /\ db' = [db EXCEPT !.schemas = @ \cup {"langgraph"}]
  BY DEF GraphSchema, Runs, At, CreatesSchema
<1>2. /\ db' \in Database /\ Grows /\ db'.schemas = db.schemas \cup {"langgraph"}
      /\ db'.tables = db.tables /\ db'.recorded = db.recorded /\ db'.rev = db.rev
  BY <1>1 DEF MigrateInv, DbOK, Database, Grows, Vendor
<1>3. DbOK'
  BY <1>2 DEF MigrateInv, DbOK, HasQueueTable
<1>4. "graphVersion" \in Step \ {"none", "command"}
  BY DEF Step, Upgraded, QueueMade, GraphSteps
<1>5. proc'[p].step = "graphVersion" /\ proc'[p].child = proc[p].child
  BY <1>1, <1>4, ToEffect DEF MigrateInv
<1>6. Knows(p)'
  BY <1>1, <1>2, <1>5
     DEF MigrateInv, Knows, Upgraded, QueueMade, GraphSteps, GraphMade,
         QueueGranted, QueueDefaulted, GraphGranted, AllGranted
<1>. QED  BY <1>1, <1>2, <1>3, <1>4, <1>6, ToStep

(* After n - 1 migrations that are recorded.                                *)
LEMMA NextMigrationStep ==
    ASSUME MigrateInv, UNCHANGED scenario, NEW p \in Process,
           proc[p].at = "body", proc[p].step \in {"graphVersion", "graphRecord"},
           NEW n \in 1..(GraphTables + 1), NextMigration(p, n), Grows, DbOK',
           1..(n - 1) \subseteq db'.recorded, n \notin db'.recorded
    PROVE  MigrateInv'
<1>. DEFINE step == IF n > GraphTables THEN "grantQueue" ELSE "graphMigrate"
<1>1. PICK old : old = proc[p]
  OBVIOUS
<1>2. PICK new : new = [old EXCEPT !.step = step, !.next = n]
  OBVIOUS
<1>3. proc' = [proc EXCEPT ![p] = new]
  BY <1>1, <1>2 DEF NextMigration
<1>4. /\ old \in Proc /\ n \in Nat /\ step \in Step
      /\ n > GraphTables => step = "grantQueue"
      /\ n <= GraphTables => step = "graphMigrate"
  BY <1>1, InstallationAssumption
     DEF MigrateInv, Step, Upgraded, QueueMade, GraphSteps, GraphMade
<1>. HIDE DEF step
<1>5. /\ new \in Proc /\ new.step = step /\ new.next = n /\ new.at = old.at
      /\ new.child = old.child /\ new.why = old.why
  BY ONLY <1>2, <1>4 DEF Proc
<1>6. /\ Touches(p) /\ proc'[p].step = step /\ proc'[p].next = n /\ proc'[p].at = "body"
      /\ proc'[p].child = proc[p].child /\ proc'[p].why = proc[p].why
  BY <1>1, <1>3, <1>5 DEF MigrateInv, Touches
<1>7. /\ Knows(p) /\ db.rev = Head /\ Queue \subseteq db.tables /\ "langgraph" \in db.schemas
  BY DEF MigrateInv, Knows, Upgraded, QueueMade, GraphSteps
<1>8. /\ db'.rev = Head /\ Queue \subseteq db'.tables /\ "langgraph" \in db'.schemas
  BY <1>7 DEF Grows
<1>9. Knows(p)'
  <2>1. CASE n > GraphTables
    <3>1. n - 1 = GraphTables /\ step = "grantQueue"
      BY <2>1, <1>4, InstallationAssumption
    <3>2. db'.recorded = 1..GraphTables
      BY <3>1 DEF DbOK, Database
    <3>. QED  BY <1>6, <1>7, <1>8, <3>1, <3>2
              DEF Knows, Upgraded, QueueMade, GraphSteps, GraphMade,
                  QueueGranted, QueueDefaulted, GraphGranted, AllGranted
  <2>2. CASE n <= GraphTables
    <3>1. n \in 1..GraphTables /\ step = "graphMigrate"
      BY <2>2, <1>4, InstallationAssumption
    <3>. QED  BY <1>6, <1>7, <1>8, <3>1
              DEF Knows, Upgraded, QueueMade, GraphSteps, GraphMade,
                  QueueGranted, QueueDefaulted, GraphGranted, AllGranted
  <2>. QED  BY <2>1, <2>2, InstallationAssumption
<1>10. step \in {"grantQueue", "graphMigrate"}
  BY <1>4, InstallationAssumption
<1>11. EndOK(p)'
  BY <1>6, <1>10 DEF EndOK
<1>12. ASSUME Alone  PROVE AloneOK(p)'
  <2>1. AloneOK(p)
    BY <1>12 DEF MigrateInv
  <2>2. proc[p].child = "none"
    BY <2>1 DEF AloneOK
  <2>. QED  BY <1>6, <1>10, <2>1, <2>2 DEF AloneOK
<1>. QED  BY <1>6, <1>9, <1>11, <1>12, OwnPart DEF Live

LEMMA GraphVersionStep ==
    ASSUME MigrateInv, UNCHANGED scenario, NEW p \in Process, GraphVersion(p)
    PROVE  MigrateInv'
<1>1. PICK n \in 0..GraphTables :
          /\ \A m \in db.recorded : m <= n
          /\ n \in db.recorded \cup {0}
          /\ NextMigration(p, n + 1)
  BY DEF GraphVersion
<1>2. UNCHANGED db /\ proc[p].at = "body" /\ proc[p].step = "graphVersion"
  BY DEF GraphVersion, Runs, At
<1>3. n + 1 \in 1..(GraphTables + 1) /\ (n + 1) - 1 = n
  BY InstallationAssumption
<1>4. n + 1 \notin db'.recorded
  <2>1. db.recorded \subseteq Nat
    BY InstallationAssumption DEF MigrateInv, DbOK, Database
  <2>. QED  BY <1>1, <1>2, <2>1
<1>5. 1..((n + 1) - 1) \subseteq db'.recorded
  <2>1. n \in db.recorded => 1..n \subseteq db.recorded
    BY DEF MigrateInv, DbOK
  <2>2. n = 0 => 1..n = {}
    OBVIOUS
  <2>3. 1..n \subseteq db.recorded
    BY <1>1, <2>1, <2>2
  <2>. QED  BY <1>2, <1>3, <2>3
<1>6. PICK m : m = n + 1
  OBVIOUS
<1>7. /\ m \in 1..(GraphTables + 1) /\ NextMigration(p, m)
      /\ 1..(m - 1) \subseteq db'.recorded /\ m \notin db'.recorded
  BY <1>1, <1>3, <1>4, <1>5, <1>6
<1>8. Grows /\ DbOK' /\ proc[p].step \in {"graphVersion", "graphRecord"}
  BY <1>2, DbStays
<1>. QED  BY <1>2, <1>7, <1>8, NextMigrationStep

LEMMA GraphMigrateStep ==
    ASSUME MigrateInv, UNCHANGED scenario, NEW p \in Process, GraphMigrate(p)
    PROVE  MigrateInv'
<1>1. /\ proc[p].at = "body" /\ proc[p].step = "graphMigrate" /\ To(p, "graphRecord")
      /\ Creates({<<"langgraph", proc[p].next>>})
  BY DEF GraphMigrate, Runs, At
<1>. DEFINE t == <<"langgraph", proc[p].next>>
<1>2. Knows(p)
  BY DEF MigrateInv
<1>3. proc[p].next \in 1..GraphTables /\ "langgraph" \in db.schemas /\ HasQueueTable
  BY <1>1, <1>2, InstallationAssumption
     DEF Knows, QueueMade, GraphSteps, HasQueueTable, Queue, TablesOf
<1>4. {t} \in SUBSET Table /\ t[1] = "langgraph"
  BY <1>3 DEF Table, TablesOf
<1>5. /\ DbOK' /\ Grows /\ db'.tables = db.tables \cup {t} /\ db'.rev = db.rev
      /\ db'.schemas = db.schemas /\ db'.recorded = db.recorded
  BY <1>1, <1>3, <1>4, CreatesOK DEF MigrateInv
<1>6. "graphRecord" \in Step \ {"none", "command"}
  BY DEF Step, Upgraded, QueueMade, GraphSteps
<1>7. /\ proc'[p].step = "graphRecord" /\ proc'[p].child = proc[p].child
      /\ proc'[p].next = proc[p].next
  BY <1>1, <1>6, ToEffect DEF MigrateInv
<1>8. Knows(p)'
  BY <1>1, <1>2, <1>5, <1>7
     DEF Knows, Upgraded, QueueMade, GraphSteps, GraphMade,
         QueueGranted, QueueDefaulted, GraphGranted, AllGranted
<1>9. Alone => proc[p].next \notin db'.recorded
  BY <1>1, <1>5 DEF MigrateInv, AloneOK
<1>. QED  BY <1>1, <1>5, <1>6, <1>8, <1>9, ToStep

LEMMA GraphRecordStep ==
    ASSUME MigrateInv, UNCHANGED scenario, NEW p \in Process, GraphRecord(p)
    PROVE  MigrateInv'
<1>. DEFINE n == proc[p].next
<1>1. proc[p].at = "body" /\ proc[p].step = "graphRecord"
  BY DEF GraphRecord, Runs, At
<1>2. CASE n \in db.recorded
  <2>1. Fails(p, "conflict") /\ UNCHANGED db
    BY <1>2 DEF GraphRecord
  <2>2. ~ Alone
    BY <1>1, <1>2 DEF MigrateInv, AloneOK
  <2>. QED  BY <1>1, <2>1, <2>2, FailsStep
<1>3. CASE n \notin db.recorded
  <2>1. db' = [db EXCEPT !.recorded = @ \cup {n}] /\ NextMigration(p, n + 1)
    BY <1>3 DEF GraphRecord, Records
  <2>2. /\ n \in 1..GraphTables /\ 1..(n - 1) \subseteq db.recorded
        /\ <<"langgraph", n>> \in db.tables
    BY <1>1 DEF MigrateInv, Knows
  <2>3. /\ db' \in Database /\ Grows /\ db'.recorded = db.recorded \cup {n}
        /\ db'.tables = db.tables /\ db'.schemas = db.schemas
    BY <2>1, <2>2 DEF MigrateInv, DbOK, Database, Grows
  <2>4. 1..n \subseteq db'.recorded
    BY <2>2, <2>3, InstallationAssumption
  <2>5. DbOK'
    BY <2>2, <2>3, <2>4 DEF MigrateInv, DbOK, HasQueueTable
  <2>6. /\ n + 1 \in 1..(GraphTables + 1) /\ 1..((n + 1) - 1) \subseteq db'.recorded
    BY <2>2, <2>4, InstallationAssumption
  <2>7. n + 1 \notin db'.recorded
    <3>1. n + 1 # n /\ n \in 1..(n + 1)
      BY <2>2, InstallationAssumption
    <3>2. n + 1 \notin db.recorded
      BY <1>3, <3>1 DEF MigrateInv, DbOK
    <3>. QED  BY <2>3, <3>1, <3>2
  <2>8. PICK m : m = n + 1
    OBVIOUS
  <2>. QED  BY <1>1, <2>1, <2>3, <2>5, <2>6, <2>7, <2>8, NextMigrationStep
<1>. QED  BY <1>2, <1>3
-----------------------------------------------------------------------------
(* A GRANT of the tables there are, or of those to come.                    *)
LEMMA GrantsOK ==
    ASSUME DbOK, NEW vendor \in Vendor, GrantsTables(vendor) \/ GrantsDefault(vendor)
    PROVE  /\ DbOK' /\ Grows
           /\ db'.tables = db.tables /\ db'.rev = db.rev /\ db'.recorded = db.recorded
<1>1. /\ db' \in Database /\ Grows
      /\ db'.tables = db.tables /\ db'.rev = db.rev /\ db'.recorded = db.recorded
      /\ db'.schemas = db.schemas
  <2>1. CASE GrantsTables(vendor)
    BY <2>1 DEF DbOK, GrantsTables, Database, Grows
  <2>2. CASE GrantsDefault(vendor)
    BY <2>2 DEF DbOK, GrantsDefault, Database, Grows
  <2>. QED  BY <2>1, <2>2
<1>2. DbOK'
  BY <1>1 DEF DbOK, HasQueueTable
<1>. QED  BY <1>1, <1>2

LEMMA GrantStep ==
    ASSUME MigrateInv, UNCHANGED scenario, NEW p \in Process, Grant(p)
    PROVE  MigrateInv'
<1>. USE DEF Runs, At
<1>1. Knows(p)
  BY DEF MigrateInv
<1>2. Vendor = {"pgqueuer", "langgraph"}
  BY DEF Vendor
<1>3. {"defaultQueue", "grantGraph", "defaultGraph", "phoenixDatabase"}
          \subseteq Step \ {"none", "command", "install", "graphMigrate", "graphRecord"}
  BY DEF Step, Upgraded, QueueMade, GraphMade, QueueGranted, QueueDefaulted,
         GraphGranted, AllGranted
<1>4. ASSUME NEW step \in {"defaultQueue", "grantGraph", "defaultGraph", "phoenixDatabase"},
             To(p, step)
      PROVE  proc'[p].step = step /\ proc'[p].child = proc[p].child
  BY <1>3, <1>4, ToEffect DEF MigrateInv
<1>5. CASE Runs(p, "grantQueue") /\ GrantsTables("pgqueuer") /\ To(p, "defaultQueue")
  <2>1. DbOK' /\ Grows
    BY <1>2, <1>5, GrantsOK DEF MigrateInv
  <2>2. Queue \subseteq db'.granted
    BY <1>1, <1>5 DEF Knows, QueueMade, GraphMade, GrantsTables, Queue, TablesOf,
                      MigrateInv, DbOK, Database
  <2>3. Knows(p)'
    BY <1>1, <1>4, <1>5, <2>1, <2>2
       DEF Knows, Grows, DbOK, Database, Upgraded, QueueMade, GraphSteps, GraphMade,
           QueueGranted, QueueDefaulted, GraphGranted, AllGranted
  <2>. QED  BY <1>3, <1>5, <2>1, <2>3, ToStep
<1>6. CASE Runs(p, "defaultQueue") /\ GrantsDefault("pgqueuer") /\ To(p, "grantGraph")
  <2>1. DbOK' /\ Grows
    BY <1>2, <1>6, GrantsOK DEF MigrateInv
  <2>2. "pgqueuer" \in db'.default
    BY <1>6 DEF GrantsDefault, MigrateInv, DbOK, Database
  <2>3. Knows(p)'
    BY <1>1, <1>4, <1>6, <2>1, <2>2
       DEF Knows, Grows, DbOK, Database, Upgraded, QueueMade, GraphSteps, GraphMade,
           QueueGranted, QueueDefaulted, GraphGranted, AllGranted
  <2>. QED  BY <1>3, <1>6, <2>1, <2>3, ToStep
<1>7. CASE Runs(p, "grantGraph") /\ GrantsTables("langgraph") /\ To(p, "defaultGraph")
  <2>1. DbOK' /\ Grows
    BY <1>2, <1>7, GrantsOK DEF MigrateInv
  <2>2. db.recorded = 1..GraphTables
    BY <1>1, <1>7 DEF Knows, GraphMade, QueueGranted, QueueDefaulted
  <2>3. Graph \subseteq db.tables
    BY <2>2 DEF Graph, TablesOf, MigrateInv, DbOK
  <2>4. Graph \subseteq db'.granted
    BY <1>7, <2>3 DEF GrantsTables, Graph, TablesOf, MigrateInv, DbOK, Database
  <2>5. Knows(p)'
    BY <1>1, <1>4, <1>7, <2>1, <2>4
       DEF Knows, Grows, DbOK, Database, Upgraded, QueueMade, GraphSteps, GraphMade,
           QueueGranted, QueueDefaulted, GraphGranted, AllGranted
  <2>. QED  BY <1>3, <1>7, <2>1, <2>5, ToStep
<1>8. CASE Runs(p, "defaultGraph") /\ GrantsDefault("langgraph") /\ To(p, "phoenixDatabase")
  <2>1. DbOK' /\ Grows
    BY <1>2, <1>8, GrantsOK DEF MigrateInv
  <2>2. "langgraph" \in db'.default
    BY <1>8 DEF GrantsDefault, MigrateInv, DbOK, Database
  <2>3. Knows(p)'
    BY <1>1, <1>4, <1>8, <2>1, <2>2
       DEF Knows, Grows, DbOK, Database, Upgraded, QueueMade, GraphSteps, GraphMade,
           QueueGranted, QueueDefaulted, GraphGranted, AllGranted
  <2>. QED  BY <1>3, <1>8, <2>1, <2>3, ToStep
<1>. QED  BY <1>5, <1>6, <1>7, <1>8 DEF Grant

LEMMA VerifyStep ==
    ASSUME MigrateInv, UNCHANGED scenario, NEW p \in Process, Verify(p)
    PROVE  MigrateInv'
<1>1. UNCHANGED db /\ proc[p].at = "body" /\ proc[p].step = "verify"
  BY DEF Verify, Runs, At
<1>2. /\ db.rev = Head /\ Queue \subseteq db.tables /\ "langgraph" \in db.schemas
      /\ db.recorded = 1..GraphTables /\ Queue \subseteq db.granted /\ Graph \subseteq db.granted
      /\ "pgqueuer" \in db.default /\ "langgraph" \in db.default
  BY <1>1 DEF MigrateInv, Knows, Upgraded, QueueMade, GraphSteps, GraphMade,
              QueueGranted, QueueDefaulted, GraphGranted, AllGranted
<1>3. Graph \subseteq db.tables
  BY <1>2 DEF Graph, TablesOf, MigrateInv, DbOK
<1>4. Installed
  BY <1>2, <1>3 DEF MigrateInv, DbOK, Database, Installed, Table, Queue, Graph, Vendor
<1>5. Verified
  <2>1. <<"pgqueuer", 1>> \in db.tables
    BY <1>2, InstallationAssumption DEF Queue, TablesOf
  <2>2. "pgqueuer" \in db.schemas
    BY <2>1 DEF MigrateInv, DbOK
  <2>. QED  BY <1>2, <2>2, InstallationAssumption DEF Verified, Vendor
<1>6. Ends(p, "ok", "none", 0)
  BY <1>5 DEF Verify
<1>7. Touches(p) /\ Left(p) /\ proc'[p].at = "flush" /\ proc'[p].why = "none"
  BY <1>1, <1>6, EndsEffect DEF MigrateInv, Why
<1>8. EndOK(p)'
  BY <1>1, <1>4, <1>7 DEF EndOK, Left, Installed
<1>. QED  BY <1>1, <1>7, <1>8, LeavingStep DEF Live

LEMMA LoseConnectionStep ==
    ASSUME MigrateInv, UNCHANGED scenario, NEW p \in Process, LoseConnection(p)
    PROVE  MigrateInv'
<1>1. CASE proc[p].at = "body" /\ Fails(p, "lost")
  BY <1>1, FailsStep DEF LoseConnection
<1>2. CASE proc[p].child = "running" /\ proc' = [proc EXCEPT ![p].child = "lost"]
  <2>1. proc' = [proc EXCEPT ![p] =
                    [proc[p] EXCEPT !.child = "lost", !.read = proc[p].read]] /\ UNCHANGED db
    BY <1>2 DEF MigrateInv, Proc, LoseConnection
  <2>2. proc[p].read \in 0..Head
    BY DEF MigrateInv, Proc
  <2>3. /\ Touches(p) /\ proc'[p].child = "lost"
        /\ proc'[p].step = proc[p].step /\ proc'[p].at = proc[p].at
        /\ proc'[p].command = proc[p].command /\ proc'[p].next = proc[p].next
        /\ proc'[p].why = proc[p].why /\ proc'[p].code = proc[p].code
        /\ proc'[p].hit = proc[p].hit /\ proc'[p].telemetry = proc[p].telemetry
    BY <2>1, <2>2, ChildEffect DEF MigrateInv
  <2>4. Knows(p) /\ EndOK(p)
    BY DEF MigrateInv
  <2>5. Knows(p)'
    BY <2>1, <2>3, <2>4 DEF Knows, HasQueueTable
  <2>6. EndOK(p)'
    BY <2>1, <2>3, <2>4 DEF EndOK, Installed
  <2>7. Alone => AloneOK(p)'
    BY <1>2, <2>1, <2>3 DEF MigrateInv, AloneOK, HasQueueTable
  <2>. QED  BY <2>1, <2>3, <2>5, <2>6, <2>7, DbStays, OwnPart
<1>. QED  BY <1>1, <1>2 DEF LoseConnection, At
-----------------------------------------------------------------------------
(* main.                                                                    *)
LEMMA Replaced ==
    ASSUME proc \in [Process -> Proc], scenario' = scenario, NEW p \in Process, NEW new \in Proc,
           proc' = [proc EXCEPT ![p] = new]
    PROVE  Touches(p) /\ proc'[p] = new
BY DEF Touches

LEMMA NoneStep == "none" \notin Upgraded /\ "none" \in Step
BY DEF Step, Upgraded, QueueMade, GraphSteps, GraphMade, QueueGranted, QueueDefaulted,
       GraphGranted, AllGranted

LEMMA StartStep ==
    ASSUME MigrateInv, UNCHANGED <<db, scenario>>, NEW p \in Process, NEW command \in Command,
           Start(p, command)
    PROVE  MigrateInv'
<1>1. PICK old : old = proc[p]
  OBVIOUS
<1>2. PICK new : new = [old EXCEPT !.at = "boot", !.command = command]
  OBVIOUS
<1>3. proc' = [proc EXCEPT ![p] = new] /\ old.at = "off"
  BY <1>1, <1>2 DEF Start, At
<1>4. old \in Proc /\ "boot" \in Phase
  BY <1>1 DEF MigrateInv, Phase
<1>5. /\ new \in Proc /\ new.at = "boot" /\ new.step = old.step /\ new.child = old.child
      /\ new.next = old.next /\ new.why = old.why /\ new.read = old.read
  BY ONLY <1>2, <1>4, command \in Command DEF Proc
<1>6. Touches(p) /\ proc'[p] = new
  BY <1>3, <1>5, Replaced DEF MigrateInv
<1>7. ASSUME NEW q \in Process \ {p}  PROVE Knows(q)' /\ EndOK(q)'
  BY <1>6, DbStays, KeepsKnowing DEF Touches
<1>8. Knows(p)'
  BY <1>1, <1>5, <1>6 DEF MigrateInv, Knows, HasQueueTable
<1>9. EndOK(p)'
  <2>1. old.step = "none"
    BY <1>1, <1>3 DEF MigrateInv, EndOK
  <2>. QED  BY <1>5, <1>6, <2>1 DEF EndOK
<1>10. Alone' = Alone
  BY DEF Alone
<1>11. ASSUME Alone  PROVE OneAtATime'
  <2>1. \A q \in Process \ {p} : proc'[q].at \notin Live
    BY <1>6, <1>11 DEF Start, Touches, Alone
  <2>. QED  BY <2>1 DEF OneAtATime
<1>12. ASSUME Alone, NEW q \in Process  PROVE AloneOK(q)'
  <2>1. AloneOK(q) /\ EndOK(q)
    BY <1>12 DEF MigrateInv
  <2>2. CASE q = p
    BY <1>1, <1>3, <1>5, <1>6, <2>1, <2>2 DEF AloneOK, EndOK, HasQueueTable
  <2>3. CASE q # p
    BY <1>6, <2>1, <2>3 DEF AloneOK, Touches, HasQueueTable
  <2>. QED  BY <2>2, <2>3
<1>13. ASSUME NEW q \in Process  PROVE Knows(q)' /\ EndOK(q)'
  BY <1>7, <1>8, <1>9
<1>. QED  BY <1>6, <1>10, <1>11, <1>12, <1>13, DbStays DEF MigrateInv, Touches

LEMMA MainChange ==
    ASSUME MigrateInv, UNCHANGED <<db, scenario>>, NEW p \in Process, Touches(p),
           proc'[p].at \in Live => proc[p].at \in Live,
           proc'[p].step \in {"none", "database", "handlers", "serving", "command"},
           proc'[p].step # "none" => proc'[p].at = "body",
           proc'[p].step = "command" => proc'[p].command = "once",
           \/ proc'[p].child = "none"
           \/ proc'[p].child = proc[p].child /\ proc[p].step # "alembic",
           proc'[p].why \notin {"conflict", "incomplete"} \/ proc'[p].why = proc[p].why,
           ( /\ proc'[p].at \in {"flush", "exited"} /\ proc'[p].command = "migrate"
             /\ proc'[p].code = 0 /\ proc'[p].hit = {} ) => Installed,
           proc'[p].at = "exited" /\ proc'[p].hit \subseteq {"body"}
               => proc'[p].telemetry \in {"none", "down"}
    PROVE  MigrateInv'
<1>1. EndOK(p)'
  BY DEF EndOK, Installed
<1>2. Alone => AloneOK(p)'
  BY DEF MigrateInv, AloneOK
<1>3. proc'[p].step \notin Upgraded
  BY DEF Upgraded, QueueMade, GraphSteps, GraphMade, QueueGranted, QueueDefaulted,
         GraphGranted, AllGranted
<1>. QED  BY <1>1, <1>2, <1>3, QuietStep

(* Before the command and after it, nothing of it is held.                  *)
LEMMA NotInBody ==
    ASSUME MigrateInv, NEW p \in Process, proc[p].at # "body"  PROVE proc[p].step = "none"
BY DEF MigrateInv, EndOK

LEMMA InstallHandlersStep ==
    ASSUME MigrateInv, UNCHANGED <<db, scenario>>, NEW p \in Process, InstallHandlers(p)
    PROVE  MigrateInv'
<1>1. PICK old : old = proc[p]
  OBVIOUS
<1>2. PICK new : new = [old EXCEPT !.at = "configure", !.handler = "early"]
  OBVIOUS
<1>3. proc' = [proc EXCEPT ![p] = new] /\ old.at = "boot"
  BY <1>1, <1>2 DEF InstallHandlers, At
<1>4. old \in Proc /\ "configure" \in Phase /\ old.step = "none"
  BY <1>1, <1>3, NotInBody DEF MigrateInv, Phase
<1>5. /\ new \in Proc /\ new.at = "configure" /\ new.step = old.step /\ new.child = old.child
      /\ new.why = old.why
  BY ONLY <1>2, <1>4 DEF Proc
<1>6. Touches(p) /\ proc'[p] = new
  BY <1>3, <1>5, Replaced DEF MigrateInv
<1>. QED  BY <1>1, <1>3, <1>4, <1>5, <1>6, MainChange DEF Live

LEMMA ConfigureStep ==
    ASSUME MigrateInv, UNCHANGED <<db, scenario>>, NEW p \in Process, Configure(p)
    PROVE  MigrateInv'
<1>1. PICK old : old = proc[p]
  OBVIOUS
<1>2. /\ old \in Proc /\ "exited" \in Phase /\ "telemetry" \in Why /\ 1 \in 0..3
      /\ old.at = "configure" /\ old.telemetry = "none" /\ old.step = "none"
  BY <1>1, NotInBody DEF MigrateInv, Phase, Why, Configure, At
<1>3. ASSUME NEW adapter \in {"noop", "active"},
             proc' = [proc EXCEPT ![p].telemetry = adapter]
      PROVE  MigrateInv'
  <2>1. PICK new : new = [old EXCEPT !.telemetry = adapter]
    OBVIOUS
  <2>2. proc' = [proc EXCEPT ![p] = new]
    BY <1>1, <1>3, <2>1
  <2>3. adapter \in {"none", "noop", "active", "down"}
    OBVIOUS
  <2>4. /\ new \in Proc /\ new.at = old.at /\ new.step = old.step /\ new.child = old.child
        /\ new.why = old.why
    BY ONLY <1>2, <2>1, <2>3 DEF Proc
  <2>5. Touches(p) /\ proc'[p] = new
    BY <2>2, <2>4, Replaced DEF MigrateInv
  <2>. QED  BY <1>1, <1>2, <2>4, <2>5, MainChange DEF Live
<1>4. ASSUME proc' = [proc EXCEPT ![p] =
                         [proc[p] EXCEPT !.at = "exited", !.result = "failed",
                                         !.why = "telemetry", !.code = 1]]
      PROVE  MigrateInv'
  <2>1. PICK new : new = [old EXCEPT !.at = "exited", !.result = "failed", !.why = "telemetry",
                                     !.code = 1]
    OBVIOUS
  <2>2. proc' = [proc EXCEPT ![p] = new]
    BY <1>1, <1>4, <2>1
  <2>3. new \in Proc
    BY ONLY <1>2, <2>1 DEF Proc
  <2>4. /\ new.at = "exited" /\ new.step = old.step /\ new.child = old.child
        /\ new.why = "telemetry" /\ new.code = 1 /\ new.telemetry = old.telemetry
    BY ONLY <1>2, <2>1 DEF Proc
  <2>5. Touches(p) /\ proc'[p] = new
    BY <2>2, <2>3, Replaced DEF MigrateInv
  <2>. QED  BY <1>1, <1>2, <2>4, <2>5, MainChange DEF Live
<1>. QED  BY <1>3, <1>4 DEF Configure

LEMMA DispatchStep ==
    ASSUME MigrateInv, UNCHANGED <<db, scenario>>, NEW p \in Process, Dispatch(p)
    PROVE  MigrateInv'
<1>1. PICK old : old = proc[p]
  OBVIOUS
<1>2. PICK first : first = FirstStep[old.command]
  OBVIOUS
<1>3. PICK new : new = [old EXCEPT !.at = "body", !.step = first]
  OBVIOUS
<1>4. proc' = [proc EXCEPT ![p] = new] /\ old.at = "configure"
  BY <1>1, <1>2, <1>3 DEF Dispatch, At
<1>5. old \in Proc /\ "body" \in Phase /\ old.step = "none"
  BY <1>1, <1>4, NotInBody DEF MigrateInv, Phase
<1>6. old.command \in Command
  BY <1>5 DEF Proc
<1>7. /\ first \in {"database", "handlers", "command"}
      /\ first = "command" => old.command = "once"
  BY <1>2, <1>6 DEF FirstStep, Command
<1>8. first \in Step
  BY <1>7 DEF Step
<1>9. /\ new \in Proc /\ new.at = "body" /\ new.step = first /\ new.child = old.child
      /\ new.why = old.why /\ new.command = old.command
  BY ONLY <1>3, <1>5, <1>8 DEF Proc
<1>10. Touches(p) /\ proc'[p] = new
  BY <1>4, <1>9, Replaced DEF MigrateInv
<1>. QED  BY <1>1, <1>4, <1>5, <1>7, <1>9, <1>10, MainChange DEF Live

LEMMA RunOnceStep ==
    ASSUME MigrateInv, UNCHANGED <<db, scenario>>, NEW p \in Process, RunOnce(p)
    PROVE  MigrateInv'
<1>1. proc[p].at = "body" /\ proc[p].step = "command"
  BY DEF RunOnce, Runs, At
<1>2. proc[p].command = "once"
  BY <1>1 DEF MigrateInv, EndOK
<1>3. PICK result \in {"ok", "failed"}, why \in {"none", "command"}, code \in {0, 1, 2} :
          Ends(p, result, why, code)
  BY DEF RunOnce
<1>4. code \in 0..3 /\ why \in Why
  BY DEF Why
<1>5. /\ Touches(p) /\ Left(p) /\ proc'[p].at = "flush" /\ proc'[p].command = "once"
      /\ proc'[p].why = why
  BY <1>1, <1>2, <1>3, <1>4, EndsEffect DEF MigrateInv
<1>6. EndOK(p)'
  BY <1>5 DEF EndOK, Left
<1>. QED  BY <1>1, <1>5, <1>6, LeavingStep DEF Live

LEMMA ReplaceHandlersStep ==
    ASSUME MigrateInv, UNCHANGED <<db, scenario>>, NEW p \in Process, ReplaceHandlers(p)
    PROVE  MigrateInv'
<1>1. PICK old : old = proc[p]
  OBVIOUS
<1>2. PICK new : new = [old EXCEPT !.handler = "flag", !.step = "serving"]
  OBVIOUS
<1>3. proc' = [proc EXCEPT ![p] = new] /\ old.at = "body" /\ old.step = "handlers"
  BY <1>1, <1>2 DEF ReplaceHandlers, Runs, At
<1>4. old \in Proc /\ "serving" \in Step
  BY <1>1 DEF MigrateInv, Step
<1>5. /\ new \in Proc /\ new.at = old.at /\ new.step = "serving" /\ new.child = old.child
      /\ new.why = old.why
  BY ONLY <1>2, <1>4 DEF Proc
<1>6. Touches(p) /\ proc'[p] = new
  BY <1>3, <1>5, Replaced DEF MigrateInv
<1>. QED  BY <1>1, <1>3, <1>5, <1>6, MainChange DEF Live

LEMMA StopWorkerStep ==
    ASSUME MigrateInv, UNCHANGED <<db, scenario>>, NEW p \in Process, StopWorker(p)
    PROVE  MigrateInv'
<1>1. /\ proc[p].at = "body" /\ proc[p].command = "worker" /\ Ends(p, "ok", "none", 0)
  BY DEF StopWorker, Runs, At
<1>2. /\ Touches(p) /\ Left(p) /\ proc'[p].at = "flush" /\ proc'[p].command = "worker"
      /\ proc'[p].why = "none"
  BY <1>1, EndsEffect DEF MigrateInv, Why
<1>3. EndOK(p)'
  BY <1>2 DEF EndOK, Left
<1>. QED  BY <1>1, <1>2, <1>3, LeavingStep DEF Live

LEMMA StopApiStep ==
    ASSUME MigrateInv, UNCHANGED <<db, scenario>>, NEW p \in Process, StopApi(p)
    PROVE  MigrateInv'
<1>1. PICK gone : gone = Leaves(p)
  OBVIOUS
<1>2. PICK new : new = [gone EXCEPT !.handler = "early", !.result = "ok", !.code = 0]
  OBVIOUS
<1>3. /\ proc' = [proc EXCEPT ![p] = new]
      /\ proc[p].at = "body" /\ proc[p].command = "api"
  BY <1>1, <1>2 DEF StopApi, Runs, At
<1>4. /\ gone \in Proc /\ gone.step = "none" /\ gone.child = "none" /\ gone.at = "flush"
      /\ gone.command = proc[p].command /\ gone.why = proc[p].why
  BY <1>1, LeavesTyped DEF MigrateInv
<1>5. new \in Proc
  <2>1. 0 \in 0..3
    OBVIOUS
  <2>2. PICK code : code = 0
    OBVIOUS
  <2>. QED  BY ONLY <1>2, <1>4, <2>1, <2>2 DEF Proc
<1>6. /\ new.at = gone.at /\ new.step = gone.step /\ new.child = gone.child
      /\ new.why = gone.why /\ new.command = gone.command
  BY ONLY <1>2, <1>4 DEF Proc
<1>7. Touches(p) /\ proc'[p] = new
  BY <1>3, <1>5, Replaced DEF MigrateInv
<1>8. Left(p) /\ EndOK(p)' /\ (Alone => proc'[p].why \notin {"conflict", "incomplete"})
  BY <1>3, <1>4, <1>6, <1>7 DEF Left, EndOK, MigrateInv, AloneOK
<1>. QED  BY <1>3, <1>7, <1>8, LeavingStep DEF Live

LEMMA ServeFailsStep ==
    ASSUME MigrateInv, UNCHANGED <<db, scenario>>, NEW p \in Process, ServeFails(p)
    PROVE  MigrateInv'
<1>1. PICK gone : gone = Leaves(p)
  OBVIOUS
<1>2. PICK code \in {1, 3} :
          /\ Runs(p, "handlers") \/ Runs(p, "serving")
          /\ proc' = [proc EXCEPT ![p] =
                [Leaves(p) EXCEPT !.handler = "early", !.result = "failed",
                                  !.why = "startup", !.code = code]]
  BY DEF ServeFails
<1>3. PICK new : new = [gone EXCEPT !.handler = "early", !.result = "failed",
                                    !.why = "startup", !.code = code]
  OBVIOUS
<1>4. /\ proc' = [proc EXCEPT ![p] = new]
      /\ proc[p].at = "body" /\ proc[p].command = "api"
  BY <1>1, <1>2, <1>3 DEF ServeFails, Runs, At
<1>5. /\ gone \in Proc /\ gone.step = "none" /\ gone.child = "none" /\ gone.at = "flush"
      /\ gone.command = proc[p].command /\ gone.why = proc[p].why
  BY <1>1, LeavesTyped DEF MigrateInv
<1>6. "startup" \in Why /\ code \in 0..3
  BY DEF Why
<1>7. new \in Proc
  BY ONLY <1>3, <1>5, <1>6 DEF Proc
<1>8. /\ new.at = gone.at /\ new.step = gone.step /\ new.child = gone.child
      /\ new.why = "startup" /\ new.command = gone.command
  BY ONLY <1>3, <1>5 DEF Proc
<1>9. Touches(p) /\ proc'[p] = new
  BY <1>4, <1>7, Replaced DEF MigrateInv
<1>10. Left(p) /\ EndOK(p)' /\ proc'[p].why = "startup"
  BY <1>4, <1>5, <1>8, <1>9 DEF Left, EndOK
<1>. QED  BY <1>4, <1>9, <1>10, LeavingStep DEF Live

LEMMA FlushStep ==
    ASSUME MigrateInv, UNCHANGED <<db, scenario>>, NEW p \in Process, Flush(p)
    PROVE  MigrateInv'
<1>1. PICK old : old = proc[p]
  OBVIOUS
<1>2. PICK new : new = [old EXCEPT !.telemetry = "down"]
  OBVIOUS
<1>3. proc' = [proc EXCEPT ![p] = new] /\ old.at = "flush"
  BY <1>1, <1>2 DEF Flush, At
<1>4. old \in Proc /\ old.step = "none"
  BY <1>1, <1>3, NotInBody DEF MigrateInv
<1>5. /\ new \in Proc /\ new.at = old.at /\ new.step = old.step /\ new.child = old.child
      /\ new.why = old.why /\ new.command = old.command /\ new.code = old.code
      /\ new.hit = old.hit
  BY ONLY <1>2, <1>4 DEF Proc
<1>6. Touches(p) /\ proc'[p] = new
  BY <1>3, <1>5, Replaced DEF MigrateInv
<1>7. EndOK(p)
  BY DEF MigrateInv
<1>8. (/\ new.at \in {"flush", "exited"} /\ new.command = "migrate"
       /\ new.code = 0 /\ new.hit = {}) => Installed
  BY <1>1, <1>5, <1>7 DEF EndOK
<1>. QED  BY <1>1, <1>3, <1>4, <1>5, <1>6, <1>8, MainChange DEF Live

LEMMA ExitStep ==
    ASSUME MigrateInv, UNCHANGED <<db, scenario>>, NEW p \in Process, Exit(p)
    PROVE  MigrateInv'
<1>1. PICK old : old = proc[p]
  OBVIOUS
<1>2. PICK new : new = [old EXCEPT !.at = "exited"]
  OBVIOUS
<1>3. proc' = [proc EXCEPT ![p] = new] /\ old.at = "flush" /\ old.telemetry = "down"
  BY <1>1, <1>2 DEF Exit, At
<1>4. old \in Proc /\ old.step = "none" /\ "exited" \in Phase
  BY <1>1, <1>3, NotInBody DEF MigrateInv, Phase
<1>5. /\ new \in Proc /\ new.at = "exited" /\ new.step = old.step /\ new.child = old.child
      /\ new.why = old.why /\ new.command = old.command /\ new.code = old.code
      /\ new.hit = old.hit /\ new.telemetry = old.telemetry
  BY ONLY <1>2, <1>4 DEF Proc
<1>6. Touches(p) /\ proc'[p] = new
  BY <1>3, <1>5, Replaced DEF MigrateInv
<1>7. EndOK(p)
  BY DEF MigrateInv
<1>8. (/\ new.at \in {"flush", "exited"} /\ new.command = "migrate"
       /\ new.code = 0 /\ new.hit = {}) => Installed
  BY <1>1, <1>3, <1>5, <1>7 DEF EndOK
<1>. QED  BY <1>1, <1>3, <1>4, <1>5, <1>6, <1>8, MainChange DEF Live
-----------------------------------------------------------------------------
(* Signals.                                                                 *)
LEMMA DiesEffect ==
    ASSUME proc \in [Process -> Proc], scenario' = scenario, NEW p \in Process,
           NEW child \in {"none", proc[p].child}, proc' = [proc EXCEPT ![p] = Dies(p, child)]
    PROVE  /\ Touches(p) /\ proc'[p].at = "killed" /\ proc'[p].step = "none"
           /\ proc'[p].child = child /\ proc'[p].why = "none"
<1>1. PICK off : off = Off
  OBVIOUS
<1>2. /\ off \in Proc /\ off.step = "none" /\ off.why = "none"
  BY <1>1, InstallationAssumption DEF Off, Proc, Command, Phase, Step, Why
<1>3. PICK command, read : command = proc[p].command /\ read = proc[p].read
  OBVIOUS
<1>4. PICK new : new = [off EXCEPT !.at = "killed", !.command = command, !.child = child,
                                   !.read = read]
  OBVIOUS
<1>5. proc' = [proc EXCEPT ![p] = new]
  BY <1>1, <1>3, <1>4 DEF Dies
<1>6. /\ "killed" \in Phase /\ command \in Command /\ read \in 0..Head
      /\ child \in {"none", "running", "done", "conflict", "lost"}
  BY <1>3 DEF Phase, Proc
<1>7. new \in Proc
  BY ONLY <1>2, <1>4, <1>6 DEF Proc
<1>8. new.at = "killed" /\ new.step = off.step /\ new.child = child /\ new.why = off.why
  BY ONLY <1>2, <1>4 DEF Proc
<1>. QED  BY <1>2, <1>5, <1>7, <1>8, Replaced

LEMMA KillStep ==
    ASSUME MigrateInv, UNCHANGED <<db, scenario>>, NEW p \in Process, Kill(p)
    PROVE  MigrateInv'
<1>1. PICK child \in {"none"} \cup (IF scenario.orphans THEN {proc[p].child} ELSE {}) :
          proc' = [proc EXCEPT ![p] = Dies(p, child)]
  BY DEF Kill
<1>2. child \in {"none", proc[p].child} /\ (Alone => child = "none")
  BY DEF Alone
<1>3. /\ Touches(p) /\ proc'[p].at = "killed" /\ proc'[p].step = "none"
      /\ proc'[p].child = child /\ proc'[p].why = "none"
  BY <1>1, <1>2, DiesEffect DEF MigrateInv
<1>4. EndOK(p)' /\ (Alone => AloneOK(p)')
  BY <1>2, <1>3 DEF EndOK, AloneOK
<1>. QED  BY <1>2, <1>3, <1>4, NoneStep, QuietStep DEF Live

LEMMA HitEffect ==
    ASSUME scenario' = scenario, proc \in [Process -> Proc], NEW p \in Process,
           NEW r \in Proc, proc[p].at \in Live,
           proc' = [proc EXCEPT ![p] = Hit(r, proc[p].at)]
    PROVE  /\ Touches(p) /\ proc'[p].hit = r.hit \cup {proc[p].at}
           /\ proc'[p].at = r.at /\ proc'[p].step = r.step /\ proc'[p].child = r.child
           /\ proc'[p].why = r.why /\ proc'[p].command = r.command /\ proc'[p].read = r.read
           /\ proc'[p].next = r.next
<1>1. PICK phase, signals, hit : phase = proc[p].at /\ signals = r.signals /\ hit = r.hit
  OBVIOUS
<1>2. PICK new : new = [r EXCEPT !.signals = signals + 1, !.hit = hit \cup {phase}]
  OBVIOUS
<1>3. proc' = [proc EXCEPT ![p] = new]
  BY <1>1, <1>2 DEF Hit
<1>4. phase \in Live /\ signals \in Nat /\ hit \in SUBSET Live
  BY <1>1 DEF Proc
<1>5. signals + 1 \in Nat /\ hit \cup {phase} \in SUBSET Live
  BY <1>4
<1>6. new \in Proc /\ new.hit = hit \cup {phase}
  BY ONLY <1>2, <1>5, r \in Proc DEF Proc
<1>7. /\ new.at = r.at /\ new.step = r.step /\ new.child = r.child /\ new.why = r.why
      /\ new.command = r.command /\ new.read = r.read /\ new.next = r.next
  BY ONLY <1>2, r \in Proc DEF Proc
<1>. QED  BY <1>1, <1>3, <1>6, <1>7, Replaced

LEMMA InterruptedEffect ==
    ASSUME MigrateInv, NEW p \in Process, proc[p].at \in Live
    PROVE  /\ Interrupted(p) \in Proc /\ Interrupted(p).step = "none"
           /\ Interrupted(p).at = IF proc[p].at = "body" THEN "flush" ELSE "exited"
           /\ Interrupted(p).child \in {"none", proc[p].child}
           /\ proc[p].at = "body" => Interrupted(p).child = "none"
           /\ Interrupted(p).why = proc[p].why
<1>1. CASE proc[p].at = "body"
  <2>1. PICK gone : gone = Leaves(p)
    OBVIOUS
  <2>2. PICK new : new = [gone EXCEPT !.result = "cut", !.code = 0]
    OBVIOUS
  <2>3. Interrupted(p) = new
    BY <1>1, <2>1, <2>2 DEF Interrupted, At
  <2>4. /\ gone \in Proc /\ gone.step = "none" /\ gone.child = "none" /\ gone.at = "flush"
        /\ gone.why = proc[p].why
    BY <2>1, LeavesTyped DEF MigrateInv
  <2>5. 0 \in 0..3
    OBVIOUS
  <2>6. new \in Proc
    BY ONLY <2>2, <2>4, <2>5 DEF Proc
  <2>7. new.at = gone.at /\ new.step = gone.step /\ new.child = gone.child /\ new.why = gone.why
    BY ONLY <2>2, <2>4 DEF Proc
  <2>. QED  BY <1>1, <2>3, <2>4, <2>6, <2>7
<1>2. CASE proc[p].at # "body"
  <2>1. PICK old : old = proc[p]
    OBVIOUS
  <2>2. PICK new : new = [old EXCEPT !.at = "exited", !.code = 0]
    OBVIOUS
  <2>3. Interrupted(p) = new
    BY <1>2, <2>1, <2>2 DEF Interrupted, At
  <2>4. old \in Proc /\ old.step = "none" /\ 0 \in 0..3 /\ "exited" \in Phase
    BY <1>2, <2>1, NotInBody DEF MigrateInv, Phase
  <2>5. new \in Proc
    BY ONLY <2>2, <2>4 DEF Proc
  <2>6. new.at = "exited" /\ new.step = old.step /\ new.child = old.child /\ new.why = old.why
    BY ONLY <2>2, <2>4 DEF Proc
  <2>. QED  BY <1>2, <2>1, <2>3, <2>4, <2>5, <2>6
<1>. QED  BY <1>1, <1>2

LEMMA SignalStep ==
    ASSUME MigrateInv, UNCHANGED <<db, scenario>>, NEW p \in Process, Signal(p)
    PROVE  MigrateInv'
<1>1. proc[p].at \in Live
  BY DEF Signal
<1>2. CASE proc' = [proc EXCEPT ![p] = Dies(p, "none")]
  <2>1. /\ Touches(p) /\ proc'[p].at = "killed" /\ proc'[p].step = "none"
        /\ proc'[p].child = "none" /\ proc'[p].why = "none"
    BY <1>2, DiesEffect DEF MigrateInv
  <2>2. EndOK(p)'
    BY <2>1 DEF EndOK
  <2>. QED  BY <2>1, <2>2, LeavingStep DEF Left, Live
<1>3. CASE proc' = [proc EXCEPT ![p] = Hit(Interrupted(p), proc[p].at)]
  <2>1. PICK r : r = Interrupted(p)
    OBVIOUS
  <2>2. /\ r \in Proc /\ r.step = "none"
        /\ r.at = IF proc[p].at = "body" THEN "flush" ELSE "exited"
        /\ r.child \in {"none", proc[p].child} /\ (proc[p].at = "body" => r.child = "none")
        /\ r.why = proc[p].why
    BY <1>1, <2>1, InterruptedEffect
  <2>3. /\ Touches(p) /\ proc'[p].hit = r.hit \cup {proc[p].at}
        /\ proc'[p].at = r.at /\ proc'[p].step = r.step /\ proc'[p].child = r.child
        /\ proc'[p].why = r.why
    BY <1>1, <1>3, <2>1, <2>2, HitEffect DEF MigrateInv
  <2>4. EndOK(p)'
    BY <2>2, <2>3 DEF EndOK
  <2>5. Alone => AloneOK(p)'
    <3>1. Alone /\ proc[p].at # "body" => proc[p].child = "none"
      BY NotInBody DEF MigrateInv, AloneOK
    <3>. QED  BY <2>2, <2>3, <3>1 DEF MigrateInv, AloneOK
  <2>. QED  BY <1>1, <2>2, <2>3, <2>4, <2>5, NoneStep, QuietStep
<1>4. CASE proc' = [proc EXCEPT ![p] = Hit([proc[p] EXCEPT !.stopping = TRUE], proc[p].at)]
  <2>1. PICK r : r = [proc[p] EXCEPT !.stopping = TRUE]
    OBVIOUS
  <2>2. PICK old : old = proc[p]
    OBVIOUS
  <2>3. old \in Proc /\ r = [old EXCEPT !.stopping = TRUE]
    BY <2>1, <2>2 DEF MigrateInv
  <2>4. /\ r \in Proc /\ r.at = old.at /\ r.step = old.step /\ r.child = old.child
        /\ r.why = old.why /\ r.command = old.command /\ r.read = old.read
        /\ r.next = old.next
    BY ONLY <2>3 DEF Proc
  <2>5. /\ Touches(p) /\ proc'[p].hit = r.hit \cup {proc[p].at}
        /\ proc'[p].at = r.at /\ proc'[p].step = r.step /\ proc'[p].child = r.child
        /\ proc'[p].why = r.why /\ proc'[p].command = r.command /\ proc'[p].read = r.read
        /\ proc'[p].next = r.next
    <3>1. proc \in [Process -> Proc] /\ scenario' = scenario
      BY DEF MigrateInv
    <3>2. proc' = [proc EXCEPT ![p] = Hit(r, proc[p].at)]
      BY <1>4, <2>1
    <3>. QED  BY <1>1, <2>4, <3>1, <3>2, HitEffect
  <2>6. Knows(p) /\ EndOK(p)
    BY DEF MigrateInv
  <2>7. Knows(p)'
    BY <2>2, <2>4, <2>5, <2>6 DEF Knows, HasQueueTable
  <2>8. EndOK(p)'
    BY <1>1, <2>2, <2>4, <2>5, <2>6 DEF EndOK, Live
  <2>9. Alone => AloneOK(p)'
    BY <2>2, <2>4, <2>5 DEF MigrateInv, AloneOK, HasQueueTable
  <2>. QED  BY <1>1, <2>5, <2>7, <2>8, <2>9, DbStays, OwnPart
<1>. QED  BY <1>2, <1>3, <1>4 DEF Signal
-----------------------------------------------------------------------------
LEMMA MainStepStep ==
    ASSUME MigrateInv, UNCHANGED <<db, scenario>>, NEW p \in Process, MainStep(p)
    PROVE  MigrateInv'
BY InstallHandlersStep, ConfigureStep, DispatchStep, RunOnceStep, ReplaceHandlersStep,
   StopWorkerStep, StopApiStep, FlushStep, ExitStep DEF MainStep

LEMMA MigrateStepStep ==
    ASSUME MigrateInv, UNCHANGED scenario, NEW p \in Process, MigrateStep(p)
    PROVE  MigrateInv'
BY WaitStep, StartAlembicStep, AlembicReturnsStep, HasTableStep, InstallStep, UpgradeStep,
   GraphSchemaStep, GraphVersionStep, GraphMigrateStep, GraphRecordStep, GrantStep, VerifyStep
   DEF MigrateStep

LEMMA InvStep == MigrateInv /\ [Next]_vars => MigrateInv'
<1>. SUFFICES ASSUME MigrateInv, [Next]_vars PROVE MigrateInv'
  OBVIOUS
<1>1. CASE UNCHANGED vars
  BY <1>1 DEF vars, MigrateInv, DbOK, HasQueueTable, Knows, EndOK, Installed, Alone, AloneOK,
              OneAtATime
<1>2. CASE Next
  <2>1. PICK p \in Process :
            \/ (\E command \in Command : Start(p, command)) /\ UNCHANGED db
            \/ MainStep(p) /\ UNCHANGED db
            \/ MigrateStep(p) \/ EndAlembic(p) \/ LoseConnection(p)
            \/ (Signal(p) \/ Kill(p) \/ ServeFails(p)) /\ UNCHANGED db
    BY <1>2 DEF Next
  <2>2. UNCHANGED scenario
    BY <1>2 DEF Next
  <2>3. CASE (\E command \in Command : Start(p, command)) /\ UNCHANGED db
    BY <2>2, <2>3, StartStep
  <2>4. CASE MainStep(p) /\ UNCHANGED db
    BY <2>2, <2>4, MainStepStep
  <2>5. CASE MigrateStep(p) \/ EndAlembic(p) \/ LoseConnection(p)
    BY <2>2, <2>5, MigrateStepStep, EndAlembicStep, LoseConnectionStep
  <2>6. CASE (Signal(p) \/ Kill(p) \/ ServeFails(p)) /\ UNCHANGED db
    BY <2>2, <2>6, SignalStep, KillStep, ServeFailsStep
  <2>. QED  BY <2>1, <2>3, <2>4, <2>5, <2>6
<1>. QED  BY <1>1, <1>2

(* What holds of the database, of each run and of each process's end, in    *)
(* every reachable state (run_migrate, main).                               *)
THEOREM SpecMigrateInv == Spec => []MigrateInv
<1>. QED  BY InitInv, InvStep, PTL DEF Spec

(* A migrate that exits 0, and was not told to stop, leaves everything      *)
(* there: whatever overlapped it, was killed before it, or ran orphaned.    *)
THEOREM SpecOkMeansInstalled == Spec => []OkMeansInstalled
<1>1. MigrateInv => OkMeansInstalled
  BY DEF MigrateInv, EndOK, OkMeansInstalled, At
<1>. QED  BY <1>1, SpecMigrateInv, PTL

(* Runs that do not overlap, and leave no child behind, never trip over     *)
(* what an earlier one or an older release left.                            *)
THEOREM SpecRerunNeverConflicts == Spec => []RerunNeverConflicts
<1>1. MigrateInv => RerunNeverConflicts
  BY DEF MigrateInv, Alone, AloneOK, RerunNeverConflicts
<1>. QED  BY <1>1, SpecMigrateInv, PTL

(* One signal, while a command runs, costs no spans: shutdown_telemetry has *)
(* run when the process exits.                                              *)
THEOREM SpecSpansAreFlushed == Spec => []SpansAreFlushed
<1>1. MigrateInv => SpansAreFlushed
  BY DEF MigrateInv, EndOK, SpansAreFlushed, At
<1>. QED  BY <1>1, SpecMigrateInv, PTL
=============================================================================
