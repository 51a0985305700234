------------------------- MODULE ServiceController -------------------------
(***************************************************************************)
(* The plugin service inside the shell: the operation queue and the scan   *)
(* schedule of ServiceController.js, the one helper process that           *)
(* HelperTransport.qml runs at a time, and the star request a panel waits  *)
(* for (StarInteractionState.qml).                                         *)
(*                                                                         *)
(* Every handler of the shell's single thread is one action.  A schedule   *)
(* is the number of time units until it is due, 0 when it is, None when it *)
(* is not set.  An argument vector is the sequence of its parts, the eight *)
(* arguments of ScanSettings.js being the part "settings".  refreshQueued  *)
(* is queuedRefresh # None: the code always sets the two together.         *)
(***************************************************************************)
EXTENDS Integers, Sequences, FiniteSets

CONSTANTS
    Id,             \* identities of operations (nextId; a forgotten one is used again)
    MaxQueue,       \* bound on the operations that wait
    InitialDelay,   \* INITIAL_SCAN_DELAY_MS
    HandoffDelay,   \* POST_HANDOFF_SCAN_DELAY_MS
    PeriodicDelays, \* the jittered refresh intervals
    RetryDelays,    \* how far the freshUntil of a reply's sources may lie ahead
    HelperMoves,    \* may the manifest lose the helper's path?
    None

ASSUME ServiceAssumption ==
    /\ MaxQueue \in Nat
    /\ InitialDelay \in Nat /\ HandoffDelay \in Nat
    /\ PeriodicDelays \subseteq Nat /\ PeriodicDelays # {}
    /\ RetryDelays \subseteq Nat
    /\ HelperMoves \in BOOLEAN
    /\ Id # {} /\ None \notin Id /\ None \notin Nat

OpKind == {"snapshot", "scan", "inventory", "set-star"}
ArgvPart == OpKind \cup {"--force", "settings"}
Operation == [id : Id, kind : OpKind, argv : Seq(ArgvPart)]
Process == [id : Id, exited : BOOLEAN, killed : BOOLEAN, ok : BOOLEAN]

\* None is neither an operation nor a process.
ASSUME NoneAssumption == None \notin Operation /\ None \notin Process

VARIABLES
    queue,         \* waiting operations
    active,        \* the operation the helper works on, or None
    queuedRefresh, \* identity of the scan that waits, or None
    accepting,     \* FALSE after shutdown
    schedules,     \* [Schedule -> Nat or None]
    timer,         \* wakeTimer: time units until it fires, or None
    proc,          \* the helper process, or None
    transportOp,   \* HelperTransport.activeOperation: an identity or None
    installed,     \* is helperEntrypoint set?
    starPending    \* the set-star operation the panel waits for, or None

queueVars == <<queue, active, queuedRefresh>>
transportVars == <<proc, transportOp>>
vars == <<queueVars, accepting, schedules, timer, transportVars, installed, starPending>>

Schedule == {"initial", "periodic", "retry", "handoff"}

Waiting == {queue[i] : i \in DOMAIN queue}
Live == {o.id : o \in Waiting} \cup {queuedRefresh, starPending, transportOp}

\* The identity of a new operation, one that nothing refers to (the code counts).
Fresh == IF Id \subseteq Live THEN {} ELSE {CHOOSE i \in Id : i \notin Live}

Soonest(s) ==
    LET set == {s[n] : n \in {m \in Schedule : s[m] # None}}
    IN  IF set = {} THEN None ELSE CHOOSE d \in set : \A e \in set : d <= e

\* Faulty variant of Publish: the timer is left alone when nothing is scheduled.
PublishWhenSet == timer' = IF Soonest(schedules') = None THEN timer ELSE Soonest(schedules')

\* publish: onState hands nextWakeAt to armWakeTimer.
Publish == timer' = Soonest(schedules')

\* The scan command lines that cli_requests._scan_command accepts.
ScanAccepts(argv) ==
    argv \in {<<"scan">>, <<"scan", "--force">>, <<"scan", "settings">>,
              <<"scan", "--force", "settings">>}

Forced(o) == \E i \in DOMAIN o.argv : o.argv[i] = "--force"
-----------------------------------------------------------------------------
\* Faulty variant of NewProcess: the process forgets its operation.
ProcessWithoutId(i) == [id |-> None, exited |-> FALSE, killed |-> FALSE, ok |-> FALSE]

NewProcess(i) == [id |-> i, exited |-> FALSE, killed |-> FALSE, ok |-> FALSE]

\* HelperTransport.run refuses while the helper runs or has no path.
CanRun == installed /\ (proc # None => proc.exited)

\* Faulty variants of StartNext: after a refusal the next operation is not
\* tried, or a scan that starts still counts as waiting.
StartNextOnce(q, r) ==
    \/ /\ q = <<>> \/ ~CanRun
       /\ queue' = IF q = <<>> THEN q ELSE Tail(q)
       /\ active' = None
       /\ queuedRefresh' = IF q = <<>> THEN r ELSE IF Head(q).id = r THEN None ELSE r
       /\ proc' = IF proc # None /\ proc.exited THEN None ELSE proc
       /\ transportOp' = IF proc # None /\ proc.exited THEN None ELSE transportOp
    \/ /\ q # <<>> /\ CanRun
       /\ queue' = Tail(q)
       /\ active' = Head(q)
       /\ queuedRefresh' = IF Head(q).id = r THEN None ELSE r
       /\ proc' = NewProcess(Head(q).id)
       /\ transportOp' = Head(q).id

StartNextStillQueued(q, r) ==
    \/ /\ q = <<>> \/ ~CanRun
       /\ queue' = <<>>
       /\ active' = None
       /\ queuedRefresh' = r
       /\ proc' = IF proc # None /\ proc.exited THEN None ELSE proc
       /\ transportOp' = IF proc # None /\ proc.exited THEN None ELSE transportOp
    \/ /\ q # <<>> /\ CanRun
       /\ queue' = Tail(q)
       /\ active' = Head(q)
       /\ queuedRefresh' = r
       /\ proc' = NewProcess(Head(q).id)
       /\ transportOp' = Head(q).id

\* startNext with queue q and waiting scan r: the first operation starts; when
\* the transport refuses, it fails and the next one is tried, to the last.
StartNext(q, r) ==
    \/ /\ q = <<>> \/ ~CanRun
       /\ queue' = <<>>
       /\ active' = None
       /\ queuedRefresh' = IF q = <<>> THEN r ELSE None
       /\ proc' = IF proc # None /\ proc.exited THEN None ELSE proc
       /\ transportOp' = IF proc # None /\ proc.exited THEN None ELSE transportOp
    \/ /\ q # <<>> /\ CanRun
       /\ queue' = Tail(q)
       /\ active' = Head(q)
       /\ queuedRefresh' = IF Head(q).id = r THEN None ELSE r
       /\ proc' = NewProcess(Head(q).id)
       /\ transportOp' = Head(q).id

Enqueue(o, r) ==
    \/ /\ active # None
       /\ queue' = Append(queue, o)
       /\ queuedRefresh' = r
       /\ UNCHANGED <<active, transportVars>>
    \/ /\ active = None
       /\ StartNext(Append(queue, o), r)

ScanArgv(force) == IF force THEN <<"scan", "--force", "settings">> ELSE <<"scan", "settings">>

Upgraded(o) == IF Forced(o) THEN o ELSE [o EXCEPT !.argv = Append(@, "--force")]

\* Faulty variants of Refresh: a later ordinary request replaces a forced one,
\* or a request that comes while the helper is busy is dropped.
RefreshReplaces(force) ==
    \/ /\ queuedRefresh # None
       /\ queue' = [i \in DOMAIN queue |->
              IF queue[i].id = queuedRefresh
              THEN [queue[i] EXCEPT !.argv = ScanArgv(force)] ELSE queue[i]]
       /\ UNCHANGED <<active, queuedRefresh, transportVars>>
    \/ /\ queuedRefresh = None
       /\ \E i \in Fresh :
            Enqueue([id |-> i, kind |-> "scan", argv |-> ScanArgv(force)], i)

RefreshUnlessBusy(force) ==
    \/ /\ active # None
       /\ UNCHANGED <<queueVars, transportVars>>
    \/ /\ active = None
       /\ \E i \in Fresh :
            Enqueue([id |-> i, kind |-> "scan", argv |-> ScanArgv(force)], i)

\* refresh: one scan waits at most, and a forced request upgrades it.
Refresh(force) ==
    \/ /\ queuedRefresh # None
       /\ queue' = [i \in DOMAIN queue |->
              IF force /\ queue[i].id = queuedRefresh THEN Upgraded(queue[i]) ELSE queue[i]]
       /\ UNCHANGED <<active, queuedRefresh, transportVars>>
    \/ /\ queuedRefresh = None
       /\ \E i \in Fresh :
            Enqueue([id |-> i, kind |-> "scan", argv |-> ScanArgv(force)], i)
-----------------------------------------------------------------------------
\* initializeController and controller.start: the cached snapshot is asked for.
Init ==
    LET i == CHOOSE j \in Id : TRUE IN
        /\ queue = <<>>
        /\ active = [id |-> i, kind |-> "snapshot", argv |-> <<"snapshot">>]
        /\ queuedRefresh = None
        /\ accepting = TRUE
        /\ schedules = [n \in Schedule |-> IF n = "initial" THEN InitialDelay ELSE None]
        /\ timer = InitialDelay
        /\ proc = NewProcess(i)
        /\ transportOp = i
        /\ installed = TRUE
        /\ starPending = None

\* The user's Refresh button.
RequestRefresh ==
    /\ accepting
    /\ queuedRefresh = None => Len(queue) < MaxQueue
    /\ Refresh(TRUE)
    /\ UNCHANGED schedules
    /\ IF queuedRefresh # None THEN UNCHANGED timer ELSE Publish
    /\ UNCHANGED <<accepting, installed, starPending>>

\* The panel browses an inventory.
RequestInventory ==
    /\ accepting
    /\ Len(queue) < MaxQueue
    /\ \E i \in Fresh :
          Enqueue([id |-> i, kind |-> "inventory", argv |-> <<"inventory">>], queuedRefresh)
    /\ UNCHANGED schedules
    /\ Publish
    /\ UNCHANGED <<accepting, installed, starPending>>

\* requestMode: the panel asks for one watch mode at a time and waits for the
\* answer.
PanelReady == starPending = None

SetStar ==
    /\ accepting
    /\ PanelReady
    /\ Len(queue) < MaxQueue
    /\ \E i \in Fresh :
          /\ Enqueue([id |-> i, kind |-> "set-star", argv |-> <<"set-star">>], queuedRefresh)
          /\ starPending' = i
    /\ UNCHANGED schedules
    /\ Publish
    /\ UNCHANGED <<accepting, installed>>

Due(n) == schedules[n] # None /\ schedules[n] <= 0

\* wake clears what is due; `due("initial") || due("periodic")` looks at the
\* second schedule only when the first is not due.
Consumed == {n \in Schedule : Due(n) /\ (n = "periodic" => ~Due("initial"))}

Wake ==
    /\ accepting
    /\ timer # None /\ timer <= 0
    /\ schedules' = [n \in Schedule |-> IF n \in Consumed THEN None ELSE schedules[n]]
    /\ \/ /\ Consumed # {}
          /\ Refresh(FALSE)
       \/ /\ Consumed = {}
          /\ UNCHANGED <<queueVars, transportVars>>
    /\ Publish
    /\ UNCHANGED <<accepting, installed, starPending>>

\* recordHandoff: an update terminal was opened.
RecordHandoff ==
    /\ accepting
    /\ schedules' = [schedules EXCEPT !["handoff"] = HandoffDelay]
    /\ Publish
    /\ UNCHANGED <<queueVars, accepting, transportVars, installed, starPending>>
-----------------------------------------------------------------------------
\* The helper process ends.  ok: with status 0 and a reply of the expected kind;
\* never so for a command line it does not accept.
HelperExit(ok) ==
    /\ proc # None /\ ~proc.exited
    /\ ok => ~(active # None /\ active.id = proc.id /\ active.kind = "scan"
               /\ ~ScanAccepts(active.argv))
    /\ proc' = [proc EXCEPT !.exited = TRUE, !.ok = ok]
    /\ UNCHANGED <<queueVars, accepting, schedules, timer, transportOp, installed, starPending>>

\* timeoutTimer fires or the reply outgrows its limit: the helper is told to end.
Kill ==
    /\ proc # None /\ ~proc.exited /\ ~proc.killed
    /\ transportOp # None
    /\ proc' = [proc EXCEPT !.killed = TRUE]
    /\ UNCHANGED <<queueVars, accepting, schedules, timer, transportOp, installed, starPending>>

\* complete accepts the reply; a helper that was told to end has failed.
Succeeded(p) == p.ok /\ ~p.killed

\* accept and configureSnapshotSchedule: the schedules s after operation o.
ScheduleAfter(o, succeeded, s) ==
    \/ /\ ~(succeeded /\ o.kind \in {"snapshot", "scan"})
       /\ s = schedules
    \/ /\ succeeded /\ o.kind \in {"snapshot", "scan"}
       /\ \E retry \in RetryDelays \cup {None} :
          \E periodic \in (IF o.kind = "scan" THEN PeriodicDelays
                           ELSE {schedules["periodic"]}) :
             s = [schedules EXCEPT !["retry"] = retry, !["periodic"] = periodic]

\* Faulty variant of StarReported: failures are not reported.
StarReportedIfDone(succeeded) == succeeded

\* Service.onCompleted compares the failed operation with lastFailureOperation,
\* which is another's when the operations behind it failed to start.
StarReported(succeeded) == succeeded \/ queue = <<>> \/ installed

\* finish, complete, finishActive and Service.onCompleted, in one handler.
Finish ==
    /\ proc # None /\ proc.exited
    /\ transportOp # None /\ accepting /\ active # None
    /\ active.id = transportOp
    /\ ScheduleAfter(active, Succeeded(proc), schedules')
    /\ StartNext(queue, queuedRefresh)
    /\ starPending' = IF active.id = starPending /\ StarReported(Succeeded(proc))
                      THEN None ELSE starPending
    /\ Publish
    /\ UNCHANGED <<accepting, installed>>

\* finish after stop: the operation is forgotten, nobody is told.
FinishStopped ==
    /\ proc # None /\ proc.exited
    /\ transportOp = None
    /\ proc' = None
    /\ UNCHANGED <<queueVars, accepting, schedules, timer, transportOp, installed, starPending>>

\* Component.onDestruction: the controller shuts down, the helper is stopped.
Shutdown ==
    /\ accepting
    /\ accepting' = FALSE
    /\ queue' = <<>>
    /\ active' = None
    /\ queuedRefresh' = None
    /\ schedules' = [n \in Schedule |-> None]
    /\ Publish
    /\ transportOp' = None
    /\ UNCHANGED <<proc, installed, starPending>>

\* The manifest's source directory changes.
MoveHelper ==
    /\ HelperMoves
    /\ accepting
    /\ installed' = ~installed
    /\ UNCHANGED <<queueVars, accepting, schedules, timer, transportVars, starPending>>

\* One time unit; a timer may fire late (suspend), never early.
Sooner(d) == IF d = None \/ d = 0 THEN d ELSE d - 1

Tick ==
    /\ \E n \in Schedule : schedules[n] # None /\ schedules[n] > 0
    /\ schedules' = [n \in Schedule |-> Sooner(schedules[n])]
    /\ timer' = Sooner(timer)
    /\ UNCHANGED <<queueVars, accepting, transportVars, installed, starPending>>

Next ==
    \/ RequestRefresh \/ RequestInventory \/ SetStar
    \/ Wake \/ RecordHandoff
    \/ \E ok \in BOOLEAN : HelperExit(ok)
    \/ Kill \/ Finish \/ FinishStopped
    \/ Shutdown \/ MoveHelper
    \/ Tick

Spec == Init /\ [][Next]_vars

(***************************************************************************)
(* Fairness: time passes, the shell runs its timers and its queued         *)
(* callbacks, and a helper ends - by itself, or because timeoutTimer told  *)
(* it to.                                                                  *)
(***************************************************************************)
Fairness ==
    /\ WF_vars(\E ok \in BOOLEAN : HelperExit(ok))
    /\ WF_vars(Finish)
    /\ WF_vars(FinishStopped)
    /\ WF_vars(Wake)
    /\ WF_vars(Tick)

FairSpec == Spec /\ Fairness
-----------------------------------------------------------------------------
\* Type correctness of the service's state.
TypeOK ==
    /\ queue \in Seq(Operation)
    /\ active \in Operation \cup {None}
    /\ queuedRefresh \in Id \cup {None}
    /\ accepting \in BOOLEAN
    /\ schedules \in [Schedule -> Nat \cup {None}]
    /\ timer \in Nat \cup {None}
    /\ proc \in Process \cup {None}
    /\ transportOp \in Id \cup {None}
    /\ installed \in BOOLEAN
    /\ starPending \in Id \cup {None}

(***************************************************************************)
(* The queue is never wedged (ServiceController.js startNext, complete):   *)
(* while the service lives, an operation is active exactly when the helper *)
(* process works on that same operation, and operations wait only behind   *)
(* an active one.  Otherwise complete would never be called again.         *)
(***************************************************************************)
NeverWedged ==
    accepting =>
        /\ (active = None) <=> (proc = None)
        /\ active # None => transportOp = active.id /\ proc.id = active.id
        /\ active = None => queue = <<>>

(***************************************************************************)
(* Refreshes coalesce into one waiting scan, and that scan is there: if    *)
(* queuedRefresh named an operation that no longer waits, every later      *)
(* refresh, manual or scheduled, would be swallowed.                       *)
(***************************************************************************)
OneScanWaits ==
    /\ \A i, j \in DOMAIN queue :
          queue[i].kind = "scan" /\ queue[j].kind = "scan" => i = j
    /\ \A i \in DOMAIN queue :
          (queue[i].kind = "scan") <=> (queue[i].id = queuedRefresh)
    /\ queuedRefresh # None => \E i \in DOMAIN queue : queue[i].id = queuedRefresh

(***************************************************************************)
(* The wake timer is armed for the earliest schedule after every handler   *)
(* (publish, armWakeTimer), so no schedule is slept through.               *)
(***************************************************************************)
TimerArmed == accepting => timer = Soonest(schedules)

(***************************************************************************)
(* A forced refresh is never downgraded: once the waiting scan is forced   *)
(* it stays so until it starts, is dropped by a refusing transport, or the *)
(* service shuts down (tests/js/service-controller.test.mjs:325).          *)
(***************************************************************************)
ForceKept ==
    [][\A o \in Waiting :
          o.kind = "scan" /\ Forced(o) /\ accepting' /\ installed =>
             \E p \in {queue'[i] : i \in DOMAIN queue'} \cup {active'} :
                p.id = o.id /\ p.kind = "scan" /\ Forced(p)]_vars

(***************************************************************************)
(* A schedule that is set leads to a scan: neither coalescing nor the      *)
(* short-circuit in wake loses it (ServiceController.js wake), unless the  *)
(* helper is missing or the service is gone.  A handoff schedule may be    *)
(* postponed for ever by new handoffs.                                     *)
(***************************************************************************)
ScanActive == active # None /\ active.kind = "scan"

ArmedScans ==
    \A n \in Schedule \ {"handoff"} :
        schedules[n] # None ~> (ScanActive \/ ~installed \/ ~accepting)

(***************************************************************************)
(* A panel that waits for a star is answered, by a result or a failure,    *)
(* unless the service is gone (Service.qml onCompleted).  A helper that    *)
(* goes missing even once can leave it waiting for ever: see StarReported. *)
(***************************************************************************)
StarAnswered ==
    []installed => (starPending # None ~> (starPending = None \/ ~accepting))

(***************************************************************************)
(* The helper accepts every scan command line the service sends:           *)
(* README.md:52 `scan [--force] [--notify-permanent ...]`.                 *)
(***************************************************************************)
ScanAccepted == ScanActive => ScanAccepts(active.argv)
=============================================================================
