--------------------------- MODULE CommandRunner ---------------------------
(***************************************************************************)
(* One local command run by the helper: run_spec starts a supervisor in a  *)
(* session of its own, the supervisor arms a parent-death signal and       *)
(* starts the target, the target may leave a child behind in the process   *)
(* group, and _collect reads two pipes until they end, the time limit      *)
(* passes or a stream exceeds its limit (runner_process.py,                *)
(* command_supervisor.py).                                                 *)
(*                                                                         *)
(* Output is counted in chunks.  Every member of the group that lives      *)
(* holds both pipes open, except a child that closed them.                 *)
(***************************************************************************)
EXTENDS Integers

CONSTANTS
    Limit,     \* stdout_limit and stderr_limit, in chunks
    MaxOutput, \* bound on what the target writes to a stream
    None

Stream == {"stdout", "stderr"}
Status == {"ok", "failed", "killed", "terminated"}
RunStage == {"start", "collect", "wait", "stop", "grace", "drain", "done", "dead"}
SupStage == {"none", "born", "blocked", "signalled", "checked", "armed", "waiting",
             "closing", "zombie", "reaped"}
TargetStage == {"none", "running"} \cup Status
ChildStage == {"none", "loud", "quiet", "ended"}
Result == {"rejected", "missing", "succeeded", "exited", "timed out", "output exceeded"}

ASSUME RunnerAssumption ==
    /\ Limit \in Nat \ {0}
    /\ MaxOutput \in Nat
    /\ None \notin Status \cup Result

VARIABLES
    helper,   \* where run_spec is, or "dead"
    sup,      \* the supervisor
    code,     \* its exit status, once it has one
    target,   \* the target, or the status it ended with
    child,    \* a descendant of the target that stays in its group
    ignores,  \* who ignores SIGTERM
    pending,  \* is the parent-death signal pending?
    written,  \* [Stream -> chunks written]
    taken,    \* [Stream -> chunks read by the helper]
    ended,    \* streams at whose end the helper has arrived
    late,     \* has the time limit passed?
    result    \* what run_spec returned

group == <<sup, code, target, child, pending>>
output == <<written, taken, ended>>
vars == <<helper, group, ignores, output, late, result>>

SupAlive == sup \in {"born", "blocked", "signalled", "checked", "armed", "waiting"}
TargetAlive == target = "running"
ChildAlive == child \in {"loud", "quiet"}
GroupAlive == SupAlive \/ TargetAlive \/ ChildAlive
\* A process that is being torn down has closed its files and is not a zombie yet.
PipesOpen == SupAlive \/ TargetAlive \/ child = "loud"

\* A signal that everyone obeys, or that a member may ignore.
Signalled(signal) ==
    /\ sup' = IF SupAlive THEN "zombie" ELSE sup
    /\ code' = IF SupAlive THEN signal ELSE code
    /\ target' = IF TargetAlive /\ (signal = "killed" \/ "target" \notin ignores) THEN signal ELSE target
    /\ child' = IF ChildAlive /\ (signal = "killed" \/ "child" \notin ignores) THEN "ended" ELSE child
    /\ pending' = FALSE

KillGroup == Signalled("killed")

Init ==
    /\ helper = "start"
    /\ sup = "none" /\ code = None /\ target = "none" /\ child = "none"
    /\ ignores \in SUBSET {"target", "child"}
    /\ pending = FALSE
    /\ written = [s \in Stream |-> 0] /\ taken = written /\ ended = {}
    /\ late = FALSE
    /\ result = None
-----------------------------------------------------------------------------
\* run_spec: arguments outside the policy, or no such executable.
RunRefused ==
    /\ helper = "start"
    /\ helper' = "done"
    /\ result' \in {"rejected", "missing"}
    /\ UNCHANGED <<group, ignores, output, late>>

\* Popen, in a new session; the time limit starts to run.
Launch ==
    /\ helper = "start"
    /\ helper' = "collect"
    /\ sup' = "born"
    /\ UNCHANGED <<code, target, child, pending, ignores, output, late, result>>

\* main and _arm_parent_death, a step at a time.
Block ==
    /\ sup = "born"
    /\ sup' = "blocked"
    /\ UNCHANGED <<helper, code, target, child, pending, ignores, output, late, result>>

\* The signal is only sent for a parent that dies from now on.
SetParentDeathSignal ==
    /\ sup = "blocked"
    /\ \/ sup' = "signalled" /\ UNCHANGED code
       \/ sup' = "closing" /\ code' = "failed"
    /\ UNCHANGED <<helper, target, child, pending, ignores, output, late, result>>

\* Faulty variant of CheckParent: a parent that died before is not noticed.
CheckParentSkipped ==
    /\ sup = "signalled"
    /\ sup' = "checked" /\ UNCHANGED <<code, target, child, pending>>
    /\ UNCHANGED <<helper, ignores, output, late, result>>

CheckParent ==
    /\ sup = "signalled"
    /\ IF helper = "dead" THEN KillGroup
       ELSE sup' = "checked" /\ UNCHANGED <<code, target, child, pending>>
    /\ UNCHANGED <<helper, ignores, output, late, result>>

\* The handler is there before the signal is let through.
Unblock ==
    /\ sup = "checked"
    /\ sup' = "armed"
    /\ UNCHANGED <<helper, code, target, child, pending, ignores, output, late, result>>

\* _parent_died: the handler comes before anything else the supervisor does.
ParentDied ==
    /\ pending
    /\ sup \in {"armed", "waiting"}
    /\ KillGroup
    /\ UNCHANGED <<helper, ignores, output, late, result>>

\* _run_target.
StartTarget ==
    /\ sup = "armed" /\ ~pending
    /\ \/ sup' = "waiting" /\ target' = "running" /\ UNCHANGED code
       \/ sup' = "closing" /\ code' = "failed" /\ UNCHANGED target
    /\ UNCHANGED <<helper, child, pending, ignores, output, late, result>>

\* Faulty variant of TargetEnded: a target killed by a signal counts as success.
TargetEndedUnsigned ==
    /\ sup = "waiting" /\ ~pending
    /\ ~TargetAlive
    /\ sup' = "closing"
    /\ code' = IF target = "failed" THEN "failed" ELSE "ok"
    /\ UNCHANGED <<helper, target, child, pending, ignores, output, late, result>>

\* The target's status becomes the supervisor's; a signal is raised again, but
\* the disposition of SIGKILL cannot be set and ends it with a traceback.
TargetEnded ==
    /\ sup = "waiting" /\ ~pending
    /\ ~TargetAlive
    /\ sup' = "closing"
    /\ code' = IF target = "killed" THEN "failed" ELSE target
    /\ UNCHANGED <<helper, target, child, pending, ignores, output, late, result>>

\* The kernel has closed its files and now reports its end.
BecomeZombie ==
    /\ sup = "closing"
    /\ sup' = "zombie"
    /\ UNCHANGED <<helper, code, target, child, pending, ignores, output, late, result>>
-----------------------------------------------------------------------------
\* The target: it writes, leaves a child behind, ends or is killed by others.
Write(s) ==
    /\ TargetAlive \/ child = "loud"
    /\ helper # "dead"
    /\ written[s] < MaxOutput
    /\ written' = [written EXCEPT ![s] = @ + 1]
    /\ UNCHANGED <<helper, group, ignores, taken, ended, late, result>>

Fork ==
    /\ TargetAlive
    /\ child = "none"
    /\ child' \in {"loud", "quiet"}
    /\ UNCHANGED <<helper, sup, code, target, pending, ignores, output, late, result>>

TargetEnds ==
    /\ TargetAlive
    /\ target' \in {"ok", "failed", "killed"}
    /\ UNCHANGED <<helper, sup, code, child, pending, ignores, output, late, result>>

ChildEnds ==
    /\ ChildAlive
    /\ child' = "ended"
    /\ UNCHANGED <<helper, sup, code, target, pending, ignores, output, late, result>>

\* The time limit of the command passes.
Expire ==
    /\ helper \in {"collect", "wait"}
    /\ ~late
    /\ late' = TRUE
    /\ UNCHANGED <<helper, group, ignores, output, result>>
-----------------------------------------------------------------------------
\* _collect: a chunk, the end of a stream, both ends, the time limit.
Exceeds(s) == taken'[s] > Limit

Read(s) ==
    /\ helper = "collect"
    /\ ~late
    /\ taken[s] < written[s]
    /\ \E n \in 1..(written[s] - taken[s]) : taken' = [taken EXCEPT ![s] = @ + n]
    /\ IF Exceeds(s) THEN helper' = "stop" /\ result' = "output exceeded"
       ELSE UNCHANGED <<helper, result>>
    /\ UNCHANGED <<group, ignores, written, ended, late>>

ReadEnd(s) ==
    /\ helper = "collect"
    /\ ~late
    /\ s \notin ended
    /\ taken[s] = written[s]
    /\ ~PipesOpen
    /\ ended' = ended \cup {s}
    /\ helper' = IF ended' = Stream THEN "wait" ELSE helper
    /\ UNCHANGED <<group, ignores, written, taken, late, result>>

\* Faulty variant of TimeOut: the time limit holds while the supervisor lives.
TimeOutSupervised ==
    /\ helper \in {"collect", "wait"}
    /\ late
    /\ SupAlive
    /\ helper' = "stop"
    /\ result' = "timed out"
    /\ UNCHANGED <<group, ignores, output, late>>

TimeOut ==
    /\ helper \in {"collect", "wait"}
    /\ late
    /\ helper' = "stop"
    /\ result' = "timed out"
    /\ UNCHANGED <<group, ignores, output, late>>

\* process.wait reaps the supervisor.
Reap ==
    /\ helper = "wait"
    /\ sup = "zombie"
    /\ sup' = "reaped"
    /\ helper' = "done"
    /\ result' = IF code = "ok" THEN "succeeded" ELSE "exited"
    /\ UNCHANGED <<code, target, child, pending, ignores, output, late>>

\* _stop_group: SIGTERM, a moment to obey ...
Terminate ==
    /\ helper = "stop"
    /\ Signalled("terminated")
    /\ helper' = "grace"
    /\ UNCHANGED <<ignores, output, late, result>>

\* Faulty variant of Kill: a supervisor that has ended counts as the group's end.
KillIfSupervised ==
    /\ helper = "grace"
    /\ IF SupAlive THEN KillGroup ELSE UNCHANGED group
    /\ helper' = "drain"
    /\ UNCHANGED <<ignores, output, late, result>>

\* ... SIGKILL to who is left (the supervisor's pid is not reused: it has not
\* been reaped), and a moment to reap it.
Kill ==
    /\ helper = "grace"
    /\ KillGroup
    /\ helper' = "drain"
    /\ UNCHANGED <<ignores, output, late, result>>

\* Faulty variant of Drain: chunks are counted again.
DrainTwice ==
    /\ helper = "drain"
    /\ taken' = [s \in Stream |-> taken[s] + written[s]]
    /\ helper' = "done"
    /\ UNCHANGED <<group, ignores, written, ended, late, result>>

\* _drain reads what is left in the pipes for a moment.
Drain ==
    /\ helper = "drain"
    /\ \E t \in [Stream -> 0..MaxOutput] :
          /\ \A s \in Stream : taken[s] <= t[s] /\ t[s] <= written[s]
          /\ taken' = t
    /\ sup' \in IF sup = "zombie" THEN {"zombie", "reaped"} ELSE {sup}
    /\ helper' = "done"
    /\ UNCHANGED <<code, target, child, pending, ignores, written, ended, late, result>>

\* The service's time limit, or anyone, kills the helper.
HelperDies ==
    /\ helper # "dead"
    /\ helper' = "dead"
    /\ pending' = (sup \in {"signalled", "checked", "armed", "waiting"})
    /\ UNCHANGED <<sup, code, target, child, ignores, output, late, result>>

Supervisor ==
    \/ Block \/ SetParentDeathSignal \/ CheckParent \/ Unblock
    \/ ParentDied \/ StartTarget \/ TargetEnded \/ BecomeZombie

Collect ==
    \/ RunRefused \/ Launch
    \/ \E s \in Stream : Read(s) \/ ReadEnd(s)
    \/ TimeOut \/ Reap \/ Terminate \/ Kill \/ Drain

Next ==
    \/ Collect \/ Supervisor \/ HelperDies
    \/ Expire \/ Fork \/ TargetEnds \/ ChildEnds
    \/ \E s \in Stream : Write(s)

Spec == Init /\ [][Next]_vars

\* Time passes and runnable processes run; the target and its child may hang.
FairSpec == Spec /\ WF_vars(Collect) /\ WF_vars(Supervisor) /\ WF_vars(Expire)
-----------------------------------------------------------------------------
\* Type correctness of the processes and of the output.
TypeOK ==
    /\ helper \in RunStage /\ sup \in SupStage /\ code \in Status \cup {None}
    /\ target \in TargetStage /\ child \in ChildStage
    /\ pending \in BOOLEAN /\ late \in BOOLEAN
    /\ written \in [Stream -> 0..MaxOutput] /\ taken \in [Stream -> 0..MaxOutput]
    /\ \A s \in Stream : taken[s] <= written[s]
    /\ ended \subseteq Stream
    /\ result \in Result \cup {None}

(***************************************************************************)
(* A command that is reported to have ended by itself did: success means   *)
(* the target returned 0, and all its output and that of its child was     *)
(* read and kept, whatever ended, closed or was killed in between          *)
(* (_collect, _run_target).                                                *)
(***************************************************************************)
ResultTrue ==
    /\ result = "succeeded" => target = "ok"
    /\ result \in {"succeeded", "exited"} =>
          /\ ~TargetAlive /\ child # "loud"
          /\ taken = written
          /\ \A s \in Stream : taken[s] <= Limit

(***************************************************************************)
(* Nothing of a command that was stopped goes on: when run_spec returns a  *)
(* timeout or exceeded output, no member of the group lives, even when the *)
(* supervisor obeyed SIGTERM and the others did not (_stop_group).         *)
(***************************************************************************)
NoneSurvives ==
    helper = "done" /\ result \in {"timed out", "output exceeded"} => ~GroupAlive

(***************************************************************************)
(* run_spec returns, however the target and its child behave.              *)
(***************************************************************************)
Returns == helper # "start" ~> helper \in {"done", "dead"}

(***************************************************************************)
(* A supervisor that outlives the helper takes the group with it, in       *)
(* whichever step of its start the helper died (_arm_parent_death).  A     *)
(* group whose supervisor has ended first is not covered.                  *)
(***************************************************************************)
OrphansDie == (helper = "dead" /\ SupAlive) ~> ~GroupAlive
=============================================================================
