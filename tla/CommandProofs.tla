--------------------------- MODULE CommandProofs ---------------------------
(***************************************************************************)
(* What run_spec returns is true, and nothing of a stopped command goes    *)
(* on, for any output limit and any amount of output.  Neither property is *)
(* inductive.  The invariant adds that a group which is gone cannot come   *)
(* back (the target is started by a living supervisor and forks while it   *)
(* lives), and that a stream which has ended stays ended and read.         *)
(***************************************************************************)
EXTENDS CommandRunner, TLAPS

Stopped == {"timed out", "output exceeded"}
Finished == {"succeeded", "exited"}

\* The target is started last, and the child is the target's.
StartOrder ==
    /\ sup \in {"none", "born", "blocked", "signalled", "checked", "armed"} =>
          target = "none" /\ child = "none"
    /\ sup = "waiting" => target # "none"
    /\ helper = "start" => sup = "none"

\* The supervisor's status is set when it ends, and success is the target's.
CodeTrue ==
    /\ SupAlive \/ sup = "none" => code = None
    /\ code = "ok" => target = "ok"

\* Where run_spec is and what it will return.
Undecided ==
    /\ helper \in {"start", "collect", "wait"} => result = None
    /\ helper \in {"stop", "grace", "drain"} => result \in Stopped

\* A stream at its end has no writer and nothing unread.
EndedStays ==
    /\ helper = "start" => ended = {}
    /\ ended # {} => ~PipesOpen
    /\ \A s \in ended : taken[s] = written[s]
    /\ helper = "wait" => ended = Stream

\* What is collected is within the limit, until a stream exceeds it.
Within == helper \in {"start", "collect", "wait"} => \A s \in Stream : taken[s] <= Limit

\* A result of a command that ended by itself.
Complete ==
    result \in Finished =>
        /\ ~PipesOpen
        /\ taken = written
        /\ \A s \in Stream : taken[s] <= Limit
        /\ result = "succeeded" => target = "ok"
        /\ helper \in {"done", "dead"}

GroupGone ==
    /\ helper = "drain" => ~GroupAlive
    /\ helper = "done" /\ result \in Stopped => ~GroupAlive

\* TypeOK in parts: the processes, the flags and the output.
ControlTyped ==
    /\ helper \in RunStage /\ sup \in SupStage /\ code \in Status \cup {None}
    /\ target \in TargetStage /\ child \in ChildStage
    /\ result \in Result \cup {None}

FlagsTyped == pending \in BOOLEAN /\ late \in BOOLEAN

OutputTyped ==
    /\ written \in [Stream -> 0..MaxOutput] /\ taken \in [Stream -> 0..MaxOutput]
    /\ \A s \in Stream : taken[s] <= written[s]
    /\ ended \subseteq Stream

Control == ControlTyped /\ StartOrder /\ CodeTrue /\ Undecided /\ GroupGone
Output == OutputTyped /\ EndedStays /\ Within /\ Complete

IndInv == Control /\ FlagsTyped /\ Output

USE DEF Stopped, Finished
-----------------------------------------------------------------------------
\* The invariant holds before a command is started.
LEMMA InitLemma == Init => IndInv
<1> SUFFICES ASSUME Init PROVE Control /\ FlagsTyped /\ Output
  BY DEF IndInv
<1> USE DEF Init, SupAlive, PipesOpen, GroupAlive, TargetAlive, ChildAlive
<1>1. Control
  BY RunnerAssumption DEF RunStage, Status, Result, SupStage, TargetStage, ChildStage,
     Control, ControlTyped, StartOrder, CodeTrue, Undecided, GroupGone
<1>2. OutputTyped
  BY RunnerAssumption DEF OutputTyped
<1>3. Within
  BY RunnerAssumption DEF Within
<1>4. EndedStays
  BY DEF EndedStays
<1>5. Complete
  BY RunnerAssumption DEF Complete, Result
<1>6. FlagsTyped
  BY DEF FlagsTyped
<1> QED BY <1>1, <1>2, <1>3, <1>4, <1>5, <1>6 DEF Output

\* The steps of run_spec before the group is signalled.
LEMMA CollectLemma ==
    ASSUME IndInv,
           RunRefused \/ Launch \/ (\E s \in Stream : Read(s) \/ ReadEnd(s)) \/ TimeOut \/ Reap
    PROVE  Control' /\ FlagsTyped' /\ Output'
<1> USE DEF IndInv, Control, Output
<1>1. CASE RunRefused
  <2>1. ControlTyped'
    BY <1>1 DEF RunRefused, ControlTyped, RunStage, Result, group
  <2>2. StartOrder' /\ CodeTrue'
    BY <1>1 DEF RunRefused, ControlTyped, StartOrder, CodeTrue, SupAlive, TargetAlive, group
  <2>3. Undecided' /\ GroupGone'
    BY <1>1 DEF RunRefused, StartOrder, Undecided, GroupGone, SupAlive, GroupAlive,
       TargetAlive, ChildAlive, group
  <2>4. FlagsTyped'
    BY <1>1 DEF RunRefused, FlagsTyped, group
  <2>5. Output'
    BY <1>1 DEF RunRefused, StartOrder, Undecided, EndedStays, Within, Complete, SupAlive,
       PipesOpen, TargetAlive, ControlTyped, OutputTyped, output, group
  <2> QED BY <2>1, <2>2, <2>3, <2>4, <2>5
<1>2. CASE Launch
  <2>1. ControlTyped'
    BY <1>2 DEF Launch, ControlTyped, RunStage, SupStage, group
  <2>2. StartOrder' /\ CodeTrue'
    BY <1>2 DEF Launch, ControlTyped, StartOrder, CodeTrue, SupAlive, TargetAlive, group
  <2>3. Undecided' /\ GroupGone'
    BY <1>2 DEF Launch, StartOrder, Undecided, GroupGone, SupAlive, GroupAlive, TargetAlive,
       ChildAlive, group
  <2>4. FlagsTyped'
    BY <1>2 DEF Launch, FlagsTyped, group
  <2>5. OutputTyped'
    BY <1>2, RunnerAssumption DEF Launch, OutputTyped, output
  <2>6. EndedStays'
    BY <1>2 DEF Launch, OutputTyped, EndedStays, StartOrder, PipesOpen, SupAlive,
       TargetAlive, group, output
  <2>7. Within'
    BY <1>2 DEF Launch, Within, OutputTyped, output
  <2>8. Complete'
    BY <1>2 DEF Launch, OutputTyped, Undecided, EndedStays, Within, Complete, CodeTrue,
       StartOrder, PipesOpen, SupAlive, TargetAlive, group, output
  <2> QED BY <2>1, <2>2, <2>3, <2>4, <2>5, <2>6, <2>7, <2>8
<1>3. ASSUME NEW s \in Stream, Read(s) PROVE Control' /\ FlagsTyped' /\ Output'
  <2>a. PICK n \in 1..(written[s] - taken[s]) : taken' = [taken EXCEPT ![s] = @ + n]
    BY <1>3 DEF Read
  <2>b. n \in Nat /\ taken[s] + n \in 0..MaxOutput /\ taken[s] + n <= written[s]
    BY <2>a, RunnerAssumption DEF OutputTyped
  <2>c. taken'[s] = taken[s] + n /\ \A u \in Stream \ {s} : taken'[u] = taken[u]
    BY <2>a DEF OutputTyped
  <2>1. ControlTyped'
    BY <1>3 DEF Read, Exceeds, ControlTyped, RunStage, Result, group
  <2>2. StartOrder' /\ CodeTrue'
    BY <1>3 DEF Read, Exceeds, ControlTyped, StartOrder, CodeTrue, SupAlive, TargetAlive,
       group
  <2>3. Undecided' /\ GroupGone'
    BY <1>3 DEF Read, Exceeds, StartOrder, Undecided, GroupGone, SupAlive, GroupAlive,
       TargetAlive, ChildAlive, group
  <2>4. FlagsTyped'
    BY <1>3 DEF Read, Exceeds, FlagsTyped, group
  <2>5. OutputTyped'
    BY <1>3, <2>a, <2>b, <2>c, RunnerAssumption DEF Read, Exceeds, OutputTyped, output
  <2>6. EndedStays'
    <3>1. s \notin ended
      <4>1. taken[s] < written[s] /\ taken[s] \in 0..MaxOutput /\ written[s] \in 0..MaxOutput
        BY <1>3 DEF Read, OutputTyped
      <4>2. taken[s] # written[s]
        BY <4>1, RunnerAssumption
      <4> QED BY <4>2 DEF EndedStays
    <3>2. /\ ended' = ended /\ written' = written
          /\ helper = "collect" /\ helper' \in {"collect", "stop"}
      BY <1>3 DEF Read
    <3>3. PipesOpen' = PipesOpen
      BY <1>3 DEF Read, PipesOpen, SupAlive, TargetAlive, group
    <3>4. \A u \in ended : taken'[u] = written[u]
      BY <3>1, <2>c DEF EndedStays, OutputTyped
    <3> QED BY <3>2, <3>3, <3>4 DEF EndedStays
  <2>7. Within'
    <3>1. CASE taken[s] + n > Limit
      BY <1>3, <2>c, <3>1 DEF Read, Exceeds, Within
    <3>2. CASE ~(taken[s] + n > Limit)
      <4>1. taken[s] + n <= Limit
        BY <3>2, <2>b, RunnerAssumption
      <4>2. helper = "collect"
        BY <1>3 DEF Read
      <4> QED BY <4>1, <4>2, <2>c DEF Within
    <3> QED BY <3>1, <3>2
  <2>8. Complete'
    BY <1>3 DEF Read, Exceeds, OutputTyped, Undecided, EndedStays, Within, Complete,
       CodeTrue, StartOrder, PipesOpen, SupAlive, TargetAlive, group, output
  <2> QED BY <2>1, <2>2, <2>3, <2>4, <2>5, <2>6, <2>7, <2>8
<1>4. ASSUME NEW s \in Stream, ReadEnd(s) PROVE Control' /\ FlagsTyped' /\ Output'
  <2>1. ControlTyped'
    BY <1>4 DEF ReadEnd, Stream, ControlTyped, RunStage, group
  <2>2. StartOrder' /\ CodeTrue'
    BY <1>4 DEF ReadEnd, Stream, ControlTyped, StartOrder, CodeTrue, SupAlive, TargetAlive,
       group
  <2>3. Undecided' /\ GroupGone'
    BY <1>4 DEF ReadEnd, Stream, StartOrder, Undecided, GroupGone, SupAlive, GroupAlive,
       TargetAlive, ChildAlive, group
  <2>4. FlagsTyped'
    BY <1>4 DEF ReadEnd, Stream, FlagsTyped, group
  <2>5. OutputTyped'
    BY <1>4 DEF ReadEnd, Stream, OutputTyped, output
  <2>6. EndedStays'
    BY <1>4 DEF ReadEnd, Stream, OutputTyped, EndedStays, StartOrder, PipesOpen, SupAlive,
       TargetAlive, group, output
  <2>7. Within'
    BY <1>4 DEF ReadEnd, Stream, Within, OutputTyped, output
  <2>8. Complete'
    BY <1>4 DEF ReadEnd, Stream, OutputTyped, Undecided, EndedStays, Within, Complete,
       CodeTrue, StartOrder, PipesOpen, SupAlive, TargetAlive, group, output
  <2> QED BY <2>1, <2>2, <2>3, <2>4, <2>5, <2>6, <2>7, <2>8
<1>5. CASE TimeOut
  <2>1. ControlTyped'
    BY <1>5 DEF TimeOut, ControlTyped, RunStage, Result, group
  <2>2. StartOrder' /\ CodeTrue'
    BY <1>5 DEF TimeOut, ControlTyped, StartOrder, CodeTrue, SupAlive, TargetAlive, group
  <2>3. Undecided' /\ GroupGone'
    BY <1>5 DEF TimeOut, StartOrder, Undecided, GroupGone, SupAlive, GroupAlive, TargetAlive,
       ChildAlive, group
  <2>4. FlagsTyped'
    BY <1>5 DEF TimeOut, FlagsTyped, group
  <2>5. Output'
    BY <1>5 DEF TimeOut, StartOrder, Undecided, EndedStays, Within, Complete, SupAlive,
       PipesOpen, TargetAlive, ControlTyped, OutputTyped, output, group
  <2> QED BY <2>1, <2>2, <2>3, <2>4, <2>5
<1>6. CASE Reap
  <2>1. ControlTyped'
    BY <1>6 DEF Reap, Stream, ControlTyped, RunStage, SupStage, Result, group
  <2>2. StartOrder' /\ CodeTrue'
    BY <1>6 DEF Reap, Stream, ControlTyped, StartOrder, CodeTrue, SupAlive, TargetAlive, group
  <2>3. Undecided' /\ GroupGone'
    BY <1>6 DEF Reap, Stream, StartOrder, Undecided, GroupGone, SupAlive, GroupAlive,
       TargetAlive, ChildAlive, group
  <2>4. FlagsTyped'
    BY <1>6 DEF Reap, Stream, FlagsTyped, group
  <2>5. OutputTyped'
    BY <1>6 DEF Reap, Stream, OutputTyped, output
  <2>6. EndedStays'
    BY <1>6 DEF Reap, Stream, OutputTyped, EndedStays, StartOrder, PipesOpen, SupAlive,
       TargetAlive, group, output
  <2>7. Within'
    BY <1>6 DEF Reap, Stream, Within, OutputTyped, output
  <2>8. Complete'
    BY <1>6 DEF Reap, Stream, OutputTyped, Undecided, EndedStays, Within, Complete, CodeTrue,
       StartOrder, PipesOpen, SupAlive, TargetAlive, group, output
  <2> QED BY <2>1, <2>2, <2>3, <2>4, <2>5, <2>6, <2>7, <2>8
<1> QED BY <1>1, <1>2, <1>3, <1>4, <1>5, <1>6

\* The signals, what is left in the pipes, and the death of the helper.
LEMMA StopLemma ==
    ASSUME IndInv, Terminate \/ Kill \/ Drain \/ HelperDies \/ Expire
    PROVE  Control' /\ FlagsTyped' /\ Output'
<1> USE DEF IndInv, Control, Output
<1>1. CASE Terminate
  <2>1. ControlTyped'
    BY <1>1 DEF Terminate, Signalled, ControlTyped, TargetAlive, ChildAlive, RunStage,
       SupStage, TargetStage, ChildStage, Status, group
  <2>2. StartOrder' /\ CodeTrue'
    BY <1>1 DEF Terminate, Signalled, ControlTyped, Status, StartOrder, CodeTrue, SupAlive,
       TargetAlive, ChildAlive, group
  <2>3. Undecided' /\ GroupGone'
    BY <1>1 DEF Terminate, Signalled, StartOrder, Undecided, GroupGone, SupAlive, GroupAlive,
       TargetAlive, ChildAlive, group
  <2>4. FlagsTyped'
    BY <1>1 DEF Terminate, Signalled, FlagsTyped, group
  <2>5. Output'
    BY <1>1 DEF Terminate, Signalled, StartOrder, Undecided, EndedStays, Within, Complete,
       SupAlive, PipesOpen, TargetAlive, ControlTyped, OutputTyped, output, group
  <2> QED BY <2>1, <2>2, <2>3, <2>4, <2>5
<1>2. CASE Kill
  <2>1. ControlTyped'
    BY <1>2 DEF Kill, KillGroup, Signalled, ControlTyped, TargetAlive, ChildAlive, RunStage,
       SupStage, TargetStage, ChildStage, Status, group
  <2>2. StartOrder' /\ CodeTrue'
    BY <1>2 DEF Kill, KillGroup, Signalled, ControlTyped, Status, StartOrder, CodeTrue,
       SupAlive, TargetAlive, ChildAlive, group
  <2>3. Undecided' /\ GroupGone'
    BY <1>2 DEF Kill, KillGroup, Signalled, StartOrder, Undecided, GroupGone, SupAlive,
       GroupAlive, TargetAlive, ChildAlive, group
  <2>4. FlagsTyped'
    BY <1>2 DEF Kill, KillGroup, Signalled, FlagsTyped, group
  <2>5. Output'
    BY <1>2 DEF Kill, KillGroup, Signalled, StartOrder, Undecided, EndedStays, Within,
       Complete, SupAlive, PipesOpen, TargetAlive, ControlTyped, OutputTyped, output, group
  <2> QED BY <2>1, <2>2, <2>3, <2>4, <2>5
<1>3. CASE Drain
  <2>1. ControlTyped'
    BY <1>3 DEF Drain, ControlTyped, RunStage, SupStage, group
  <2>2. StartOrder' /\ CodeTrue'
    BY <1>3, RunnerAssumption DEF Drain, ControlTyped, StartOrder, CodeTrue, SupAlive,
       TargetAlive, group
  <2>3. Undecided' /\ GroupGone'
    BY <1>3 DEF Drain, StartOrder, Undecided, GroupGone, SupAlive, GroupAlive, TargetAlive,
       ChildAlive, group
  <2>4. FlagsTyped'
    BY <1>3 DEF Drain, FlagsTyped, group
  <2>5. OutputTyped'
    BY <1>3 DEF Drain, OutputTyped, output
  <2>6. EndedStays'
    BY <1>3 DEF Drain, OutputTyped, EndedStays, StartOrder, PipesOpen, SupAlive, TargetAlive,
       group, output
  <2>7. Within'
    BY <1>3 DEF Drain, Within, OutputTyped, output
  <2>8. Complete'
    BY <1>3 DEF Drain, OutputTyped, Undecided, EndedStays, Within, Complete, CodeTrue,
       StartOrder, PipesOpen, SupAlive, TargetAlive, group, output
  <2> QED BY <2>1, <2>2, <2>3, <2>4, <2>5, <2>6, <2>7, <2>8
<1>4. CASE HelperDies
  <2>1. ControlTyped'
    BY <1>4 DEF HelperDies, ControlTyped, RunStage, group
  <2>2. StartOrder' /\ CodeTrue'
    BY <1>4 DEF HelperDies, ControlTyped, StartOrder, CodeTrue, SupAlive, TargetAlive, group
  <2>3. Undecided' /\ GroupGone'
    BY <1>4 DEF HelperDies, StartOrder, Undecided, GroupGone, SupAlive, GroupAlive,
       TargetAlive, ChildAlive, group
  <2>4. pending' \in BOOLEAN
    BY <1>4 DEF HelperDies
  <2>5. late' \in BOOLEAN
    BY <1>4 DEF HelperDies, FlagsTyped
  <2>6. Output'
    BY <1>4 DEF HelperDies, StartOrder, Undecided, EndedStays, Within, Complete, SupAlive,
       PipesOpen, TargetAlive, ControlTyped, OutputTyped, output, group
  <2> QED BY <2>1, <2>2, <2>3, <2>4, <2>5, <2>6 DEF FlagsTyped
<1>5. CASE Expire
  <2>1. ControlTyped'
    BY <1>5 DEF Expire, ControlTyped, group
  <2>2. StartOrder' /\ CodeTrue'
    BY <1>5 DEF Expire, ControlTyped, StartOrder, CodeTrue, SupAlive, TargetAlive, group
  <2>3. Undecided' /\ GroupGone'
    BY <1>5 DEF Expire, StartOrder, Undecided, GroupGone, SupAlive, GroupAlive, TargetAlive,
       ChildAlive, group
  <2>4. FlagsTyped'
    BY <1>5 DEF Expire, FlagsTyped, group
  <2>5. Output'
    BY <1>5 DEF Expire, StartOrder, Undecided, EndedStays, Within, Complete, SupAlive,
       PipesOpen, TargetAlive, ControlTyped, OutputTyped, output, group
  <2> QED BY <2>1, <2>2, <2>3, <2>4, <2>5
<1> QED BY <1>1, <1>2, <1>3, <1>4, <1>5

\* The steps of the supervisor.
LEMMA SupervisorLemma ==
    ASSUME IndInv, Supervisor
    PROVE  Control' /\ FlagsTyped' /\ Output'
<1> USE DEF IndInv, Control, Output
<1>1. CASE Block
  <2>1. ControlTyped'
    BY <1>1 DEF Block, ControlTyped, SupStage, group
  <2>2. StartOrder' /\ CodeTrue'
    BY <1>1 DEF Block, ControlTyped, StartOrder, CodeTrue, SupAlive, TargetAlive, group
  <2>3. Undecided' /\ GroupGone'
    BY <1>1 DEF Block, StartOrder, Undecided, GroupGone, SupAlive, GroupAlive, TargetAlive,
       ChildAlive, group
  <2>4. FlagsTyped'
    BY <1>1 DEF Block, FlagsTyped, group
  <2>5. Output'
    BY <1>1 DEF Block, StartOrder, Undecided, EndedStays, Within, Complete, SupAlive,
       PipesOpen, TargetAlive, ControlTyped, OutputTyped, output, group
  <2> QED BY <2>1, <2>2, <2>3, <2>4, <2>5
<1>2. CASE SetParentDeathSignal
  <2>1. ControlTyped'
    BY <1>2 DEF SetParentDeathSignal, ControlTyped, SupStage, Status, group
  <2>2. StartOrder' /\ CodeTrue'
    BY <1>2 DEF SetParentDeathSignal, ControlTyped, Status, StartOrder, CodeTrue, SupAlive,
       TargetAlive, group
  <2>3. Undecided' /\ GroupGone'
    BY <1>2 DEF SetParentDeathSignal, StartOrder, Undecided, GroupGone, SupAlive, GroupAlive,
       TargetAlive, ChildAlive, group
  <2>4. FlagsTyped'
    BY <1>2 DEF SetParentDeathSignal, FlagsTyped, group
  <2>5. Output'
    BY <1>2 DEF SetParentDeathSignal, StartOrder, Undecided, EndedStays, Within, Complete,
       SupAlive, PipesOpen, TargetAlive, ControlTyped, OutputTyped, output, group
  <2> QED BY <2>1, <2>2, <2>3, <2>4, <2>5
<1>3. CASE CheckParent
  <2>1. ControlTyped'
    BY <1>3 DEF CheckParent, KillGroup, Signalled, ControlTyped, TargetAlive, ChildAlive,
       SupStage, TargetStage, ChildStage, Status, group
  <2>2. StartOrder' /\ CodeTrue'
    BY <1>3 DEF CheckParent, KillGroup, Signalled, ControlTyped, Status, StartOrder,
       CodeTrue, SupAlive, TargetAlive, ChildAlive, group
  <2>3. Undecided' /\ GroupGone'
    BY <1>3 DEF CheckParent, KillGroup, Signalled, StartOrder, Undecided, GroupGone,
       SupAlive, GroupAlive, TargetAlive, ChildAlive, group
  <2>4. FlagsTyped'
    BY <1>3, RunnerAssumption DEF CheckParent, KillGroup, Signalled, FlagsTyped, group
  <2>5. Output'
    BY <1>3 DEF CheckParent, KillGroup, Signalled, StartOrder, Undecided, EndedStays, Within,
       Complete, SupAlive, PipesOpen, TargetAlive, ControlTyped, OutputTyped, output, group
  <2> QED BY <2>1, <2>2, <2>3, <2>4, <2>5
<1>4. CASE Unblock
  <2>1. ControlTyped'
    BY <1>4 DEF Unblock, ControlTyped, SupStage, group
  <2>2. StartOrder' /\ CodeTrue'
    BY <1>4 DEF Unblock, ControlTyped, StartOrder, CodeTrue, SupAlive, TargetAlive, group
  <2>3. Undecided' /\ GroupGone'
    BY <1>4 DEF Unblock, StartOrder, Undecided, GroupGone, SupAlive, GroupAlive, TargetAlive,
       ChildAlive, group
  <2>4. FlagsTyped'
    BY <1>4, RunnerAssumption DEF Unblock, FlagsTyped, group
  <2>5. Output'
    BY <1>4 DEF Unblock, StartOrder, Undecided, EndedStays, Within, Complete, SupAlive,
       PipesOpen, TargetAlive, ControlTyped, OutputTyped, output, group
  <2> QED BY <2>1, <2>2, <2>3, <2>4, <2>5
<1>5. CASE ParentDied
  <2>1. ControlTyped'
    BY <1>5 DEF ParentDied, KillGroup, Signalled, ControlTyped, TargetAlive, ChildAlive,
       SupStage, TargetStage, ChildStage, Status, group
  <2>2. StartOrder' /\ CodeTrue'
    BY <1>5 DEF ParentDied, KillGroup, Signalled, ControlTyped, Status, StartOrder, CodeTrue,
       SupAlive, TargetAlive, ChildAlive, group
  <2>3. Undecided' /\ GroupGone'
    BY <1>5 DEF ParentDied, KillGroup, Signalled, StartOrder, Undecided, GroupGone, SupAlive,
       GroupAlive, TargetAlive, ChildAlive, group
  <2>4. FlagsTyped'
    BY <1>5 DEF ParentDied, KillGroup, Signalled, FlagsTyped, group
  <2>5. Output'
    BY <1>5 DEF ParentDied, KillGroup, Signalled, StartOrder, Undecided, EndedStays, Within,
       Complete, SupAlive, PipesOpen, TargetAlive, ControlTyped, OutputTyped, output, group
  <2> QED BY <2>1, <2>2, <2>3, <2>4, <2>5
<1>6. CASE StartTarget
  <2>1. ControlTyped'
    BY <1>6 DEF StartTarget, ControlTyped, SupStage, TargetStage, Status, group
  <2>2. StartOrder' /\ CodeTrue'
    BY <1>6 DEF StartTarget, ControlTyped, Status, StartOrder, CodeTrue, SupAlive,
       TargetAlive, group
  <2>3. Undecided' /\ GroupGone'
    BY <1>6 DEF StartTarget, StartOrder, Undecided, GroupGone, SupAlive, GroupAlive,
       TargetAlive, ChildAlive, group
  <2>4. FlagsTyped'
    BY <1>6 DEF StartTarget, FlagsTyped, group
  <2>5. Output'
    BY <1>6 DEF StartTarget, StartOrder, Undecided, EndedStays, Within, Complete, SupAlive,
       PipesOpen, TargetAlive, ControlTyped, OutputTyped, output, group
  <2> QED BY <2>1, <2>2, <2>3, <2>4, <2>5
<1>7. CASE TargetEnded
  <2>1. ControlTyped'
    BY <1>7 DEF TargetEnded, ControlTyped, StartOrder, TargetAlive, SupStage, TargetStage,
       Status, group
  <2>2. StartOrder' /\ CodeTrue'
    BY <1>7 DEF TargetEnded, ControlTyped, Status, StartOrder, CodeTrue, SupAlive,
       TargetAlive, group
  <2>3. Undecided' /\ GroupGone'
    BY <1>7 DEF TargetEnded, StartOrder, Undecided, GroupGone, SupAlive, GroupAlive,
       TargetAlive, ChildAlive, group
  <2>4. FlagsTyped'
    BY <1>7 DEF TargetEnded, FlagsTyped, group
  <2>5. Output'
    BY <1>7 DEF TargetEnded, StartOrder, Undecided, EndedStays, Within, Complete, SupAlive,
       PipesOpen, TargetAlive, ControlTyped, OutputTyped, output, group
  <2> QED BY <2>1, <2>2, <2>3, <2>4, <2>5
<1>8. CASE BecomeZombie
  <2>1. ControlTyped'
    BY <1>8 DEF BecomeZombie, ControlTyped, SupStage, group
  <2>2. StartOrder' /\ CodeTrue'
    BY <1>8 DEF BecomeZombie, ControlTyped, StartOrder, CodeTrue, SupAlive, TargetAlive, group
  <2>3. Undecided' /\ GroupGone'
    BY <1>8 DEF BecomeZombie, StartOrder, Undecided, GroupGone, SupAlive, GroupAlive,
       TargetAlive, ChildAlive, group
  <2>4. FlagsTyped'
    BY <1>8 DEF BecomeZombie, FlagsTyped, group
  <2>5. Output'
    BY <1>8 DEF BecomeZombie, StartOrder, Undecided, EndedStays, Within, Complete, SupAlive,
       PipesOpen, TargetAlive, ControlTyped, OutputTyped, output, group
  <2> QED BY <2>1, <2>2, <2>3, <2>4, <2>5
<1> QED BY <1>1, <1>2, <1>3, <1>4, <1>5, <1>6, <1>7, <1>8 DEF Supervisor

\* The target and its child.
LEMMA TargetLemma ==
    ASSUME IndInv, Fork \/ TargetEnds \/ ChildEnds \/ (\E s \in Stream : Write(s))
    PROVE  Control' /\ FlagsTyped' /\ Output'
<1> USE DEF IndInv, Control, Output
<1>1. CASE Fork
  <2>1. ControlTyped'
    BY <1>1 DEF Fork, ControlTyped, ChildStage, group
  <2>2. StartOrder' /\ CodeTrue'
    BY <1>1 DEF Fork, ControlTyped, StartOrder, CodeTrue, SupAlive, TargetAlive, group
  <2>3. Undecided' /\ GroupGone'
    BY <1>1 DEF Fork, StartOrder, Undecided, GroupGone, SupAlive, GroupAlive, TargetAlive,
       ChildAlive, group
  <2>4. FlagsTyped'
    BY <1>1 DEF Fork, FlagsTyped, group
  <2>5. Output'
    BY <1>1 DEF Fork, StartOrder, Undecided, EndedStays, Within, Complete, SupAlive,
       PipesOpen, TargetAlive, ControlTyped, OutputTyped, output, group
  <2> QED BY <2>1, <2>2, <2>3, <2>4, <2>5
<1>2. CASE TargetEnds
  <2>1. ControlTyped'
    BY <1>2 DEF TargetEnds, ControlTyped, TargetStage, Status, group
  <2>2. StartOrder' /\ CodeTrue'
    BY <1>2 DEF TargetEnds, ControlTyped, StartOrder, CodeTrue, SupAlive, TargetAlive, group
  <2>3. Undecided' /\ GroupGone'
    BY <1>2 DEF TargetEnds, StartOrder, Undecided, GroupGone, SupAlive, GroupAlive,
       TargetAlive, ChildAlive, group
  <2>4. FlagsTyped'
    BY <1>2 DEF TargetEnds, FlagsTyped, group
  <2>5. Output'
    BY <1>2 DEF TargetEnds, StartOrder, Undecided, EndedStays, Within, Complete, SupAlive,
       PipesOpen, TargetAlive, ControlTyped, OutputTyped, output, group
  <2> QED BY <2>1, <2>2, <2>3, <2>4, <2>5
<1>3. CASE ChildEnds
  <2>1. ControlTyped'
    BY <1>3 DEF ChildEnds, ControlTyped, ChildStage, group
  <2>2. StartOrder' /\ CodeTrue'
    BY <1>3 DEF ChildEnds, ControlTyped, StartOrder, CodeTrue, SupAlive, TargetAlive,
       ChildAlive, group
  <2>3. Undecided' /\ GroupGone'
    BY <1>3 DEF ChildEnds, StartOrder, Undecided, GroupGone, SupAlive, GroupAlive,
       TargetAlive, ChildAlive, group
  <2>4. FlagsTyped'
    BY <1>3 DEF ChildEnds, FlagsTyped, group
  <2>5. Output'
    BY <1>3 DEF ChildEnds, StartOrder, Undecided, EndedStays, Within, Complete, SupAlive,
       PipesOpen, TargetAlive, ControlTyped, OutputTyped, output, group
  <2> QED BY <2>1, <2>2, <2>3, <2>4, <2>5
<1>4. ASSUME NEW s \in Stream, Write(s) PROVE Control' /\ FlagsTyped' /\ Output'
  <2>1. ControlTyped'
    BY <1>4 DEF Write, ControlTyped, group
  <2>2. StartOrder' /\ CodeTrue'
    BY <1>4 DEF Write, ControlTyped, StartOrder, CodeTrue, SupAlive, TargetAlive, group
  <2>3. Undecided' /\ GroupGone'
    BY <1>4 DEF Write, StartOrder, Undecided, GroupGone, SupAlive, GroupAlive, TargetAlive,
       ChildAlive, group
  <2>4. FlagsTyped'
    BY <1>4 DEF Write, FlagsTyped, group
  <2>5. OutputTyped'
    BY <1>4, RunnerAssumption DEF Write, OutputTyped, output
  <2>6. EndedStays'
    BY <1>4 DEF Write, OutputTyped, EndedStays, StartOrder, PipesOpen, SupAlive, TargetAlive,
       group, output
  <2>7. Within'
    BY <1>4 DEF Write, Within, OutputTyped, output
  <2>8. Complete'
    BY <1>4 DEF Write, OutputTyped, Undecided, EndedStays, Within, Complete, CodeTrue,
       StartOrder, PipesOpen, SupAlive, TargetAlive, group, output
  <2> QED BY <2>1, <2>2, <2>3, <2>4, <2>5, <2>6, <2>7, <2>8
<1> QED BY <1>1, <1>2, <1>3, <1>4

\* Stuttering.
LEMMA StutterLemma == ASSUME IndInv, UNCHANGED vars PROVE IndInv'
<1> USE DEF vars, group, output, SupAlive, PipesOpen, GroupAlive, TargetAlive, ChildAlive
<1>1. Control'
  BY DEF IndInv, Control, ControlTyped, StartOrder, CodeTrue, Undecided, GroupGone
<1>2. FlagsTyped'
  BY DEF IndInv, FlagsTyped
<1>3. Output'
  BY DEF IndInv, Output, OutputTyped, EndedStays, Within, Complete
<1> QED BY <1>1, <1>2, <1>3 DEF IndInv

\* The invariant is inductive.
LEMMA Inductive == Spec => []IndInv
<1>1. IndInv /\ [Next]_vars => IndInv'
  BY CollectLemma, StopLemma, SupervisorLemma, TargetLemma, StutterLemma
     DEF Next, Collect, IndInv
<1> QED BY <1>1, InitLemma, PTL DEF Spec

\* The processes, the pipes and the result of a command stay well typed, and
\* no more is read than was written (run_spec, _collect, _drain).
THEOREM RunnerTyped == Spec => []TypeOK
<1>1. IndInv => TypeOK
  BY DEF IndInv, Control, FlagsTyped, Output, ControlTyped, OutputTyped, TypeOK
<1> QED BY <1>1, Inductive, PTL

\* A result that says the command ended by itself is true, and its output is
\* complete and within the limit, for every limit (_collect, _run_target).
THEOREM ResultsAreTrue == Spec => []ResultTrue
<1>1. IndInv => ResultTrue
  BY DEF IndInv, Output, Complete, ResultTrue, PipesOpen, TargetAlive
<1> QED BY <1>1, Inductive, PTL

\* When run_spec returns a timeout or exceeded output no member of the group is
\* alive, whatever it did with SIGTERM (_stop_group).
THEOREM StoppedForGood == Spec => []NoneSurvives
<1>1. IndInv => NoneSurvives
  BY DEF IndInv, Control, GroupGone, NoneSurvives
<1> QED BY <1>1, Inductive, PTL
=============================================================================
