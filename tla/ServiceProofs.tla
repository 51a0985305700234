--------------------------- MODULE ServiceProofs ---------------------------
(***************************************************************************)
(* Proofs about ServiceController, for any identities, delays and bounds.  *)
(***************************************************************************)
EXTENDS ServiceController, TLAPS

\* Facts about the schedules: the timer is armed for the earliest of them.
Times(s) == s \in [Schedule -> Nat \cup {None}]
IsSoonest(d, s) ==
    /\ d \in Nat
    /\ \E n \in Schedule : s[n] = d
    /\ \A n \in Schedule : s[n] # None => d <= s[n]

LEMMA SoonestExists ==
    ASSUME NEW s, Times(s), NEW k \in Schedule, s[k] # None
    PROVE  \E d : IsSoonest(d, s)
<1>1. /\ s["initial"] \in Nat \cup {None} /\ s["periodic"] \in Nat \cup {None}
      /\ s["retry"] \in Nat \cup {None} /\ s["handoff"] \in Nat \cup {None}
  BY DEF Times, Schedule
<1>2. \/ s["initial"] # None \/ s["periodic"] # None \/ s["retry"] # None \/ s["handoff"] # None
  BY DEF Schedule
<1> DEFINE Least(d) == /\ d # None
                       /\ s["initial"] # None => d <= s["initial"]
                       /\ s["periodic"] # None => d <= s["periodic"]
                       /\ s["retry"] # None => d <= s["retry"]
                       /\ s["handoff"] # None => d <= s["handoff"]
<1>3. \/ Least(s["initial"]) \/ Least(s["periodic"]) \/ Least(s["retry"]) \/ Least(s["handoff"])
  BY <1>1, <1>2, ServiceAssumption
<1>4. \A n \in Schedule : Least(s[n]) => IsSoonest(s[n], s)
  BY <1>1 DEF IsSoonest, Schedule
<1> QED
  BY <1>3, <1>4 DEF Schedule

LEMMA SoonestFacts ==
    ASSUME NEW s, Times(s)
    PROVE  /\ Soonest(s) \in Nat \cup {None}
           /\ (\A n \in Schedule : s[n] = None) => Soonest(s) = None
           /\ (\E n \in Schedule : s[n] # None) => IsSoonest(Soonest(s), s)
<1> DEFINE set == {s[n] : n \in {m \in Schedule : s[m] # None}}
<1>1. Soonest(s) = IF set = {} THEN None ELSE CHOOSE d \in set : \A e \in set : d <= e
  BY DEF Soonest
<1>2. ASSUME NEW k \in Schedule, s[k] # None
      PROVE  IsSoonest(Soonest(s), s)
  <2>1. PICK d : IsSoonest(d, s)
    BY <1>2, SoonestExists
  <2>2. set # {} /\ set \subseteq Nat
    BY <1>2 DEF Times
  <2>3. d \in set
    BY <2>1, ServiceAssumption DEF IsSoonest
  <2>4. \A e \in set : d <= e
    BY <2>1 DEF IsSoonest
  <2> HIDE DEF set
  <2>5. /\ Soonest(s) \in set
        /\ \A e \in set : Soonest(s) <= e
    BY <1>1, <2>2, <2>3, <2>4
  <2> QED
    BY <2>2, <2>5 DEF IsSoonest, set
<1>3. (\A n \in Schedule : s[n] = None) => Soonest(s) = None
  BY <1>1
<1> QED
  BY <1>2, <1>3 DEF IsSoonest

LEMMA SoonestUnique ==
    ASSUME NEW s, Times(s), NEW d, IsSoonest(d, s)
    PROVE  Soonest(s) = d
<1>1. \E n \in Schedule : s[n] # None
  BY ServiceAssumption DEF IsSoonest
<1>2. IsSoonest(Soonest(s), s)
  BY <1>1, SoonestFacts
<1>3. Soonest(s) <= d /\ d <= Soonest(s)
  BY <1>2, ServiceAssumption DEF IsSoonest
<1> QED
  BY <1>2, <1>3 DEF IsSoonest
-----------------------------------------------------------------------------
(***************************************************************************)
(* The queue and its waiting scan, and the helper that works on the active *)
(* operation.                                                              *)
(***************************************************************************)
OneScan(q, r) ==
    /\ \A i, j \in DOMAIN q : q[i].kind = "scan" /\ q[j].kind = "scan" => i = j
    /\ \A i \in DOMAIN q : (q[i].kind = "scan") <=> (q[i].id = r)
    /\ r # None => \E i \in DOMAIN q : q[i].id = r

QueueTyped ==
    /\ queue \in Seq(Operation)
    /\ active \in Operation \cup {None}
    /\ queuedRefresh \in Id \cup {None}
    /\ proc \in Process \cup {None}
    /\ transportOp \in Id \cup {None}

Working ==
    /\ (active = None) <=> (proc = None)
    /\ active # None => transportOp = active.id /\ proc.id = active.id
    /\ active = None => queue = <<>>

QueueOK == QueueTyped /\ OneScan(queue, queuedRefresh) /\ Working

LEMMA TailFacts ==
    ASSUME NEW q \in Seq(Operation), q # <<>>
    PROVE  /\ Head(q) \in Operation /\ Tail(q) \in Seq(Operation)
           /\ Head(q) = q[1]
           /\ DOMAIN q = 1..Len(q) /\ Len(q) \in Nat /\ Len(q) > 0
           /\ DOMAIN Tail(q) = 1..(Len(q) - 1)
           /\ \A i \in DOMAIN Tail(q) : i + 1 \in DOMAIN q /\ Tail(q)[i] = q[i + 1]
           /\ \A i \in DOMAIN q : i # 1 => i - 1 \in DOMAIN Tail(q) /\ Tail(q)[i - 1] = q[i]
OBVIOUS

LEMMA AppendFacts ==
    ASSUME NEW q \in Seq(Operation), NEW o \in Operation
    PROVE  /\ Append(q, o) \in Seq(Operation) /\ Append(q, o) # <<>>
           /\ Len(q) \in Nat
           /\ DOMAIN q = 1..Len(q) /\ DOMAIN Append(q, o) = 1..(Len(q) + 1)
           /\ \A i \in 1..Len(q) : Append(q, o)[i] = q[i]
           /\ Append(q, o)[Len(q) + 1] = o
OBVIOUS

LEMMA OneScanTail ==
    ASSUME NEW q \in Seq(Operation), q # <<>>, NEW r \in Id \cup {None}, OneScan(q, r)
    PROVE  OneScan(Tail(q), IF Head(q).id = r THEN None ELSE r)
<1> DEFINE t == Tail(q)
<1>0. /\ Head(q) \in Operation /\ t \in Seq(Operation)
      /\ Head(q) = q[1]
      /\ DOMAIN q = 1..Len(q) /\ Len(q) \in Nat /\ Len(q) > 0
      /\ DOMAIN t = 1..(Len(q) - 1)
      /\ \A i \in DOMAIN t : i + 1 \in DOMAIN q /\ t[i] = q[i + 1]
      /\ \A i \in DOMAIN q : i # 1 => i - 1 \in DOMAIN t /\ t[i - 1] = q[i]
  BY TailFacts
<1> HIDE DEF t
<1>1. \A i, j \in DOMAIN t : t[i].kind = "scan" /\ t[j].kind = "scan" => i = j
  <2> SUFFICES ASSUME NEW i \in DOMAIN t, NEW j \in DOMAIN t,
                      t[i].kind = "scan", t[j].kind = "scan"
               PROVE  i = j
    OBVIOUS
  <2>1. i + 1 = j + 1
    BY <1>0 DEF OneScan
  <2> QED
    BY <1>0, <2>1
<1>2. CASE Head(q).id = r
  <2>1. q[1].kind = "scan"
    BY <1>0, <1>2 DEF OneScan
  <2>2. \A i \in DOMAIN t : t[i].kind # "scan"
    <3> SUFFICES ASSUME NEW i \in DOMAIN t, t[i].kind = "scan"
                 PROVE  FALSE
      OBVIOUS
    <3>1. i + 1 = 1
      BY <1>0, <2>1 DEF OneScan
    <3> QED
      BY <1>0, <3>1
  <2>3. \A i \in DOMAIN t : t[i].id # None
    <3> SUFFICES ASSUME NEW i \in DOMAIN t
                 PROVE  t[i].id # None
      OBVIOUS
    <3>1. t[i] \in Operation
      BY <1>0
    <3> QED
      BY <3>1, ServiceAssumption DEF Operation
  <2>4. OneScan(t, None)
    BY <1>1, <2>2, <2>3 DEF OneScan
  <2> QED
    BY <1>2, <2>4 DEF t
<1>3. CASE Head(q).id # r
  <2>1. \A i \in DOMAIN t : (t[i].kind = "scan") <=> (t[i].id = r)
    BY <1>0 DEF OneScan
  <2>2. r # None => \E i \in DOMAIN t : t[i].id = r
    <3> SUFFICES ASSUME r # None
                 PROVE  \E i \in DOMAIN t : t[i].id = r
      OBVIOUS
    <3>1. PICK i \in DOMAIN q : q[i].id = r
      BY DEF OneScan
    <3>2. i # 1
      BY <1>0, <1>3, <3>1
    <3> QED
      BY <1>0, <3>1, <3>2
  <2>3. OneScan(t, r)
    BY <1>1, <2>1, <2>2 DEF OneScan
  <2> QED
    BY <1>3, <2>3 DEF t
<1> QED
  BY <1>2, <1>3

LEMMA OneScanAppend ==
    ASSUME NEW q \in Seq(Operation), NEW o \in Operation,
           NEW old \in Id \cup {None}, NEW r \in Id \cup {None}, OneScan(q, old),
           \A i \in DOMAIN q : q[i].id # o.id,
           old # o.id,
           \/ o.kind = "scan" /\ old = None /\ r = o.id
           \/ o.kind # "scan" /\ r = old
    PROVE  OneScan(Append(q, o), r)
<1> DEFINE a == Append(q, o)
<1>0. /\ Len(q) \in Nat
      /\ DOMAIN q = 1..Len(q) /\ DOMAIN a = 1..(Len(q) + 1)
      /\ \A i \in 1..Len(q) : a[i] = q[i]
      /\ a[Len(q) + 1] = o
  BY AppendFacts
<1> HIDE DEF a
<1>1. \A i \in DOMAIN a : i \in DOMAIN q \/ i = Len(q) + 1
  BY <1>0
<1>2. \A i \in DOMAIN q : q[i].id # None
  <2> SUFFICES ASSUME NEW i \in DOMAIN q
               PROVE  q[i].id # None
    OBVIOUS
  <2>1. q[i] \in Operation
    BY <1>0
  <2> QED
    BY <2>1, ServiceAssumption DEF Operation
<1>3. CASE o.kind = "scan" /\ old = None /\ r = o.id
  <2>1. \A i \in DOMAIN q : q[i].kind # "scan"
    BY <1>2, <1>3 DEF OneScan
  <2>2. \A i \in DOMAIN a : (a[i].kind = "scan") <=> (i = Len(q) + 1)
    BY <1>0, <1>1, <1>3, <2>1
  <2>3. \A i \in DOMAIN a : (a[i].id = r) <=> (i = Len(q) + 1)
    BY <1>0, <1>1, <1>3
  <2>4. Len(q) + 1 \in DOMAIN a
    BY <1>0
  <2>5. OneScan(a, r)
    BY <2>2, <2>3, <2>4 DEF OneScan
  <2> QED
    BY <2>5 DEF a
<1>4. CASE o.kind # "scan" /\ r = old
  <2>1. \A i \in DOMAIN a : a[i].kind = "scan" => i \in DOMAIN q /\ a[i] = q[i]
    BY <1>0, <1>1, <1>4
  <2>2. \A i \in DOMAIN a : (a[i].kind = "scan") <=> (a[i].id = r)
    BY <1>0, <1>1, <1>4 DEF OneScan
  <2>3. \A i \in DOMAIN q : i \in DOMAIN a /\ a[i] = q[i]
    BY <1>0
  <2>4. OneScan(a, r)
    BY <1>4, <2>1, <2>2, <2>3 DEF OneScan
  <2> QED
    BY <2>4 DEF a
<1> QED
  BY <1>3, <1>4

LEMMA StartNextKeeps ==
    ASSUME QueueTyped, NEW q \in Seq(Operation), NEW r \in Id \cup {None}, OneScan(q, r),
           proc = None \/ proc.exited = TRUE,
           StartNext(q, r)
    PROVE  QueueOK'
<1>1. CASE /\ q = <<>> \/ ~CanRun
           /\ queue' = <<>>
           /\ active' = None
           /\ queuedRefresh' = IF q = <<>> THEN r ELSE None
           /\ proc' = IF proc # None /\ proc.exited THEN None ELSE proc
           /\ transportOp' = IF proc # None /\ proc.exited THEN None ELSE transportOp
  <2>1. proc' = None
    BY <1>1
  <2>2. QueueTyped'
    BY <1>1, <2>1 DEF QueueTyped
  <2>3. OneScan(queue', queuedRefresh')
    <3>1. CASE q = <<>>
      BY <1>1, <3>1
    <3>2. CASE q # <<>>
      <4>1. queuedRefresh' = None /\ queue' = <<>>
        BY <1>1, <3>2
      <4> QED
        BY <4>1 DEF OneScan
    <3> QED
      BY <3>1, <3>2
  <2>4. Working'
    BY <1>1, <2>1 DEF Working
  <2> QED
    BY <2>2, <2>3, <2>4 DEF QueueOK
<1>2. CASE /\ q # <<>> /\ CanRun
           /\ queue' = Tail(q)
           /\ active' = Head(q)
           /\ queuedRefresh' = IF Head(q).id = r THEN None ELSE r
           /\ proc' = NewProcess(Head(q).id)
           /\ transportOp' = Head(q).id
  <2>1. Head(q) \in Operation /\ Tail(q) \in Seq(Operation)
    BY <1>2, TailFacts
  <2>2. Head(q).id \in Id
    BY <2>1 DEF Operation
  <2>3. proc' \in Process /\ proc'.id = Head(q).id
    BY <1>2, <2>2 DEF NewProcess, Process
  <2>4. QueueTyped'
    BY <1>2, <2>1, <2>2, <2>3 DEF QueueTyped
  <2>5. OneScan(queue', queuedRefresh')
    BY <1>2, OneScanTail
  <2>6. active' # None /\ proc' # None
    BY <1>2, <2>1, <2>3, NoneAssumption
  <2>7. Working'
    BY <1>2, <2>3, <2>6 DEF Working
  <2> QED
    BY <2>4, <2>5, <2>7 DEF QueueOK
<1> QED
  BY <1>1, <1>2 DEF StartNext

LEMMA FreshFacts ==
    ASSUME NEW i \in Fresh
    PROVE  i \in Id /\ i \notin Live
BY DEF Fresh

LEMMA EnqueueKeeps ==
    ASSUME QueueOK, NEW o \in Operation, o.id \notin Live, NEW r \in Id \cup {None},
           \/ o.kind = "scan" /\ queuedRefresh = None /\ r = o.id
           \/ o.kind # "scan" /\ r = queuedRefresh,
           Enqueue(o, r)
    PROVE  QueueOK'
<1>1. queue \in Seq(Operation) /\ queuedRefresh \in Id \cup {None}
  BY DEF QueueOK, QueueTyped
<1>2. \A i \in DOMAIN queue : queue[i].id # o.id
  BY DEF Live, Waiting
<1>3. queuedRefresh # o.id
  BY DEF Live
<1>4. OneScan(Append(queue, o), r)
  BY <1>1, <1>2, <1>3, OneScanAppend DEF QueueOK
<1>5. Append(queue, o) \in Seq(Operation)
  BY <1>1, AppendFacts
<1>6. CASE /\ active # None
           /\ queue' = Append(queue, o)
           /\ queuedRefresh' = r
           /\ UNCHANGED <<active, transportVars>>
  <2>1. active' = active /\ proc' = proc /\ transportOp' = transportOp
    BY <1>6 DEF transportVars
  <2>2. QueueTyped'
    BY <1>5, <1>6, <2>1 DEF QueueOK, QueueTyped
  <2>3. Working'
    BY <1>6, <2>1 DEF QueueOK, Working
  <2> QED
    BY <1>4, <1>6, <2>2, <2>3 DEF QueueOK
<1>7. CASE active = None /\ StartNext(Append(queue, o), r)
  <2>1. QueueTyped /\ proc = None
    BY <1>7 DEF QueueOK, Working
  <2> QED
    BY <1>4, <1>5, <1>7, <2>1, StartNextKeeps
<1> QED
  BY <1>6, <1>7 DEF Enqueue

LEMMA AppendPart ==
    ASSUME NEW S, NEW a \in Seq(S), NEW part \in S
    PROVE  /\ Append(a, part) \in Seq(S)
           /\ Len(a) + 1 \in DOMAIN Append(a, part)
           /\ Append(a, part)[Len(a) + 1] = part
OBVIOUS

LEMMA Argvs ==
    ASSUME NEW S, NEW a \in S, NEW b \in S, NEW c \in S
    PROVE  <<a>> \in Seq(S) /\ <<a, b>> \in Seq(S) /\ <<a, b, c>> \in Seq(S)
OBVIOUS

LEMMA ArgvFacts ==
    /\ \A force \in BOOLEAN : ScanArgv(force) \in Seq(ArgvPart)
    /\ <<"inventory">> \in Seq(ArgvPart) /\ <<"set-star">> \in Seq(ArgvPart)
    /\ <<"snapshot">> \in Seq(ArgvPart)
<1>1. /\ "inventory" \in ArgvPart /\ "set-star" \in ArgvPart /\ "snapshot" \in ArgvPart
      /\ "scan" \in ArgvPart /\ "--force" \in ArgvPart /\ "settings" \in ArgvPart
  BY DEF ArgvPart, OpKind
<1>2. <<"scan", "--force", "settings">> \in Seq(ArgvPart) /\ <<"scan", "settings">> \in Seq(ArgvPart)
  BY <1>1, Argvs
<1>3. <<"inventory">> \in Seq(ArgvPart) /\ <<"set-star">> \in Seq(ArgvPart) /\ <<"snapshot">> \in Seq(ArgvPart)
  BY <1>1, Argvs
<1> QED
  BY <1>2, <1>3 DEF ScanArgv

LEMMA UpgradedFacts ==
    ASSUME NEW o \in Operation
    PROVE  /\ Upgraded(o) \in Operation
           /\ Upgraded(o).id = o.id /\ Upgraded(o).kind = o.kind
           /\ Forced(Upgraded(o))
<1>1. /\ o.id \in Id /\ o.kind \in OpKind /\ o.argv \in Seq(ArgvPart)
      /\ o = [id |-> o.id, kind |-> o.kind, argv |-> o.argv]
  BY DEF Operation
<1>2. CASE Forced(o)
  BY <1>2 DEF Upgraded
<1>3. CASE ~Forced(o)
  <2> DEFINE a == Append(o.argv, "--force")
  <2>1. a \in Seq(ArgvPart) /\ Len(o.argv) + 1 \in DOMAIN a /\ a[Len(o.argv) + 1] = "--force"
    <3>1. "--force" \in ArgvPart
      BY DEF ArgvPart
    <3> QED
      BY <1>1, <3>1, AppendPart
  <2>2. Upgraded(o) = [o EXCEPT !.argv = a]
    BY <1>3 DEF Upgraded
  <2> HIDE DEF a
  <2>3. Upgraded(o).argv = a /\ Upgraded(o).id = o.id /\ Upgraded(o).kind = o.kind
    BY <1>1, <2>2
  <2>4. Upgraded(o) = [id |-> o.id, kind |-> o.kind, argv |-> a]
    BY <1>1, <2>2
  <2>5. Upgraded(o) \in Operation
    BY <1>1, <2>1, <2>4 DEF Operation
  <2>6. Forced(Upgraded(o))
    BY <2>1, <2>3 DEF Forced
  <2> QED
    BY <2>3, <2>5, <2>6
<1> QED
  BY <1>2, <1>3

\* What a refresh leaves in the place of each waiting operation.
LEMMA RefreshQueued ==
    ASSUME QueueOK, NEW force \in BOOLEAN, queuedRefresh # None,
           queue' = [i \in DOMAIN queue |->
               IF force /\ queue[i].id = queuedRefresh THEN Upgraded(queue[i]) ELSE queue[i]]
    PROVE  /\ queue' \in Seq(Operation)
           /\ DOMAIN queue' = DOMAIN queue
           /\ \A i \in DOMAIN queue :
                 /\ queue'[i].id = queue[i].id /\ queue'[i].kind = queue[i].kind
                 /\ Forced(queue[i]) => Forced(queue'[i])
<1>1. /\ queue \in Seq(Operation) /\ DOMAIN queue = 1..Len(queue) /\ Len(queue) \in Nat
      /\ \A i \in DOMAIN queue : queue[i] \in Operation
  BY DEF QueueOK, QueueTyped
<1>2. DOMAIN queue' = DOMAIN queue
  OBVIOUS
<1>3. ASSUME NEW i \in DOMAIN queue
      PROVE  /\ queue'[i] \in Operation
             /\ queue'[i].id = queue[i].id /\ queue'[i].kind = queue[i].kind
             /\ Forced(queue[i]) => Forced(queue'[i])
  <2>1. queue[i] \in Operation
    BY <1>1
  <2>2. queue'[i] = Upgraded(queue[i]) \/ queue'[i] = queue[i]
    OBVIOUS
  <2> QED
    BY <2>1, <2>2, UpgradedFacts
<1>4. queue' \in [1..Len(queue) -> Operation]
  BY <1>1, <1>3
<1>5. queue' \in Seq(Operation)
  BY <1>1, <1>4
<1> QED
  BY <1>2, <1>3, <1>5

LEMMA RefreshKeeps ==
    ASSUME QueueOK, NEW force \in BOOLEAN, Refresh(force)
    PROVE  QueueOK'
<1>1. CASE /\ queuedRefresh # None
           /\ queue' = [i \in DOMAIN queue |->
                  IF force /\ queue[i].id = queuedRefresh THEN Upgraded(queue[i]) ELSE queue[i]]
           /\ UNCHANGED <<active, queuedRefresh, transportVars>>
  <2>1. /\ queue' \in Seq(Operation)
        /\ DOMAIN queue' = DOMAIN queue
        /\ \A i \in DOMAIN queue :
              queue'[i].id = queue[i].id /\ queue'[i].kind = queue[i].kind
    BY <1>1, RefreshQueued
  <2>2. active' = active /\ queuedRefresh' = queuedRefresh /\ proc' = proc /\ transportOp' = transportOp
    BY <1>1 DEF transportVars
  <2>3. QueueTyped'
    BY <2>1, <2>2 DEF QueueOK, QueueTyped
  <2>4. OneScan(queue', queuedRefresh')
    BY <2>1, <2>2 DEF QueueOK, OneScan
  <2>5. active # None
    BY <1>1 DEF QueueOK, Working, OneScan
  <2>6. Working'
    BY <2>2, <2>5 DEF QueueOK, Working
  <2> QED
    BY <2>3, <2>4, <2>6 DEF QueueOK
<1>2. ASSUME queuedRefresh = None, NEW i \in Fresh,
             Enqueue([id |-> i, kind |-> "scan", argv |-> ScanArgv(force)], i)
      PROVE  QueueOK'
  <2> DEFINE o == [id |-> i, kind |-> "scan", argv |-> ScanArgv(force)]
  <2>1. i \in Id /\ i \notin Live
    BY FreshFacts
  <2>2. o \in Operation
    BY <2>1, ArgvFacts DEF Operation, OpKind
  <2>3. o.id = i /\ o.kind = "scan" /\ Enqueue(o, i)
    BY <1>2
  <2> HIDE DEF o
  <2> QED
    BY <1>2, <2>1, <2>2, <2>3, EnqueueKeeps
<1> QED
  BY <1>1, <1>2 DEF Refresh
-----------------------------------------------------------------------------
(***************************************************************************)
(* The inductive invariant.  None of its four parts is preserved alone: a  *)
(* handler that finds no active operation relies on the absence of a       *)
(* helper, a refresh that finds one waiting relies on that scan to be      *)
(* there, and both need the types.                                         *)
(***************************************************************************)
IInv == TypeOK /\ NeverWedged /\ OneScanWaits /\ TimerArmed

Rest ==
    /\ accepting \in BOOLEAN
    /\ Times(schedules)
    /\ timer \in Nat \cup {None}
    /\ installed \in BOOLEAN
    /\ starPending \in Id \cup {None}

Parts ==
    /\ QueueTyped
    /\ OneScan(queue, queuedRefresh)
    /\ accepting => Working
    /\ Rest
    /\ TimerArmed

LEMMA InvariantParts == IInv <=> Parts
BY DEF IInv, Parts, TypeOK, NeverWedged, OneScanWaits, QueueTyped, OneScan, Working, Rest, Times

LEMMA Published ==
    ASSUME Times(schedules'), Publish
    PROVE  timer' \in Nat \cup {None} /\ TimerArmed'
<1>1. timer' = Soonest(schedules')
  BY DEF Publish
<1>2. Soonest(schedules') \in Nat \cup {None}
  BY SoonestFacts
<1> QED
  BY <1>1, <1>2 DEF TimerArmed

\* The handlers of a living service that end in publish, or schedule nothing.
LEMMA HandlerKeeps ==
    ASSUME Parts, accepting, QueueOK', accepting' = accepting, installed' = installed,
           Times(schedules'), starPending' \in Id \cup {None},
           \/ Publish
           \/ schedules' = schedules /\ timer' = timer
    PROVE  Parts'
<1>1. timer' \in Nat \cup {None} /\ TimerArmed'
  <2>1. CASE Publish
    BY <2>1, Published
  <2>2. CASE schedules' = schedules /\ timer' = timer
    BY <2>2 DEF Parts, Rest, TimerArmed
  <2> QED
    BY <2>1, <2>2
<1>2. Rest'
  BY <1>1 DEF Parts, Rest
<1> QED
  BY <1>1, <1>2 DEF Parts, QueueOK

LEMMA Living ==
    ASSUME Parts, accepting
    PROVE  QueueOK
BY DEF Parts, QueueOK

LEMMA RequestRefreshKeeps ==
    ASSUME Parts, RequestRefresh
    PROVE  Parts'
<1>1. /\ accepting /\ Refresh(TRUE) /\ schedules' = schedules
      /\ accepting' = accepting /\ installed' = installed /\ starPending' = starPending
      /\ timer' = timer \/ Publish
  BY DEF RequestRefresh
<1>2. QueueOK'
  BY <1>1, Living, RefreshKeeps
<1>3. Times(schedules') /\ starPending' \in Id \cup {None}
  BY <1>1 DEF Parts, Rest
<1> QED
  BY <1>1, <1>2, <1>3, HandlerKeeps

LEMMA RequestInventoryKeeps ==
    ASSUME Parts, RequestInventory
    PROVE  Parts'
<1>1. /\ accepting /\ schedules' = schedules
      /\ accepting' = accepting /\ installed' = installed /\ starPending' = starPending
      /\ Publish
  BY DEF RequestInventory
<1>2. PICK i \in Fresh :
          Enqueue([id |-> i, kind |-> "inventory", argv |-> <<"inventory">>], queuedRefresh)
  BY DEF RequestInventory
<1> DEFINE o == [id |-> i, kind |-> "inventory", argv |-> <<"inventory">>]
<1>3. i \in Id /\ i \notin Live
  BY FreshFacts
<1>4. o \in Operation /\ o.id = i /\ o.kind # "scan" /\ Enqueue(o, queuedRefresh)
  BY <1>2, <1>3, ArgvFacts DEF Operation, OpKind
<1>5. QueueOK /\ queuedRefresh \in Id \cup {None}
  BY <1>1, Living DEF Parts, QueueTyped
<1> HIDE DEF o
<1>6. QueueOK'
  BY <1>3, <1>4, <1>5, EnqueueKeeps
<1>7. Times(schedules') /\ starPending' \in Id \cup {None}
  BY <1>1 DEF Parts, Rest
<1> QED
  BY <1>1, <1>6, <1>7, HandlerKeeps

LEMMA SetStarKeeps ==
    ASSUME Parts, SetStar
    PROVE  Parts'
<1>1. /\ accepting /\ schedules' = schedules
      /\ accepting' = accepting /\ installed' = installed
      /\ Publish
  BY DEF SetStar
<1>2. PICK i \in Fresh :
          /\ Enqueue([id |-> i, kind |-> "set-star", argv |-> <<"set-star">>], queuedRefresh)
          /\ starPending' = i
  BY DEF SetStar
<1> DEFINE o == [id |-> i, kind |-> "set-star", argv |-> <<"set-star">>]
<1>3. i \in Id /\ i \notin Live
  BY FreshFacts
<1>4. o \in Operation /\ o.id = i /\ o.kind # "scan" /\ Enqueue(o, queuedRefresh)
  BY <1>2, <1>3, ArgvFacts DEF Operation, OpKind
<1>5. QueueOK /\ queuedRefresh \in Id \cup {None}
  BY <1>1, Living DEF Parts, QueueTyped
<1> HIDE DEF o
<1>6. QueueOK'
  BY <1>3, <1>4, <1>5, EnqueueKeeps
<1>7. Times(schedules') /\ starPending' \in Id \cup {None}
  BY <1>1, <1>2, <1>3 DEF Parts, Rest
<1> QED
  BY <1>1, <1>6, <1>7, HandlerKeeps

LEMMA QueueUnchanged ==
    ASSUME QueueOK, UNCHANGED <<queueVars, transportVars>>
    PROVE  QueueOK'
BY DEF queueVars, transportVars, QueueOK, QueueTyped, Working

LEMMA WakeKeeps ==
    ASSUME Parts, Wake
    PROVE  Parts'
<1>1. /\ accepting /\ Publish
      /\ schedules' = [n \in Schedule |-> IF n \in Consumed THEN None ELSE schedules[n]]
      /\ accepting' = accepting /\ installed' = installed /\ starPending' = starPending
      /\ Refresh(FALSE) \/ UNCHANGED <<queueVars, transportVars>>
  BY DEF Wake
<1>2. QueueOK'
  BY <1>1, Living, RefreshKeeps, QueueUnchanged
<1>3. Times(schedules') /\ starPending' \in Id \cup {None}
  BY <1>1 DEF Parts, Rest, Times
<1> QED
  BY <1>1, <1>2, <1>3, HandlerKeeps

LEMMA RecordHandoffKeeps ==
    ASSUME Parts, RecordHandoff
    PROVE  Parts'
<1>1. /\ accepting /\ Publish
      /\ schedules' = [schedules EXCEPT !["handoff"] = HandoffDelay]
      /\ accepting' = accepting /\ installed' = installed /\ starPending' = starPending
      /\ UNCHANGED <<queueVars, transportVars>>
  BY DEF RecordHandoff
<1>2. QueueOK'
  BY <1>1, Living, QueueUnchanged
<1>3. Times(schedules') /\ starPending' \in Id \cup {None}
  BY <1>1, ServiceAssumption DEF Parts, Rest, Times
<1> QED
  BY <1>1, <1>2, <1>3, HandlerKeeps

\* A reply sets the schedules to delays the service may choose.
LEMMA ScheduleAfterTyped ==
    ASSUME Times(schedules), NEW o, NEW succeeded, NEW s, ScheduleAfter(o, succeeded, s)
    PROVE  Times(s)
<1>1. CASE s = schedules
  BY <1>1
<1>2. ASSUME NEW retry \in RetryDelays \cup {None},
             NEW periodic \in (IF o.kind = "scan" THEN PeriodicDelays
                               ELSE {schedules["periodic"]}),
             s = [schedules EXCEPT !["retry"] = retry, !["periodic"] = periodic]
      PROVE  Times(s)
  <2>1. retry \in Nat \cup {None} /\ periodic \in Nat \cup {None}
    BY <1>2, ServiceAssumption DEF Times, Schedule
  <2> QED
    BY <1>2, <2>1 DEF Times
<1> QED
  BY <1>1, <1>2 DEF ScheduleAfter

LEMMA FinishKeeps ==
    ASSUME Parts, Finish
    PROVE  Parts'
<1>1. /\ accepting /\ Publish
      /\ proc # None /\ proc.exited
      /\ ScheduleAfter(active, Succeeded(proc), schedules')
      /\ StartNext(queue, queuedRefresh)
      /\ accepting' = accepting /\ installed' = installed
      /\ starPending' = None \/ starPending' = starPending
  BY DEF Finish
<1>2. QueueTyped /\ OneScan(queue, queuedRefresh) /\ Rest
  BY DEF Parts
<1>3. /\ queue \in Seq(Operation) /\ queuedRefresh \in Id \cup {None}
      /\ proc.exited = TRUE
  BY <1>1, <1>2 DEF QueueTyped, Process
<1>4. QueueOK'
  BY <1>1, <1>2, <1>3, StartNextKeeps
<1>5. Times(schedules')
  BY <1>1, <1>2, ScheduleAfterTyped DEF Rest
<1>6. starPending' \in Id \cup {None}
  BY <1>1, <1>2 DEF Rest
<1> QED
  BY <1>1, <1>4, <1>5, <1>6, HandlerKeeps

\* Steps of the helper process: the controller's state is left alone.
LEMMA HelperKeeps ==
    ASSUME Parts, proc' \in Process \cup {None},
           accepting => proc # None /\ proc' # None /\ proc'.id = proc.id,
           UNCHANGED <<queueVars, accepting, schedules, timer, transportOp, installed, starPending>>
    PROVE  Parts'
<1>1. QueueTyped' /\ OneScan(queue, queuedRefresh)' /\ Rest'
  BY DEF Parts, queueVars, QueueTyped, Rest
<1>2. (accepting => Working)'
  BY DEF Parts, queueVars, Working
<1>3. TimerArmed'
  BY DEF Parts, TimerArmed
<1> QED
  BY <1>1, <1>2, <1>3 DEF Parts

LEMMA HelperExitKeeps ==
    ASSUME Parts, NEW ok \in BOOLEAN, HelperExit(ok)
    PROVE  Parts'
<1>1. proc \in Process
  BY DEF HelperExit, Parts, QueueTyped
<1>2. proc' = [proc EXCEPT !.exited = TRUE, !.ok = ok]
  BY DEF HelperExit
<1>3. proc' \in Process /\ proc'.id = proc.id
  BY <1>1, <1>2 DEF Process
<1>4. proc' # None /\ proc # None
  BY <1>1, <1>3, NoneAssumption
<1>5. UNCHANGED <<queueVars, accepting, schedules, timer, transportOp, installed, starPending>>
  BY DEF HelperExit
<1> QED
  BY <1>3, <1>4, <1>5, HelperKeeps

LEMMA KillKeeps ==
    ASSUME Parts, Kill
    PROVE  Parts'
<1>1. proc \in Process
  BY DEF Kill, Parts, QueueTyped
<1>2. proc' = [proc EXCEPT !.killed = TRUE]
  BY DEF Kill
<1>3. proc' \in Process /\ proc'.id = proc.id
  BY <1>1, <1>2 DEF Process
<1>4. proc' # None /\ proc # None
  BY <1>1, <1>3, NoneAssumption
<1>5. UNCHANGED <<queueVars, accepting, schedules, timer, transportOp, installed, starPending>>
  BY DEF Kill
<1> QED
  BY <1>3, <1>4, <1>5, HelperKeeps

\* finish is never reached without an operation while the service lives.
LEMMA FinishStoppedKeeps ==
    ASSUME Parts, FinishStopped
    PROVE  Parts'
<1>1. /\ proc # None /\ transportOp = None /\ proc' = None
      /\ UNCHANGED <<queueVars, accepting, schedules, timer, transportOp, installed, starPending>>
  BY DEF FinishStopped
<1>2. active # None => active.id # None
  BY ServiceAssumption DEF Parts, QueueTyped, Operation
<1>3. ~accepting
  BY <1>1, <1>2 DEF Parts, Working
<1> QED
  BY <1>1, <1>3, HelperKeeps

LEMMA ShutdownKeeps ==
    ASSUME Parts, Shutdown
    PROVE  Parts'
<1>1. Times(schedules') /\ Publish
  BY DEF Shutdown, Times
<1>2. timer' \in Nat \cup {None} /\ TimerArmed'
  BY <1>1, Published
<1>3. QueueTyped' /\ Rest'
  <2>1. /\ queue' = <<>> /\ active' = None /\ queuedRefresh' = None /\ transportOp' = None
        /\ proc' = proc
    BY DEF Shutdown
  <2>2. accepting' = FALSE /\ installed' = installed /\ starPending' = starPending
    BY DEF Shutdown
  <2>3. QueueTyped'
    BY <2>1 DEF Parts, QueueTyped
  <2>4. Rest'
    BY <1>1, <1>2, <2>2 DEF Parts, Rest
  <2> QED
    BY <2>3, <2>4
<1>4. OneScan(queue', queuedRefresh')
  <2>1. queue' = <<>> /\ queuedRefresh' = None
    BY DEF Shutdown
  <2> QED
    BY <2>1 DEF OneScan
<1>5. ~accepting'
  BY DEF Shutdown
<1> QED
  BY <1>2, <1>3, <1>4, <1>5 DEF Parts

LEMMA MoveHelperKeeps ==
    ASSUME Parts, MoveHelper
    PROVE  Parts'
<1>1. installed' \in BOOLEAN
  BY DEF MoveHelper
<1>2. UNCHANGED <<queueVars, accepting, schedules, timer, transportVars, starPending>>
  BY DEF MoveHelper
<1> QED
  BY <1>1, <1>2
     DEF Parts, queueVars, transportVars, QueueTyped, Rest, Working, TimerArmed

\* Time passes for the timer as it does for the schedule the timer stands for.
LEMMA TickKeeps ==
    ASSUME Parts, Tick
    PROVE  Parts'
<1>1. /\ schedules' = [n \in Schedule |-> Sooner(schedules[n])]
      /\ timer' = Sooner(timer)
      /\ UNCHANGED <<queueVars, accepting, transportVars, installed, starPending>>
  BY DEF Tick
<1>2. Times(schedules) /\ timer \in Nat \cup {None}
  BY DEF Parts, Rest
<1>3. \A d \in Nat \cup {None} : Sooner(d) \in Nat \cup {None} /\ (Sooner(d) = None <=> d = None)
  <2>1. Sooner(None) = None /\ None \notin Nat
    BY ServiceAssumption DEF Sooner
  <2>2. \A d \in Nat : Sooner(d) \in Nat
    BY ServiceAssumption DEF Sooner
  <2> QED
    BY <2>1, <2>2
<1>4. Times(schedules') /\ timer' \in Nat \cup {None}
  BY <1>1, <1>2, <1>3 DEF Times
<1>5. ASSUME accepting
      PROVE  timer' = Soonest(schedules')
  <2>1. \E n \in Schedule : schedules[n] # None
    BY DEF Tick
  <2>2. IsSoonest(timer, schedules)
    BY <1>2, <1>5, <2>1, SoonestFacts DEF Parts, TimerArmed
  <2>3. \A d, e \in Nat : d <= e => Sooner(d) <= Sooner(e)
    BY ServiceAssumption DEF Sooner
  <2>4. timer' \in Nat
    BY <1>1, <1>3, <1>4, <2>2, ServiceAssumption DEF IsSoonest
  <2>5. \E n \in Schedule : schedules'[n] = timer'
    BY <1>1, <2>2 DEF IsSoonest
  <2>6. ASSUME NEW n \in Schedule, schedules'[n] # None
        PROVE  timer' <= schedules'[n]
    <3>1. schedules[n] \in Nat \cup {None} /\ schedules'[n] = Sooner(schedules[n])
      BY <1>1, <1>2 DEF Times
    <3>2. schedules[n] # None /\ schedules[n] \in Nat
      BY <1>3, <2>6, <3>1
    <3>3. timer <= schedules[n] /\ timer \in Nat
      BY <2>2, <3>2 DEF IsSoonest
    <3> QED
      BY <1>1, <2>3, <3>1, <3>2, <3>3
  <2>7. IsSoonest(timer', schedules')
    BY <2>4, <2>5, <2>6 DEF IsSoonest
  <2> QED
    BY <1>4, <2>7, SoonestUnique
<1>6. TimerArmed'
  BY <1>1, <1>5 DEF TimerArmed
<1>7. QueueTyped' /\ OneScan(queue, queuedRefresh)' /\ (accepting => Working)'
  BY <1>1 DEF Parts, queueVars, transportVars, QueueTyped, Working
<1>8. Rest'
  BY <1>1, <1>4 DEF Parts, Rest
<1> QED
  BY <1>6, <1>7, <1>8 DEF Parts
-----------------------------------------------------------------------------
LEMMA InitParts == Init => Parts
<1> SUFFICES ASSUME Init
             PROVE  Parts
  OBVIOUS
<1> DEFINE i == CHOOSE j \in Id : TRUE
<1>1. i \in Id
  BY ServiceAssumption
<1>2. /\ queue = <<>>
      /\ active = [id |-> i, kind |-> "snapshot", argv |-> <<"snapshot">>]
      /\ queuedRefresh = None
      /\ accepting = TRUE
      /\ schedules = [n \in Schedule |-> IF n = "initial" THEN InitialDelay ELSE None]
      /\ timer = InitialDelay
      /\ proc = NewProcess(i)
      /\ transportOp = i
      /\ installed = TRUE
      /\ starPending = None
  BY DEF Init
<1> HIDE DEF i
<1>3. active \in Operation /\ active.id = i
  BY <1>1, <1>2, ArgvFacts DEF Operation, OpKind
<1>4. proc \in Process /\ proc.id = i
  BY <1>1, <1>2 DEF NewProcess, Process
<1>5. QueueTyped
  BY <1>1, <1>2, <1>3, <1>4 DEF QueueTyped
<1>6. OneScan(queue, queuedRefresh)
  BY <1>2 DEF OneScan
<1>7. Working
  BY <1>2, <1>3, <1>4, NoneAssumption DEF Working
<1>8. Rest
  BY <1>2, ServiceAssumption DEF Rest, Times
<1>9. TimerArmed
  <2>1. IsSoonest(InitialDelay, schedules) /\ Times(schedules)
    BY <1>2, ServiceAssumption DEF IsSoonest, Schedule, Times
  <2> QED
    BY <1>2, <2>1, SoonestUnique DEF TimerArmed
<1> QED
  BY <1>5, <1>6, <1>7, <1>8, <1>9 DEF Parts

LEMMA StepKeeps == Parts /\ [Next]_vars => Parts'
<1> SUFFICES ASSUME Parts, [Next]_vars
             PROVE  Parts'
  OBVIOUS
<1>1. CASE RequestRefresh
  BY <1>1, RequestRefreshKeeps
<1>2. CASE RequestInventory
  BY <1>2, RequestInventoryKeeps
<1>3. CASE SetStar
  BY <1>3, SetStarKeeps
<1>4. CASE Wake
  BY <1>4, WakeKeeps
<1>5. CASE RecordHandoff
  BY <1>5, RecordHandoffKeeps
<1>6. CASE \E ok \in BOOLEAN : HelperExit(ok)
  BY <1>6, HelperExitKeeps
<1>7. CASE Kill
  BY <1>7, KillKeeps
<1>8. CASE Finish
  BY <1>8, FinishKeeps
<1>9. CASE FinishStopped
  BY <1>9, FinishStoppedKeeps
<1>10. CASE Shutdown
  BY <1>10, ShutdownKeeps
<1>11. CASE MoveHelper
  BY <1>11, MoveHelperKeeps
<1>12. CASE Tick
  BY <1>12, TickKeeps
<1>13. CASE UNCHANGED vars
  BY <1>13 DEF vars, queueVars, transportVars, Parts, QueueTyped, Working, Rest, TimerArmed
<1> QED
  BY <1>1, <1>2, <1>3, <1>4, <1>5, <1>6, <1>7, <1>8, <1>9, <1>10, <1>11, <1>12, <1>13
     DEF Next

(***************************************************************************)
(* The inductive invariant of the service holds in every behaviour of its  *)
(* handlers, for any identities, queue bound and delays.                   *)
(***************************************************************************)
THEOREM ServiceInvariant == Spec => []IInv
<1>1. Init => Parts
  BY InitParts
<1>2. Parts /\ [Next]_vars => Parts'
  BY StepKeeps
<1>3. Parts => IInv
  BY InvariantParts
<1> QED
  BY <1>1, <1>2, <1>3, PTL DEF Spec

\* Type correctness of the service's state.
THEOREM ServiceTyped == Spec => []TypeOK
<1>1. IInv => TypeOK
  BY DEF IInv
<1> QED
  BY <1>1, ServiceInvariant, PTL

(***************************************************************************)
(* The queue is never wedged: while the service lives, an operation is     *)
(* active exactly when the helper works on it, and none waits behind none, *)
(* so complete is always called again (ServiceController.js startNext).    *)
(***************************************************************************)
THEOREM QueueNeverWedged == Spec => []NeverWedged
<1>1. IInv => NeverWedged
  BY DEF IInv
<1> QED
  BY <1>1, ServiceInvariant, PTL

(***************************************************************************)
(* Refreshes coalesce into one scan that really waits, whatever queue of   *)
(* other operations it waits in (ServiceController.js refresh).            *)
(***************************************************************************)
THEOREM RefreshesCoalesce == Spec => []OneScanWaits
<1>1. IInv => OneScanWaits
  BY DEF IInv
<1> QED
  BY <1>1, ServiceInvariant, PTL

(***************************************************************************)
(* The wake timer is armed for the earliest schedule after every handler,  *)
(* and stays so as time passes (publish, armWakeTimer).                    *)
(***************************************************************************)
THEOREM TimerAlwaysArmed == Spec => []TimerArmed
<1>1. IInv => TimerArmed
  BY DEF IInv
<1> QED
  BY <1>1, ServiceInvariant, PTL
-----------------------------------------------------------------------------
\* Every forced scan that waits is still there, forced, after the step.
ForcedStay ==
    \A o \in Waiting :
        o.kind = "scan" /\ Forced(o) =>
           \E p \in {queue'[i] : i \in DOMAIN queue'} \cup {active'} :
              p.id = o.id /\ p.kind = "scan" /\ Forced(p)

LEMMA UnchangedForced ==
    ASSUME queue' = queue
    PROVE  ForcedStay
BY DEF ForcedStay, Waiting

LEMMA EmptyForced ==
    ASSUME queue = <<>>
    PROVE  ForcedStay
BY DEF ForcedStay, Waiting

LEMMA EnqueueForced ==
    ASSUME QueueOK, NEW o \in Operation, NEW r, Enqueue(o, r)
    PROVE  ForcedStay
<1>1. CASE active # None /\ queue' = Append(queue, o)
  <2>1. /\ DOMAIN queue = 1..Len(queue) /\ DOMAIN queue' = 1..(Len(queue) + 1)
        /\ Len(queue) \in Nat
        /\ \A i \in 1..Len(queue) : queue'[i] = queue[i]
    BY <1>1, AppendFacts DEF QueueOK, QueueTyped
  <2>2. \A i \in DOMAIN queue : i \in DOMAIN queue' /\ queue'[i] = queue[i]
    BY <2>1
  <2> QED
    BY <2>2 DEF ForcedStay, Waiting
<1>2. CASE active = None
  <2>1. queue = <<>>
    BY <1>2 DEF QueueOK, Working
  <2> QED
    BY <2>1, EmptyForced
<1> QED
  BY <1>1, <1>2 DEF Enqueue

LEMMA RefreshForced ==
    ASSUME QueueOK, NEW force \in BOOLEAN, Refresh(force)
    PROVE  ForcedStay
<1>1. CASE /\ queuedRefresh # None
           /\ queue' = [i \in DOMAIN queue |->
                  IF force /\ queue[i].id = queuedRefresh THEN Upgraded(queue[i]) ELSE queue[i]]
  <2>1. /\ DOMAIN queue' = DOMAIN queue
        /\ \A i \in DOMAIN queue :
              /\ queue'[i].id = queue[i].id /\ queue'[i].kind = queue[i].kind
              /\ Forced(queue[i]) => Forced(queue'[i])
    BY <1>1, RefreshQueued
  <2> QED
    BY <2>1 DEF ForcedStay, Waiting
<1>2. ASSUME NEW i \in Fresh,
             Enqueue([id |-> i, kind |-> "scan", argv |-> ScanArgv(force)], i)
      PROVE  ForcedStay
  <2> DEFINE o == [id |-> i, kind |-> "scan", argv |-> ScanArgv(force)]
  <2>1. o \in Operation /\ Enqueue(o, i)
    BY <1>2, FreshFacts, ArgvFacts DEF Operation, OpKind
  <2> HIDE DEF o
  <2> QED
    BY <2>1, EnqueueForced
<1> QED
  BY <1>1, <1>2 DEF Refresh

LEMMA FinishForced ==
    ASSUME QueueTyped, Finish, installed
    PROVE  ForcedStay
<1>1. queue \in Seq(Operation) /\ StartNext(queue, queuedRefresh) /\ CanRun
  BY DEF QueueTyped, Finish, CanRun
<1>2. CASE queue = <<>>
  BY <1>2, EmptyForced
<1>3. CASE queue # <<>>
  <2>1. queue' = Tail(queue) /\ active' = Head(queue)
    BY <1>1, <1>3 DEF StartNext
  <2>2. /\ Head(queue) = queue[1]
        /\ \A i \in DOMAIN queue :
              i # 1 => i - 1 \in DOMAIN Tail(queue) /\ Tail(queue)[i - 1] = queue[i]
    BY <1>1, <1>3, TailFacts
  <2>3. \A i \in DOMAIN queue :
           queue[i] \in {queue'[j] : j \in DOMAIN queue'} \cup {active'}
    BY <2>1, <2>2
  <2> QED
    BY <2>3 DEF ForcedStay, Waiting
<1> QED
  BY <1>2, <1>3

(***************************************************************************)
(* A forced refresh is never downgraded, lost or overtaken by an ordinary  *)
(* one: once the waiting scan is forced it stays so until it starts, a     *)
(* missing helper drops it, or the service shuts down (refresh).           *)
(***************************************************************************)
THEOREM ForceNeverLost == Spec => ForceKept
<1>1. Init => Parts
  BY InitParts
<1>2. Parts /\ [Next]_vars => Parts'
  BY StepKeeps
<1> DEFINE Kept ==
        \A o \in Waiting :
          o.kind = "scan" /\ Forced(o) /\ accepting' /\ installed =>
             \E p \in {queue'[i] : i \in DOMAIN queue'} \cup {active'} :
                p.id = o.id /\ p.kind = "scan" /\ Forced(p)
<1>3. Parts /\ [Next]_vars => [Kept]_vars
  <2> SUFFICES ASSUME Parts, Next, accepting', installed
               PROVE  ForcedStay
    BY DEF ForcedStay
  <2>1. CASE RequestRefresh
    BY <2>1, Living, RefreshForced DEF RequestRefresh
  <2>2. CASE RequestInventory
    <3>1. PICK i \in Fresh :
              Enqueue([id |-> i, kind |-> "inventory", argv |-> <<"inventory">>], queuedRefresh)
      BY <2>2 DEF RequestInventory
    <3> DEFINE o == [id |-> i, kind |-> "inventory", argv |-> <<"inventory">>]
    <3>2. o \in Operation /\ Enqueue(o, queuedRefresh)
      BY <3>1, FreshFacts, ArgvFacts DEF Operation, OpKind
    <3>3. QueueOK
      BY <2>2, Living DEF RequestInventory
    <3> HIDE DEF o
    <3> QED
      BY <3>2, <3>3, EnqueueForced
  <2>3. CASE SetStar
    <3>1. PICK i \in Fresh :
              Enqueue([id |-> i, kind |-> "set-star", argv |-> <<"set-star">>], queuedRefresh)
      BY <2>3 DEF SetStar
    <3> DEFINE o == [id |-> i, kind |-> "set-star", argv |-> <<"set-star">>]
    <3>2. o \in Operation /\ Enqueue(o, queuedRefresh)
      BY <3>1, FreshFacts, ArgvFacts DEF Operation, OpKind
    <3>3. QueueOK
      BY <2>3, Living DEF SetStar
    <3> HIDE DEF o
    <3> QED
      BY <3>2, <3>3, EnqueueForced
  <2>4. CASE Wake
    <3>1. accepting /\ (Refresh(FALSE) \/ queue' = queue)
      BY <2>4 DEF Wake, queueVars
    <3> QED
      BY <3>1, Living, RefreshForced, UnchangedForced
  <2>5. CASE Finish
    BY <2>5, FinishForced DEF Parts
  <2>6. CASE \/ RecordHandoff \/ (\E ok \in BOOLEAN : HelperExit(ok)) \/ Kill \/ FinishStopped
             \/ MoveHelper \/ Tick
    <3>1. queue' = queue
      BY <2>6 DEF RecordHandoff, HelperExit, Kill, FinishStopped, MoveHelper, Tick, queueVars
    <3> QED
      BY <3>1, UnchangedForced
  <2>7. CASE Shutdown
    BY <2>7 DEF Shutdown
  <2> QED
    BY <2>1, <2>2, <2>3, <2>4, <2>5, <2>6, <2>7 DEF Next
<1> QED
  BY <1>1, <1>2, <1>3, PTL DEF Spec, ForceKept
=============================================================================
