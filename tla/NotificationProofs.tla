------------------------- MODULE NotificationProofs -------------------------
(***************************************************************************)
(* Proofs about NotificationDispatch, for every set of helpers, kinds and  *)
(* fingerprints, every lease and however long a helper waits for the lock. *)
(***************************************************************************)
EXTENDS NotificationDispatch, TLAPS

\* Pruning forgets settled entries only, and never touches an owner entry.
LEMMA PruneLemma ==
    ASSUME NEW d \in State
    PROVE  /\ Prune(d) \in State
           /\ Prune(d).owner = d.owner
           /\ \A f \in Fingerprint :
                \/ Prune(d).ledger[f] = d.ledger[f]
                \/ /\ d.ledger[f].status # "pending" /\ d.ledger[f].recorded = "aged"
                   /\ Prune(d).ledger[f] = Absent
  BY LeaseAssumption DEF Prune, State, Entry, Status, Token, Absent

\* Disowning renames tokens; nothing else of an entry changes.
LEMMA DisownLemma ==
    ASSUME NEW d \in State, NEW h \in Helper
    PROVE  /\ Disown(d, h) \in State
           /\ \A f \in Fingerprint :
                /\ Disown(d, h).ledger[f].status = d.ledger[f].status
                /\ Disown(d, h).ledger[f].left = d.ledger[f].left
                /\ Disown(d, h).ledger[f].recorded = d.ledger[f].recorded
                /\ Disown(d, h).ledger[f].token = Orphaned(d.ledger[f].token, h)
           /\ \A k \in Kind :
                /\ Disown(d, h).owner[k].left = d.owner[k].left
                /\ Disown(d, h).owner[k].token = Orphaned(d.owner[k].token, h)
  BY DEF Disown, State, Entry, Owner, Token, Orphaned

\* One time unit lowers every lease that has not run out by one.
LEMMA ElapseLemma ==
    ASSUME NEW d \in State
    PROVE  /\ Elapse(d) \in State
           /\ \A f \in Fingerprint :
                /\ Elapse(d).ledger[f].status = d.ledger[f].status
                /\ Elapse(d).ledger[f].token = d.ledger[f].token
                /\ Elapse(d).ledger[f].recorded = d.ledger[f].recorded
                /\ Elapse(d).ledger[f].left = Sooner(d.ledger[f].left)
           /\ \A k \in Kind :
                /\ Elapse(d).owner[k].token = d.owner[k].token
                /\ Elapse(d).owner[k].left = Sooner(d.owner[k].left)
  BY LeaseAssumption DEF Elapse, State, Entry, Owner, Sooner

\* Passing the retention age leaves every lease expired and every token in place.
LEMMA ExpireLemma ==
    ASSUME NEW d \in State
    PROVE  /\ Expire(d) \in State
           /\ \A f \in Fingerprint :
                /\ Expire(d).ledger[f].status = d.ledger[f].status
                /\ Expire(d).ledger[f].token = d.ledger[f].token
                /\ Expire(d).ledger[f].recorded =
                      IF d.ledger[f].status # "absent" THEN "aged" ELSE d.ledger[f].recorded
                /\ Expire(d).ledger[f].left = -MaxAge
           /\ \A k \in Kind : Expire(d).owner[k].token = d.owner[k].token
  <1> DEFINE n == Expire(d)
             entry(f) == [status |-> d.ledger[f].status, token |-> d.ledger[f].token,
                          left |-> -MaxAge,
                          recorded |-> IF d.ledger[f].status # "absent"
                                       THEN "aged" ELSE d.ledger[f].recorded]
             own(k) == [d.owner[k] EXCEPT !.left = -MaxAge]
  <1>1. n = [ledger |-> [f \in Fingerprint |-> entry(f)],
             owner |-> [k \in Kind |-> own(k)]]
    BY DEF Expire
  <1>2. ASSUME NEW f \in Fingerprint
        PROVE  /\ entry(f) \in Entry
               /\ entry(f).status = d.ledger[f].status
               /\ entry(f).token = d.ledger[f].token
               /\ entry(f).recorded =
                     IF d.ledger[f].status # "absent" THEN "aged" ELSE d.ledger[f].recorded
               /\ entry(f).left = -MaxAge
    <2>1. d.ledger[f] \in Entry
      BY DEF State
    <2>2. -MaxAge \in Int
      BY LeaseAssumption
    <2> QED
      BY <2>1, <2>2 DEF Entry
  <1>3. ASSUME NEW k \in Kind
        PROVE  own(k) \in Owner /\ own(k).token = d.owner[k].token
    <2>1. d.owner[k] \in Owner
      BY DEF State
    <2> QED
      BY <2>1, LeaseAssumption DEF Owner
  <1> HIDE DEF n, entry, own
  <1>4. n \in State
    BY <1>1, <1>2, <1>3 DEF State
  <1>5. \A f \in Fingerprint : n.ledger[f] = entry(f)
    BY <1>1
  <1>6. \A k \in Kind : n.owner[k] = own(k)
    BY <1>1
  <1>7. QED
    BY <1>2, <1>3, <1>4, <1>5, <1>6 DEF n

\* Turning a watch off drops pending entries and nothing else.
LEMMA TurnOffLemma ==
    ASSUME NEW d \in State, NEW r \in Reference
    PROVE  /\ WithoutActiveReferences(d, r) \in State
           /\ WithoutActiveReferences(d, r).owner = d.owner
           /\ \A f \in Fingerprint :
                \/ WithoutActiveReferences(d, r).ledger[f] = d.ledger[f]
                \/ WithoutActiveReferences(d, r).ledger[f] = Absent
  BY LeaseAssumption DEF WithoutActiveReferences, State, Entry, Status, Token, Absent

\* What a granted reservation does to the owner entries and the ledger.
ReserveGranted(n, d, k, c, lag, h) ==
    /\ ~LiveLease(d.owner[k], lag)
    /\ n.owner[k] = [token |-> h, left |-> Lease - lag]
    /\ \A j \in Kind \ {k} : n.owner[j] = d.owner[j]
    /\ \E f \in c : /\ FKind(f) = k
                    /\ n.ledger[f].status = "pending"
                    /\ n.ledger[f].token = h
    /\ \A f \in Fingerprint :
         \/ n.ledger[f] = d.ledger[f]
         \/ /\ f \in c
            /\ FKind(f) = k
            /\ n.ledger[f].status = "pending"
            /\ n.ledger[f].token = h
            /\ n.ledger[f].left = Lease - lag
         \/ /\ FKind(f) = k
            /\ n.ledger[f].status = "suppressed"
            /\ n.ledger[f].token = d.ledger[f].token

\* A reservation is refused and changes nothing, or is granted.
LEMMA ReserveLemma ==
    ASSUME NEW d \in State, NEW k \in Kind, NEW c \in SUBSET Fingerprint,
           NEW lag \in 0..MaxAge, NEW h \in Helper
    PROVE  /\ ReserveBatch(d, k, c, lag, h) \in State
           /\ \/ ReserveBatch(d, k, c, lag, h) = d
              \/ ReserveGranted(ReserveBatch(d, k, c, lag, h), d, k, c, lag, h)
  <1> DEFINE n == ReserveBatch(d, k, c, lag, h)
             claimed == Claimed(d, k, c, lag)
  <1>1. CASE LiveLease(d.owner[k], lag) \/ claimed = {}
    BY <1>1 DEF ReserveBatch
  <1>2. CASE ~(LiveLease(d.owner[k], lag) \/ claimed = {})
    <2>1. /\ n.owner = [d.owner EXCEPT ![k] = [token |-> h, left |-> Lease - lag]]
          /\ n.ledger = [f \in Fingerprint |->
                 IF f \in claimed
                 THEN [status |-> "pending", token |-> h,
                       left |-> Lease - lag, recorded |-> "recent"]
                 ELSE IF d.ledger[f].status = "pending" /\ SupersededBy(f, claimed)
                      THEN [d.ledger[f] EXCEPT !.status = "suppressed"]
                      ELSE d.ledger[f]]
          /\ n = [ledger |-> n.ledger, owner |-> n.owner]
      BY <1>2 DEF ReserveBatch
    <2>2. Lease - lag \in Int
      BY LeaseAssumption
    <2>3. n \in State
      <3>1. n.owner \in [Kind -> Owner]
        BY <2>1, <2>2 DEF State, Owner, Token
      <3>2. ASSUME NEW f \in Fingerprint
            PROVE  n.ledger[f] \in Entry
        <4>1. d.ledger[f] \in Entry
          BY DEF State
        <4>2. [d.ledger[f] EXCEPT !.status = "suppressed"] \in Entry
          BY <4>1 DEF Entry, Status
        <4>3. [status |-> "pending", token |-> h,
               left |-> Lease - lag, recorded |-> "recent"] \in Entry
          BY <2>2 DEF Entry, Status, Token
        <4> QED
          BY <2>1, <4>1, <4>2, <4>3
      <3>3. n.ledger \in [Fingerprint -> Entry]
        BY <2>1, <3>2
      <3> QED
        BY <2>1, <3>1, <3>3 DEF State
    <2>4. \A f \in claimed : f \in c /\ FKind(f) = k
      BY DEF Claimed
    <2>5. \A f \in Fingerprint : SupersededBy(f, claimed) => FKind(f) = k
      BY <2>4, FingerprintAssumption DEF SupersededBy, FKind
    <2>6. \A f \in Fingerprint :
                          \/ n.ledger[f] = d.ledger[f]
                          \/ /\ f \in c
                             /\ FKind(f) = k
                             /\ n.ledger[f].status = "pending"
                             /\ n.ledger[f].token = h
                             /\ n.ledger[f].left = Lease - lag
                          \/ /\ FKind(f) = k
                             /\ n.ledger[f].status = "suppressed"
                             /\ n.ledger[f].token = d.ledger[f].token
      BY <2>1, <2>4, <2>5 DEF State, Entry
    <2>7. \E f \in c : /\ FKind(f) = k
                      /\ n.ledger[f].status = "pending"
                      /\ n.ledger[f].token = h
      <3>1. PICK f \in claimed : TRUE
        BY <1>2
      <3>2. f \in Fingerprint
        BY <3>1, <2>4
      <3> QED
        BY <2>1, <2>4, <3>1, <3>2
    <2> QED
      BY <1>2, <2>1, <2>3, <2>6, <2>7 DEF State, ReserveGranted
  <1> QED
    BY <1>1, <1>2

\* What an accepted completion does to the owner entries and the ledger.
CompleteAccepted(n, d, k, b, h) ==
    /\ d.owner[k].token = h
    /\ n.owner[k] = NoOwner
    /\ \A j \in Kind \ {k} : n.owner[j] = d.owner[j]
    /\ \A f \in Fingerprint :
         \/ /\ ~(f \in b /\ d.ledger[f].token = h)
            /\ n.ledger[f] = d.ledger[f]
         \/ f \in b /\ d.ledger[f].token = h /\ n.ledger[f].token = NoToken

\* A completion is refused and changes nothing, or is accepted.
LEMMA CompleteLemma ==
    ASSUME NEW d \in State, NEW k \in Kind, NEW b \in SUBSET Fingerprint,
           NEW h \in Helper, NEW r \in Result
    PROVE  /\ CompleteBatch(d, k, b, h, r) \in State
           /\ \/ CompleteBatch(d, k, b, h, r) = d /\ d.owner[k].token # h
              \/ CompleteAccepted(CompleteBatch(d, k, b, h, r), d, k, b, h)
  <1>1. DeliveryStatus(r) \in Status
    BY DEF DeliveryStatus, Result, Status
  <1>2. CASE d.owner[k].token # h
    BY <1>2 DEF CompleteBatch
  <1>3. CASE d.owner[k].token = h
    <2> DEFINE n == CompleteBatch(d, k, b, h, r)
               settled(f) == [status |-> DeliveryStatus(r), token |-> NoToken,
                              left |-> -MaxAge, recorded |-> d.ledger[f].recorded]
    <2>1. n = [ledger |-> [f \in Fingerprint |->
                  IF f \in b /\ d.ledger[f].token = h THEN settled(f) ELSE d.ledger[f]],
               owner |-> [d.owner EXCEPT ![k] = NoOwner]]
      BY <1>3 DEF CompleteBatch
    <2>2. ASSUME NEW f \in Fingerprint
          PROVE  d.ledger[f] \in Entry /\ settled(f) \in Entry
                 /\ settled(f).token = NoToken
      <3>1. d.ledger[f] \in Entry
        BY DEF State
      <3>2. -MaxAge \in Int /\ NoToken \in Token
        BY LeaseAssumption DEF Token
      <3> QED
        BY <3>1, <3>2, <1>1 DEF Entry
    <2>3. [d.owner EXCEPT ![k] = NoOwner] \in [Kind -> Owner]
      BY LeaseAssumption DEF State, Owner, NoOwner, Token
    <2> HIDE DEF n, settled
    <2>4. n \in State
      BY <2>1, <2>2, <2>3 DEF State
    <2>5. /\ n.owner[k] = NoOwner
          /\ \A j \in Kind \ {k} : n.owner[j] = d.owner[j]
      BY <2>1 DEF State
    <2>6. \A f \in Fingerprint :
             \/ /\ ~(f \in b /\ d.ledger[f].token = h)
                /\ n.ledger[f] = d.ledger[f]
             \/ f \in b /\ d.ledger[f].token = h /\ n.ledger[f].token = NoToken
      BY <2>1, <2>2
    <2> QED
      BY <1>3, <2>4, <2>5, <2>6 DEF n, CompleteAccepted
  <1> QED
    BY <1>2, <1>3 DEF CompleteBatch
-----------------------------------------------------------------------------
\* The kind a dispatcher is at is a kind.
LEMMA KindAtLemma ==
    ASSUME TypeOK, NEW h \in Helper
    PROVE  KindAt(h) \in Kind
  BY DispatchAssumption DEF TypeOK, KindAt

LEMMA EmptyType == EmptyState \in State
  BY LeaseAssumption DEF EmptyState, Absent, NoOwner, State, Entry, Owner, Status, Token

LEMMA BoundsType == 1 \in 1..Len(KindOrder) /\ 0 \in 0..MaxAge /\ MaxAge \in 0..MaxAge
  BY DispatchAssumption, LeaseAssumption

\* The parts of the state that a helper owns, and the others.
HelperType ==
    /\ publisher \in Helper \cup {None}
    /\ pc \in [Helper -> Point]
    /\ turn \in [Helper -> 1..Len(KindOrder)]
    /\ cands \in [Helper -> SUBSET Fingerprint]
    /\ batch \in [Helper -> SUBSET Fingerprint]
    /\ result \in [Helper -> Result]
    /\ age \in [Helper -> 0..MaxAge]
    /\ undone \in [Helper -> BOOLEAN]

ScanType ==
    /\ loaded \in [Helper -> State]
    /\ copied \in [Helper -> SUBSET WatchReference]
    /\ missed \in [Helper -> SUBSET (Helper \cup {None})]

StoreType ==
    /\ db \in State
    /\ watches \in SUBSET WatchReference
    /\ evidence \in [Reference -> Fingerprint \cup {None}]
    /\ published \in SUBSET Fingerprint

LEMMA TypeParts == TypeOK <=> HelperType /\ ScanType /\ StoreType
  BY DEF TypeOK, HelperType, ScanType, StoreType

LEMMA TypePartsNext == TypeOK' <=> HelperType' /\ ScanType' /\ StoreType'
  BY DEF TypeOK, HelperType, ScanType, StoreType

\* Ending a dispatch, or moving on to the next kind, keeps its variables typed.
LEMMA ExitType ==
    ASSUME HelperType, NEW h \in Helper, Exit(h)
    PROVE  HelperType'
  BY BoundsType DEF Exit, HelperType, Result, Point

LEMMA NextKindType ==
    ASSUME HelperType, NEW h \in Helper, NextKind(h)
    PROVE  HelperType'
  <1>1. Len(KindOrder) \in Nat /\ Len(KindOrder) >= 1
    BY DispatchAssumption
  <1>2. CASE turn[h] < Len(KindOrder)
    <2>1. turn[h] + 1 \in 1..Len(KindOrder) /\ ~(turn[h] >= Len(KindOrder))
      BY <1>1, <1>2 DEF HelperType
    <2>2. /\ turn' = [turn EXCEPT ![h] = turn[h] + 1]
          /\ pc' = [pc EXCEPT ![h] = "ready"]
          /\ batch' = [batch EXCEPT ![h] = {}]
          /\ result' = [result EXCEPT ![h] = "retryable"]
          /\ age' = [age EXCEPT ![h] = 0]
          /\ undone' = [undone EXCEPT ![h] = FALSE]
          /\ cands' = cands /\ publisher' = publisher
      BY <2>1 DEF NextKind
    <2> QED
      BY <2>1, <2>2, BoundsType DEF HelperType, Result, Point
  <1>3. CASE turn[h] >= Len(KindOrder)
    <2>1. Exit(h)
      BY <1>1, <1>3 DEF NextKind, HelperType
    <2> QED
      BY <2>1, ExitType
  <1> QED
    BY <1>1, <1>2, <1>3 DEF HelperType

\* Who missed a write is a set of helpers, and of clicks on stars.
LEMMA MissingType ==
    ASSUME ScanType, NEW w \in Helper \cup {None}
    PROVE  Missing(w) \in [Helper -> SUBSET (Helper \cup {None})]
  BY DEF ScanType, Missing

\* Claiming and completing yield a well-formed state.
LEMMA ClaimedStateType ==
    ASSUME TypeOK, NEW h \in Helper
    PROVE  ClaimedState(h) \in State
  <1>1. age[h] \in 0..MaxAge /\ cands[h] \in SUBSET Fingerprint
    BY DEF TypeOK
  <1>2. Disown(Prune(db), h) \in State
    BY PruneLemma, DisownLemma DEF TypeOK
  <1>3. ReserveBatch(Disown(Prune(db), h), KindAt(h), cands[h], age[h], h) \in State
    BY <1>1, <1>2, KindAtLemma, ReserveLemma
  <1> QED
    BY <1>3, PruneLemma DEF ClaimedState

\* A completion, with the pruning before and after it.
CompletedState(h) ==
    Prune(CompleteBatch(Prune(db), KindAt(h), batch[h], h, result[h]))

LEMMA CompletedStateType ==
    ASSUME TypeOK, NEW h \in Helper
    PROVE  CompletedState(h) \in State
  <1>1. Prune(db) \in State
    BY PruneLemma DEF TypeOK
  <1>2. CompleteBatch(Prune(db), KindAt(h), batch[h], h, result[h]) \in State
    BY <1>1, KindAtLemma, CompleteLemma DEF TypeOK
  <1> QED
    BY <1>2, PruneLemma DEF CompletedState

(***************************************************************************)
(* Type correctness: the stored ledger and what scans have loaded of it    *)
(* stay well formed, and the helpers stay at program points of a scan and  *)
(* of NotificationCoordinator.dispatch.                                    *)
(***************************************************************************)
LEMMA TypeStep ==
    ASSUME TypeOK, [Next]_vars
    PROVE  TypeOK'
  <1>0. HelperType /\ ScanType /\ StoreType
    BY TypeParts
  <1> SUFFICES HelperType' /\ ScanType' /\ StoreType'
    BY TypePartsNext
  <1>1. ASSUME NEW h \in Helper, Scan(h)
        PROVE  HelperType' /\ ScanType' /\ StoreType'
    <2>1. Prune(db) \in State
      BY <1>0, PruneLemma DEF StoreType
    <2>2. HelperType'
      BY <1>0, <1>1 DEF Scan, HelperType, dispatchVars, Point
    <2>3. ScanType'
      BY <1>0, <1>1, <2>1 DEF Scan, ScanType, StoreType
    <2>4. StoreType'
      BY <1>0, <1>1, <2>1 DEF Scan, StoreType, report
    <2> QED
      BY <2>2, <2>3, <2>4
  <1>2. ASSUME NEW h \in Helper, Commit(h)
        PROVE  HelperType' /\ ScanType' /\ StoreType'
    <2>1. Prune(loaded[h]) \in State
      BY <1>0, PruneLemma DEF ScanType
    <2>2. CurrentCandidates \in SUBSET Fingerprint
      BY DEF CurrentCandidates
    <2>3. pc' \in [Helper -> Point]
      BY <1>0, <1>2 DEF Commit, HelperType, Point
    <2>4. undone' \in [Helper -> BOOLEAN]
      <3>1. undone' = [g \in Helper |-> undone[g] \/ (InFlight(g) /\ g \in missed[h])]
        BY <1>2 DEF Commit
      <3> QED
        BY <3>1, Zenon
    <2>5. HelperType'
      BY <1>0, <1>2, <2>2, <2>3, <2>4 DEF Commit, HelperType
    <2>6. ScanType'
      BY <1>0, <1>2, EmptyType DEF Commit, ScanType
    <2>7. StoreType'
      BY <1>0, <1>2, <2>1, <2>2 DEF Commit, StoreType, ScanType
    <2> QED
      BY <2>5, <2>6, <2>7
  <1>3. ASSUME NEW h \in Helper, Refused(h)
        PROVE  HelperType' /\ ScanType' /\ StoreType'
    <2>1. Prune(db) \in State
      BY <1>0, PruneLemma DEF StoreType
    <2>2. HelperType'
      BY <1>0, <1>3, ExitType DEF Refused
    <2> QED
      BY <1>0, <1>3, <2>1, <2>2 DEF Refused, ScanType, StoreType, scans, report
  <1>4. ASSUME NEW h \in Helper, Dispatch(h)
        PROVE  HelperType' /\ ScanType' /\ StoreType'
    <2>1. Prune(db) \in State
      BY <1>0, PruneLemma DEF StoreType
    <2>2. HelperType'
      BY <1>0, <1>4 DEF Dispatch, HelperType, Point
    <2> QED
      BY <1>0, <1>4, <2>1, <2>2 DEF Dispatch, ScanType, StoreType, scans, report
  <1>5. ASSUME NEW h \in Helper, Claim(h)
        PROVE  HelperType' /\ ScanType' /\ StoreType'
    <2> DEFINE won == BatchOf(db', KindAt(h), cands[h], h)
    <2>1. db' \in State
      BY <1>5, ClaimedStateType DEF Claim
    <2>2. StoreType'
      BY <1>0, <1>5, <2>1 DEF Claim, StoreType, report
    <2>3. loaded' \in [Helper -> State]
      BY <1>0, <1>5, DisownLemma DEF Claim, ScanType
    <2>4. missed' = missed \/ missed' = Missing(h)
      BY <1>5 DEF Claim
    <2>5. ScanType'
      BY <1>0, <1>5, <2>3, <2>4, MissingType DEF Claim, ScanType
    <2>6. won \in SUBSET Fingerprint
      BY <1>0 DEF HelperType, BatchOf
    <2>7. CASE won = {}
      BY <1>0, <1>5, <2>2, <2>5, <2>7, NextKindType DEF Claim
    <2>8. CASE won # {}
      <3>1. /\ pc' = [pc EXCEPT ![h] = "running"]
            /\ batch' = [batch EXCEPT ![h] = won]
            /\ publisher' = publisher /\ turn' = turn /\ cands' = cands
            /\ result' = result /\ age' = age /\ undone' = undone
        BY <1>5, <2>8 DEF Claim
      <3>2. HelperType'
        BY <1>0, <2>6, <3>1 DEF HelperType, Point
      <3> QED
        BY <2>2, <2>5, <3>2
    <2> QED
      BY <2>7, <2>8
  <1>6. ASSUME NEW h \in Helper, NEW r \in Result, Notify(h, r)
        PROVE  HelperType' /\ ScanType' /\ StoreType'
    BY <1>0, <1>6 DEF Notify, HelperType, ScanType, StoreType, Point, stored, report, scans
  <1>7. ASSUME NEW h \in Helper, Complete(h)
        PROVE  HelperType' /\ ScanType' /\ StoreType'
    <2>1. db' \in State
      BY <1>7, CompletedStateType DEF Complete, CompletedState
    <2>2. HelperType'
      BY <1>0, <1>7, NextKindType DEF Complete
    <2>3. missed' = missed \/ missed' = Missing(h)
      BY <1>7 DEF Complete
    <2>4. ScanType'
      BY <1>0, <1>7, <2>3, MissingType DEF Complete, ScanType
    <2> QED
      BY <1>0, <1>7, <2>1, <2>2, <2>4 DEF Complete, StoreType, report
  <1>8. ASSUME NEW h \in Helper, Crash(h)
        PROVE  HelperType' /\ ScanType' /\ StoreType'
    <2>1. HelperType'
      BY <1>0, <1>8, ExitType DEF Crash
    <2> QED
      BY <1>0, <1>8, <2>1, EmptyType DEF Crash, ScanType, StoreType, stored, report
  <1>9. ASSUME NEW r \in Reference, Publish(r)
        PROVE  HelperType' /\ ScanType' /\ StoreType'
    BY <1>0, <1>9 DEF Publish, HelperType, ScanType, StoreType, stored, scans, dispatchVars
  <1>10. ASSUME NEW r \in Reference, TurnOff(r) \/ TurnOn(r)
         PROVE  HelperType' /\ ScanType' /\ StoreType'
    <2>1. db' \in State
      BY <1>0, <1>10, TurnOffLemma, PruneLemma DEF TurnOff, TurnOn, StoreType
    <2>2. HelperType'
      BY <1>0, <1>10 DEF TurnOff, TurnOn, HelperType, dispatchVars
    <2>3. ScanType'
      BY <1>0, <1>10, MissingType DEF TurnOff, TurnOn, ScanType
    <2>4. StoreType'
      BY <1>0, <1>10, <2>1 DEF TurnOff, TurnOn, StoreType, report
    <2> QED
      BY <2>2, <2>3, <2>4
  <1>11. ASSUME Tick \/ Retire
         PROVE  HelperType' /\ ScanType' /\ StoreType'
    <2>1. db' \in State
      BY <1>0, <1>11, ElapseLemma, ExpireLemma DEF Tick, Retire, StoreType
    <2>2. loaded' \in [Helper -> State]
      BY <1>0, <1>11, ElapseLemma, ExpireLemma DEF Tick, Retire, ScanType
    <2>3. age' \in [Helper -> 0..MaxAge]
      BY <1>0, <1>11, LeaseAssumption, BoundsType DEF Tick, Retire, Later, HelperType
    <2>4. HelperType'
      BY <1>0, <1>11, <2>3 DEF Tick, Retire, HelperType
    <2> QED
      BY <1>0, <1>11, <2>1, <2>2, <2>4 DEF Tick, Retire, ScanType, StoreType, report
  <1>12. CASE UNCHANGED vars
    BY <1>0, <1>12
    DEF vars, stored, report, scans, dispatchVars, HelperType, ScanType, StoreType
  <1> QED
    BY <1>1, <1>2, <1>3, <1>4, <1>5, <1>6, <1>7, <1>8, <1>9, <1>10, <1>11, <1>12
    DEF Next, HelperStep

(***************************************************************************)
(* The ledger, the scans and the dispatchers stay well typed, whatever the *)
(* helpers, kinds, fingerprints and lease.                                 *)
(***************************************************************************)
THEOREM TypeCorrect == Spec => []TypeOK
  <1>1. Init => TypeOK
    BY EmptyType, BoundsType DEF Init, TypeOK, Result, Point
  <1> QED
    BY <1>1, TypeStep, PTL DEF Spec
-----------------------------------------------------------------------------
\* An entry of d is the same in n, or was settled and has been forgotten.
Kept(n, d, f) ==
    \/ n.ledger[f] = d.ledger[f]
    \/ /\ n.ledger[f] = Absent
       /\ d.ledger[f].status # "pending" /\ d.ledger[f].recorded = "aged"

\* The same, but the older tokens of h have been renamed.
KeptBut(n, d, f, h) ==
    \/ /\ n.ledger[f].status = d.ledger[f].status
       /\ n.ledger[f].left = d.ledger[f].left
       /\ n.ledger[f].recorded = d.ledger[f].recorded
       /\ n.ledger[f].token = Orphaned(d.ledger[f].token, h)
    \/ /\ n.ledger[f].status = "absent"
       /\ n.ledger[f].token = NoToken
       /\ d.ledger[f].status # "pending" /\ d.ledger[f].recorded = "aged"

OwnerBut(n, d, j, h) ==
    /\ n.owner[j].left = d.owner[j].left
    /\ n.owner[j].token = Orphaned(d.owner[j].token, h)

\* A refused and a granted claim of h, as changes from d to n.
ClaimRefused(n, d, h) ==
    /\ \A j \in Kind : OwnerBut(n, d, j, h)
    /\ \A f \in Fingerprint : KeptBut(n, d, f, h)

ClaimGranted(n, d, k, c, lag, h) ==
    /\ d.owner[k].token \notin {NoToken, h} => ~(d.owner[k].left > -lag)
    /\ d.owner[k].token = h => ~(d.owner[k].left > -lag)
    /\ n.owner[k].token = h /\ n.owner[k].left = Lease - lag
    /\ \A j \in Kind \ {k} : OwnerBut(n, d, j, h)
    /\ \E f \in c : FKind(f) = k /\ n.ledger[f].token = h
    /\ \A f \in Fingerprint :
         \/ KeptBut(n, d, f, h)
         \/ /\ f \in c
            /\ FKind(f) = k
            /\ n.ledger[f].status = "pending"
            /\ n.ledger[f].token = h
            /\ n.ledger[f].left = Lease - lag
         \/ /\ FKind(f) = k
            /\ n.ledger[f].status # "pending"
            /\ n.ledger[f].token \in {NoToken, Orphaned(d.ledger[f].token, h)}

\* A claim, with its fresh token and the pruning before and after it.
LEMMA ClaimedFacts ==
    ASSUME TypeOK, NEW h \in Helper
    PROVE  \/ ClaimRefused(ClaimedState(h), db, h)
           \/ ClaimGranted(ClaimedState(h), db, KindAt(h), cands[h], age[h], h)
  <1> DEFINE p == Prune(db)
             q == Disown(p, h)
             k == KindAt(h)
             m == ReserveBatch(q, k, cands[h], age[h], h)
             n == Prune(m)
  <1>1. age[h] \in 0..MaxAge /\ cands[h] \in SUBSET Fingerprint /\ k \in Kind
    BY KindAtLemma DEF TypeOK
  <1>2. /\ p \in State
        /\ p.owner = db.owner
        /\ \A f \in Fingerprint : Kept(p, db, f)
    BY PruneLemma DEF TypeOK, Kept
  <1> HIDE DEF p, k
  <1>3. Absent.status = "absent" /\ Absent.token = NoToken /\ NoToken # h /\ Orphan # h
        /\ Orphan # NoToken
    BY NamesAssumption DEF Absent
  <1>4. /\ q \in State
        /\ \A j \in Kind : OwnerBut(q, db, j, h)
        /\ \A f \in Fingerprint : KeptBut(q, db, f, h) /\ q.ledger[f].token # h
    <2>1. /\ q \in State
          /\ \A f \in Fingerprint :
                /\ q.ledger[f].status = p.ledger[f].status
                /\ q.ledger[f].left = p.ledger[f].left
                /\ q.ledger[f].recorded = p.ledger[f].recorded
                /\ q.ledger[f].token = Orphaned(p.ledger[f].token, h)
          /\ \A j \in Kind :
                /\ q.owner[j].left = p.owner[j].left
                /\ q.owner[j].token = Orphaned(p.owner[j].token, h)
      BY <1>2, DisownLemma
    <2> HIDE DEF q
    <2>2. \A f \in Fingerprint : KeptBut(q, db, f, h) /\ q.ledger[f].token # h
      BY <1>2, <1>3, <2>1 DEF Kept, KeptBut, Orphaned
    <2> QED
      BY <1>2, <2>1, <2>2 DEF OwnerBut
  <1> HIDE DEF q
  <1>5. m \in State /\ (m = q \/ ReserveGranted(m, q, k, cands[h], age[h], h))
    BY <1>1, <1>4, ReserveLemma
  <1> HIDE DEF m
  <1>6. /\ n.owner = m.owner
        /\ \A f \in Fingerprint : Kept(n, m, f)
    BY <1>5, PruneLemma DEF Kept
  <1>7. ClaimedState(h) = n
    BY DEF ClaimedState, n, m, q, p, k
  <1> HIDE DEF n
  <1>8. CASE m = q
    BY <1>3, <1>4, <1>6, <1>7, <1>8 DEF Kept, KeptBut, OwnerBut, ClaimRefused
  <1>9. CASE ReserveGranted(m, q, k, cands[h], age[h], h)
    <2>1. \A f \in Fingerprint :
             \/ KeptBut(n, db, f, h)
             \/ /\ f \in cands[h]
                /\ FKind(f) = k
                /\ n.ledger[f].status = "pending"
                /\ n.ledger[f].token = h
                /\ n.ledger[f].left = Lease - age[h]
             \/ /\ FKind(f) = k
                /\ n.ledger[f].status # "pending"
                /\ n.ledger[f].token \in {NoToken, Orphaned(db.ledger[f].token, h)}
      BY <1>3, <1>4, <1>6, <1>9 DEF Kept, KeptBut, ReserveGranted
    <2>2. /\ db.owner[k].token \notin {NoToken, h} => ~(db.owner[k].left > -age[h])
          /\ db.owner[k].token = h => ~(db.owner[k].left > -age[h])
      BY <1>1, <1>3, <1>4, <1>9 DEF ReserveGranted, LiveLease, OwnerBut, Orphaned
    <2>3. /\ n.owner[k].token = h /\ n.owner[k].left = Lease - age[h]
          /\ \A j \in Kind \ {k} : OwnerBut(n, db, j, h)
      BY <1>1, <1>4, <1>6, <1>9 DEF ReserveGranted, OwnerBut
    <2>4. \E f \in cands[h] : FKind(f) = k /\ n.ledger[f].token = h
      BY <1>1, <1>6, <1>9 DEF ReserveGranted, Kept
    <2> QED
      BY <1>7, <2>1, <2>2, <2>3, <2>4 DEF ClaimGranted, k
  <1> QED
    BY <1>5, <1>8, <1>9

\* What a completion does.
LEMMA CompletedFacts ==
    ASSUME TypeOK, NEW h \in Helper
    PROVE  LET n == CompletedState(h)
               k == KindAt(h)
           IN  \/ /\ db.owner[k].token # h
                  /\ n.owner = db.owner
                  /\ \A f \in Fingerprint : Kept(n, db, f)
               \/ /\ db.owner[k].token = h
                  /\ n.owner[k] = NoOwner
                  /\ \A j \in Kind \ {k} : n.owner[j] = db.owner[j]
                  /\ \A f \in Fingerprint :
                       \/ Kept(n, db, f)
                          /\ ~(f \in batch[h] /\ db.ledger[f].token = h
                                /\ db.ledger[f].status = "pending")
                       \/ /\ f \in batch[h] /\ db.ledger[f].token = h
                          /\ n.ledger[f].token = NoToken
  <1> DEFINE p == Prune(db)
             k == KindAt(h)
             m == CompleteBatch(p, k, batch[h], h, result[h])
             n == Prune(m)
  <1>1. batch[h] \in SUBSET Fingerprint /\ result[h] \in Result /\ k \in Kind
    BY KindAtLemma DEF TypeOK
  <1>2. /\ p \in State
        /\ p.owner = db.owner
        /\ \A f \in Fingerprint : Kept(p, db, f)
    BY PruneLemma DEF TypeOK, Kept
  <1> HIDE DEF p, k
  <1>3. m \in State
    BY <1>1, <1>2, CompleteLemma
  <1>4. \/ m = p /\ p.owner[k].token # h
        \/ CompleteAccepted(m, p, k, batch[h], h)
    BY <1>1, <1>2, CompleteLemma
  <1> HIDE DEF m
  <1>5. /\ n.owner = m.owner
        /\ \A f \in Fingerprint : Kept(n, m, f)
    BY <1>3, PruneLemma DEF Kept
  <1>6. CompletedState(h) = n
    BY DEF CompletedState, n, m, p, k
  <1>7. Absent.status = "absent" /\ Absent.token = NoToken /\ NoToken # h
    BY NamesAssumption DEF Absent
  <1> HIDE DEF n
  <1>8. CASE m = p /\ p.owner[k].token # h
    BY <1>2, <1>5, <1>6, <1>7, <1>8 DEF Kept, k
  <1>9. CASE ~(m = p /\ p.owner[k].token # h)
    <2>1. \A f \in Fingerprint :
             \/ Kept(n, db, f)
                /\ ~(f \in batch[h] /\ db.ledger[f].token = h
                      /\ db.ledger[f].status = "pending")
             \/ /\ f \in batch[h] /\ db.ledger[f].token = h
                /\ n.ledger[f].token = NoToken
      BY <1>2, <1>4, <1>5, <1>7, <1>9 DEF Kept, CompleteAccepted
    <2> QED
      BY <1>2, <1>4, <1>5, <1>6, <1>9, <2>1 DEF k, CompleteAccepted
  <1> QED
    BY <1>8, <1>9
-----------------------------------------------------------------------------
(***************************************************************************)
(* The parts of the invariant about a ledger, with the batches in flight   *)
(* as parameters: F are the helpers with one, K the kinds they are at, B   *)
(* the batches.  Each operation on a ledger keeps them.                    *)
(***************************************************************************)
ListedIn(s, F, B) ==
    \A h \in F : \A f \in Fingerprint : s.ledger[f].token = h => f \in B[h]

OpenIn(s, F, K, B) ==
    \A h \in F : s.owner[K[h]].token = h =>
        \A f \in B[h] :
            \/ s.ledger[f].status = "absent"
            \/ s.ledger[f].status = "pending" /\ s.ledger[f].token = h

SoundIn(s, F, K, B) == Covers(s) /\ ListedIn(s, F, B) /\ OpenIn(s, F, K, B)

Fly == {h \in Helper : InFlight(h)}
Kinds == [h \in Helper |-> KindAt(h)]

LEMMA SoundNow ==
    ASSUME NEW s
    PROVE  Sound(s) <=> SoundIn(s, Fly, Kinds, batch)
  BY DEF Sound, SoundIn, Listed, ListedIn, Open, OpenIn, Fly, Kinds

LEMMA SoundNext ==
    /\ Sound(db)' <=> SoundIn(db', Fly', Kinds', batch')
    /\ \A g \in Helper : Sound(loaded[g])' <=> SoundIn(loaded'[g], Fly', Kinds', batch')
  BY DEF Sound, SoundIn, Listed, ListedIn, Open, OpenIn, Fly, Kinds, Covers

\* The batches in flight are well formed.
Batches(F, K, B) ==
    /\ F \subseteq Helper
    /\ \A h \in F : K[h] \in Kind /\ B[h] \subseteq Fingerprint
    /\ \A h \in F : \A f \in B[h] : FKind(f) = K[h]

\* No batch is new: G, L and C are what is left of F, K and B.
Fewer(G, L, C, F, K, B) ==
    G \subseteq F /\ \A g \in G : L[g] = K[g] /\ C[g] = B[g]

LEMMA FKindLemma ==
    ASSUME NEW f \in Fingerprint
    PROVE  FKind(f) \in Kind
  BY FingerprintAssumption DEF FKind

LEMMA SoundEmpty ==
    ASSUME NEW F \in SUBSET Helper, NEW K, NEW B, \A h \in F : K[h] \in Kind
    PROVE  SoundIn(EmptyState, F, K, B)
  <1>1. \A f \in Fingerprint : EmptyState.ledger[f] = Absent
    BY DEF EmptyState
  <1>2. \A k \in Kind : EmptyState.owner[k] = NoOwner
    BY DEF EmptyState
  <1>3. Absent.status = "absent" /\ Absent.token = NoToken /\ NoOwner.token = NoToken
    BY DEF Absent, NoOwner
  <1> QED
    BY <1>1, <1>2, <1>3, NamesAssumption DEF SoundIn, Covers, ListedIn, OpenIn

\* What a step that only prunes or drops entries may do to the ledger.
Dropped(n, d, f) ==
    \/ n.ledger[f] = d.ledger[f]
    \/ n.ledger[f].status = "absent" /\ n.ledger[f].token = NoToken

LEMMA SoundDropped ==
    ASSUME NEW n, NEW d, NEW F, NEW K, NEW B, NEW G, NEW L, NEW C,
           Batches(F, K, B), Fewer(G, L, C, F, K, B), SoundIn(d, F, K, B),
           n.owner = d.owner, \A f \in Fingerprint : Dropped(n, d, f)
    PROVE  SoundIn(n, G, L, C)
  <1>1. Covers(n)
    BY DEF SoundIn, Covers, Dropped
  <1>2. ListedIn(n, G, C)
    BY NamesAssumption DEF SoundIn, ListedIn, Dropped, Fewer, Batches
  <1>3. OpenIn(n, G, L, C)
    BY DEF SoundIn, OpenIn, Dropped, Fewer, Batches
  <1> QED
    BY <1>1, <1>2, <1>3 DEF SoundIn

LEMMA SoundElapsed ==
    ASSUME NEW d \in State, NEW F, NEW K, NEW B, NEW G, NEW L, NEW C,
           Batches(F, K, B), Fewer(G, L, C, F, K, B), SoundIn(d, F, K, B)
    PROVE  SoundIn(Elapse(d), G, L, C)
  <1> DEFINE n == Elapse(d)
  <1>1. /\ \A f \in Fingerprint :
             /\ n.ledger[f].status = d.ledger[f].status
             /\ n.ledger[f].token = d.ledger[f].token
             /\ n.ledger[f].left = Sooner(d.ledger[f].left)
        /\ \A k \in Kind :
             /\ n.owner[k].token = d.owner[k].token
             /\ n.owner[k].left = Sooner(d.owner[k].left)
    BY ElapseLemma
  <1> HIDE DEF n
  <1>2. \A f \in Fingerprint : n.ledger[f].left > 0 => d.ledger[f].left > 0
    <2>1. \A f \in Fingerprint : d.ledger[f].left \in Int
      BY DEF State, Entry
    <2> QED
      BY <1>1, <2>1, LeaseAssumption DEF Sooner
  <1>3. Covers(n)
    BY <1>1, <1>2, FKindLemma DEF SoundIn, Covers
  <1>4. ListedIn(n, G, C)
    BY <1>1 DEF SoundIn, ListedIn, Fewer, Batches
  <1>5. OpenIn(n, G, L, C)
    BY <1>1 DEF SoundIn, OpenIn, Fewer, Batches
  <1> QED
    BY <1>3, <1>4, <1>5 DEF SoundIn, n

LEMMA SoundExpired ==
    ASSUME NEW d \in State, NEW F, NEW K, NEW B, NEW G, NEW L, NEW C,
           Batches(F, K, B), Fewer(G, L, C, F, K, B), SoundIn(d, F, K, B)
    PROVE  SoundIn(Expire(d), G, L, C)
  <1> DEFINE n == Expire(d)
  <1>1. /\ \A f \in Fingerprint :
             /\ n.ledger[f].status = d.ledger[f].status
             /\ n.ledger[f].token = d.ledger[f].token
             /\ n.ledger[f].left = -MaxAge
        /\ \A k \in Kind : n.owner[k].token = d.owner[k].token
    BY ExpireLemma
  <1> HIDE DEF n
  <1>2. ~(-MaxAge > 0)
    BY LeaseAssumption
  <1>3. Covers(n)
    BY <1>1, <1>2 DEF Covers
  <1>4. ListedIn(n, G, C)
    BY <1>1 DEF SoundIn, ListedIn, Fewer, Batches
  <1>5. OpenIn(n, G, L, C)
    BY <1>1 DEF SoundIn, OpenIn, Fewer, Batches
  <1> QED
    BY <1>3, <1>4, <1>5 DEF SoundIn, n

\* No batch but perhaps one of h is new.
FewerBut(G, L, C, F, K, B, h) ==
    \A g \in G \ {h} : g \in F /\ L[g] = K[g] /\ C[g] = B[g]

\* A ledger from which the older tokens of h are gone.
LEMMA SoundDisowned ==
    ASSUME NEW n, NEW d, NEW h \in Helper,
           NEW F, NEW K, NEW B, NEW G, NEW L, NEW C,
           G \subseteq Helper, \A g \in G : L[g] \in Kind,
           Batches(F, K, B), FewerBut(G, L, C, F, K, B, h), SoundIn(d, F, K, B),
           ClaimRefused(n, d, h)
    PROVE  SoundIn(n, G, L, C)
  <1>1. \A f \in Fingerprint : KeptBut(n, d, f, h)
    BY DEF ClaimRefused
  <1>2. \A j \in Kind : OwnerBut(n, d, j, h)
    BY DEF ClaimRefused
  <1>3. Covers(n)
    BY <1>1, <1>2, FKindLemma, NamesAssumption DEF SoundIn, Covers, KeptBut, OwnerBut, Orphaned
  <1>4. \A f \in Fingerprint : n.ledger[f].token # h
    BY <1>1, NamesAssumption DEF KeptBut, Orphaned
  <1>5. \A k \in Kind : n.owner[k].token # h
    BY <1>2, NamesAssumption DEF OwnerBut, Orphaned
  <1>6. ASSUME NEW g \in G \ {h}, NEW f \in Fingerprint, n.ledger[f].token = g
        PROVE  d.ledger[f].token = g
    BY <1>1, <1>6, NamesAssumption DEF KeptBut, Orphaned
  <1>7. ListedIn(n, G, C)
    BY <1>4, <1>6 DEF SoundIn, ListedIn, FewerBut
  <1>8. ASSUME NEW g \in G \ {h}, n.owner[L[g]].token = g, NEW f \in C[g]
        PROVE  \/ n.ledger[f].status = "absent"
               \/ n.ledger[f].status = "pending" /\ n.ledger[f].token = g
    <2>1. g \in F /\ L[g] = K[g] /\ C[g] = B[g] /\ K[g] \in Kind /\ f \in Fingerprint
      BY <1>8 DEF FewerBut, Batches
    <2>2. d.owner[K[g]].token = g
      BY <1>2, <1>8, <2>1, NamesAssumption DEF OwnerBut, Orphaned
    <2>3. \/ d.ledger[f].status = "absent"
          \/ d.ledger[f].status = "pending" /\ d.ledger[f].token = g
      BY <1>8, <2>1, <2>2 DEF SoundIn, OpenIn
    <2> QED
      BY <1>1, <1>8, <2>1, <2>3 DEF KeptBut, Orphaned
  <1>9. OpenIn(n, G, L, C)
    BY <1>5, <1>8 DEF OpenIn
  <1> QED
    BY <1>3, <1>7, <1>9 DEF SoundIn

\* h claims the batch of kind k from d, as n; it is the only batch that is new.
NewBatch(n, d, h, k, c, lag, F, K, B, G, L, C) ==
    /\ d \in State /\ k \in Kind /\ c \in SUBSET Fingerprint /\ lag \in 0..MaxAge
    /\ G \subseteq Helper /\ Batches(F, K, B) /\ FewerBut(G, L, C, F, K, B, h)
    /\ SoundIn(d, F, K, B)
    /\ ClaimGranted(n, d, k, c, lag, h) /\ L[h] = k /\ C[h] = BatchOf(n, k, c, h)

\* The stored ledger after that: the batch is what the owner entry and the new
\* leases cover.
LEMMA SoundClaimed ==
    ASSUME NEW n, NEW d, NEW h \in Helper, NEW k, NEW c, NEW lag,
           NEW F, NEW K, NEW B, NEW G, NEW L, NEW C,
           NewBatch(n, d, h, k, c, lag, F, K, B, G, L, C)
    PROVE  SoundIn(n, G, L, C)
  <1>0. /\ d \in State /\ k \in Kind /\ c \in SUBSET Fingerprint /\ lag \in 0..MaxAge
        /\ G \subseteq Helper /\ Batches(F, K, B) /\ FewerBut(G, L, C, F, K, B, h)
        /\ SoundIn(d, F, K, B)
        /\ ClaimGranted(n, d, k, c, lag, h) /\ L[h] = k /\ C[h] = BatchOf(n, k, c, h)
    BY DEF NewBatch
  <1> USE <1>0
  <1>1. \A f \in Fingerprint :
         \/ KeptBut(n, d, f, h)
         \/ /\ f \in c
            /\ FKind(f) = k
            /\ n.ledger[f].status = "pending"
            /\ n.ledger[f].token = h
            /\ n.ledger[f].left = Lease - lag
         \/ /\ FKind(f) = k
            /\ n.ledger[f].status # "pending"
            /\ n.ledger[f].token \in {NoToken, Orphaned(d.ledger[f].token, h)}
    BY DEF ClaimGranted
  <1>2. /\ n.owner[k].token = h /\ n.owner[k].left = Lease - lag
        /\ \A j \in Kind \ {k} : OwnerBut(n, d, j, h)
    BY DEF ClaimGranted
  <1>3. d.owner[k].token # NoToken => ~(d.owner[k].left > 0)
    <2>1. d.owner[k].token # NoToken => ~(d.owner[k].left > -lag)
      BY DEF ClaimGranted
    <2>2. d.owner[k].left \in Int /\ lag \in Nat
      BY LeaseAssumption DEF State, Owner
    <2> QED
      BY <2>1, <2>2
  <1>4. ASSUME NEW f \in Fingerprint, FKind(f) = k, KeptBut(n, d, f, h),
               n.ledger[f].status = "pending", n.ledger[f].token # NoToken
        PROVE  ~(n.ledger[f].left > 0)
    <2>1. d.ledger[f].status = "pending" /\ d.ledger[f].token # NoToken
          /\ n.ledger[f].left = d.ledger[f].left
      BY <1>4, NamesAssumption DEF KeptBut, Orphaned
    <2> QED
      BY <1>3, <1>4, <2>1 DEF SoundIn, Covers
  <1>5. ASSUME NEW f \in Fingerprint, n.ledger[f].status = "pending",
               n.ledger[f].token # NoToken, n.ledger[f].left > 0
        PROVE  /\ n.owner[FKind(f)].token = n.ledger[f].token
               /\ n.owner[FKind(f)].left = n.ledger[f].left
    <2>1. CASE FKind(f) = k
      BY <1>1, <1>2, <1>4, <1>5, <2>1
    <2>2. CASE FKind(f) # k
      <3>1. KeptBut(n, d, f, h) /\ OwnerBut(n, d, FKind(f), h)
        BY <1>1, <1>2, <2>2, FKindLemma
      <3> QED
        BY <1>5, <3>1, NamesAssumption DEF SoundIn, Covers, KeptBut, OwnerBut, Orphaned
    <2> QED
      BY <2>1, <2>2
  <1>6. Covers(n)
    BY <1>5 DEF Covers
  <1>7. ASSUME NEW f \in Fingerprint, n.ledger[f].token = h
        PROVE  f \in C[h] /\ n.ledger[f].status = "pending"
    <2>1. ~KeptBut(n, d, f, h) /\ n.ledger[f].token \notin {NoToken, Orphaned(d.ledger[f].token, h)}
      BY <1>7, NamesAssumption DEF KeptBut, Orphaned
    <2>2. f \in c /\ FKind(f) = k /\ n.ledger[f].status = "pending"
      BY <1>1, <1>7, <2>1
    <2> QED
      BY <1>2, <1>7, <2>2 DEF BatchOf
  <1>9. ASSUME NEW g \in G \ {h}, NEW f \in Fingerprint, n.ledger[f].token = g
        PROVE  d.ledger[f].token = g
    BY <1>1, <1>9, NamesAssumption DEF KeptBut, Orphaned
  <1>10. ListedIn(n, G, C)
    BY <1>7, <1>9 DEF SoundIn, ListedIn, FewerBut
  <1>11. \A f \in C[h] : n.ledger[f].status = "pending" /\ n.ledger[f].token = h
    BY <1>2, <1>7 DEF BatchOf
  <1>12. ASSUME NEW g \in G \ {h}, n.owner[L[g]].token = g, NEW f \in C[g]
         PROVE  \/ n.ledger[f].status = "absent"
                \/ n.ledger[f].status = "pending" /\ n.ledger[f].token = g
    <2>1. g \in F /\ L[g] = K[g] /\ C[g] = B[g] /\ K[g] \in Kind /\ f \in Fingerprint
          /\ FKind(f) = K[g]
      BY <1>12 DEF FewerBut, Batches
    <2>2. K[g] # k
      BY <1>2, <1>12, <2>1
    <2>3. d.owner[K[g]].token = g
      BY <1>2, <1>12, <2>1, <2>2, NamesAssumption DEF OwnerBut, Orphaned
    <2>4. \/ d.ledger[f].status = "absent"
          \/ d.ledger[f].status = "pending" /\ d.ledger[f].token = g
      BY <1>12, <2>1, <2>3 DEF SoundIn, OpenIn
    <2>5. KeptBut(n, d, f, h)
      BY <1>1, <2>1, <2>2
    <2> QED
      BY <1>12, <2>4, <2>5 DEF KeptBut, Orphaned
  <1>13. OpenIn(n, G, L, C)
    BY <1>11, <1>12 DEF OpenIn
  <1> QED
    BY <1>6, <1>10, <1>13 DEF SoundIn

\* The stored ledger after h completed the batch of kind k that it owns.
LEMMA SoundCompleted ==
    ASSUME NEW n, NEW d, NEW h \in Helper, NEW k \in Kind,
           NEW F, NEW K, NEW B, NEW G, NEW L, NEW C,
           h \in F, h \notin G, K[h] = k,
           Batches(F, K, B), Fewer(G, L, C, F, K, B), SoundIn(d, F, K, B),
           d.owner[k].token = h, n.owner[k] = NoOwner,
           \A j \in Kind \ {k} : n.owner[j] = d.owner[j],
           \A f \in Fingerprint :
              \/ /\ Kept(n, d, f)
                 /\ ~(f \in B[h] /\ d.ledger[f].token = h /\ d.ledger[f].status = "pending")
              \/ f \in B[h] /\ d.ledger[f].token = h /\ n.ledger[f].token = NoToken
    PROVE  SoundIn(n, G, L, C)
  <1>1. Absent.status = "absent" /\ Absent.token = NoToken /\ NoOwner.token = NoToken
    BY DEF Absent, NoOwner
  <1>2. ASSUME NEW f \in Fingerprint, n.ledger[f].status = "pending",
               n.ledger[f].token # NoToken, n.ledger[f].left > 0
        PROVE  n.owner[FKind(f)] = d.owner[FKind(f)] /\ n.ledger[f] = d.ledger[f]
    <2>1. n.ledger[f] = d.ledger[f] /\ ~(f \in B[h] /\ d.ledger[f].token = h)
      BY <1>1, <1>2 DEF Kept
    <2>2. FKind(f) # k
      <3> SUFFICES ASSUME FKind(f) = k PROVE FALSE
        OBVIOUS
      <3>1. d.ledger[f].token = h
        BY <1>2, <2>1 DEF SoundIn, Covers
      <3>2. f \in B[h]
        BY <3>1 DEF SoundIn, ListedIn
      <3> QED
        BY <2>1, <3>1, <3>2
    <2> QED
      BY <2>1, <2>2, FKindLemma
  <1>3. Covers(n)
    BY <1>2 DEF SoundIn, Covers
  <1>4. ASSUME NEW g \in G, NEW f \in Fingerprint, n.ledger[f].token = g
        PROVE  n.ledger[f] = d.ledger[f]
    BY <1>1, <1>4, NamesAssumption DEF Kept, Fewer, Batches
  <1>5. ListedIn(n, G, C)
    BY <1>4 DEF SoundIn, ListedIn, Fewer
  <1>6. ASSUME NEW g \in G, n.owner[L[g]].token = g, NEW f \in C[g]
        PROVE  \/ n.ledger[f].status = "absent"
               \/ n.ledger[f].status = "pending" /\ n.ledger[f].token = g
    <2>1. g \in F /\ L[g] = K[g] /\ C[g] = B[g] /\ g \in Helper
          /\ K[g] \in Kind /\ f \in Fingerprint /\ FKind(f) = K[g]
      BY <1>6 DEF Fewer, Batches
    <2>2. K[g] # k
      BY <1>1, <1>6, <2>1, NamesAssumption
    <2>3. d.owner[K[g]].token = g
      BY <1>6, <2>1, <2>2
    <2>4. \/ d.ledger[f].status = "absent"
          \/ d.ledger[f].status = "pending" /\ d.ledger[f].token = g
      BY <1>6, <2>1, <2>3 DEF SoundIn, OpenIn
    <2>5. f \notin B[h]
      BY <2>1, <2>2 DEF Batches
    <2> QED
      BY <1>1, <2>1, <2>4, <2>5 DEF Kept
  <1>7. OpenIn(n, G, L, C)
    BY <1>6 DEF OpenIn
  <1> QED
    BY <1>3, <1>5, <1>7 DEF SoundIn
-----------------------------------------------------------------------------
(***************************************************************************)
(* The inductive invariant is preserved by each action.  First what the    *)
(* parts of it need of a step in which no batch is new.                    *)
(***************************************************************************)
Narrow ==
    \A g \in Helper :
        /\ InFlight(g)' => InFlight(g) /\ turn'[g] = turn[g] /\ batch'[g] = batch[g]
        /\ ~InFlight(g)' => batch'[g] = {}

LEMMA BatchesNow ==
    ASSUME IndInv
    PROVE  Batches(Fly, Kinds, batch)
  <1>1. \A h \in Helper : KindAt(h) \in Kind /\ batch[h] \subseteq Fingerprint
    BY KindAtLemma DEF IndInv, TypeOK
  <1> QED
    BY <1>1 DEF IndInv, BatchShape, Batches, Fly, Kinds

LEMMA NarrowFewer ==
    ASSUME Narrow
    PROVE  Fewer(Fly', Kinds', batch', Fly, Kinds, batch)
  BY DEF Narrow, Fewer, Fly, Kinds, KindAt

LEMMA NarrowShape ==
    ASSUME IndInv, Narrow
    PROVE  BatchShape'
  BY DEF IndInv, BatchShape, Narrow, KindAt

\* The stored ledger, or a loaded one, is at most pruned.
LEMMA StoredSound ==
    ASSUME IndInv, Narrow, NEW d, Sound(d), db'.owner = d.owner,
           \A f \in Fingerprint : Dropped(db', d, f)
    PROVE  Sound(db)'
  BY BatchesNow, NarrowFewer, SoundNow, SoundNext, SoundDropped

LEMMA LoadedSound ==
    ASSUME IndInv, TypeOK', Narrow,
           \A g \in Helper : loaded'[g] \in {loaded[g], EmptyState, Prune(db)}
    PROVE  \A g \in Helper : Sound(loaded[g])'
  <1> SUFFICES ASSUME NEW g \in Helper
               PROVE  SoundIn(loaded'[g], Fly', Kinds', batch')
    BY SoundNext
  <1>1. Batches(Fly, Kinds, batch) /\ Fewer(Fly', Kinds', batch', Fly, Kinds, batch)
    BY BatchesNow, NarrowFewer
  <1>2. CASE loaded'[g] = loaded[g]
    <2>1. SoundIn(loaded[g], Fly, Kinds, batch)
      BY SoundNow DEF IndInv
    <2> QED
      BY <1>1, <1>2, <2>1, SoundDropped DEF Dropped
  <1>3. CASE loaded'[g] = EmptyState
    <2>1. Fly' \in SUBSET Helper /\ \A h \in Fly' : Kinds'[h] \in Kind
      BY <1>1 DEF Fewer, Batches
    <2> QED
      BY <1>3, <2>1, SoundEmpty
  <1>4. CASE loaded'[g] = Prune(db)
    <2>1. SoundIn(db, Fly, Kinds, batch)
      BY SoundNow DEF IndInv
    <2>2. Absent.status = "absent" /\ Absent.token = NoToken
      BY DEF Absent
    <2>3. Prune(db).owner = db.owner /\ \A f \in Fingerprint : Dropped(Prune(db), db, f)
      BY <2>2, PruneLemma DEF IndInv, TypeOK, Dropped
    <2> QED
      BY <1>1, <1>4, <2>1, <2>3, SoundDropped
  <1> QED
    BY <1>2, <1>3, <1>4

\* No claim in hand gets older or is written over.
LEMMA LeaseKept ==
    ASSUME IndInv, Narrow, db'.owner = db.owner,
           \A g \in Helper : InFlight(g)' => age'[g] = age[g] /\ undone'[g] = undone[g],
           \A g \in Helper : pc'[g] = "collecting" =>
              \/ /\ pc[g] = "collecting" /\ missed[g] \subseteq missed'[g]
                 /\ loaded'[g].owner = loaded[g].owner
              \/ loaded'[g].owner = db.owner
    PROVE  LeaseOutlasts'
  <1> SUFFICES ASSUME NEW h \in Helper, Protected(h)'
               PROVE  /\ Leased(db, h)'
                      /\ \A g \in Helper : pc'[g] = "collecting" /\ h \notin missed'[g]
                                           => Leased(loaded[g], h)'
    BY DEF LeaseOutlasts
  <1>1. Protected(h) /\ turn'[h] = turn[h] /\ age'[h] = age[h]
    BY DEF Narrow, Protected
  <1>2. KindAt(h)' = KindAt(h)
    BY <1>1 DEF KindAt
  <1>3. /\ Leased(db, h)
        /\ \A g \in Helper : pc[g] = "collecting" /\ h \notin missed[g] => Leased(loaded[g], h)
    BY <1>1 DEF IndInv, LeaseOutlasts
  <1> QED
    BY <1>1, <1>2, <1>3 DEF Leased

\* What scans loaded stays as true as it was when entries are only pruned.
LEMMA LoadedKept ==
    ASSUME IndInv, \A f \in Fingerprint : Kept(db', db, f),
           \A g \in Helper : pc'[g] = "collecting" /\ missed'[g] = {} =>
              \/ pc[g] = "collecting" /\ missed[g] = {} /\ loaded'[g] = loaded[g]
              \/ loaded'[g] = db'
    PROVE  LoadedTrue'
  <1>1. Absent.status = "absent"
    BY DEF Absent
  <1> QED
    BY <1>1 DEF IndInv, LoadedTrue, Kept

LEMMA ReportStays ==
    ASSUME IndInv, published' = published,
           \A h \in Helper : publisher' = h => publisher = h /\ cands'[h] \subseteq cands[h]
    PROVE  ReportKept'
  BY DEF IndInv, ReportKept

LEMMA PruneKept ==
    ASSUME NEW d \in State
    PROVE  /\ Prune(d).owner = d.owner
           /\ \A f \in Fingerprint : Kept(Prune(d), d, f) /\ Dropped(Prune(d), d, f)
  <1>1. Absent.status = "absent" /\ Absent.token = NoToken
    BY DEF Absent
  <1> QED
    BY <1>1, PruneLemma DEF Kept, Dropped
-----------------------------------------------------------------------------
\* A step that only prunes or drops stored entries; scans may end in it.
LEMMA QuietStep ==
    ASSUME IndInv, TypeOK', Narrow, db'.owner = db.owner,
           \A f \in Fingerprint : Dropped(db', db, f),
           \A g \in Helper : InFlight(g)' => age'[g] = age[g] /\ undone'[g] = undone[g],
           \A g \in Helper : loaded'[g] \in {loaded[g], EmptyState},
           \A g \in Helper : pc'[g] = "collecting" =>
              /\ pc[g] = "collecting" /\ missed[g] \subseteq missed'[g]
              /\ loaded'[g] = loaded[g],
           LoadedTrue', ReportKept'
    PROVE  IndInv'
  <1>1. BatchShape'
    BY NarrowShape
  <1>2. Sound(db)'
    BY StoredSound DEF IndInv
  <1>3. \A g \in Helper : Sound(loaded[g])'
    BY LoadedSound
  <1>4. LeaseOutlasts'
    BY LeaseKept
  <1> QED
    BY <1>1, <1>2, <1>3, <1>4 DEF IndInv

LEMMA ScanStep ==
    ASSUME IndInv, TypeOK', NEW h \in Helper, Scan(h)
    PROVE  IndInv'
  <1>0. TypeOK
    BY DEF IndInv
  <1>1. /\ pc[h] = "off" /\ db' = Prune(db)
        /\ loaded' = [loaded EXCEPT ![h] = Prune(db)]
        /\ pc' = [pc EXCEPT ![h] = "collecting"]
        /\ missed' = missed /\ published' = published /\ publisher' = publisher
        /\ turn' = turn /\ batch' = batch /\ age' = age /\ undone' = undone /\ cands' = cands
    BY DEF Scan, report, dispatchVars
  <1>2. db'.owner = db.owner /\ \A f \in Fingerprint : Kept(db', db, f) /\ Dropped(db', db, f)
    BY <1>0, <1>1, PruneKept DEF TypeOK
  <1>3. pc'[h] = "collecting" /\ loaded'[h] = Prune(db)
        /\ \A g \in Helper \ {h} : pc'[g] = pc[g] /\ loaded'[g] = loaded[g]
    BY <1>0, <1>1 DEF TypeOK
  <1>4. Narrow
    BY <1>1, <1>3 DEF Narrow, InFlight, IndInv, BatchShape
  <1>5. BatchShape'
    BY <1>4, NarrowShape
  <1>6. Sound(db)'
    BY <1>2, <1>4, StoredSound DEF IndInv
  <1>7. \A g \in Helper : Sound(loaded[g])'
    BY <1>3, <1>4, LoadedSound
  <1>8. LeaseOutlasts'
    BY <1>1, <1>2, <1>3, <1>4, LeaseKept
  <1>9. LoadedTrue'
    BY <1>1, <1>2, <1>3, LoadedKept
  <1>10. ReportKept'
    BY <1>1, ReportStays
  <1> QED
    BY <1>5, <1>6, <1>7, <1>8, <1>9, <1>10 DEF IndInv

\* The commit puts what was loaded in the place of what is stored.
LEMMA CommitStep ==
    ASSUME IndInv, TypeOK', NEW h \in Helper, Commit(h)
    PROVE  IndInv'
  <1>0. TypeOK
    BY DEF IndInv
  <1>1. /\ pc[h] = "collecting" /\ db' = Prune(loaded[h])
        /\ published' = CurrentCandidates /\ publisher' = h
        /\ cands' = [cands EXCEPT ![h] = CurrentCandidates]
        /\ turn' = turn /\ batch' = batch /\ age' = age
        /\ loaded' = [g \in Helper |-> EmptyState]
    BY DEF Commit
  <1>2. pc' = [g \in Helper |-> CASE g = h -> "committed"
                                 [] g # h /\ pc[g] = "collecting" -> "beaten"
                                 [] OTHER -> pc[g]]
    BY DEF Commit
  <1>3. \A g \in Helper : pc'[g] # "collecting" /\ InFlight(g)' = InFlight(g)
    BY <1>1, <1>2 DEF InFlight
  <1>4. undone' = [g \in Helper |-> undone[g] \/ (InFlight(g) /\ g \in missed[h])]
    BY DEF Commit
  <1>5. Narrow
    BY <1>1, <1>3 DEF Narrow, IndInv, BatchShape
  <1>6. db'.owner = loaded[h].owner /\ \A f \in Fingerprint : Dropped(db', loaded[h], f)
    BY <1>0, <1>1, PruneKept DEF TypeOK
  <1>7. BatchShape'
    BY <1>5, NarrowShape
  <1>8. Sound(db)'
    BY <1>5, <1>6, StoredSound DEF IndInv
  <1>9. \A g \in Helper : Sound(loaded[g])'
    BY <1>1, <1>5, LoadedSound
  <1>10. LeaseOutlasts'
    <2> SUFFICES ASSUME NEW g \in Helper, Protected(g)'
                 PROVE  Leased(db, g)'
      BY <1>3 DEF LeaseOutlasts
    <2>1. InFlight(g) /\ age[g] < Lease
      BY <1>1, <1>3 DEF Protected
    <2>2. ~undone[g] /\ g \notin missed[h]
      <3>1. ~undone'[g]
        BY DEF Protected
      <3>2. undone'[g] <=> undone[g] \/ (InFlight(g) /\ g \in missed[h])
        BY <1>4
      <3> QED
        BY <2>1, <3>1, <3>2
    <2>3. Leased(loaded[h], g)
      BY <1>1, <2>1, <2>2 DEF IndInv, LeaseOutlasts, Protected
    <2>4. KindAt(g)' = KindAt(g)
      BY <1>1 DEF KindAt
    <2> QED
      BY <1>1, <1>6, <2>3, <2>4 DEF Leased
  <1>11. LoadedTrue'
    BY <1>3 DEF LoadedTrue
  <1>12. ReportKept'
    BY <1>0, <1>1 DEF ReportKept, CurrentCandidates, TypeOK
  <1> QED
    BY <1>7, <1>8, <1>9, <1>10, <1>11, <1>12 DEF IndInv

\* Ending or dying, h leaves the others as they are.
Others(h) ==
    \A g \in Helper \ {h} :
        /\ pc'[g] = pc[g] /\ turn'[g] = turn[g] /\ batch'[g] = batch[g]
        /\ age'[g] = age[g] /\ undone'[g] = undone[g] /\ cands'[g] = cands[g]

Idle(h) == pc[h] \in {"off", "ready"} /\ batch[h] = {}

Reported(h) ==
    /\ publisher' \in {publisher, None}
    /\ cands'[h] \subseteq cands[h]

LEMMA ExitFacts ==
    ASSUME TypeOK, NEW h \in Helper, Exit(h)
    PROVE  Others(h) /\ Idle(h)' /\ Reported(h)
  BY DEF Exit, TypeOK, Others, Idle, Reported

LEMMA NextKindFacts ==
    ASSUME TypeOK, NEW h \in Helper, NextKind(h)
    PROVE  Others(h) /\ Idle(h)' /\ Reported(h)
  <1>1. CASE Exit(h)
    BY <1>1, ExitFacts
  <1>2. CASE ~Exit(h)
    <2>1. /\ turn' = [turn EXCEPT ![h] = turn[h] + 1]
          /\ pc' = [pc EXCEPT ![h] = "ready"]
          /\ batch' = [batch EXCEPT ![h] = {}]
          /\ age' = [age EXCEPT ![h] = 0]
          /\ undone' = [undone EXCEPT ![h] = FALSE]
          /\ cands' = cands /\ publisher' = publisher
      BY <1>2 DEF NextKind
    <2> QED
      BY <2>1 DEF TypeOK, Others, Idle, Reported
  <1> QED
    BY <1>1, <1>2

LEMMA LeavesNarrow ==
    ASSUME IndInv, NEW h \in Helper, Others(h), Idle(h)'
    PROVE  /\ Narrow
           /\ \A g \in Helper : InFlight(g)' => age'[g] = age[g] /\ undone'[g] = undone[g]
           /\ \A g \in Helper : pc'[g] = "collecting" => g # h /\ pc[g] = "collecting"
  <1>1. ~InFlight(h)' /\ batch'[h] = {} /\ pc'[h] # "collecting"
    BY DEF Idle, InFlight
  <1>2. \A g \in Helper \ {h} : InFlight(g)' = InFlight(g)
    BY DEF Others, InFlight
  <1> QED
    BY <1>1, <1>2 DEF IndInv, BatchShape, Narrow, Others

LEMMA LeavesReport ==
    ASSUME IndInv, NEW h \in Helper, Others(h), Reported(h), published' = published
    PROVE  ReportKept'
  <1>1. \A g \in Helper : publisher' = g => publisher = g /\ cands'[g] \subseteq cands[g]
    BY DispatchAssumption DEF Others, Reported
  <1> QED
    BY <1>1, ReportStays

LEMMA RefusedStep ==
    ASSUME IndInv, TypeOK', NEW h \in Helper, Refused(h)
    PROVE  IndInv'
  <1>0. TypeOK
    BY DEF IndInv
  <1>1. /\ db' = Prune(db) /\ Exit(h) /\ published' = published
        /\ loaded' = loaded /\ missed' = missed
    BY DEF Refused, report, scans
  <1>2. db'.owner = db.owner /\ \A f \in Fingerprint : Kept(db', db, f) /\ Dropped(db', db, f)
    BY <1>0, <1>1, PruneKept DEF TypeOK
  <1>3. Others(h) /\ Idle(h)' /\ Reported(h)
    BY <1>0, <1>1, ExitFacts
  <1>4. /\ Narrow
        /\ \A g \in Helper : InFlight(g)' => age'[g] = age[g] /\ undone'[g] = undone[g]
        /\ \A g \in Helper : pc'[g] = "collecting" => g # h /\ pc[g] = "collecting"
    BY <1>3, LeavesNarrow
  <1>5. LoadedTrue'
    BY <1>1, <1>2, <1>4, LoadedKept
  <1>6. ReportKept'
    BY <1>1, <1>3, LeavesReport
  <1> QED
    BY <1>1, <1>2, <1>4, <1>5, <1>6, QuietStep

LEMMA CrashStep ==
    ASSUME IndInv, TypeOK', NEW h \in Helper, Crash(h)
    PROVE  IndInv'
  <1>0. TypeOK
    BY DEF IndInv
  <1>1. /\ db' = db /\ Exit(h) /\ published' = published
        /\ loaded' = [loaded EXCEPT ![h] = EmptyState]
        /\ missed' = [missed EXCEPT ![h] = {}]
    BY DEF Crash, report, stored
  <1>2. db'.owner = db.owner /\ \A f \in Fingerprint : Kept(db', db, f) /\ Dropped(db', db, f)
    BY <1>1 DEF Kept, Dropped
  <1>3. Others(h) /\ Idle(h)' /\ Reported(h)
    BY <1>0, <1>1, ExitFacts
  <1>4. /\ Narrow
        /\ \A g \in Helper : InFlight(g)' => age'[g] = age[g] /\ undone'[g] = undone[g]
        /\ \A g \in Helper : pc'[g] = "collecting" => g # h /\ pc[g] = "collecting"
    BY <1>3, LeavesNarrow
  <1>5. /\ \A g \in Helper : loaded'[g] \in {loaded[g], EmptyState}
        /\ \A g \in Helper \ {h} : loaded'[g] = loaded[g] /\ missed'[g] = missed[g]
    BY <1>0, <1>1 DEF TypeOK
  <1>6. LoadedTrue'
    BY <1>2, <1>4, <1>5, LoadedKept
  <1>7. ReportKept'
    BY <1>1, <1>3, LeavesReport
  <1> QED
    BY <1>2, <1>4, <1>5, <1>6, <1>7, QuietStep

\* Steps that leave the batches in flight and the scans alone.
LEMMA CalmStep ==
    ASSUME IndInv, TypeOK', db'.owner = db.owner,
           \A f \in Fingerprint : Dropped(db', db, f),
           \A g \in Helper : InFlight(g)' = InFlight(g),
           \A g \in Helper : pc'[g] = "collecting" => pc[g] = "collecting",
           turn' = turn, batch' = batch, age' = age, undone' = undone, loaded' = loaded,
           \A g \in Helper : pc[g] = "collecting" => missed[g] \subseteq missed'[g],
           \/ missed' = missed /\ \A f \in Fingerprint : Kept(db', db, f)
           \/ \A g \in Helper : pc[g] = "collecting" => missed'[g] # {},
           published' = published, publisher' = publisher,
           \A h \in Helper : cands'[h] \subseteq cands[h]
    PROVE  IndInv'
  <1>1. Narrow
    BY DEF Narrow, IndInv, BatchShape
  <1>2. LoadedTrue'
    <2>1. CASE missed' = missed /\ \A f \in Fingerprint : Kept(db', db, f)
      BY <2>1, LoadedKept
    <2>2. CASE \A g \in Helper : pc[g] = "collecting" => missed'[g] # {}
      BY <2>2 DEF LoadedTrue
    <2> QED
      BY <2>1, <2>2
  <1>3. ReportKept'
    BY ReportStays
  <1> QED
    BY <1>1, <1>2, <1>3, QuietStep

LEMMA DispatchStep ==
    ASSUME IndInv, TypeOK', NEW h \in Helper, Dispatch(h)
    PROVE  IndInv'
  <1>0. TypeOK
    BY DEF IndInv
  <1>1. /\ pc[h] = "committed" /\ db' = Prune(db)
        /\ pc' = [pc EXCEPT ![h] = "ready"]
        /\ published' = published /\ publisher' = publisher
        /\ loaded' = loaded /\ missed' = missed
        /\ turn' = turn /\ batch' = batch /\ age' = age /\ undone' = undone
    BY DEF Dispatch, report, scans
  <1>2. db'.owner = db.owner /\ \A f \in Fingerprint : Kept(db', db, f) /\ Dropped(db', db, f)
    BY <1>0, <1>1, PruneKept DEF TypeOK
  <1>3. \A g \in Helper : /\ InFlight(g)' = InFlight(g)
                          /\ pc'[g] = "collecting" => pc[g] = "collecting"
    BY <1>0, <1>1 DEF TypeOK, InFlight
  <1>4. \A g \in Helper : cands'[g] \subseteq cands[g]
    BY <1>0 DEF TypeOK, Dispatch
  <1> QED
    BY <1>1, <1>2, <1>3, <1>4, CalmStep

LEMMA NotifyStep ==
    ASSUME IndInv, TypeOK', NEW h \in Helper, NEW r \in Result, Notify(h, r)
    PROVE  IndInv'
  <1>0. TypeOK
    BY DEF IndInv
  <1>1. /\ db' = db /\ pc[h] = "running" /\ pc' = [pc EXCEPT ![h] = "finishing"]
        /\ published' = published /\ publisher' = publisher /\ cands' = cands
        /\ loaded' = loaded /\ missed' = missed
        /\ turn' = turn /\ batch' = batch /\ age' = age /\ undone' = undone
    BY DEF Notify, stored, report, scans
  <1>2. \A f \in Fingerprint : Kept(db', db, f) /\ Dropped(db', db, f)
    BY <1>1 DEF Kept, Dropped
  <1>3. \A g \in Helper : /\ InFlight(g)' = InFlight(g)
                          /\ pc'[g] = "collecting" => pc[g] = "collecting"
    BY <1>0, <1>1 DEF TypeOK, InFlight
  <1> QED
    BY <1>1, <1>2, <1>3, CalmStep

LEMMA OutsideStep ==
    ASSUME IndInv, TypeOK', UNCHANGED vars \/ \E r \in Reference : Publish(r)
    PROVE  IndInv'
  <1>1. /\ db' = db /\ pc' = pc
        /\ published' = published /\ publisher' = publisher /\ cands' = cands
        /\ loaded' = loaded /\ missed' = missed
        /\ turn' = turn /\ batch' = batch /\ age' = age /\ undone' = undone
    BY DEF vars, Publish, stored, report, scans, dispatchVars
  <1>2. \A f \in Fingerprint : Kept(db', db, f) /\ Dropped(db', db, f)
    BY <1>1 DEF Kept, Dropped
  <1>3. \A g \in Helper : InFlight(g)' = InFlight(g)
    BY <1>1 DEF InFlight
  <1> QED
    BY <1>1, <1>2, <1>3, CalmStep

LEMMA StarStep ==
    ASSUME IndInv, TypeOK', NEW r \in Reference, TurnOff(r) \/ TurnOn(r)
    PROVE  IndInv'
  <1>0. TypeOK
    BY DEF IndInv
  <1>1. /\ missed' = Missing(None) /\ published' = published /\ publisher' = publisher
        /\ pc' = pc /\ loaded' = loaded
        /\ turn' = turn /\ batch' = batch /\ age' = age /\ undone' = undone /\ cands' = cands
    BY DEF TurnOff, TurnOn, report, dispatchVars
  <1>2. db'.owner = db.owner /\ \A f \in Fingerprint : Dropped(db', db, f)
    <2>1. CASE TurnOn(r)
      BY <1>0, <2>1, PruneKept DEF TurnOn, TypeOK
    <2>2. CASE TurnOff(r)
      <3> DEFINE p == Prune(db)
                 m == WithoutActiveReferences(p, r)
      <3>1. db' = Prune(m)
        BY <2>2 DEF TurnOff
      <3>2. p \in State /\ p.owner = db.owner /\ \A f \in Fingerprint : Dropped(p, db, f)
        BY <1>0, PruneLemma, PruneKept DEF TypeOK
      <3> HIDE DEF p
      <3>3. Absent.status = "absent" /\ Absent.token = NoToken
        BY DEF Absent
      <3>4. m \in State /\ m.owner = p.owner /\ \A f \in Fingerprint : Dropped(m, p, f)
        BY <3>2, <3>3, TurnOffLemma DEF Dropped
      <3> HIDE DEF m
      <3>5. db'.owner = m.owner /\ \A f \in Fingerprint : Dropped(db', m, f)
        BY <3>1, <3>4, PruneKept
      <3> QED
        BY <3>2, <3>4, <3>5 DEF Dropped
    <2> QED
      BY <2>1, <2>2
  <1>3. \A g \in Helper : pc[g] = "collecting" => missed[g] \subseteq missed'[g] /\ missed'[g] # {}
    BY <1>1 DEF Missing
  <1>4. \A g \in Helper : InFlight(g)' = InFlight(g)
    BY <1>1 DEF InFlight
  <1> QED
    BY <1>1, <1>2, <1>3, <1>4, CalmStep
-----------------------------------------------------------------------------
\* What a scan loaded, once the older tokens of h are gone from it.
LEMMA DisownRefused ==
    ASSUME NEW d \in State, NEW h \in Helper
    PROVE  /\ ClaimRefused(Disown(d, h), d, h)
           /\ \A f \in Fingerprint :
                /\ Disown(d, h).ledger[f].status = d.ledger[f].status
                /\ Disown(d, h).ledger[f].recorded = d.ledger[f].recorded
  BY DisownLemma DEF ClaimRefused, KeptBut, OwnerBut

\* The lease of g stands in a ledger where only tokens of h were renamed.
LEMMA LeaseStands ==
    ASSUME NEW g \in Helper, NEW h \in Helper \ {g}, NEW n, NEW d, NEW j \in Kind,
           OwnerBut(n, d, j, h), d.owner[j].token = g
    PROVE  n.owner[j].token = g /\ n.owner[j].left = d.owner[j].left
  BY DEF OwnerBut, Orphaned

LEMMA ClaimRefusedStep ==
    ASSUME IndInv, TypeOK', NEW h \in Helper, Claim(h), ClaimRefused(db', db, h),
           NextKind(h), missed' = missed
    PROVE  IndInv'
  <1>0. TypeOK
    BY DEF IndInv
  <1>1. published' = published /\ loaded' = [g \in Helper |-> Disown(loaded[g], h)]
    BY DEF Claim, report
  <1>2. Others(h) /\ Idle(h)' /\ Reported(h)
    BY <1>0, NextKindFacts
  <1>3. /\ Narrow
        /\ \A g \in Helper : InFlight(g)' => age'[g] = age[g] /\ undone'[g] = undone[g]
        /\ \A g \in Helper : pc'[g] = "collecting" => g # h /\ pc[g] = "collecting"
    BY <1>2, LeavesNarrow
  <1>4. \A g \in Helper :
           /\ ClaimRefused(loaded'[g], loaded[g], h)
           /\ \A f \in Fingerprint :
                /\ loaded'[g].ledger[f].status = loaded[g].ledger[f].status
                /\ loaded'[g].ledger[f].recorded = loaded[g].ledger[f].recorded
    BY <1>0, <1>1, DisownRefused DEF TypeOK
  <1>5. /\ Batches(Fly, Kinds, batch)
        /\ Fewer(Fly', Kinds', batch', Fly, Kinds, batch)
    BY <1>3, BatchesNow, NarrowFewer
  <1>6. /\ Fly' \subseteq Helper /\ \A g \in Fly' : Kinds'[g] \in Kind
        /\ FewerBut(Fly', Kinds', batch', Fly, Kinds, batch, h)
    BY <1>5 DEF Fewer, FewerBut, Batches
  <1>7. Sound(db)'
    <2>1. SoundIn(db, Fly, Kinds, batch)
      BY SoundNow DEF IndInv
    <2>2. SoundIn(db', Fly', Kinds', batch')
      BY <1>5, <1>6, <2>1, SoundDisowned
    <2> QED
      BY <2>2, SoundNext
  <1>8. \A g \in Helper : Sound(loaded[g])'
    <2> SUFFICES ASSUME NEW g \in Helper
                 PROVE  SoundIn(loaded'[g], Fly', Kinds', batch')
      BY SoundNext
    <2>1. SoundIn(loaded[g], Fly, Kinds, batch)
      BY SoundNow DEF IndInv
    <2> QED
      BY <1>4, <1>5, <1>6, <2>1, SoundDisowned
  <1>9. LeaseOutlasts'
    <2> SUFFICES ASSUME NEW g \in Helper, Protected(g)'
                 PROVE  /\ Leased(db, g)'
                        /\ \A x \in Helper : pc'[x] = "collecting" /\ g \notin missed'[x]
                                             => Leased(loaded[x], g)'
      BY DEF LeaseOutlasts
    <2>1. Protected(g) /\ turn'[g] = turn[g] /\ age'[g] = age[g]
      BY <1>3 DEF Narrow, Protected
    <2>2. g # h
      BY <1>2 DEF Protected, InFlight, Idle
    <2>3. KindAt(g)' = KindAt(g) /\ KindAt(g) \in Kind
      BY <1>0, <2>1, KindAtLemma DEF KindAt
    <2>4. /\ Leased(db, g)
          /\ \A x \in Helper : pc[x] = "collecting" /\ g \notin missed[x] => Leased(loaded[x], g)
      BY <2>1 DEF IndInv, LeaseOutlasts
    <2>5. Leased(db, g)'
      <3>1. OwnerBut(db', db, KindAt(g), h)
        BY <2>3 DEF ClaimRefused
      <3> QED
        BY <2>1, <2>2, <2>3, <2>4, <3>1, LeaseStands DEF Leased
    <2>6. ASSUME NEW x \in Helper, pc'[x] = "collecting", g \notin missed'[x]
          PROVE  Leased(loaded[x], g)'
      <3>1. OwnerBut(loaded'[x], loaded[x], KindAt(g), h)
        BY <1>4, <2>3 DEF ClaimRefused
      <3>2. Leased(loaded[x], g)
        BY <1>3, <2>4, <2>6
      <3> QED
        BY <2>1, <2>2, <2>3, <3>1, <3>2, LeaseStands DEF Leased
    <2> QED
      BY <2>5, <2>6
  <1>10. LoadedTrue'
    <2> SUFFICES ASSUME NEW g \in Helper, pc'[g] = "collecting", missed'[g] = {},
                        NEW f \in Fingerprint
                 PROVE  \/ /\ loaded'[g].ledger[f].status = db'.ledger[f].status
                           /\ loaded'[g].ledger[f].recorded = db'.ledger[f].recorded
                        \/ /\ loaded'[g].ledger[f].status # "pending"
                           /\ loaded'[g].ledger[f].recorded = "aged"
                           /\ db'.ledger[f].status = "absent"
      BY DEF LoadedTrue
    <2>1. \/ /\ loaded[g].ledger[f].status = db.ledger[f].status
             /\ loaded[g].ledger[f].recorded = db.ledger[f].recorded
          \/ /\ loaded[g].ledger[f].status # "pending"
             /\ loaded[g].ledger[f].recorded = "aged"
             /\ db.ledger[f].status = "absent"
      BY <1>3 DEF IndInv, LoadedTrue
    <2>2. KeptBut(db', db, f, h)
      BY DEF ClaimRefused
    <2> QED
      BY <1>4, <2>1, <2>2 DEF KeptBut
  <1>11. ReportKept'
    BY <1>1, <1>2, LeavesReport
  <1>12. BatchShape'
    BY <1>3, NarrowShape
  <1> QED
    BY <1>7, <1>8, <1>9, <1>10, <1>11, <1>12 DEF IndInv

LEMMA ClaimGrantedStep ==
    ASSUME IndInv, TypeOK', NEW h \in Helper, Claim(h),
           ClaimGranted(db', db, KindAt(h), cands[h], age[h], h),
           pc' = [pc EXCEPT ![h] = "running"],
           batch' = [batch EXCEPT ![h] = BatchOf(db', KindAt(h), cands[h], h)],
           missed' = Missing(h),
           publisher' = publisher, turn' = turn, cands' = cands, age' = age, undone' = undone
    PROVE  IndInv'
  <1> DEFINE k == KindAt(h)
             won == BatchOf(db', k, cands[h], h)
  <1>0. TypeOK /\ k \in Kind /\ cands[h] \in SUBSET Fingerprint /\ age[h] \in 0..MaxAge
    BY KindAtLemma DEF IndInv, TypeOK
  <1>1. pc[h] = "ready" /\ published' = published
        /\ loaded' = [g \in Helper |-> Disown(loaded[g], h)]
    BY DEF Claim, report
  <1>2. /\ pc'[h] = "running" /\ batch'[h] = won
        /\ \A g \in Helper \ {h} : pc'[g] = pc[g] /\ batch'[g] = batch[g]
    BY <1>0 DEF TypeOK
  <1>3. \A f \in won : f \in Fingerprint /\ FKind(f) = k
    BY <1>0 DEF BatchOf
  <1> HIDE DEF won
  <1>4. /\ \A g \in Helper : KindAt(g)' = KindAt(g)
        /\ InFlight(h)' /\ \A g \in Helper \ {h} : InFlight(g)' = InFlight(g)
    BY <1>2 DEF KindAt, InFlight
  <1>5. \A g \in Helper : pc'[g] = "collecting" =>
           pc[g] = "collecting" /\ missed'[g] = missed[g] \cup {h}
    BY <1>2 DEF Missing
  <1>6. \A g \in Helper : ClaimRefused(loaded'[g], loaded[g], h)
    BY <1>0, <1>1, DisownRefused DEF TypeOK
  <1>7. BatchShape'
    BY <1>2, <1>3, <1>4 DEF IndInv, BatchShape
  <1>8. /\ Batches(Fly, Kinds, batch)
        /\ Fly' \subseteq Helper /\ \A g \in Fly' : Kinds'[g] \in Kind
        /\ FewerBut(Fly', Kinds', batch', Fly, Kinds, batch, h)
        /\ Kinds'[h] = k /\ batch'[h] = won
    <2>1. \A g \in Helper : Kinds'[g] = KindAt(g) /\ Kinds[g] = KindAt(g) /\ KindAt(g) \in Kind
      BY <1>0, <1>4, KindAtLemma DEF Kinds
    <2>2. \A g \in Fly' \ {h} : g \in Fly
      BY <1>4 DEF Fly
    <2>3. Fly' \subseteq Helper
      BY DEF Fly
    <2> QED
      BY <1>2, <2>1, <2>2, <2>3, BatchesNow DEF FewerBut
  <1>9. Sound(db)'
    <2>1. SoundIn(db, Fly, Kinds, batch)
      BY SoundNow DEF IndInv
    <2>3. /\ db \in State /\ batch'[h] = BatchOf(db', k, cands[h], h)
          /\ ClaimGranted(db', db, k, cands[h], age[h], h)
      BY <1>0, <1>8 DEF TypeOK, won
    <2> HIDE DEF k
    <2>4. NewBatch(db', db, h, k, cands[h], age[h], Fly, Kinds, batch, Fly', Kinds', batch')
      BY <1>0, <1>8, <2>1, <2>3 DEF NewBatch
    <2>2. SoundIn(db', Fly', Kinds', batch')
      BY <2>4, SoundClaimed
    <2> QED
      BY <2>2, SoundNext
  <1>10. \A g \in Helper : Sound(loaded[g])'
    <2> SUFFICES ASSUME NEW g \in Helper
                 PROVE  SoundIn(loaded'[g], Fly', Kinds', batch')
      BY SoundNext
    <2>1. SoundIn(loaded[g], Fly, Kinds, batch)
      BY SoundNow DEF IndInv
    <2> QED
      BY <1>6, <1>8, <2>1, SoundDisowned
  <1>11. LeaseOutlasts'
    <2> SUFFICES ASSUME NEW g \in Helper, Protected(g)'
                 PROVE  /\ Leased(db, g)'
                        /\ \A x \in Helper : pc'[x] = "collecting" /\ g \notin missed'[x]
                                             => Leased(loaded[x], g)'
      BY DEF LeaseOutlasts
    <2>1. CASE g = h
      BY <1>4, <1>5, <2>1 DEF ClaimGranted, Leased
    <2>2. CASE g # h
      <3>1. Protected(g) /\ KindAt(g) \in Kind
        BY <1>0, <1>4, <2>2, KindAtLemma DEF Protected
      <3>2. /\ Leased(db, g)
            /\ \A x \in Helper : pc[x] = "collecting" /\ g \notin missed[x]
                                 => Leased(loaded[x], g)
        BY <3>1 DEF IndInv, LeaseOutlasts
      <3>3. KindAt(g) # k
        <4> SUFFICES ASSUME KindAt(g) = k PROVE FALSE
          OBVIOUS
        <4>1. db.owner[k].token = g /\ db.owner[k].left = Lease - age[g]
          BY <3>2 DEF Leased
        <4>2. ~(db.owner[k].left > -age[h])
          BY <2>2, <4>1, NamesAssumption DEF ClaimGranted
        <4>3. age[g] < Lease /\ age[g] \in 0..MaxAge
          BY <1>0, <3>1 DEF Protected, TypeOK
        <4> QED
          BY <1>0, <4>1, <4>2, <4>3, LeaseAssumption
      <3>4. Leased(db, g)'
        <4>1. OwnerBut(db', db, KindAt(g), h)
          BY <3>1, <3>3 DEF ClaimGranted
        <4> QED
          BY <1>4, <2>2, <3>1, <3>2, <4>1, LeaseStands DEF Leased
      <3>5. ASSUME NEW x \in Helper, pc'[x] = "collecting", g \notin missed'[x]
            PROVE  Leased(loaded[x], g)'
        <4>1. OwnerBut(loaded'[x], loaded[x], KindAt(g), h)
          BY <1>6, <3>1 DEF ClaimRefused
        <4>2. Leased(loaded[x], g)
          BY <1>5, <3>2, <3>5
        <4> QED
          BY <1>4, <2>2, <3>1, <4>1, <4>2, LeaseStands DEF Leased
      <3> QED
        BY <3>4, <3>5
    <2> QED
      BY <2>1, <2>2
  <1>12. LoadedTrue'
    BY <1>5 DEF LoadedTrue
  <1>13. ReportKept'
    BY <1>1, ReportStays
  <1> QED
    BY <1>7, <1>9, <1>10, <1>11, <1>12, <1>13 DEF IndInv

LEMMA ClaimStep ==
    ASSUME IndInv, TypeOK', NEW h \in Helper, Claim(h)
    PROVE  IndInv'
  <1> DEFINE k == KindAt(h)
             won == BatchOf(db', k, cands[h], h)
  <1>1. TypeOK /\ k \in Kind
    BY KindAtLemma DEF IndInv
  <1>2. \/ ClaimRefused(db', db, h)
        \/ ClaimGranted(db', db, k, cands[h], age[h], h)
    BY <1>1, ClaimedFacts DEF Claim
  <1>3. CASE won = {}
    <2>1. NextKind(h) /\ missed' = missed
      BY <1>3 DEF Claim
    <2>2. ~ClaimGranted(db', db, k, cands[h], age[h], h)
      BY <1>3 DEF ClaimGranted, BatchOf
    <2> QED
      BY <1>2, <2>1, <2>2, ClaimRefusedStep
  <1>4. CASE won # {}
    <2>1. /\ pc' = [pc EXCEPT ![h] = "running"]
          /\ batch' = [batch EXCEPT ![h] = won]
          /\ missed' = Missing(h)
          /\ publisher' = publisher /\ turn' = turn /\ cands' = cands
          /\ age' = age /\ undone' = undone
      BY <1>4 DEF Claim
    <2>2. db'.owner[k].token = h
      BY <1>4 DEF BatchOf
    <2>3. ~ClaimRefused(db', db, h)
      BY <1>1, <2>2, NamesAssumption DEF ClaimRefused, OwnerBut, Orphaned
    <2> QED
      BY <1>2, <2>1, <2>3, ClaimGrantedStep
  <1> QED
    BY <1>3, <1>4

LEMMA CompleteStep ==
    ASSUME IndInv, TypeOK', NEW h \in Helper, Complete(h)
    PROVE  IndInv'
  <1> DEFINE k == KindAt(h)
  <1>0. TypeOK /\ k \in Kind
    BY KindAtLemma DEF IndInv
  <1>1. /\ pc[h] = "finishing" /\ db' = CompletedState(h) /\ NextKind(h)
        /\ missed' = (IF db.owner[k].token = h THEN Missing(h) ELSE missed)
        /\ loaded' = loaded /\ published' = published
    BY DEF Complete, CompletedState, report
  <1>2. Others(h) /\ Idle(h)' /\ Reported(h)
    BY <1>0, <1>1, NextKindFacts
  <1>3. /\ Narrow
        /\ \A g \in Helper : InFlight(g)' => age'[g] = age[g] /\ undone'[g] = undone[g]
        /\ \A g \in Helper : pc'[g] = "collecting" => g # h /\ pc[g] = "collecting"
    BY <1>2, LeavesNarrow
  <1>4. ReportKept'
    BY <1>1, <1>2, LeavesReport
  <1>5. \/ /\ db.owner[k].token # h
           /\ db'.owner = db.owner
           /\ \A f \in Fingerprint : Kept(db', db, f)
        \/ /\ db.owner[k].token = h
           /\ db'.owner[k] = NoOwner
           /\ \A j \in Kind \ {k} : db'.owner[j] = db.owner[j]
           /\ \A f \in Fingerprint :
                \/ /\ Kept(db', db, f)
                   /\ ~(f \in batch[h] /\ db.ledger[f].token = h
                         /\ db.ledger[f].status = "pending")
                \/ /\ f \in batch[h] /\ db.ledger[f].token = h
                   /\ db'.ledger[f].token = NoToken
    BY <1>0, <1>1, CompletedFacts
  <1>6. CASE db.owner[k].token # h
    <2>1. db'.owner = db.owner /\ \A f \in Fingerprint : Kept(db', db, f)
      BY <1>5, <1>6
    <2>2. \A f \in Fingerprint : Dropped(db', db, f)
      <3>1. Absent.status = "absent" /\ Absent.token = NoToken
        BY DEF Absent
      <3> QED
        BY <2>1, <3>1 DEF Kept, Dropped
    <2>3. LoadedTrue'
      BY <1>1, <1>3, <1>6, <2>1, LoadedKept
    <2> QED
      BY <1>1, <1>3, <1>4, <1>6, <2>1, <2>2, <2>3, QuietStep
  <1>7. CASE db.owner[k].token = h
    <2>1. missed' = Missing(h)
      BY <1>1, <1>7
    <2>2. \A g \in Helper : pc'[g] = "collecting" => missed'[g] = missed[g] \cup {h}
      BY <1>3, <2>1 DEF Missing
    <2>3. LoadedTrue'
      BY <2>2 DEF LoadedTrue
    <2>4. Sound(db)'
      <3>1. /\ SoundIn(db, Fly, Kinds, batch) /\ Batches(Fly, Kinds, batch)
            /\ Fewer(Fly', Kinds', batch', Fly, Kinds, batch)
        BY <1>3, SoundNow, BatchesNow, NarrowFewer DEF IndInv
      <3>2. h \in Fly /\ h \notin Fly' /\ Kinds[h] = k
        BY <1>1, <1>2 DEF Fly, InFlight, Idle, Kinds
      <3> HIDE DEF k
      <3>3. SoundIn(db', Fly', Kinds', batch')
        BY <1>0, <1>5, <1>7, <3>1, <3>2, SoundCompleted
      <3> QED
        BY <3>3, SoundNext
    <2>5. \A g \in Helper : Sound(loaded[g])'
      BY <1>1, <1>3, LoadedSound
    <2>6. LeaseOutlasts'
      <3> SUFFICES ASSUME NEW g \in Helper, Protected(g)'
                   PROVE  /\ Leased(db, g)'
                          /\ \A x \in Helper : pc'[x] = "collecting" /\ g \notin missed'[x]
                                               => Leased(loaded[x], g)'
        BY DEF LeaseOutlasts
      <3>1. Protected(g) /\ turn'[g] = turn[g] /\ age'[g] = age[g]
        BY <1>3 DEF Narrow, Protected
      <3>2. g # h
        BY <1>2 DEF Protected, InFlight, Idle
      <3>3. KindAt(g)' = KindAt(g) /\ KindAt(g) \in Kind
        BY <1>0, <3>1, KindAtLemma DEF KindAt
      <3>4. /\ Leased(db, g)
            /\ \A x \in Helper : pc[x] = "collecting" /\ g \notin missed[x]
                                 => Leased(loaded[x], g)
        BY <3>1 DEF IndInv, LeaseOutlasts
      <3>5. KindAt(g) # k
        BY <1>7, <3>2, <3>4 DEF Leased
      <3>6. db'.owner[KindAt(g)] = db.owner[KindAt(g)]
        BY <1>5, <1>7, <3>3, <3>5
      <3>7. Leased(db, g)'
        BY <3>1, <3>3, <3>4, <3>6 DEF Leased
      <3>8. ASSUME NEW x \in Helper, pc'[x] = "collecting", g \notin missed'[x]
            PROVE  Leased(loaded[x], g)'
        <4>1. Leased(loaded[x], g)
          BY <1>3, <2>2, <3>4, <3>8
        <4> QED
          BY <1>1, <3>1, <3>3, <4>1 DEF Leased
      <3> QED
        BY <3>7, <3>8
    <2>7. BatchShape'
      BY <1>3, NarrowShape
    <2> QED
      BY <1>4, <2>3, <2>4, <2>5, <2>6, <2>7 DEF IndInv
  <1> QED
    BY <1>6, <1>7

\* Time passes: the leases and the ages of the batches in flight move together.
LEMMA TickStep ==
    ASSUME IndInv, TypeOK', Tick
    PROVE  IndInv'
  <1>0. TypeOK
    BY DEF IndInv
  <1>1. /\ db' = Elapse(db) /\ loaded' = [h \in Helper |-> Elapse(loaded[h])]
        /\ age' = [h \in Helper |-> IF pc[h] = "ready" \/ InFlight(h)
                                    THEN Later(age[h]) ELSE age[h]]
        /\ published' = published /\ publisher' = publisher /\ pc' = pc /\ missed' = missed
        /\ turn' = turn /\ cands' = cands /\ batch' = batch /\ undone' = undone
    BY DEF Tick, report
  <1>2. \A g \in Helper : InFlight(g)' = InFlight(g) /\ KindAt(g)' = KindAt(g)
    BY <1>1 DEF InFlight, KindAt
  <1>3. Narrow
    BY <1>1, <1>2 DEF Narrow, IndInv, BatchShape
  <1>4. BatchShape'
    BY <1>3, NarrowShape
  <1>5. Batches(Fly, Kinds, batch) /\ Fewer(Fly', Kinds', batch', Fly, Kinds, batch)
    BY <1>3, BatchesNow, NarrowFewer
  <1>6. db \in State /\ \A g \in Helper : loaded[g] \in State
    BY <1>0 DEF TypeOK
  <1>7. Sound(db)'
    <2>1. SoundIn(db, Fly, Kinds, batch)
      BY SoundNow DEF IndInv
    <2>2. SoundIn(db', Fly', Kinds', batch')
      BY <1>1, <1>5, <1>6, <2>1, SoundElapsed
    <2> QED
      BY <2>2, SoundNext
  <1>8. \A g \in Helper : Sound(loaded[g])'
    <2> SUFFICES ASSUME NEW g \in Helper
                 PROVE  SoundIn(loaded'[g], Fly', Kinds', batch')
      BY SoundNext
    <2>1. SoundIn(loaded[g], Fly, Kinds, batch) /\ loaded'[g] = Elapse(loaded[g])
      BY <1>1, SoundNow DEF IndInv
    <2> QED
      BY <1>5, <1>6, <2>1, SoundElapsed
  <1>9. LeaseOutlasts'
    <2> SUFFICES ASSUME NEW h \in Helper, Protected(h)'
                 PROVE  /\ Leased(db, h)'
                        /\ \A g \in Helper : pc'[g] = "collecting" /\ h \notin missed'[g]
                                             => Leased(loaded[g], h)'
      BY DEF LeaseOutlasts
    <2>1. InFlight(h) /\ ~undone[h] /\ age'[h] < Lease /\ age'[h] = Later(age[h])
      BY <1>1, <1>2 DEF Protected
    <2>2. age[h] \in Nat /\ age[h] < Lease /\ age'[h] = age[h] + 1
      <3>1. age[h] \in 0..MaxAge
        BY <1>0 DEF TypeOK
      <3> QED
        BY <2>1, <3>1, LeaseAssumption DEF Later
    <2>3. KindAt(h) \in Kind
      BY <1>0, KindAtLemma
    <2>4. /\ Leased(db, h)
          /\ \A g \in Helper : pc[g] = "collecting" /\ h \notin missed[g] => Leased(loaded[g], h)
      BY <2>1, <2>2 DEF IndInv, LeaseOutlasts, Protected
    <2>5. Sooner(Lease - age[h]) = Lease - age'[h]
      BY <2>2, LeaseAssumption DEF Sooner
    <2>6. ASSUME NEW s \in State, Leased(s, h)
          PROVE  /\ Elapse(s).owner[KindAt(h)].token = h
                 /\ Elapse(s).owner[KindAt(h)].left = Lease - age'[h]
      BY <2>3, <2>5, <2>6, ElapseLemma DEF Leased
    <2>7. Leased(db, h)'
      BY <1>1, <1>2, <1>6, <2>4, <2>6 DEF Leased
    <2>8. ASSUME NEW g \in Helper, pc'[g] = "collecting", h \notin missed'[g]
          PROVE  Leased(loaded[g], h)'
      <3>1. Leased(loaded[g], h) /\ loaded'[g] = Elapse(loaded[g])
        BY <1>1, <2>4, <2>8
      <3> QED
        BY <1>2, <1>6, <2>6, <3>1 DEF Leased
    <2> QED
      BY <2>7, <2>8
  <1>10. LoadedTrue'
    <2>1. \A f \in Fingerprint : /\ db'.ledger[f].status = db.ledger[f].status
                                 /\ db'.ledger[f].recorded = db.ledger[f].recorded
      BY <1>1, <1>6, ElapseLemma
    <2>2. \A g \in Helper : \A f \in Fingerprint :
             /\ loaded'[g].ledger[f].status = loaded[g].ledger[f].status
             /\ loaded'[g].ledger[f].recorded = loaded[g].ledger[f].recorded
      BY <1>1, <1>6, ElapseLemma
    <2> QED
      BY <1>1, <2>1, <2>2 DEF IndInv, LoadedTrue
  <1>11. ReportKept'
    BY <1>1, ReportStays
  <1> QED
    BY <1>4, <1>7, <1>8, <1>9, <1>10, <1>11 DEF IndInv

LEMMA RetireStep ==
    ASSUME IndInv, TypeOK', Retire
    PROVE  IndInv'
  <1>0. TypeOK
    BY DEF IndInv
  <1>1. /\ db' = Expire(db) /\ loaded' = [h \in Helper |-> Expire(loaded[h])]
        /\ age' = [h \in Helper |-> IF InFlight(h) THEN MaxAge ELSE age[h]]
        /\ published' = published /\ publisher' = publisher /\ pc' = pc /\ missed' = missed
        /\ turn' = turn /\ cands' = cands /\ batch' = batch /\ undone' = undone
    BY DEF Retire, report
  <1>2. \A g \in Helper : InFlight(g)' = InFlight(g) /\ KindAt(g)' = KindAt(g)
    BY <1>1 DEF InFlight, KindAt
  <1>3. Narrow
    BY <1>1, <1>2 DEF Narrow, IndInv, BatchShape
  <1>4. BatchShape'
    BY <1>3, NarrowShape
  <1>5. Batches(Fly, Kinds, batch) /\ Fewer(Fly', Kinds', batch', Fly, Kinds, batch)
    BY <1>3, BatchesNow, NarrowFewer
  <1>6. db \in State /\ \A g \in Helper : loaded[g] \in State
    BY <1>0 DEF TypeOK
  <1>7. Sound(db)'
    <2>1. SoundIn(db, Fly, Kinds, batch)
      BY SoundNow DEF IndInv
    <2>2. SoundIn(db', Fly', Kinds', batch')
      BY <1>1, <1>5, <1>6, <2>1, SoundExpired
    <2> QED
      BY <2>2, SoundNext
  <1>8. \A g \in Helper : Sound(loaded[g])'
    <2> SUFFICES ASSUME NEW g \in Helper
                 PROVE  SoundIn(loaded'[g], Fly', Kinds', batch')
      BY SoundNext
    <2>1. SoundIn(loaded[g], Fly, Kinds, batch) /\ loaded'[g] = Expire(loaded[g])
      BY <1>1, SoundNow DEF IndInv
    <2> QED
      BY <1>5, <1>6, <2>1, SoundExpired
  <1>9. LeaseOutlasts'
    BY <1>1, <1>2, LeaseAssumption DEF LeaseOutlasts, Protected
  <1>10. LoadedTrue'
    <2>1. \A f \in Fingerprint :
             /\ db'.ledger[f].status = db.ledger[f].status
             /\ db'.ledger[f].recorded =
                   IF db.ledger[f].status # "absent" THEN "aged" ELSE db.ledger[f].recorded
      BY <1>1, <1>6, ExpireLemma
    <2>2. \A g \in Helper : \A f \in Fingerprint :
             /\ loaded'[g].ledger[f].status = loaded[g].ledger[f].status
             /\ loaded'[g].ledger[f].recorded =
                   IF loaded[g].ledger[f].status # "absent"
                   THEN "aged" ELSE loaded[g].ledger[f].recorded
      BY <1>1, <1>6, ExpireLemma
    <2> QED
      BY <1>1, <2>1, <2>2 DEF IndInv, LoadedTrue
  <1>11. ReportKept'
    BY <1>1, ReportStays
  <1> QED
    BY <1>4, <1>7, <1>8, <1>9, <1>10, <1>11 DEF IndInv

LEMMA InitInvariant == Init => IndInv
  <1> SUFFICES ASSUME Init PROVE IndInv
    OBVIOUS
  <1>1. TypeOK
    BY EmptyType, BoundsType DEF Init, TypeOK, Result, Point
  <1>2. \A h \in Helper : ~InFlight(h) /\ pc[h] = "off" /\ batch[h] = {}
    BY DEF Init, InFlight
  <1>3. Sound(EmptyState)
    <2>1. Fly = {}
      BY <1>2 DEF Fly
    <2>2. SoundIn(EmptyState, Fly, Kinds, batch)
      BY <2>1, SoundEmpty
    <2> QED
      BY <2>2, SoundNow
  <1>4. Sound(db) /\ \A g \in Helper : Sound(loaded[g])
    BY <1>3 DEF Init
  <1>5. BatchShape /\ LeaseOutlasts /\ LoadedTrue
    BY <1>2 DEF BatchShape, LeaseOutlasts, Protected, LoadedTrue
  <1>6. ReportKept
    BY DEF Init, ReportKept
  <1> QED
    BY <1>1, <1>4, <1>5, <1>6 DEF IndInv

LEMMA InvariantStep ==
    ASSUME IndInv, [Next]_vars
    PROVE  IndInv'
  <1>1. TypeOK'
    BY TypeStep DEF IndInv
  <1> QED
    BY <1>1, ScanStep, CommitStep, RefusedStep, DispatchStep, ClaimStep, NotifyStep,
       CompleteStep, CrashStep, OutsideStep, StarStep, TickStep, RetireStep
    DEF Next, HelperStep

(***************************************************************************)
(* The inductive invariant: the stored ledger and every ledger a scan has  *)
(* loaded, and may yet commit in its place, keep their leases consistent   *)
(* with the batches in flight (claim_batch, complete_batch,                *)
(* commit_generation).                                                     *)
(***************************************************************************)
THEOREM InductiveInvariant == Spec => []IndInv
  BY InitInvariant, InvariantStep, PTL DEF Spec

(***************************************************************************)
(* The owner entry covers the live leases of its kind, whatever ledger the *)
(* commits of overlapping scans write back.                                *)
(***************************************************************************)
THEOREM OwnerCoversAlways == Spec => []OwnerCovers
  <1>1. IndInv => OwnerCovers
    BY DEF IndInv, Sound, OwnerCovers
  <1> QED
    BY <1>1, InductiveInvariant, PTL

(***************************************************************************)
(* complete_batch is refused only to a helper that took as long as the     *)
(* lease since it read the clock, or whose claim the commit of an          *)
(* overlapping scan wrote over.                                            *)
(***************************************************************************)
THEOREM BatchKeptAlways == Spec => []BatchKept
  <1>1. IndInv => BatchKept
    BY DEF IndInv, LeaseOutlasts, Leased, BatchKept
  <1> QED
    BY <1>1, InductiveInvariant, PTL

(***************************************************************************)
(* Two helpers whose claims stand never deliver the same notification, and *)
(* none of them delivers one that is already settled.                      *)
(***************************************************************************)
THEOREM NoRedeliveryAlways == Spec => []NoRedelivery
  <1>1. ASSUME IndInv
        PROVE  NoRedelivery
    <2> SUFFICES ASSUME NEW h \in Helper, Protected(h), NEW f \in batch[h]
                 PROVE  /\ db.ledger[f].status \in {"pending", "absent"}
                        /\ \A g \in Helper \ {h} : f \in batch[g] => ~Protected(g)
      BY DEF NoRedelivery
    <2>1. \A g \in Helper : Protected(g) => db.owner[KindAt(g)].token = g
      BY <1>1 DEF IndInv, LeaseOutlasts, Leased
    <2>2. \A g \in Helper : f \in batch[g] => FKind(f) = KindAt(g)
      BY <1>1 DEF IndInv, BatchShape
    <2>3. InFlight(h) /\ Open(db)
      BY <1>1 DEF IndInv, Sound, Protected
    <2>4. db.ledger[f].status \in {"pending", "absent"}
      BY <2>1, <2>3 DEF Open
    <2> QED
      BY <2>1, <2>2, <2>4
  <1>2. IndInv => NoRedelivery
    BY <1>1
  <1> QED
    BY <1>2, InductiveInvariant, PTL
-----------------------------------------------------------------------------
\* Entry f after pruning d into n.
PrunedEntry(n, d, f) ==
    \/ n.ledger[f] = d.ledger[f]
    \/ /\ d.ledger[f].status # "pending" /\ d.ledger[f].recorded = "aged"
       /\ n.ledger[f].status = "absent" /\ n.ledger[f].token = NoToken

LEMMA PrunedFacts ==
    ASSUME NEW d \in State
    PROVE  \A f \in Fingerprint : PrunedEntry(Prune(d), d, f)
  BY DEF Prune, PrunedEntry, Absent

\* Entry f after helper h reserved a batch of kind k among the candidates c.
ReservedEntry(n, d, f, k, c, h) ==
    \/ n.ledger[f] = d.ledger[f]
    \/ /\ n.owner[k].token = h /\ FKind(f) = k
       /\ d.ledger[f].status \in {"absent", "pending"}
       /\ n.ledger[f].status = "pending" /\ n.ledger[f].token = h
    \/ /\ n.owner[k].token = h /\ FKind(f) = k
       /\ d.ledger[f].status = "pending" /\ n.ledger[f].status = "suppressed"
       /\ n.ledger[f].token = d.ledger[f].token
       /\ n.ledger[f].recorded = d.ledger[f].recorded
       /\ \E g \in c \ {f} :
             /\ RefOf[g] \in StartsWith[f]
             /\ n.ledger[g].status = "pending" /\ n.ledger[g].token = h

LEMMA ReservedFacts ==
    ASSUME NEW d \in State, NEW k \in Kind, NEW c \in SUBSET Fingerprint,
           NEW lag \in 0..MaxAge, NEW h \in Helper
    PROVE  \A f \in Fingerprint : ReservedEntry(ReserveBatch(d, k, c, lag, h), d, f, k, c, h)
  <1> DEFINE n == ReserveBatch(d, k, c, lag, h)
             claimed == Claimed(d, k, c, lag)
             reserved == [status |-> "pending", token |-> h,
                          left |-> Lease - lag, recorded |-> "recent"]
             other(f) == IF d.ledger[f].status = "pending" /\ SupersededBy(f, claimed)
                         THEN [d.ledger[f] EXCEPT !.status = "suppressed"]
                         ELSE d.ledger[f]
  <1>1. CASE LiveLease(d.owner[k], lag) \/ claimed = {}
    BY <1>1 DEF ReserveBatch, ReservedEntry
  <1>2. CASE ~(LiveLease(d.owner[k], lag) \/ claimed = {})
    <2>1. /\ n.owner = [d.owner EXCEPT ![k] = [token |-> h, left |-> Lease - lag]]
          /\ n.ledger = [f \in Fingerprint |-> IF f \in claimed THEN reserved ELSE other(f)]
      BY <1>2 DEF ReserveBatch
    <2>2. n.owner[k].token = h
      BY <2>1 DEF State
    <2>3. \A f \in claimed : f \in Fingerprint /\ f \in c /\ FKind(f) = k
                             /\ d.ledger[f].status \in {"absent", "pending"}
      BY DEF Claimed, Claimable
    <2>4. reserved.status = "pending" /\ reserved.token = h
      OBVIOUS
    <2>5. \A f \in Fingerprint :
             SupersededBy(f, claimed) =>
                /\ f \notin claimed
                /\ \E g \in claimed : RefOf[g] \in StartsWith[f]
      BY DEF SupersededBy
    <2>6. \A f \in Fingerprint : SupersededBy(f, claimed) => FKind(f) = k
      BY <2>3, FingerprintAssumption DEF SupersededBy, FKind
    <2>7. ASSUME NEW f \in Fingerprint
          PROVE  LET s == [d.ledger[f] EXCEPT !.status = "suppressed"]
                 IN  /\ s.status = "suppressed" /\ s.token = d.ledger[f].token
                     /\ s.recorded = d.ledger[f].recorded
      BY DEF State, Entry
    <2> HIDE DEF n, claimed, reserved
    <2>8. \A g \in claimed : n.ledger[g].status = "pending" /\ n.ledger[g].token = h
      BY <2>1, <2>3, <2>4
    <2>9. ASSUME NEW f \in Fingerprint
          PROVE  ReservedEntry(n, d, f, k, c, h)
      <3>1. CASE f \in claimed
        BY <2>2, <2>3, <2>8, <3>1 DEF ReservedEntry
      <3>2. CASE f \notin claimed /\ d.ledger[f].status = "pending" /\ SupersededBy(f, claimed)
        <4>1. n.ledger[f] = [d.ledger[f] EXCEPT !.status = "suppressed"]
          BY <2>1, <3>2
        <4>2. \E g \in c \ {f} :
                 /\ RefOf[g] \in StartsWith[f]
                 /\ n.ledger[g].status = "pending" /\ n.ledger[g].token = h
          BY <2>3, <2>5, <2>8, <3>2
        <4>3. /\ n.ledger[f].status = "suppressed" /\ n.ledger[f].token = d.ledger[f].token
              /\ n.ledger[f].recorded = d.ledger[f].recorded
          BY <2>7, <4>1
        <4> QED
          BY <2>2, <2>6, <3>2, <4>2, <4>3 DEF ReservedEntry
      <3>3. CASE f \notin claimed /\ ~(d.ledger[f].status = "pending" /\ SupersededBy(f, claimed))
        BY <2>1, <3>3 DEF ReservedEntry
      <3> QED
        BY <3>1, <3>2, <3>3
    <2> QED
      BY <2>9 DEF n
  <1> QED
    BY <1>1, <1>2

\* Entry f after helper h claimed a batch of kind k among the candidates c: kept
\* but for the older tokens of h, pruned, claimed, superseded, or superseded
\* and pruned.
ClaimedEntry(n, d, f, k, c, h) ==
    \/ /\ n.ledger[f].status = d.ledger[f].status
       /\ n.ledger[f].token = Orphaned(d.ledger[f].token, h)
    \/ /\ d.ledger[f].status # "pending" /\ d.ledger[f].recorded = "aged"
       /\ n.ledger[f].status = "absent" /\ n.ledger[f].token = NoToken
    \/ /\ \/ d.ledger[f].status \in {"absent", "pending"}
          \/ d.ledger[f].recorded = "aged"
       /\ n.ledger[f].status = "pending" /\ n.ledger[f].token = h
    \/ /\ n.owner[k].token = h /\ FKind(f) = k
       /\ d.ledger[f].status = "pending" /\ n.ledger[f].status = "suppressed"
       /\ n.ledger[f].token = Orphaned(d.ledger[f].token, h)
       /\ \E g \in c \ {f} :
             /\ RefOf[g] \in StartsWith[f]
             /\ n.ledger[g].status = "pending" /\ n.ledger[g].token = h
    \/ /\ d.ledger[f].status = "pending" /\ d.ledger[f].recorded = "aged"
       /\ n.ledger[f].status = "absent" /\ n.ledger[f].token = NoToken

LEMMA ClaimedEntries ==
    ASSUME TypeOK, NEW h \in Helper
    PROVE  \A f \in Fingerprint : ClaimedEntry(ClaimedState(h), db, f, KindAt(h), cands[h], h)
  <1> DEFINE p == Prune(db)
             q == Disown(p, h)
             k == KindAt(h)
             m == ReserveBatch(q, k, cands[h], age[h], h)
             n == Prune(m)
  <1>1. age[h] \in 0..MaxAge /\ cands[h] \in SUBSET Fingerprint /\ k \in Kind
    BY KindAtLemma DEF TypeOK
  <1>2. p \in State /\ \A f \in Fingerprint : PrunedEntry(p, db, f)
    BY PruneLemma, PrunedFacts DEF TypeOK
  <1> HIDE DEF p, k
  <1>3. NoToken # h /\ Orphaned(NoToken, h) = NoToken
    BY NamesAssumption DEF Orphaned
  <1>4. q \in State /\ \A f \in Fingerprint :
           /\ q.ledger[f].status = p.ledger[f].status
           /\ q.ledger[f].recorded = p.ledger[f].recorded
           /\ q.ledger[f].token = Orphaned(p.ledger[f].token, h)
    <2>1. q \in State
      BY <1>2, DisownLemma
    <2>2. \A f \in Fingerprint :
             /\ q.ledger[f].status = p.ledger[f].status
             /\ q.ledger[f].recorded = p.ledger[f].recorded
             /\ q.ledger[f].token = Orphaned(p.ledger[f].token, h)
      BY <1>2 DEF Disown, State, Entry
    <2> QED
      BY <2>1, <2>2
  <1> HIDE DEF q
  <1>5. m \in State /\ \A f \in Fingerprint : ReservedEntry(m, q, f, k, cands[h], h)
    BY <1>1, <1>4, ReserveLemma, ReservedFacts
  <1> HIDE DEF m
  <1>6. n.owner = m.owner /\ \A f \in Fingerprint : PrunedEntry(n, m, f)
    BY <1>5, PruneLemma, PrunedFacts
  <1>7. ClaimedState(h) = n
    BY DEF ClaimedState, n, m, q, p, k
  <1> HIDE DEF n
  <1>8. \A g \in Fingerprint : m.ledger[g].status = "pending" => n.ledger[g] = m.ledger[g]
    BY <1>6 DEF PrunedEntry
  <1>9. ASSUME NEW f \in Fingerprint
        PROVE  ClaimedEntry(n, db, f, k, cands[h], h)
    <2>1. \/ /\ q.ledger[f].status = db.ledger[f].status
             /\ q.ledger[f].recorded = db.ledger[f].recorded
             /\ q.ledger[f].token = Orphaned(db.ledger[f].token, h)
          \/ /\ db.ledger[f].status # "pending" /\ db.ledger[f].recorded = "aged"
             /\ q.ledger[f].status = "absent" /\ q.ledger[f].token = NoToken
      BY <1>2, <1>3, <1>4 DEF PrunedEntry
    <2>2. CASE m.ledger[f] = q.ledger[f]
      BY <1>6, <2>1, <2>2 DEF PrunedEntry, ClaimedEntry
    <2>3. CASE /\ q.ledger[f].status \in {"absent", "pending"}
               /\ m.ledger[f].status = "pending" /\ m.ledger[f].token = h
      <3>1. n.ledger[f].status = "pending" /\ n.ledger[f].token = h
        BY <1>8, <2>3
      <3> QED
        BY <2>1, <2>3, <3>1 DEF ClaimedEntry
    <2>4. CASE /\ m.owner[k].token = h /\ FKind(f) = k
               /\ q.ledger[f].status = "pending" /\ m.ledger[f].status = "suppressed"
               /\ m.ledger[f].token = q.ledger[f].token
               /\ m.ledger[f].recorded = q.ledger[f].recorded
               /\ \E g \in cands[h] \ {f} :
                     /\ RefOf[g] \in StartsWith[f]
                     /\ m.ledger[g].status = "pending" /\ m.ledger[g].token = h
      <3>1. /\ db.ledger[f].status = "pending"
            /\ m.ledger[f].recorded = db.ledger[f].recorded
            /\ m.ledger[f].token = Orphaned(db.ledger[f].token, h)
        BY <2>1, <2>4
      <3>2. \E g \in cands[h] \ {f} :
               /\ RefOf[g] \in StartsWith[f]
               /\ n.ledger[g].status = "pending" /\ n.ledger[g].token = h
        BY <1>1, <1>8, <2>4
      <3>3. n.owner[k].token = h
        BY <1>6, <2>4
      <3>4. CASE n.ledger[f] = m.ledger[f]
        BY <2>4, <3>1, <3>2, <3>3, <3>4 DEF ClaimedEntry
      <3>5. CASE /\ m.ledger[f].recorded = "aged"
                 /\ n.ledger[f].status = "absent" /\ n.ledger[f].token = NoToken
        BY <3>1, <3>5 DEF ClaimedEntry
      <3>6. PrunedEntry(n, m, f)
        BY <1>6
      <3> QED
        BY <3>4, <3>5, <3>6 DEF PrunedEntry
    <2>5. ReservedEntry(m, q, f, k, cands[h], h)
      BY <1>5
    <2> QED
      BY <2>2, <2>3, <2>4, <2>5 DEF ReservedEntry
  <1> QED
    BY <1>7, <1>9 DEF k

\* Entry f after helper h completed its batch b: kept, pruned, or settled by
\* the owner of the batch (and perhaps pruned at once).
CompletedEntry(n, d, f, k, b, h) ==
    \/ n.ledger[f] = d.ledger[f]
    \/ /\ d.ledger[f].status # "pending" /\ d.ledger[f].recorded = "aged"
       /\ n.ledger[f].status = "absent" /\ n.ledger[f].token = NoToken
    \/ /\ f \in b /\ d.ledger[f].token = h /\ d.owner[k].token = h
       /\ n.ledger[f].token = NoToken
       /\ \/ n.ledger[f].status \in {"delivered", "pending", "failed"}
          \/ n.ledger[f].status = "absent" /\ d.ledger[f].recorded = "aged"

LEMMA CompletedEntries ==
    ASSUME TypeOK, NEW h \in Helper
    PROVE  \A f \in Fingerprint : CompletedEntry(CompletedState(h), db, f, KindAt(h), batch[h], h)
  <1> DEFINE p == Prune(db)
             k == KindAt(h)
             m == CompleteBatch(p, k, batch[h], h, result[h])
             n == Prune(m)
  <1>1. batch[h] \in SUBSET Fingerprint /\ result[h] \in Result /\ k \in Kind
    BY KindAtLemma DEF TypeOK
  <1>2. p \in State /\ p.owner = db.owner /\ \A f \in Fingerprint : PrunedEntry(p, db, f)
    BY PruneLemma, PrunedFacts DEF TypeOK
  <1> HIDE DEF p, k
  <1>3. m \in State
    BY <1>1, <1>2, CompleteLemma
  <1>4. NoToken # h
    BY NamesAssumption
  <1>5. ASSUME NEW f \in Fingerprint
        PROVE  \/ m.ledger[f] = p.ledger[f]
               \/ /\ f \in batch[h] /\ p.ledger[f].token = h /\ p.owner[k].token = h
                  /\ m.ledger[f].token = NoToken
                  /\ m.ledger[f].status \in {"delivered", "pending", "failed"}
                  /\ m.ledger[f].recorded = p.ledger[f].recorded
    <2>1. DeliveryStatus(result[h]) \in {"delivered", "pending", "failed"}
      BY <1>1 DEF DeliveryStatus, Result
    <2> QED
      BY <2>1 DEF CompleteBatch
  <1> HIDE DEF m
  <1>6. \A f \in Fingerprint : PrunedEntry(n, m, f)
    BY <1>3, PrunedFacts
  <1>7. CompletedState(h) = n
    BY DEF CompletedState, n, m, p, k
  <1> HIDE DEF n
  <1>8. ASSUME NEW f \in Fingerprint
        PROVE  CompletedEntry(n, db, f, k, batch[h], h)
    <2>1. PrunedEntry(p, db, f) /\ PrunedEntry(n, m, f)
      BY <1>2, <1>6
    <2>2. CASE m.ledger[f] = p.ledger[f]
      BY <2>1, <2>2 DEF PrunedEntry, CompletedEntry
    <2>3. CASE /\ f \in batch[h] /\ p.ledger[f].token = h /\ p.owner[k].token = h
               /\ m.ledger[f].token = NoToken
               /\ m.ledger[f].status \in {"delivered", "pending", "failed"}
               /\ m.ledger[f].recorded = p.ledger[f].recorded
      <3>1. p.ledger[f] = db.ledger[f]
        BY <1>4, <2>1, <2>3 DEF PrunedEntry
      <3> QED
        BY <1>2, <2>1, <2>3, <3>1 DEF PrunedEntry, CompletedEntry
    <2> QED
      BY <1>5, <2>2, <2>3
  <1> QED
    BY <1>7, <1>8 DEF k

\* Entry f after the watch of r was turned off.
DroppedEntry(n, d, f, r) ==
    \/ n.ledger[f] = d.ledger[f]
    \/ /\ n.ledger[f].status = "absent" /\ n.ledger[f].token = NoToken
       /\ \/ d.ledger[f].status # "pending" /\ d.ledger[f].recorded = "aged"
          \/ d.ledger[f].status = "pending" /\ r \in StartsWith[f]

LEMMA TurnOffEntries ==
    ASSUME TypeOK, NEW r \in Reference, TurnOff(r)
    PROVE  /\ db'.owner = db.owner
           /\ \A f \in Fingerprint : DroppedEntry(db', db, f, r)
  <1> DEFINE p == Prune(db)
             m == WithoutActiveReferences(p, r)
  <1>1. db' = Prune(m)
    BY DEF TurnOff
  <1>2. p \in State /\ p.owner = db.owner /\ \A f \in Fingerprint : PrunedEntry(p, db, f)
    BY PruneLemma, PrunedFacts DEF TypeOK
  <1> HIDE DEF p
  <1>3. m \in State /\ m.owner = p.owner
    BY <1>2, TurnOffLemma
  <1>4. \A f \in Fingerprint :
           \/ m.ledger[f] = p.ledger[f]
           \/ /\ p.ledger[f].status = "pending" /\ r \in StartsWith[f]
              /\ m.ledger[f].status = "absent" /\ m.ledger[f].token = NoToken
              /\ m.ledger[f].recorded = "recent"
    BY DEF WithoutActiveReferences, Absent
  <1> HIDE DEF m
  <1>5. db'.owner = m.owner /\ \A f \in Fingerprint : PrunedEntry(db', m, f)
    BY <1>1, <1>3, PruneLemma, PrunedFacts
  <1>6. ASSUME NEW f \in Fingerprint
        PROVE  DroppedEntry(db', db, f, r)
    <2>1. PrunedEntry(p, db, f) /\ PrunedEntry(db', m, f)
      BY <1>2, <1>5
    <2>2. \/ m.ledger[f] = p.ledger[f]
          \/ /\ p.ledger[f].status = "pending" /\ r \in StartsWith[f]
             /\ m.ledger[f].status = "absent" /\ m.ledger[f].token = NoToken
             /\ m.ledger[f].recorded = "recent"
      BY <1>4
    <2> QED
      BY <2>1, <2>2 DEF PrunedEntry, DroppedEntry
  <1> QED
    BY <1>2, <1>3, <1>5, <1>6

\* Time changes the status of no entry.
LEMMA TimeEntries ==
    ASSUME TypeOK, Tick \/ Retire
    PROVE  \A f \in Fingerprint : db'.ledger[f].status = db.ledger[f].status
  BY ElapseLemma, ExpireLemma DEF Tick, Retire, TypeOK

\* The commit of a scan that missed nothing changes no more than pruning does.
LEMMA CommitEntries ==
    ASSUME IndInv, NEW h \in Helper, Commit(h), ~Overwrites, NEW f \in Fingerprint
    PROVE  \/ db'.ledger[f].status = db.ledger[f].status
           \/ /\ db.ledger[f].status # "pending" /\ db.ledger[f].recorded = "aged"
              /\ db'.ledger[f].status = "absent"
  <1>1. pc[h] = "collecting" /\ db' = Prune(loaded[h]) /\ pc'[h] = "committed"
    BY DEF Commit
  <1>2. missed[h] = {}
    BY <1>1 DEF Overwrites
  <1>3. \/ /\ loaded[h].ledger[f].status = db.ledger[f].status
           /\ loaded[h].ledger[f].recorded = db.ledger[f].recorded
        \/ /\ loaded[h].ledger[f].status # "pending"
           /\ loaded[h].ledger[f].recorded = "aged"
           /\ db.ledger[f].status = "absent"
    BY <1>1, <1>2 DEF IndInv, LoadedTrue
  <1>4. db'.ledger[f] =
           IF loaded[h].ledger[f].status # "pending" /\ loaded[h].ledger[f].recorded = "aged"
           THEN Absent ELSE loaded[h].ledger[f]
    BY <1>1 DEF Prune
  <1>5. Absent.status = "absent"
    BY DEF Absent
  <1> QED
    BY <1>3, <1>4, <1>5

\* The entry f is settled and stays so, or is forgotten beyond its age.
SettledStays(f) ==
    db.ledger[f].status \in {"delivered", "suppressed", "failed"} =>
       \/ db'.ledger[f].status = db.ledger[f].status
       \/ db.ledger[f].recorded = "aged" /\ db'.ledger[f].status \in {"absent", "pending"}

\* What a pending entry can be given up for in one step.
GivenUp(f) ==
    db.ledger[f].status = "pending" =>
       /\ db'.ledger[f].status = "suppressed" =>
             \E g \in Fingerprint \ {f} :
                /\ RefOf[g] \in StartsWith[f]
                /\ db'.ledger[g].status = "pending"
                /\ db'.ledger[g].token \in Helper
                /\ RefOf[g] = RefOf[f] /\ f \in published => publisher # db'.ledger[g].token
       /\ db'.ledger[f].status = "absent" =>
             \/ \E r \in StartsWith[f] : r \in WatchReference \ watches'
             \/ db.ledger[f].recorded = "aged"

\* A step that at most prunes entry f.
LEMMA PrunedStays ==
    ASSUME NEW f \in Fingerprint,
           \/ db'.ledger[f].status = db.ledger[f].status
           \/ /\ db.ledger[f].status # "pending" /\ db.ledger[f].recorded = "aged"
              /\ db'.ledger[f].status = "absent"
    PROVE  SettledStays(f) /\ GivenUp(f)
  BY DEF SettledStays, GivenUp

LEMMA ClaimStays ==
    ASSUME IndInv, NEW h \in Helper, Claim(h), NEW f \in Fingerprint
    PROVE  SettledStays(f) /\ GivenUp(f)
  <1>0. TypeOK /\ cands[h] \subseteq Fingerprint
    BY DEF IndInv, TypeOK
  <1>1. ClaimedEntry(db', db, f, KindAt(h), cands[h], h)
    BY <1>0, ClaimedEntries DEF Claim
  <1>2. SettledStays(f)
    BY <1>1 DEF ClaimedEntry, SettledStays
  <1>3. ASSUME NEW g \in cands[h] \ {f}, RefOf[g] = RefOf[f], f \in published
        PROVE  publisher # h
    BY <1>3 DEF IndInv, ReportKept
  <1>4. GivenUp(f)
    BY <1>0, <1>1, <1>3 DEF ClaimedEntry, GivenUp
  <1> QED
    BY <1>2, <1>4

LEMMA CompleteStays ==
    ASSUME IndInv, NEW h \in Helper, Complete(h), NEW f \in Fingerprint
    PROVE  SettledStays(f) /\ GivenUp(f)
  <1>0. TypeOK /\ InFlight(h)
    BY DEF IndInv, Complete, InFlight
  <1>1. CompletedEntry(db', db, f, KindAt(h), batch[h], h)
    BY <1>0, CompletedEntries DEF Complete, CompletedState
  <1>2. f \in batch[h] /\ db.owner[KindAt(h)].token = h
        => db.ledger[f].status \in {"absent", "pending"}
    BY <1>0 DEF IndInv, Sound, Open
  <1>3. SettledStays(f)
    BY <1>1, <1>2 DEF CompletedEntry, SettledStays
  <1>4. GivenUp(f)
    BY <1>1 DEF CompletedEntry, GivenUp
  <1> QED
    BY <1>3, <1>4

LEMMA TurnOffStays ==
    ASSUME IndInv, NEW r \in Reference, TurnOff(r), NEW f \in Fingerprint
    PROVE  SettledStays(f) /\ GivenUp(f)
  <1>1. DroppedEntry(db', db, f, r)
    BY TurnOffEntries DEF IndInv
  <1>2. r \in WatchReference \ watches'
    BY DEF TurnOff
  <1> QED
    BY <1>1, <1>2 DEF DroppedEntry, SettledStays, GivenUp

\* Every step but an overwriting commit.
LEMMA EntryStep ==
    ASSUME IndInv, Next, ~Overwrites, NEW f \in Fingerprint
    PROVE  SettledStays(f) /\ GivenUp(f)
  <1>0. TypeOK
    BY DEF IndInv
  <1>1. CASE db' = Prune(db)
    <2>1. PrunedEntry(db', db, f)
      BY <1>0, <1>1, PrunedFacts DEF TypeOK
    <2> QED
      BY <2>1, PrunedStays DEF PrunedEntry
  <1>2. CASE db' = db
    BY <1>2, PrunedStays
  <1>3. ASSUME NEW h \in Helper, Scan(h) \/ Refused(h) \/ Dispatch(h)
        PROVE  db' = Prune(db)
    BY <1>3 DEF Scan, Refused, Dispatch
  <1>4. ASSUME NEW h \in Helper, Crash(h) \/ \E r \in Result : Notify(h, r)
        PROVE  db' = db
    BY <1>4 DEF Crash, Notify, stored
  <1>5. ASSUME NEW r \in Reference, Publish(r)
        PROVE  db' = db
    BY <1>5 DEF Publish, stored
  <1>6. ASSUME NEW r \in Reference, TurnOn(r)
        PROVE  db' = Prune(db)
    BY <1>6 DEF TurnOn
  <1>7. ASSUME NEW h \in Helper, Commit(h)
        PROVE  SettledStays(f) /\ GivenUp(f)
    BY <1>7, CommitEntries, PrunedStays
  <1>8. CASE Tick \/ Retire
    BY <1>0, <1>8, TimeEntries, PrunedStays
  <1> QED
    BY <1>1, <1>2, <1>3, <1>4, <1>5, <1>6, <1>7, <1>8, ClaimStays, CompleteStays, TurnOffStays
    DEF Next, HelperStep

(***************************************************************************)
(* Settled is final, for any number of helpers and any lease: an entry     *)
(* that is delivered, suppressed or failed is not reopened or relabelled   *)
(* by a claim or by a completion that comes late, and by a commit only if  *)
(* others wrote while its scan collected.                                  *)
(***************************************************************************)
THEOREM SettledStaysSettled == Spec => SettledIsFinal
  <1> DEFINE Final ==
        \A f \in Fingerprint :
          db.ledger[f].status \in {"delivered", "suppressed", "failed"} =>
             \/ db'.ledger[f].status = db.ledger[f].status
             \/ db.ledger[f].recorded = "aged" /\ db'.ledger[f].status \in {"absent", "pending"}
             \/ Overwrites
  <1>1. ASSUME IndInv, Next
        PROVE  Final
    BY <1>1, EntryStep DEF SettledStays
  <1>2. IndInv /\ [Next]_vars => [Final]_vars
    BY <1>1
  <1> QED
    BY <1>2, InductiveInvariant, PTL DEF Spec, SettledIsFinal

(***************************************************************************)
(* What a pending entry is given up for, whatever the references look      *)
(* like: another notification whose reference its fingerprint begins with  *)
(* (_suppress_superseded), a watch with such a reference that is turned    *)
(* off (_without_active_references), its age, or a commit that writes over *)
(* what others wrote during its scan.  And of two notifications about one  *)
(* reference the one in the last report yields only to a dispatcher whose  *)
(* report is an older one.                                                 *)
(***************************************************************************)
THEOREM PendingGivenUpByPrefix ==
    Spec => [][\A f \in Fingerprint : GivenUp(f) \/ Overwrites]_vars
  <1>1. ASSUME IndInv, Next
        PROVE  \A f \in Fingerprint : GivenUp(f) \/ Overwrites
    BY <1>1, EntryStep
  <1>2. IndInv /\ [Next]_vars => [\A f \in Fingerprint : GivenUp(f) \/ Overwrites]_vars
    BY <1>1
  <1> QED
    BY <1>2, InductiveInvariant, PTL DEF Spec

\* No fingerprint begins with the text of another item's reference.
NoClash == \A f \in Fingerprint : StartsWith[f] = {RefOf[f]}

(***************************************************************************)
(* A failed delivery remains retryable: when no fingerprint begins with    *)
(* another item's reference, a pending entry is given up only for another  *)
(* notification about the same item (and one of the last report only to a  *)
(* dispatcher with an older report), because its watch is turned off, or   *)
(* to a commit that writes over what others wrote during its scan.         *)
(***************************************************************************)
THEOREM PendingNeverLost == ASSUME NoClash PROVE Spec => PendingKept
  <1> DEFINE Lasts ==
        \A f \in Fingerprint :
          db.ledger[f].status = "pending" /\ ~Overwrites =>
             CASE db'.ledger[f].status = "suppressed" ->
                     \E g \in Fingerprint \ {f} :
                        /\ RefOf[g] = RefOf[f]
                        /\ db'.ledger[g].status = "pending"
                        /\ db'.ledger[g].token \in Helper
                        /\ f \in published => publisher # db'.ledger[g].token
               [] db'.ledger[f].status = "absent" ->
                     \/ RefOf[f] \in WatchReference \ watches'
                     \/ db.ledger[f].recorded = "aged"
               [] OTHER -> TRUE
  <1>1. ASSUME \A f \in Fingerprint : GivenUp(f) \/ Overwrites
        PROVE  Lasts
    <2>1. \A f \in Fingerprint : \A r : r \in StartsWith[f] => r = RefOf[f]
      BY DEF NoClash
    <2> QED
      BY <1>1, <2>1 DEF GivenUp
  <1>2. ASSUME IndInv, Next
        PROVE  Lasts
    <2>1. \A f \in Fingerprint : GivenUp(f) \/ Overwrites
      BY <1>2, EntryStep
    <2> QED
      BY <1>1, <2>1
  <1>3. IndInv /\ [Next]_vars => [Lasts]_vars
    BY <1>2
  <1> QED
    BY <1>3, InductiveInvariant, PTL DEF Spec, PendingKept
=============================================================================
