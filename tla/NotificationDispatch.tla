------------------------ MODULE NotificationDispatch ------------------------
(***************************************************************************)
(* The scans of several helper processes over one stored state, and the    *)
(* NotificationCoordinator.dispatch (notifications.py) that ends each.     *)
(*                                                                         *)
(* A scan loads the state, collects without the lock, and commits a new    *)
(* generation that carries the state it loaded, so that whatever others    *)
(* wrote in between is written over; the commit is refused only when       *)
(* another scan committed first.  Then the helper computes its candidates  *)
(* once and, kind after kind, reads the clock, waits for the state lock to *)
(* claim a batch, runs notify-send without the lock and waits for the lock *)
(* again to record the outcome.  Nothing limits a wait for the lock.  The  *)
(* helper may die at any point, and the user turns watches on and off.     *)
(***************************************************************************)
EXTENDS NotificationBatch, Sequences

CONSTANTS
    KindOrder,      \* the order of the members of NotificationKind
    WatchReference, \* the references that are watched items
    Crashes,        \* may a helper die between two steps?
    None

ASSUME DispatchAssumption ==
    /\ KindOrder \in Seq(Kind)
    /\ KindOrder # <<>>
    /\ \A k \in Kind : \E i \in 1..Len(KindOrder) : KindOrder[i] = k
    /\ WatchReference \subseteq Reference
    /\ Crashes \in BOOLEAN
    /\ None \notin Fingerprint
    /\ None \notin Helper

VARIABLES
    db,        \* the ledger of the stored state (generation.json / state.json)
    watches,   \* the watches of the stored state
    evidence,  \* [Reference -> Fingerprint or None], what a scan would report now
    published, \* what the last committed generation reports
    publisher, \* the living helper that committed it, or None
    pc,        \* [Helper -> program point]
    loaded,    \* [Helper -> ledger its collecting scan loaded]
    copied,    \* [Helper -> watches its collecting scan loaded]
    turn,      \* [Helper -> position in KindOrder]
    cands,     \* [Helper -> candidates of its dispatch]
    batch,     \* [Helper -> fingerprints of the batch in hand]
    result,    \* [Helper -> result of its last notify-send]
    age,       \* [Helper -> time units since it read the clock for this kind]
    missed,    \* history: [Helper -> who wrote since its scan loaded the state]
    undone     \* history: [Helper -> was the claim in hand written over?]

stored == <<db, watches>>
report == <<evidence, published>>
scans == <<loaded, copied, missed>>
dispatchVars == <<turn, cands, batch, result, age, undone>>
vars == <<stored, report, publisher, pc, scans, dispatchVars>>

Point == {"off", "collecting", "beaten", "committed", "ready", "running", "finishing"}
KindAt(h) == KindOrder[turn[h]]
InFlight(h) == pc[h] \in {"running", "finishing"}
CurrentCandidates == {f \in Fingerprint : evidence[RefOf[f]] = f}

Init ==
    /\ db = EmptyState
    /\ watches = {}
    /\ evidence = [r \in Reference |-> None]
    /\ published = {}
    /\ publisher = None
    /\ pc = [h \in Helper |-> "off"]
    /\ loaded = [h \in Helper |-> EmptyState]
    /\ copied = [h \in Helper |-> {}]
    /\ turn = [h \in Helper |-> 1]
    /\ cands = [h \in Helper |-> {}]
    /\ batch = [h \in Helper |-> {}]
    /\ result = [h \in Helper |-> "retryable"]
    /\ age = [h \in Helper |-> 0]
    /\ missed = [h \in Helper |-> {}]
    /\ undone = [h \in Helper |-> FALSE]

\* The collecting scans miss what `who` writes now (None: a click on a star).
Missing(who) ==
    [g \in Helper |-> IF pc[g] = "collecting" THEN missed[g] \cup {who} ELSE missed[g]]
-----------------------------------------------------------------------------
\* A scan starts: the order of its generation and the state it will carry.
Scan(h) ==
    /\ pc[h] = "off"
    /\ db' = Prune(db)
    /\ loaded' = [loaded EXCEPT ![h] = Prune(db)]
    /\ copied' = [copied EXCEPT ![h] = watches]
    /\ pc' = [pc EXCEPT ![h] = "collecting"]
    /\ UNCHANGED <<watches, report, publisher, missed, dispatchVars>>

\* Faulty variants of Commit: the order is not looked at, so that a scan which
\* another one overtook is published too; or its candidates are the ones before.
CommitAnyOrder(h) ==
    /\ pc[h] = "collecting"
    /\ db' = Prune(loaded[h])
    /\ watches' = copied[h]
    /\ published' = CurrentCandidates
    /\ publisher' = h
    /\ cands' = [cands EXCEPT ![h] = CurrentCandidates]
    /\ pc' = [pc EXCEPT ![h] = "committed"]
    /\ loaded' = [loaded EXCEPT ![h] = EmptyState]
    /\ copied' = [copied EXCEPT ![h] = {}]
    /\ missed' = [missed EXCEPT ![h] = {}]
    /\ undone' = [g \in Helper |-> undone[g] \/ (InFlight(g) /\ g \in missed[h])]
    /\ UNCHANGED <<evidence, turn, batch, result, age>>

CommitOlderReport(h) ==
    /\ pc[h] = "collecting"
    /\ db' = Prune(loaded[h])
    /\ watches' = copied[h]
    /\ published' = CurrentCandidates
    /\ publisher' = h
    /\ cands' = [cands EXCEPT ![h] = published]
    /\ pc' = [g \in Helper |-> CASE g = h -> "committed"
                                 [] g # h /\ pc[g] = "collecting" -> "beaten"
                                 [] OTHER -> pc[g]]
    /\ loaded' = [g \in Helper |-> EmptyState]
    /\ copied' = [g \in Helper |-> {}]
    /\ missed' = [g \in Helper |-> {}]
    /\ undone' = [g \in Helper |-> undone[g] \/ (InFlight(g) /\ g \in missed[h])]
    /\ UNCHANGED <<evidence, turn, batch, result, age>>

(***************************************************************************)
(* commit_generation: the report and the state that was loaded are         *)
(* written, and the other scans under way now have too low an order.       *)
(***************************************************************************)
Commit(h) ==
    /\ pc[h] = "collecting"
    /\ db' = Prune(loaded[h])
    /\ watches' = copied[h]
    /\ published' = CurrentCandidates
    /\ publisher' = h
    /\ cands' = [cands EXCEPT ![h] = CurrentCandidates]
    /\ pc' = [g \in Helper |-> CASE g = h -> "committed"
                                 [] g # h /\ pc[g] = "collecting" -> "beaten"
                                 [] OTHER -> pc[g]]
    /\ loaded' = [g \in Helper |-> EmptyState]
    /\ copied' = [g \in Helper |-> {}]
    /\ missed' = [g \in Helper |-> {}]
    /\ undone' = [g \in Helper |-> undone[g] \/ (InFlight(g) /\ g \in missed[h])]
    /\ UNCHANGED <<evidence, turn, batch, result, age>>

\* The helper ends or dies: nothing of its memory remains.
Exit(h) ==
    /\ pc' = [pc EXCEPT ![h] = "off"]
    /\ turn' = [turn EXCEPT ![h] = 1]
    /\ cands' = [cands EXCEPT ![h] = {}]
    /\ batch' = [batch EXCEPT ![h] = {}]
    /\ result' = [result EXCEPT ![h] = "retryable"]
    /\ age' = [age EXCEPT ![h] = 0]
    /\ undone' = [undone EXCEPT ![h] = FALSE]
    /\ publisher' = IF publisher = h THEN None ELSE publisher

\* commit_generation returns False: the scan ends without a dispatch.
Refused(h) ==
    /\ pc[h] = "beaten"
    /\ db' = Prune(db)
    /\ Exit(h)
    /\ UNCHANGED <<watches, report, scans>>

\* dispatch: load_state, notification_candidates, the clock of the first kind.
Dispatch(h) ==
    /\ pc[h] = "committed"
    /\ db' = Prune(db)
    /\ cands' = [cands EXCEPT ![h] =
                    {f \in @ : RefOf[f] \in WatchReference => RefOf[f] \in watches}]
    /\ pc' = [pc EXCEPT ![h] = "ready"]
    /\ UNCHANGED <<watches, report, publisher, scans, turn, batch, result, age, undone>>

\* Faulty variant of NextKind: off by one at the last kind.
NextKindPastEnd(h) ==
    /\ turn[h] <= Len(KindOrder)
    /\ turn' = [turn EXCEPT ![h] = @ + 1]
    /\ pc' = [pc EXCEPT ![h] = "ready"]
    /\ batch' = [batch EXCEPT ![h] = {}]
    /\ result' = [result EXCEPT ![h] = "retryable"]
    /\ age' = [age EXCEPT ![h] = 0]
    /\ undone' = [undone EXCEPT ![h] = FALSE]
    /\ UNCHANGED <<cands, publisher>>

\* The loop of dispatch: on to the next kind (its clock is read at once), or end.
NextKind(h) ==
    \/ /\ turn[h] < Len(KindOrder)
       /\ turn' = [turn EXCEPT ![h] = @ + 1]
       /\ pc' = [pc EXCEPT ![h] = "ready"]
       /\ batch' = [batch EXCEPT ![h] = {}]
       /\ result' = [result EXCEPT ![h] = "retryable"]
       /\ age' = [age EXCEPT ![h] = 0]
       /\ undone' = [undone EXCEPT ![h] = FALSE]
       /\ UNCHANGED <<cands, publisher>>
    \/ /\ turn[h] >= Len(KindOrder)
       /\ Exit(h)

\* claim_batch: under the lock, with the clock read age[h] units ago and a
\* token that was never used before: older tokens of h are another's now.
ClaimedState(h) ==
    Prune(ReserveBatch(Disown(Prune(db), h), KindAt(h), cands[h], age[h], h))

Claim(h) ==
    /\ pc[h] = "ready"
    /\ db' = ClaimedState(h)
    /\ loaded' = [g \in Helper |-> Disown(loaded[g], h)]
    /\ LET won == BatchOf(db', KindAt(h), cands[h], h)
       IN  \/ /\ won = {}
              /\ NextKind(h)
              /\ UNCHANGED missed
           \/ /\ won # {}
              /\ pc' = [pc EXCEPT ![h] = "running"]
              /\ batch' = [batch EXCEPT ![h] = won]
              /\ missed' = Missing(h)
              /\ UNCHANGED <<publisher, turn, cands, result, age, undone>>
    /\ UNCHANGED <<watches, report, copied>>

\* _dispatch: notify-send ends, successfully or not.
Notify(h, r) ==
    /\ pc[h] = "running"
    /\ pc' = [pc EXCEPT ![h] = "finishing"]
    /\ result' = [result EXCEPT ![h] = r]
    /\ UNCHANGED <<stored, report, publisher, scans, turn, cands, batch, age, undone>>

\* complete_batch: under the lock; refused when the batch has a new owner.
Complete(h) ==
    /\ pc[h] = "finishing"
    /\ db' = Prune(CompleteBatch(Prune(db), KindAt(h), batch[h], h, result[h]))
    /\ missed' = IF db.owner[KindAt(h)].token = h THEN Missing(h) ELSE missed
    /\ NextKind(h)
    /\ UNCHANGED <<watches, report, loaded, copied>>

\* The helper is killed (transport timeout, logout, power loss).
Crash(h) ==
    /\ Crashes
    /\ pc[h] # "off"
    /\ Exit(h)
    /\ loaded' = [loaded EXCEPT ![h] = EmptyState]
    /\ copied' = [copied EXCEPT ![h] = {}]
    /\ missed' = [missed EXCEPT ![h] = {}]
    /\ UNCHANGED <<stored, report>>
-----------------------------------------------------------------------------
\* A scan would see another version, fix or severity for r, or nothing to report.
Publish(r) ==
    \E f \in {g \in Fingerprint : RefOf[g] = r} \cup {None} :
        /\ evidence[r] # f
        /\ evidence' = [evidence EXCEPT ![r] = f]
        /\ UNCHANGED <<stored, published, publisher, pc, scans, dispatchVars>>

\* set-star on a watched item, in another helper: the last click turns it off.
TurnOff(r) ==
    /\ r \in WatchReference \cap watches
    /\ db' = Prune(WithoutActiveReferences(Prune(db), r))
    /\ watches' = watches \ {r}
    /\ missed' = Missing(None)
    /\ UNCHANGED <<report, publisher, pc, loaded, copied, dispatchVars>>

\* set-star on an item that is not watched.
TurnOn(r) ==
    /\ r \in WatchReference \ watches
    /\ db' = Prune(db)
    /\ watches' = watches \cup {r}
    /\ missed' = Missing(None)
    /\ UNCHANGED <<report, publisher, pc, loaded, copied, dispatchVars>>

(***************************************************************************)
(* One time unit, for any helper at any point: a suspended machine or a    *)
(* lock that is not granted is many of them.  A claim is followed until    *)
(* MaxAge; how much older a batch in flight gets makes no difference.      *)
(***************************************************************************)
Later(n) == IF n < MaxAge THEN n + 1 ELSE n

Tick ==
    /\ \A h \in Helper : pc[h] = "ready" => age[h] < MaxAge
    /\ db' = Elapse(db)
    /\ loaded' = [h \in Helper |-> Elapse(loaded[h])]
    /\ age' = [h \in Helper |-> IF pc[h] = "ready" \/ InFlight(h) THEN Later(age[h]) ELSE age[h]]
    /\ UNCHANGED <<watches, report, publisher, pc, copied, missed, turn, cands, batch, result,
                   undone>>

\* The retention age passes while no helper is about to claim.
Retire ==
    /\ \A h \in Helper : pc[h] # "ready"
    /\ db' = Expire(db)
    /\ loaded' = [h \in Helper |-> Expire(loaded[h])]
    /\ age' = [h \in Helper |-> IF InFlight(h) THEN MaxAge ELSE age[h]]
    /\ UNCHANGED <<watches, report, publisher, pc, copied, missed, turn, cands, batch, result,
                   undone>>

HelperStep(h) ==
    \/ Commit(h)
    \/ Refused(h)
    \/ Dispatch(h)
    \/ Claim(h)
    \/ \E r \in Result : Notify(h, r)
    \/ Complete(h)

Next ==
    \/ \E h \in Helper : Scan(h) \/ HelperStep(h) \/ Crash(h)
    \/ \E r \in Reference : Publish(r) \/ TurnOff(r) \/ TurnOn(r)
    \/ Tick
    \/ Retire

Spec == Init /\ [][Next]_vars

(***************************************************************************)
(* Fairness.  The operating system runs a started helper and grants it the *)
(* lock at some time; the service keeps starting scans; time does not      *)
(* stand still while they start and end (strong, since Tick waits for      *)
(* helpers at the bound); and notify-send does not fail for ever for a     *)
(* kind that is tried for ever.                                            *)
(***************************************************************************)
Delivers(k) == \E h \in Helper : KindAt(h) = k /\ Notify(h, "succeeded")

Fairness ==
    /\ \A h \in Helper : WF_vars(HelperStep(h))
    /\ SF_vars(Tick)
    /\ WF_vars(\E h \in Helper : Scan(h))
    /\ \A k \in Kind : SF_vars(Delivers(k))

FairSpec == Spec /\ Fairness
-----------------------------------------------------------------------------
\* Type correctness of the stored ledger, of scans and of dispatchers.
TypeOK ==
    /\ db \in State
    /\ watches \in SUBSET WatchReference
    /\ evidence \in [Reference -> Fingerprint \cup {None}]
    /\ published \in SUBSET Fingerprint
    /\ publisher \in Helper \cup {None}
    /\ pc \in [Helper -> Point]
    /\ loaded \in [Helper -> State]
    /\ copied \in [Helper -> SUBSET WatchReference]
    /\ turn \in [Helper -> 1..Len(KindOrder)]
    /\ cands \in [Helper -> SUBSET Fingerprint]
    /\ batch \in [Helper -> SUBSET Fingerprint]
    /\ result \in [Helper -> Result]
    /\ age \in [Helper -> 0..MaxAge]
    /\ missed \in [Helper -> SUBSET (Helper \cup {None})]
    /\ undone \in [Helper -> BOOLEAN]

\* The owner entries of a stored ledger cover its live leases.
Covers(s) ==
    \A f \in Fingerprint :
        LET e == s.ledger[f]
            o == s.owner[FKind(f)]
        IN  e.status = "pending" /\ e.token # NoToken /\ e.left > 0
            => o.token = e.token /\ o.left = e.left

(***************************************************************************)
(* The batch owner covers its entries (notification_batch.py, the leases   *)
(* _reserve_batch writes): a pending entry whose lease has not expired is  *)
(* leased by the present owner of its kind, until the same moment.  So no  *)
(* entry stays locked once the owner entry is released or expires, also    *)
(* after a commit wrote an older ledger back.                              *)
(***************************************************************************)
OwnerCovers == Covers(db)

\* The claim of h is neither written over nor as old as its lease.
Protected(h) == InFlight(h) /\ ~undone[h] /\ age[h] < Lease

(***************************************************************************)
(* A batch in flight changes hands in two ways only: 30 s have passed      *)
(* since its helper read the clock, lock waits and notify-send included,   *)
(* or the commit of a scan that had loaded the state before the claim      *)
(* wrote the claim over (commit_generation).  Otherwise complete_batch is  *)
(* not refused.                                                            *)
(***************************************************************************)
BatchKept ==
    \A h \in Helper : Protected(h) => db.owner[KindAt(h)].token = h

(***************************************************************************)
(* No notification is on its way twice: no two helpers whose claims stand  *)
(* are delivering the same fingerprint, and none of them delivers one that *)
(* the ledger already records as settled.                                  *)
(***************************************************************************)
NoRedelivery ==
    \A h \in Helper : Protected(h) =>
        \A f \in batch[h] :
            /\ db.ledger[f].status \in {"pending", "absent"}
            /\ \A g \in Helper \ {h} : f \in batch[g] => ~Protected(g)

\* A commit that writes over what others wrote since its scan loaded the state.
Overwrites ==
    \E h \in Helper : missed[h] # {} /\ pc[h] = "collecting" /\ pc'[h] = "committed"

(***************************************************************************)
(* Settled is final: an entry that is delivered, suppressed or failed is   *)
(* not reopened or relabelled, however late a claim or a completion comes; *)
(* it only disappears, beyond the retention age.  The one exception is a   *)
(* commit that writes over what others wrote during its scan.              *)
(***************************************************************************)
SettledIsFinal ==
    [][\A f \in Fingerprint :
          db.ledger[f].status \in {"delivered", "suppressed", "failed"} =>
             \/ db'.ledger[f].status = db.ledger[f].status
             \/ db.ledger[f].recorded = "aged" /\ db'.ledger[f].status \in {"absent", "pending"}
             \/ Overwrites]_vars

(***************************************************************************)
(* A failed delivery remains retryable (README.md:67): a pending entry is  *)
(* given up only because another notification about the same reference is  *)
(* claimed, or because the user turns that very watch off.  One that the   *)
(* last generation reports is given up only to a dispatcher whose own      *)
(* generation is an older one.  The exception is again a commit that       *)
(* writes over what others wrote during its scan.                          *)
(***************************************************************************)
PendingKept ==
    [][\A f \in Fingerprint :
          db.ledger[f].status = "pending" /\ ~Overwrites =>
             CASE db'.ledger[f].status = "suppressed" ->
                     \E g \in Fingerprint \ {f} :
                        /\ RefOf[g] = RefOf[f]
                        /\ db'.ledger[g].status = "pending"
                        /\ db'.ledger[g].token \in Helper
                        /\ f \in published => publisher # db'.ledger[g].token
               [] db'.ledger[f].status = "absent" ->
                     \/ RefOf[f] \in WatchReference \ watches'
                     \/ \* settled and pruned in one write
                        db.ledger[f].recorded = "aged"
               [] OTHER -> TRUE]_vars

(***************************************************************************)
(* The inductive invariant behind the properties above.  Its parts about a *)
(* ledger hold of the stored one and of every one a scan has loaded, since *)
(* the next commit may put that one in the place of the stored one.        *)
(***************************************************************************)

\* A batch holds fingerprints of its own kind, and only while it is in flight.
BatchShape ==
    \A h \in Helper :
        /\ ~InFlight(h) => batch[h] = {}
        /\ \A f \in batch[h] : FKind(f) = KindAt(h)

\* Every entry that carries the token of a batch in flight is in the batch.
Listed(s) ==
    \A h \in Helper : InFlight(h) =>
        \A f \in Fingerprint : s.ledger[f].token = h => f \in batch[h]

\* The entries of a batch that still has its owner entry are open.
Open(s) ==
    \A h \in Helper : InFlight(h) /\ s.owner[KindAt(h)].token = h =>
        \A f \in batch[h] :
            \/ s.ledger[f].status = "absent"
            \/ s.ledger[f].status = "pending" /\ s.ledger[f].token = h

Sound(s) == Covers(s) /\ Listed(s) /\ Open(s)

\* What is left of the lease of h in a ledger that has its claim.
Leased(s, h) ==
    /\ s.owner[KindAt(h)].token = h
    /\ s.owner[KindAt(h)].left = Lease - age[h]

\* Protected claims are in the stored ledger, and in what was loaded after them.
LeaseOutlasts ==
    \A h \in Helper : Protected(h) =>
        /\ Leased(db, h)
        /\ \A g \in Helper : pc[g] = "collecting" /\ h \notin missed[g] => Leased(loaded[g], h)

\* What a scan loaded still says what the stored ledger says, up to pruning,
\* unless the scan missed something.
LoadedTrue ==
    \A h \in Helper : pc[h] = "collecting" /\ missed[h] = {} =>
        \A f \in Fingerprint :
            \/ /\ loaded[h].ledger[f].status = db.ledger[f].status
               /\ loaded[h].ledger[f].recorded = db.ledger[f].recorded
            \/ /\ loaded[h].ledger[f].status # "pending"
               /\ loaded[h].ledger[f].recorded = "aged"
               /\ db.ledger[f].status = "absent"

\* A report names one notification for a reference, and the candidates of its
\* publisher are taken from it.
ReportKept ==
    /\ \A f, g \in published : RefOf[f] = RefOf[g] => f = g
    /\ \A h \in Helper : publisher = h => cands[h] \subseteq published

\* Together they are preserved by every step and imply the properties above.
IndInv ==
    /\ TypeOK
    /\ BatchShape
    /\ Sound(db)
    /\ \A g \in Helper : Sound(loaded[g])
    /\ LeaseOutlasts
    /\ LoadedTrue
    /\ ReportKept

\* A death that a normal step of the helper cannot be taken for: a dispatch
\* with nothing left to claim ends in the same way.
Dies(h) == Crash(h) /\ ~HelperStep(h)

(***************************************************************************)
(* A notification that stays due is settled: neither a failed notify-send  *)
(* nor a helper that died holding the lease blocks it for ever (claim_     *)
(* batch, complete_batch), provided that in the end helpers do not die,    *)
(* scans do not write over what others wrote, and batches are completed    *)
(* within their lease.                                                     *)
(***************************************************************************)
DueSettles ==
    \A f \in Fingerprint :
        /\ <>[](evidence[RefOf[f]] = f /\ RefOf[f] \notin WatchReference \ watches)
        /\ <>[][~Overwrites /\ \A h \in Helper : ~Dies(h)]_vars
        /\ <>[](\A h \in Helper : InFlight(h) => age[h] < Lease)
        => <>(db.ledger[f].status \in {"delivered", "suppressed", "failed"})
=============================================================================
