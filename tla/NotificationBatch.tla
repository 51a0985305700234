------------------------- MODULE NotificationBatch -------------------------
(***************************************************************************)
(* The notification ledger and the operations of notification_batch.py on  *)
(* it, as functions from a stored state to a stored state.                 *)
(*                                                                         *)
(* A stored state db has two parts:                                        *)
(*   db.ledger[f]  the ledger entry of notification fingerprint f;         *)
(*   db.owner[k]   the entry "notification-owner-v1:k", which says which   *)
(*                 dispatcher holds the batch of kind k.                   *)
(* An entry that is not in the file is the record Absent / NoOwner.        *)
(*                                                                         *)
(* Time is relative: `left` is the number of time units until              *)
(* lease_expires_at (negative when it is in the past), and an operation    *)
(* that read the clock `lag` units ago sees a lease as live when           *)
(* left > -lag.  `recorded` says on which side of the retention age        *)
(* recorded_at lies.                                                       *)
(* A lease token (uuid4) is the dispatcher whose last claim drew it;       *)
(* Orphan stands for the tokens of earlier claims.                         *)
(***************************************************************************)
EXTENDS Integers, FiniteSets

CONSTANTS
    Helper,       \* helper processes that may dispatch notifications
    Kind,         \* notification kinds
    Reference,    \* watched items and advisories: what a notification is about
    Fingerprint,  \* notification fingerprints
    RefOf,        \* [Fingerprint -> Reference], what the fingerprint is about
    KindOf,       \* [Reference -> Kind]
    StartsWith,   \* [Fingerprint -> SUBSET Reference], textual prefixes of it
    Lease,        \* _LEASE_DURATION, in time units
    MaxAge,       \* bound: how long after it read the clock a claim is followed
    NoToken, Orphan

ASSUME NamesAssumption ==
    /\ NoToken \notin Helper
    /\ Orphan \notin Helper
    /\ Orphan # NoToken

ASSUME FingerprintAssumption ==
    /\ RefOf \in [Fingerprint -> Reference]
    /\ KindOf \in [Reference -> Kind]
    /\ StartsWith \in [Fingerprint -> SUBSET Reference]
    /\ \A f \in Fingerprint : RefOf[f] \in StartsWith[f]
    \* The prefixes watch-v1:, security-v1: and security-condition-v1: differ.
    /\ \A f \in Fingerprint : \A r \in StartsWith[f] : KindOf[r] = KindOf[RefOf[f]]

ASSUME LeaseAssumption ==
    /\ Lease \in Nat
    /\ MaxAge \in Nat
    \* Nothing limits the wait for the lock: what is followed outlasts the lease.
    /\ Lease <= MaxAge

Token == Helper \cup {Orphan, NoToken}
Status == {"absent", "pending", "delivered", "suppressed", "failed"}
Entry == [status : Status, token : Token, left : Int, recorded : {"recent", "aged"}]
Owner == [token : Token, left : Int]
State == [ledger : [Fingerprint -> Entry], owner : [Kind -> Owner]]

Absent == [status |-> "absent", token |-> NoToken, left |-> -MaxAge, recorded |-> "recent"]
NoOwner == [token |-> NoToken, left |-> -MaxAge]
EmptyState == [ledger |-> [f \in Fingerprint |-> Absent],
               owner |-> [k \in Kind |-> NoOwner]]

FKind(f) == KindOf[RefOf[f]]

\* What notify-send can end with, as complete_batch sees it.
Result == {"succeeded", "retryable", "rejected"}
-----------------------------------------------------------------------------
\* Faulty variant of LiveLease: the comparison with the clock is inverted.
LiveLeaseInverted(e, lag) == e.token # NoToken /\ e.left < -lag

LiveLease(e, lag) == e.token # NoToken /\ e.left > -lag

\* Faulty variant of Claimable: a pending entry is never taken up again.
ClaimableOnce(e, lag) == e.status = "absent"

Claimable(e, lag) ==
    \/ e.status = "absent"
    \/ e.status = "pending" /\ ~LiveLease(e, lag)

(***************************************************************************)
(* prune_ledger: a settled entry beyond the retention age is dropped; a    *)
(* pending one is kept whatever its age.  The second limit, the newest     *)
(* 5000 settled entries, is not reached here.                              *)
(***************************************************************************)
Prune(db) ==
    [ledger |-> [f \in Fingerprint |->
        IF db.ledger[f].status # "pending" /\ db.ledger[f].recorded = "aged"
        THEN Absent ELSE db.ledger[f]],
     owner |-> db.owner]

\* The candidates of kind k that a batch may take now.
Claimed(db, k, cands, lag) ==
    {f \in cands : FKind(f) = k /\ Claimable(db.ledger[f], lag)}

\* Does a claimed candidate's reference prefix the text of fingerprint f?
SupersededBy(f, claimed) ==
    /\ f \notin claimed
    /\ \E c \in claimed : RefOf[c] \in StartsWith[f]

\* Faulty variants of ReserveBatch: the owner's lease is not looked at, or the
\* entries are leased from the moment of the write and the owner from the claim's.
ReserveUnguarded(db, k, cands, lag, tok) ==
    LET claimed == Claimed(db, k, cands, lag)
        reserved == [status |-> "pending", token |-> tok,
                     left |-> Lease - lag, recorded |-> "recent"]
    IN  IF claimed = {} THEN db
        ELSE [ledger |-> [f \in Fingerprint |-> IF f \in claimed THEN reserved ELSE db.ledger[f]],
              owner |-> [db.owner EXCEPT ![k] = [token |-> tok, left |-> Lease - lag]]]

ReserveUneven(db, k, cands, lag, tok) ==
    LET claimed == Claimed(db, k, cands, lag)
        reserved == [status |-> "pending", token |-> tok,
                     left |-> Lease, recorded |-> "recent"]
    IN  IF LiveLease(db.owner[k], lag) \/ claimed = {} THEN db
        ELSE [ledger |-> [f \in Fingerprint |-> IF f \in claimed THEN reserved ELSE db.ledger[f]],
              owner |-> [db.owner EXCEPT ![k] = [token |-> tok, left |-> Lease - lag]]]

ReserveBatch(db, k, cands, lag, tok) ==
    LET claimed == Claimed(db, k, cands, lag)
        reserved == [status |-> "pending", token |-> tok,
                     left |-> Lease - lag, recorded |-> "recent"]
    IN  IF LiveLease(db.owner[k], lag) \/ claimed = {}
        THEN db
        ELSE [ledger |-> [f \in Fingerprint |->
                 IF f \in claimed THEN reserved
                 ELSE IF /\ db.ledger[f].status = "pending"
                         /\ SupersededBy(f, claimed)
                      THEN [db.ledger[f] EXCEPT !.status = "suppressed"]
                      ELSE db.ledger[f]],
              owner |-> [db.owner EXCEPT ![k] = [token |-> tok, left |-> Lease - lag]]]

\* The batch claim_batch returns ({} is None): read back from the new state.
BatchOf(db, k, cands, tok) ==
    IF db.owner[k].token = tok
    THEN {f \in cands : FKind(f) = k /\ db.ledger[f].token = tok}
    ELSE {}

DeliveryStatus(result) ==
    CASE result = "succeeded" -> "delivered"
      [] result = "retryable" -> "pending"
      [] result = "rejected"  -> "failed"

\* Faulty variant of CompleteBatch: the leases of its entries are left.
CompleteStillLeased(db, k, batch, tok, result) ==
    IF db.owner[k].token # tok
    THEN db
    ELSE [ledger |-> [f \in Fingerprint |->
             IF f \in batch /\ db.ledger[f].token = tok
             THEN [db.ledger[f] EXCEPT !.status = DeliveryStatus(result)]
             ELSE db.ledger[f]],
          owner |-> [db.owner EXCEPT ![k] = NoOwner]]

CompleteBatch(db, k, batch, tok, result) ==
    IF db.owner[k].token # tok
    THEN db
    ELSE [ledger |-> [f \in Fingerprint |->
             IF f \in batch /\ db.ledger[f].token = tok
             THEN [status |-> DeliveryStatus(result), token |-> NoToken,
                   left |-> -MaxAge, recorded |-> db.ledger[f].recorded]
             ELSE db.ledger[f]],
          owner |-> [db.owner EXCEPT ![k] = NoOwner]]

(***************************************************************************)
(* The ledger part of turning a permanent watch off: its pending           *)
(* notifications are forgotten.                                            *)
(***************************************************************************)
WithoutActiveReferences(db, r) ==
    [ledger |-> [f \in Fingerprint |->
        IF db.ledger[f].status = "pending" /\ r \in StartsWith[f]
        THEN Absent ELSE db.ledger[f]],
     owner |-> db.owner]
-----------------------------------------------------------------------------
\* Time: one unit passes; the leases of the stored state come closer to expiry.
Sooner(n) == IF n > -MaxAge THEN n - 1 ELSE n

Elapse(db) ==
    [ledger |-> [f \in Fingerprint |->
                    [db.ledger[f] EXCEPT !.left = Sooner(db.ledger[f].left)]],
     owner |-> [k \in Kind |-> [db.owner[k] EXCEPT !.left = Sooner(db.owner[k].left)]]]

\* The retention age passes, and with it every lease.
Expire(db) ==
    [ledger |-> [f \in Fingerprint |->
                    [status |-> db.ledger[f].status, token |-> db.ledger[f].token,
                     left |-> -MaxAge,
                     recorded |-> IF db.ledger[f].status # "absent"
                                  THEN "aged" ELSE db.ledger[f].recorded]],
     owner |-> [k \in Kind |-> [db.owner[k] EXCEPT !.left = -MaxAge]]]

\* A token is drawn for one claim: the older tokens of h are nobody's any more.
Orphaned(t, h) == IF t = h THEN Orphan ELSE t

Disown(db, h) ==
    [ledger |-> [f \in Fingerprint |->
                    [db.ledger[f] EXCEPT !.token = Orphaned(db.ledger[f].token, h)]],
     owner |-> [k \in Kind |->
                    [db.owner[k] EXCEPT !.token = Orphaned(db.owner[k].token, h)]]]
=============================================================================
