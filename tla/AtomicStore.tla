---------------------------- MODULE AtomicStore ----------------------------
(***************************************************************************)
(* What the helper's storage promises to its commands: one persistent      *)
(* state, changed in single steps by a click on a star or by a delivered   *)
(* notification, and by nothing else.  Files, locks, scans, crashes and    *)
(* retries do not show.                                                    *)
(***************************************************************************)
CONSTANTS Item, Version, None

VARIABLE store \* [watches : [Item -> watch], ledger : delivered notifications]

NoWatch == [mode |-> "off", installed |-> None]
EmptyStore == [watches |-> [i \in Item |-> NoWatch], ledger |-> {}]

\* The star of an item cycles off, temporary, permanent, off.
NextWatch(watch, v) ==
    CASE watch.mode = "off" -> [mode |-> "temporary", installed |-> v]
      [] watch.mode = "temporary" -> [mode |-> "permanent", installed |-> None]
      [] watch.mode = "permanent" -> NoWatch

Click(i) ==
    \E v \in Version : store' = [store EXCEPT !.watches[i] = NextWatch(@, v)]

\* Updates of permanently watched items are announced.
Deliver ==
    \E new \in SUBSET {n \in Item \X Version \X Version :
                          store.watches[n[1]].mode = "permanent"} :
        store' = [store EXCEPT !.ledger = @ \cup new]

Init == store = EmptyStore
Next == Deliver \/ \E i \in Item : Click(i)
Spec == Init /\ [][Next]_store
=============================================================================
