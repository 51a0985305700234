----------------------------- MODULE FeedProofs -----------------------------
(***************************************************************************)
(* Proofs about FeedCache, for any number of overlapping helpers, any      *)
(* number of versions and any parser.  FreshInv strengthens EvidenceFresh  *)
(* by what a running collection holds; it is inductive.                    *)
(***************************************************************************)
EXTENDS FeedCache, TLAPS

\* Versions are numbers, so None is not one.
LEMMA VersionFacts ==
    /\ Version \subseteq Int
    /\ None \notin Version
    /\ 1 \in Version
    /\ Valid \subseteq Version
    /\ 0 \in 0..RedirectLimit
BY FeedAssumption DEF Version

\* A helper that collects nothing has a typed record.
LEMMA IdleType == Idle \in Collection
BY VersionFacts DEF Idle, Collection, Stage

\* The initial state is typed and fresh.
LEMMA FreshInit == Init => FreshInv
<1> SUFFICES ASSUME Init PROVE FreshInv
  OBVIOUS
<1>1. TypeOK
  BY VersionFacts, IdleType DEF Init, TypeOK
<1>2. \A h \in Helper : fetch[h].at = "idle"
  BY DEF Init, Idle
<1>3. epoch <= server /\ EvidenceFresh
  BY DEF Init, EvidenceFresh
<1> QED
  BY <1>1, <1>2, <1>3 DEF FreshInv, HeldFresh

\* Every step preserves the types.
LEMMA TypeStep == FreshInv /\ [Next]_vars => TypeOK'
<1> SUFFICES ASSUME FreshInv, [Next]_vars PROVE TypeOK'
  OBVIOUS
<1> TypeOK
  BY DEF FreshInv
<1> USE VersionFacts, IdleType DEF TypeOK, files
<1>0. ASSUME NEW h \in Helper PROVE fetch[h] \in Collection
  BY <1>0
<1>1. CASE UNCHANGED vars
  BY <1>1 DEF vars
<1>2. ASSUME NEW h \in Helper, Open(h) PROVE TypeOK'
  <2>1. [Idle EXCEPT !.at = "opened", !.copy = body] \in Collection
    BY DEF Idle, Collection, Stage
  <2> QED BY <1>2, <2>1 DEF Open
<1>3. ASSUME NEW h \in Helper, Send(h) PROVE TypeOK'
  <2> DEFINE c == [fetch[h] EXCEPT
                     !.at = "sent",
                     !.tag = IF fetch[h].copy # None /\ Binds(metadata, fetch[h].copy)
                             THEN fetch[h].copy ELSE None,
                     !.copy = None]
  <2>1. c \in Collection
    BY <1>0 DEF Collection, Stage
  <2>2. fetch' = [fetch EXCEPT ![h] = c]
    BY <1>3 DEF Send
  <2> QED BY <1>3, <2>1, <2>2 DEF Send
<1>4. ASSUME NEW h \in Helper, Redirect(h) PROVE TypeOK'
  <2>1. fetch[h].hops + 1 \in 0..RedirectLimit
    BY <1>0, <1>4, FeedAssumption DEF Redirect, Collection
  <2>2. [fetch[h] EXCEPT !.hops = @ + 1] \in Collection
    BY <1>0, <2>1 DEF Collection
  <2> QED BY <1>4, <2>2 DEF Redirect
<1>5. ASSUME NEW h \in Helper, Receive(h) PROVE TypeOK'
  <2>1. \A t \in BOOLEAN :
          [Idle EXCEPT !.at = "received", !.copy = server, !.tagged = t] \in Collection
    BY DEF Idle, Collection, Stage
  <2> QED BY <1>5, <2>1 DEF Receive
<1>6. ASSUME NEW h \in Helper, NotModified(h) PROVE TypeOK'
  <2>1. [Idle EXCEPT !.at = "confirmed"] \in Collection
    BY DEF Idle, Collection, Stage
  <2> QED BY <1>6, <2>1 DEF NotModified
<1>7. ASSUME NEW h \in Helper, WriteBody(h) PROVE TypeOK'
  <2>1. /\ [fetch[h] EXCEPT !.at = "stored"] \in Collection
        /\ fetch[h].copy \in Version \cup {None}
    BY <1>0 DEF Collection, Stage
  <2> QED BY <1>7, <2>1 DEF WriteBody
<1>8. ASSUME NEW h \in Helper, WriteMetadata(h) PROVE TypeOK'
  <2>0. fetch[h].copy # None
    BY <1>8 DEF WriteMetadata, FreshInv, HeldFresh
  <2>1. /\ [fetch[h] EXCEPT !.at = "downloaded"] \in Collection
        /\ fetch[h].copy \in Version
        /\ fetch[h].tagged \in BOOLEAN
    BY <1>0, <2>0 DEF Collection, Stage
  <2> QED BY <1>8, <2>1 DEF WriteMetadata
<1>9. ASSUME NEW h \in Helper, Fail(h) \/ FailWrite(h) \/ Refuse(h) \/ Unconfirmed(h)
      PROVE TypeOK'
  BY <1>9 DEF Fail, FailWrite, Refuse, Unconfirmed, Unavailable, End
<1>10. ASSUME NEW h \in Helper, Accept(h) PROVE TypeOK'
  <2>1. [version |-> fetch[h].copy, since |-> epoch] \in [version : Valid, since : Version]
    BY <1>10 DEF Accept
  <2> QED BY <1>10, <2>1 DEF Accept, Evidence, End
<1>11. ASSUME NEW h \in Helper, Compare(h) PROVE TypeOK'
  <2> DEFINE c == [fetch[h] EXCEPT !.at = "compared", !.copy = semantic, !.tag = body]
  <2>1. c \in Collection
    BY <1>0 DEF Collection, Stage
  <2>2. fetch' = [fetch EXCEPT ![h] = c]
    BY <1>11 DEF Compare
  <2> QED BY <1>11, <2>1, <2>2 DEF Compare
<1>12. ASSUME NEW h \in Helper, Confirm(h) PROVE TypeOK'
  <2>1. fetch[h].copy \in Valid
    BY <1>12 DEF Confirm, FreshInv, HeldFresh
  <2>2. [version |-> fetch[h].copy, since |-> epoch] \in [version : Valid, since : Version]
    BY <2>1
  <2> QED BY <1>12, <2>2 DEF Confirm, Evidence, Unavailable, End
<1>13. ASSUME NEW h \in Helper, Die(h) PROVE TypeOK'
  BY <1>13 DEF Die, InGap
<1>14. CASE Clear \/ Discard
  BY <1>14 DEF Clear, Discard
<1>15. CASE Publish
  <2>1. server + 1 \in Version
    BY <1>15, FeedAssumption DEF Publish, Version
  <2> QED BY <1>15, <2>1 DEF Publish
<1>16. CASE Settle
  BY <1>16 DEF Settle
<1> QED
  BY <1>1, <1>2, <1>3, <1>4, <1>5, <1>6, <1>7, <1>8, <1>9, <1>10, <1>11, <1>12, <1>13,
     <1>14, <1>15, <1>16 DEF Next, Step

\* Every step preserves the freshness of what is held, read and reported.
LEMMA FreshStep == FreshInv /\ [Next]_vars => FreshInv'
<1> SUFFICES ASSUME FreshInv, [Next]_vars PROVE FreshInv'
  OBVIOUS
<1> TypeOK /\ TypeOK'
  BY TypeStep DEF FreshInv
<1>0. /\ epoch \in Int /\ epoch' \in Int /\ server \in Int /\ server' \in Int
      /\ body \in Int \cup {None} /\ body' \in Int \cup {None}
      /\ \A g \in Helper : fetch[g].copy \in Int \cup {None} /\ fetch[g].tag \in Int \cup {None}
  BY VersionFacts DEF TypeOK, Collection
<1> DEFINE Goal == epoch' <= server' /\ (\A g \in Helper : HeldFresh(g)') /\ EvidenceFresh'
<1> USE DEF files
<1>1. ASSUME UNCHANGED vars PROVE Goal
  BY <1>1 DEF vars, FreshInv, HeldFresh, NotOld, EvidenceFresh
<1>2. ASSUME NEW h \in Helper, Open(h) PROVE Goal
  <2>1. CASE Quiet
    <3>1. \A g \in Helper : g # h => fetch'[g].at = "idle"
      BY <1>2, <2>1 DEF Open, Quiet, Active, TypeOK
    <3>2. HeldFresh(h)'
      BY <1>2, <1>0 DEF Open, HeldFresh, NotOld, TypeOK, Idle
    <3> QED BY <1>2, <1>0, <2>1, <3>1, <3>2 DEF Open, HeldFresh, EvidenceFresh, FreshInv
  <2>2. CASE ~Quiet
    BY <1>2, <1>0, <2>2 DEF Open, HeldFresh, NotOld, EvidenceFresh, FreshInv, TypeOK, Idle
  <2> QED BY <2>1, <2>2
<1>3. ASSUME NEW h \in Helper, Send(h) PROVE Goal
  BY <1>3, <1>0 DEF Send, HeldFresh, NotOld, EvidenceFresh, FreshInv, TypeOK
<1>4. ASSUME NEW h \in Helper, Redirect(h) PROVE Goal
  BY <1>4, <1>0 DEF Redirect, HeldFresh, NotOld, EvidenceFresh, FreshInv, TypeOK
<1>5. ASSUME NEW h \in Helper, Receive(h) PROVE Goal
  BY <1>5, <1>0, VersionFacts DEF Receive, HeldFresh, NotOld, EvidenceFresh, FreshInv, TypeOK, Idle
<1>6. ASSUME NEW h \in Helper, NotModified(h) PROVE Goal
  <2>1. NotOld(body)
    BY <1>6, <1>0, VersionFacts DEF NotModified, FreshInv, HeldFresh, TypeOK
  <2> QED BY <1>6, <1>0, <2>1 DEF NotModified, HeldFresh, NotOld, EvidenceFresh, FreshInv, TypeOK, Idle
<1>7. ASSUME NEW h \in Helper, WriteBody(h) PROVE Goal
  <2>1. fetch[h].copy # None /\ fetch[h].copy >= epoch
    BY <1>7 DEF WriteBody, FreshInv, HeldFresh
  <2> QED BY <1>7, <1>0, <2>1 DEF WriteBody, HeldFresh, NotOld, EvidenceFresh, FreshInv, TypeOK
<1>8. ASSUME NEW h \in Helper, WriteMetadata(h) PROVE Goal
  BY <1>8, <1>0 DEF WriteMetadata, HeldFresh, NotOld, EvidenceFresh, FreshInv, TypeOK
<1>9. ASSUME NEW h \in Helper, Fail(h) \/ FailWrite(h) \/ Refuse(h) \/ Unconfirmed(h)
      PROVE Goal
  BY <1>9, <1>0 DEF Fail, FailWrite, Refuse, Unconfirmed, Unavailable, End, HeldFresh, NotOld,
     EvidenceFresh, FreshInv, TypeOK, Idle
<1>10. ASSUME NEW h \in Helper, Accept(h) PROVE Goal
  <2>1. fetch[h].copy >= epoch
    BY <1>10 DEF Accept, FreshInv, HeldFresh
  <2> QED BY <1>10, <1>0, <2>1 DEF Accept, Evidence, End, HeldFresh, NotOld, EvidenceFresh,
          FreshInv, TypeOK, Idle
<1>11. ASSUME NEW h \in Helper, Compare(h) PROVE Goal
  <2>1. semantic # None /\ semantic >= epoch
    BY <1>11, <1>0 DEF Compare, FreshInv, HeldFresh, NotOld
  <2>2. semantic \in Valid
    BY <2>1 DEF TypeOK
  <2> QED BY <1>11, <1>0, <2>1, <2>2 DEF Compare, HeldFresh, NotOld, EvidenceFresh, FreshInv,
          TypeOK
<1>12. ASSUME NEW h \in Helper, Confirm(h) PROVE Goal
  <2>1. fetch[h].copy >= epoch
    BY <1>12 DEF Confirm, FreshInv, HeldFresh
  <2> QED BY <1>12, <1>0, <2>1 DEF Confirm, Evidence, Unavailable, End, HeldFresh, NotOld,
          EvidenceFresh, FreshInv, TypeOK, Idle
<1>13. ASSUME NEW h \in Helper, Die(h) PROVE Goal
  BY <1>13, <1>0 DEF Die, HeldFresh, NotOld, EvidenceFresh, FreshInv, TypeOK, Idle
<1>14. ASSUME Clear \/ Discard PROVE Goal
  <2>1. NotOld(body) => NotOld(body)'
    BY <1>14 DEF Clear, Discard, NotOld
  <2>2. UNCHANGED <<server, fetch, report, epoch>>
    BY <1>14 DEF Clear, Discard
  <2> QED BY <2>1, <2>2 DEF HeldFresh, EvidenceFresh, FreshInv
<1>15. ASSUME Publish PROVE Goal
  <2>1. epoch' <= server'
    BY <1>15, <1>0 DEF Publish, FreshInv
  <2>2. UNCHANGED <<body, fetch, report, epoch>>
    BY <1>15 DEF Publish
  <2> QED BY <2>1, <2>2 DEF HeldFresh, NotOld, EvidenceFresh, FreshInv
<1>16. ASSUME Settle PROVE Goal
  BY <1>16, <1>0 DEF Settle, HeldFresh, NotOld, EvidenceFresh, FreshInv
<1> HIDE DEF Goal
<1>17. Goal
  BY <1>1, <1>2, <1>3, <1>4, <1>5, <1>6, <1>7, <1>8, <1>9, <1>10, <1>11, <1>12, <1>13,
     <1>14, <1>15, <1>16 DEF Next, Step
<1> QED
  BY <1>17 DEF Goal, FreshInv

(***************************************************************************)
(* The files of a feed and the collections that use them keep their types; *)
(* in particular the last-good copy is always one the parser accepts       *)
(* (write_last_good_feed).                                                 *)
(***************************************************************************)
THEOREM FeedTyped == Spec => []TypeOK
<1>1. FreshInv => TypeOK
  BY DEF FreshInv
<1> QED
  BY <1>1, FreshInit, FreshStep, PTL DEF Spec

(***************************************************************************)
(* No old evidence is reported as fresh, for any number of helpers that    *)
(* overlap, crash and lose their caches (fetch_endpoint,                   *)
(* read_confirmed_feed).                                                   *)
(***************************************************************************)
THEOREM NoOldEvidence == Spec => []EvidenceFresh
<1>1. FreshInv => EvidenceFresh
  BY DEF FreshInv
<1> QED
  BY <1>1, FreshInit, FreshStep, PTL DEF Spec
=============================================================================
