----------------------------- MODULE FeedCache -----------------------------
(***************************************************************************)
(* One remote feed and its three files: the transport body and its         *)
(* metadata, written by fetch_endpoint (runner.py, cache_metadata.py), and *)
(* the last-good copy, written under the state lock once the feed's parser *)
(* has accepted the body (adapters/security.py, storage.py).  The code of  *)
(* the Arch Security Tracker and of CISA KEV is the same in this respect.  *)
(*                                                                         *)
(* A body is a version number; the server publishes them in order.  The    *)
(* metadata record carries the version whose digest it holds, and whether  *)
(* it has validators that can be sent.  Helpers may overlap: nothing locks *)
(* the transport files.                                                    *)
(***************************************************************************)
EXTENDS Integers

CONSTANTS
    Helper,
    MaxVersion,    \* bound on what the server publishes
    Valid,         \* versions the feed's parser accepts
    RedirectLimit, \* EndpointSpec.redirect_limit
    None

Version == 1..MaxVersion

ASSUME FeedAssumption ==
    /\ MaxVersion \in Nat \ {0}
    /\ Valid \subseteq Version
    /\ RedirectLimit \in Nat
    /\ None \notin Int

VARIABLES
    server,   \* the version the server has now
    body,     \* transport-FEED.body
    metadata, \* transport-FEED.metadata: [of, tagged]
    semantic, \* FEED.json
    fetch,    \* [Helper -> where its collection of the feed is]
    report,   \* what the collection that ended last reported
    epoch,    \* the server's version when the first of the running collections began
    torn,     \* versions whose last-good copy was missed, lost or replaced
    settled   \* TRUE once the server, the network and the helpers work, for good

vars == <<server, body, metadata, semantic, fetch, report, epoch, torn, settled>>
files == <<body, metadata, semantic>>

Idle == [at |-> "idle", copy |-> None, tag |-> None, hops |-> 0, tagged |-> FALSE]
Active(h) == fetch[h].at # "idle"
Quiet == \A h \in Helper : ~Active(h)

\* parse_cache_metadata: the validators of the body with this digest, if any.
Binds(meta, version) == meta # None /\ meta.of = version /\ meta.tagged

\* The collection of helper h ends: a version and the epoch, or unavailable.
End(h, r) ==
    /\ fetch' = [fetch EXCEPT ![h] = Idle]
    /\ report' = r

Unavailable(h) == End(h, None)
Evidence(h, version) == End(h, [version |-> version, since |-> epoch])
-----------------------------------------------------------------------------
Init ==
    /\ server = 1
    /\ body = None /\ metadata = None /\ semantic = None
    /\ fetch = [h \in Helper |-> Idle]
    /\ report = None
    /\ epoch = 1
    /\ torn = {}
    /\ settled = FALSE

\* _conditional_headers reads the body ...  (The service runs one scan at a
\* time; two overlap after a restart of the shell, before things settle.)
Open(h) ==
    /\ ~Active(h)
    /\ settled => Quiet
    /\ fetch' = [fetch EXCEPT ![h] = [Idle EXCEPT !.at = "opened", !.copy = body]]
    /\ epoch' = IF Quiet THEN server ELSE epoch
    /\ UNCHANGED <<files, server, report, torn, settled>>

\* ... then the metadata; the request is conditional if the two match.
Send(h) ==
    /\ fetch[h].at = "opened"
    /\ fetch' = [fetch EXCEPT
          ![h].at = "sent",
          ![h].tag = IF fetch[h].copy # None /\ Binds(metadata, fetch[h].copy)
                     THEN fetch[h].copy ELSE None,
          ![h].copy = None]
    /\ UNCHANGED <<files, server, report, epoch, torn, settled>>

\* A redirect is followed to an allowed URL, up to the limit.
Redirect(h) ==
    /\ fetch[h].at = "sent"
    /\ ~settled
    /\ fetch[h].hops < RedirectLimit
    /\ fetch' = [fetch EXCEPT ![h].hops = @ + 1]
    /\ UNCHANGED <<files, server, report, epoch, torn, settled>>

\* A redirect too many or to another URL, a refused certificate, a time limit,
\* an oversized body, a 304 that was not asked for, another status.
Fail(h) ==
    /\ fetch[h].at = "sent"
    /\ ~settled
    /\ Unavailable(h)
    /\ UNCHANGED <<files, server, epoch, torn, settled>>

\* 200: the current body, with or without validators.
Receive(h) ==
    /\ fetch[h].at = "sent"
    /\ fetch[h].tag # server
    /\ \E tagged \in BOOLEAN :
          fetch' = [fetch EXCEPT ![h] = [Idle EXCEPT !.at = "received", !.copy = server,
                                                     !.tagged = tagged]]
    /\ UNCHANGED <<files, server, report, epoch, torn, settled>>

\* 304: what the validators name is still current.
NotModified(h) ==
    /\ fetch[h].at = "sent"
    /\ fetch[h].tag = server
    /\ fetch' = [fetch EXCEPT ![h] = [Idle EXCEPT !.at = "confirmed"]]
    /\ UNCHANGED <<files, server, report, epoch, torn, settled>>

\* _replace_cache: the body first, then the metadata, both by rename.
WriteBody(h) ==
    /\ fetch[h].at = "received"
    /\ body' = fetch[h].copy
    /\ fetch' = [fetch EXCEPT ![h].at = "stored"]
    /\ UNCHANGED <<metadata, semantic, server, report, epoch, torn, settled>>

WriteMetadata(h) ==
    /\ fetch[h].at = "stored"
    /\ metadata' = [of |-> fetch[h].copy, tagged |-> fetch[h].tagged]
    /\ fetch' = [fetch EXCEPT ![h].at = "downloaded"]
    /\ UNCHANGED <<body, semantic, server, report, epoch, torn, settled>>

\* Either write raises OSError: EndpointFailed.
FailWrite(h) ==
    /\ fetch[h].at \in {"received", "stored"}
    /\ ~settled
    /\ Unavailable(h)
    /\ UNCHANGED <<files, server, epoch, torn, settled>>

\* EndpointDownloaded: the parser refuses the body, or it becomes last-good
\* (write_last_good_feed, which parses it again).
Refuse(h) ==
    /\ fetch[h].at = "downloaded"
    /\ fetch[h].copy \notin Valid
    /\ Unavailable(h)
    /\ UNCHANGED <<files, server, epoch, torn, settled>>

\* Faulty variants of Accept: the body is used but not kept, or kept unparsed.
AcceptUnsaved(h) ==
    /\ fetch[h].at = "downloaded"
    /\ fetch[h].copy \in Valid
    /\ Evidence(h, fetch[h].copy)
    /\ UNCHANGED <<files, server, epoch, torn, settled>>

AcceptUnparsed(h) ==
    /\ fetch[h].at = "downloaded"
    /\ semantic' = fetch[h].copy
    /\ torn' = (torn \cup {semantic}) \ {fetch[h].copy, None}
    /\ Evidence(h, fetch[h].copy)
    /\ UNCHANGED <<body, metadata, server, epoch, settled>>

Accept(h) ==
    /\ fetch[h].at = "downloaded"
    /\ fetch[h].copy \in Valid
    /\ semantic' = fetch[h].copy
    /\ torn' = (torn \cup {semantic}) \ {fetch[h].copy, None}
    /\ Evidence(h, fetch[h].copy)
    /\ UNCHANGED <<body, metadata, server, epoch, settled>>

\* Faulty variant of Compare: the last-good copy need not be the transport body.
CompareLoosely(h) ==
    /\ fetch[h].at = "confirmed"
    /\ semantic # None
    /\ body # None
    /\ fetch' = [fetch EXCEPT ![h].at = "compared", ![h].copy = semantic, ![h].tag = body]
    /\ UNCHANGED <<files, server, report, epoch, torn, settled>>

\* EndpointNotModified, read_confirmed_feed under the state lock: the last-good
\* copy must be the transport body ...
Compare(h) ==
    /\ fetch[h].at = "confirmed"
    /\ semantic # None
    /\ body = semantic
    /\ fetch' = [fetch EXCEPT ![h].at = "compared", ![h].copy = semantic, ![h].tag = body]
    /\ UNCHANGED <<files, server, report, epoch, torn, settled>>

Unconfirmed(h) ==
    /\ fetch[h].at = "confirmed"
    /\ semantic = None \/ body # semantic
    /\ Unavailable(h)
    /\ UNCHANGED <<files, server, epoch, torn, settled>>

\* ... which the metadata must still name.
Confirm(h) ==
    /\ fetch[h].at = "compared"
    /\ IF Binds(metadata, fetch[h].tag) THEN Evidence(h, fetch[h].copy) ELSE Unavailable(h)
    /\ UNCHANGED <<files, server, epoch, torn, settled>>
-----------------------------------------------------------------------------
\* A collection that got this far has accepted the body and not kept it yet.
InGap(h) == fetch[h].at = "downloaded" /\ fetch[h].copy \in Valid

\* The helper dies, or write_last_good_feed raises.
Die(h) ==
    /\ Active(h)
    /\ ~settled
    /\ torn' = IF InGap(h) THEN torn \cup {fetch[h].copy} ELSE torn
    /\ fetch' = [fetch EXCEPT ![h] = Idle]
    /\ UNCHANGED <<files, server, report, epoch, settled>>

\* The cache directory is cleared.
Clear ==
    /\ ~settled
    /\ <<body, metadata, semantic>> # <<None, None, None>>
    /\ body' = None /\ metadata' = None /\ semantic' = None
    /\ UNCHANGED <<server, fetch, report, epoch, torn, settled>>

\* The last-good copy is damaged and discarded by the next read
\* (storage_feeds.read_last_good_feed).
Discard ==
    /\ ~settled
    /\ semantic # None
    /\ semantic' = None
    /\ torn' = torn \cup {semantic}
    /\ UNCHANGED <<body, metadata, server, fetch, report, epoch, settled>>

Publish ==
    /\ server < MaxVersion
    /\ ~settled
    /\ server' = server + 1
    /\ UNCHANGED <<files, fetch, report, epoch, torn, settled>>

Settle ==
    /\ ~settled
    /\ server \in Valid
    /\ settled' = TRUE
    /\ UNCHANGED <<files, server, fetch, report, epoch, torn>>

Step(h) ==
    \/ Open(h) \/ Send(h)
    \/ Receive(h) \/ NotModified(h)
    \/ WriteBody(h) \/ WriteMetadata(h)
    \/ Refuse(h) \/ Accept(h)
    \/ Compare(h) \/ Unconfirmed(h) \/ Confirm(h)

Next ==
    \/ \E h \in Helper : Step(h) \/ Redirect(h) \/ Fail(h) \/ FailWrite(h) \/ Die(h)
    \/ Clear \/ Discard \/ Publish \/ Settle

Spec == Init /\ [][Next]_vars

\* Scans go on, and every one of their steps ends: requests have time limits.
FairSpec == Spec /\ WF_vars(\E h \in Helper : Step(h))
-----------------------------------------------------------------------------
Stage == {"idle", "opened", "sent", "received", "stored", "downloaded", "confirmed", "compared"}

Collection ==
    [at : Stage, copy : Version \cup {None}, tag : Version \cup {None},
     hops : 0..RedirectLimit, tagged : BOOLEAN]

\* Type correctness of the files and of the running collections.
TypeOK ==
    /\ server \in Version
    /\ body \in Version \cup {None}
    /\ metadata \in [of : Version, tagged : BOOLEAN] \cup {None}
    /\ semantic \in Valid \cup {None}
    /\ fetch \in [Helper -> Collection]
    /\ report \in [version : Valid, since : Version] \cup {None}
    /\ epoch \in Version
    /\ torn \subseteq Version
    /\ settled \in BOOLEAN

(***************************************************************************)
(* Old evidence is not turned into fresh evidence (docs/data-sources.md    *)
(* :38): what a collection reports was the server's version at some moment *)
(* since the running collections began, whichever path it took: a body cut *)
(* off between its files, a body the parser refused and a 304 for it, an   *)
(* older last-good copy beside a newer body, another helper's writes.      *)
(***************************************************************************)
EvidenceFresh == report # None => report.version >= report.since

\* The inductive form of EvidenceFresh: what a running collection holds, or
\* would be told to read, is not older than the epoch.
NotOld(v) == v = None \/ v >= epoch
HeldFresh(h) ==
    /\ fetch[h].at \in {"received", "stored", "downloaded", "compared"} =>
          fetch[h].copy # None /\ fetch[h].copy >= epoch
    /\ fetch[h].at = "compared" => fetch[h].copy \in Valid
    /\ fetch[h].at = "confirmed" => NotOld(body)
    /\ fetch[h].at = "opened" => (fetch[h].copy # None /\ fetch[h].copy >= epoch => NotOld(body))
    /\ fetch[h].at = "sent" => (fetch[h].tag # None /\ fetch[h].tag >= epoch => NotOld(body))

FreshInv ==
    /\ TypeOK
    /\ epoch <= server
    /\ \A h \in Helper : HeldFresh(h)
    /\ EvidenceFresh

(***************************************************************************)
(* Once everything works, every collection ends with the server's version. *)
(* One thing is in the way: while the transport files name this version    *)
(* and its last-good copy is missing, because a helper died between the    *)
(* two, the copy was damaged, or an overlapping scan replaced it by an     *)
(* older one, each 304 finds nothing to confirm and the feed stays         *)
(* unavailable until the server publishes (adapters/security.py:152).      *)
(***************************************************************************)
FeedRecovers ==
    <>[]settled =>
        \/ <>[](server \in torn)
        \/ <>[](report # None /\ report.version = server)
=============================================================================
