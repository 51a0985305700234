--------------------------- MODULE HelperStorage ---------------------------
(***************************************************************************)
(* The files the helper keeps and the commands that change them            *)
(* (storage.py, storage_locked_state.py, cli_operations.py, scan.py,       *)
(* stars.py).                                                              *)
(*                                                                         *)
(* generation.json holds a generation: its order, the items a scan listed  *)
(* and a copy of the persistent state, which is the authoritative one.     *)
(* state.json holds the persistent state alone and counts only when there  *)
(* is no readable generation.  Every access is under the state lock; a     *)
(* write of the state replaces generation.json first and state.json        *)
(* second, and the helper may die, or the write fail, between the two.     *)
(*                                                                         *)
(* The persistent state is [watches, ledger]: the watch of each item, and  *)
(* the notifications that were delivered (their leases are in              *)
(* NotificationBatch; the pruning of entries older than 180 days is left   *)
(* out).  world is the machine: the installed version of each item and the *)
(* version it could be updated to.                                         *)
(***************************************************************************)
EXTENDS Integers, FiniteSets

CONSTANTS
    Helper,    \* helper processes
    Item, Version,
    Setup,     \* [scanners, overlap, damage, orders]: the helpers that may scan, the
               \* commands that may overlap, what may happen to the files, and a
               \* bound on the generation order
    None, Corrupt

ASSUME StorageAssumption ==
    /\ \A u \in Setup : /\ u.scanners \subseteq Helper
                        /\ u.overlap \in {"stars", "any"}
                        /\ u.damage \subseteq {"lost", "generation", "state"}
                        /\ u.orders \in Nat
    /\ None # Corrupt
    /\ None \notin Helper /\ None \notin Version

VARIABLES
    setup, \* the member of Setup this machine is
    gen,   \* generation.json: a generation, None or Corrupt
    sfile, \* state.json: a persistent state, None or Corrupt
    lock,  \* the holder of state.lock, or None
    cmd,   \* [Helper -> the command it runs]
    world, \* [Item -> installed and candidate version]
    acked  \* [Item -> mode of the last confirmed set-star, None while one is unconfirmed]

files == <<gen, sfile>>
vars == <<setup, files, lock, cmd, world, acked>>

Mode == {"off", "temporary", "permanent"}
Watch == [mode : Mode, installed : Version \cup {None}]
PState == [watches : [Item -> Watch], ledger : SUBSET (Item \X Version \X Version)]
Listing == [installed : Version \cup {None}, candidate : Version \cup {None}, live : BOOLEAN]
Generation == [order : Nat, items : [Item -> Listing], state : PState]
World == [Item -> [installed : Version, candidate : Version \cup {None}]]

NoWatch == [mode |-> "off", installed |-> None]
EmptyState == [watches |-> [i \in Item |-> NoWatch], ledger |-> {}]
Unlisted == [i \in Item |-> [installed |-> None, candidate |-> None, live |-> FALSE]]

\* A missing or an unreadable file is not taken for its contents.
ASSUME MarkAssumption == \A mark \in {None, Corrupt} : mark \notin Generation /\ mark \notin PState

(***************************************************************************)
(* A command: where it is, the order and the items of its scan, the state  *)
(* it loaded or is writing, and the item and mode of its set-star.         *)
(***************************************************************************)
Point == {"off", "previous", "state", "commit", "committed", "notify", "notified",
          "reply", "star", "starred"}
Command == [at : Point, order : Nat, items : [Item -> Listing], state : PState,
            item : Item \cup {None}, mode : Mode]
Idle == [at |-> "off", order |-> 0, items |-> Unlisted, state |-> EmptyState,
         item |-> None, mode |-> "off"]

\* state_lock: every access waits until nobody holds it.
Unlocked == lock = None

Goto(h, point) == cmd' = [cmd EXCEPT ![h].at = point]
End(h) == cmd' = [cmd EXCEPT ![h] = Idle]

\* _load_generation_locked: an unreadable generation is discarded.
Readable == gen \notin {None, Corrupt}
ReadGeneration == IF gen = Corrupt THEN None ELSE gen

\* load_state: the generation's state, else state.json, else the empty state;
\* a corrupt state.json is put aside.
Effective ==
    IF Readable THEN gen.state
    ELSE IF sfile \in {None, Corrupt} THEN EmptyState ELSE sfile
ReadState == IF ~Readable /\ sfile = Corrupt THEN None ELSE sfile

ReadFiles == gen' = ReadGeneration /\ sfile' = ReadState

\* Items are listed while they have an update; an item a source could not
\* confirm is carried over from the previous generation (resolve).
InItems(items, i) == items[i].candidate # None
Collected == [i \in Item |-> [installed |-> world[i].installed,
                              candidate |-> world[i].candidate, live |-> TRUE]]
LastGood(items) == [i \in Item |-> [items[i] EXCEPT !.live = FALSE]]
CurrentItems == IF Readable THEN gen.items ELSE Unlisted
-----------------------------------------------------------------------------
Init ==
    /\ setup \in Setup
    /\ gen = None
    /\ sfile = None
    /\ lock = None
    /\ cmd = [h \in Helper |-> Idle]
    /\ \E v \in Version : world = [i \in Item |-> [installed |-> v, candidate |-> None]]
    /\ acked = [i \in Item |-> "off"]

\* The service runs one command at a time, but a helper may outlive its shell.
Alone == \A g \in Helper : cmd[g].at = "off"
MayBegin(h) == cmd[h].at = "off" /\ (setup.overlap = "any" \/ Alone)

\* scan: load_generation decides the order of the new generation.
BeginScan(h) ==
    /\ h \in setup.scanners
    /\ MayBegin(h)
    /\ Unlocked
    /\ Readable => gen.order < setup.orders
    /\ gen' = ReadGeneration
    /\ cmd' = [cmd EXCEPT ![h].at = "previous",
                          ![h].order = IF Readable THEN gen.order + 1 ELSE 0]
    /\ UNCHANGED <<setup, sfile, lock, world, acked>>

\* ScanCoordinator.run loads the previous generation and then the state; the
\* sources are collected without the lock.  A source that fails or is not due
\* keeps the items of the previous generation.
LoadPrevious(h) ==
    /\ cmd[h].at = "previous"
    /\ Unlocked
    /\ gen' = ReadGeneration
    /\ cmd' = [cmd EXCEPT ![h].at = "state", ![h].items = LastGood(CurrentItems)]
    /\ UNCHANGED <<setup, sfile, lock, world, acked>>

\* Faulty variant of LoadState: state.json is read although a generation is there.
LoadStateFile(h) ==
    /\ cmd[h].at = "state"
    /\ Unlocked
    /\ ReadFiles
    /\ \E items \in {cmd[h].items, Collected} :
          cmd' = [cmd EXCEPT ![h].at = "commit", ![h].items = items,
                             ![h].state = IF sfile \in {None, Corrupt} THEN EmptyState ELSE sfile]
    /\ UNCHANGED <<setup, lock, world, acked>>

LoadState(h) ==
    /\ cmd[h].at = "state"
    /\ Unlocked
    /\ ReadFiles
    /\ \E items \in {cmd[h].items, Collected} :
          cmd' = [cmd EXCEPT ![h].at = "commit", ![h].state = Effective, ![h].items = items]
    /\ UNCHANGED <<setup, lock, world, acked>>

\* Faulty variant of Superseded: off by one, a generation of the same order passes.
SupersededIfOlder(h) == Readable /\ cmd[h].order < gen.order

\* commit_generation: refused unless its order is the newest; else
\* generation.json is replaced, state and all, and state.json after it.
Superseded(h) == Readable /\ cmd[h].order <= gen.order

RefuseCommit(h) ==
    /\ cmd[h].at = "commit"
    /\ Unlocked
    /\ Superseded(h)
    /\ Goto(h, "reply")
    /\ UNCHANGED <<setup, files, lock, world, acked>>

Commit(h) ==
    /\ cmd[h].at = "commit"
    /\ Unlocked
    /\ ~Superseded(h)
    /\ gen' = [order |-> cmd[h].order, items |-> cmd[h].items, state |-> cmd[h].state]
    /\ lock' = h
    /\ Goto(h, "committed")
    /\ UNCHANGED <<setup, sfile, world, acked>>

\* The second write of commit_generation and of write_state.
WriteState(h, from, to) ==
    /\ cmd[h].at = from
    /\ sfile' = cmd[h].state
    /\ lock' = None
    /\ Goto(h, to)
    /\ UNCHANGED <<setup, gen, world, acked>>

CommitState(h) == WriteState(h, "committed", "notify")

\* update_state and write_state: the new state goes to generation.json, when
\* there is one, and then to state.json.
WriteGeneration(h, new, point) ==
    /\ cmd' = [cmd EXCEPT ![h].at = point, ![h].state = new]
    /\ gen' = IF Readable THEN [gen EXCEPT !.state = new] ELSE None
    /\ sfile' = ReadState
    /\ lock' = h

\* Faulty variant of Due: the installed version is not part of the fingerprint.
DueByCandidate(state, items) ==
    {<<i, items[i].candidate>> :
        i \in {j \in Item : /\ state.watches[j].mode = "permanent"
                            /\ items[j].live /\ InItems(items, j)}} \ state.ledger

\* _watch_candidates: the live updates of permanently watched items, without
\* those the ledger has.
Due(state, items) ==
    {<<i, items[i].installed, items[i].candidate>> :
        i \in {j \in Item : /\ state.watches[j].mode = "permanent"
                            /\ items[j].live /\ InItems(items, j)}} \ state.ledger

\* dispatch, as one update of the ledger; nothing is written when none is due.
Notify(h) ==
    /\ cmd[h].at = "notify"
    /\ Unlocked
    /\ Due(Effective, cmd[h].items) # {}
    /\ WriteGeneration(h, [Effective EXCEPT !.ledger = @ \cup Due(Effective, cmd[h].items)],
                       "notified")
    /\ UNCHANGED <<setup, world, acked>>

NotifyState(h) == WriteState(h, "notified", "reply")

NothingDue(h) ==
    /\ cmd[h].at = "notify"
    /\ Unlocked
    /\ Due(Effective, cmd[h].items) = {}
    /\ ReadFiles
    /\ Goto(h, "reply")
    /\ UNCHANGED <<setup, lock, world, acked>>

\* The watches are laid over the snapshot and the command ends.
Reply(h) ==
    /\ cmd[h].at = "reply"
    /\ Unlocked
    /\ ReadFiles
    /\ End(h)
    /\ UNCHANGED <<setup, lock, world, acked>>

\* snapshot and inventory: files are read, and put aside when unreadable.
Read(h) ==
    /\ MayBegin(h)
    /\ Unlocked
    /\ ReadFiles
    /\ UNCHANGED <<setup, lock, cmd, world, acked>>
-----------------------------------------------------------------------------
(***************************************************************************)
(* transition on a StarClick: off, temporary, permanent and off again.     *)
(* The first two clicks need the item among the current items.             *)
(***************************************************************************)
Clickable(state, items, i) ==
    state.watches[i].mode = "permanent" \/ InItems(items, i)

Clicked(watch, listing) ==
    CASE watch.mode = "off" -> [mode |-> "temporary", installed |-> listing.installed]
      [] watch.mode = "temporary" -> [mode |-> "permanent", installed |-> None]
      [] watch.mode = "permanent" -> NoWatch

Click(state, items, i) ==
    [state EXCEPT !.watches[i] = Clicked(@, items[i])]

BeginStar(h, i, m) ==
    /\ \/ MayBegin(h)
       \/ /\ setup.overlap = "stars" /\ cmd[h].at = "off"
          /\ \A g \in Helper : cmd[g].at \in {"off", "star", "starred"}
    /\ cmd' = [cmd EXCEPT ![h].at = "star", ![h].item = i, ![h].mode = m]
    /\ UNCHANGED <<setup, files, lock, world, acked>>

\* set_star: refused (WatchTransitionError) when the item cannot be clicked or
\* the click would not give the requested mode.
Granted(h) ==
    /\ Clickable(Effective, CurrentItems, cmd[h].item)
    /\ Click(Effective, CurrentItems, cmd[h].item).watches[cmd[h].item].mode = cmd[h].mode

Star(h) ==
    /\ cmd[h].at = "star"
    /\ Unlocked
    /\ Granted(h)
    /\ WriteGeneration(h, Click(Effective, CurrentItems, cmd[h].item), "starred")
    /\ acked' = [acked EXCEPT ![cmd[h].item] = None]
    /\ UNCHANGED <<setup, world>>

RefuseStar(h) ==
    /\ cmd[h].at = "star"
    /\ Unlocked
    /\ ~Granted(h)
    /\ ReadFiles
    /\ End(h)
    /\ UNCHANGED <<setup, lock, world, acked>>

\* Faulty variant of StarState: the star is confirmed without its second write.
StarStateSkipped(h) ==
    /\ cmd[h].at = "starred"
    /\ lock' = None
    /\ acked' = [acked EXCEPT ![cmd[h].item] = cmd[h].mode]
    /\ End(h)
    /\ UNCHANGED <<setup, files, world>>

StarState(h) ==
    /\ cmd[h].at = "starred"
    /\ sfile' = cmd[h].state
    /\ lock' = None
    /\ acked' = [acked EXCEPT ![cmd[h].item] = cmd[h].mode]
    /\ End(h)
    /\ UNCHANGED <<setup, gen, world>>

\* The helper dies, or a write raises before it replaced the file: the lock is
\* released and what was written stays.
Abort(h) ==
    /\ cmd[h].at # "off"
    /\ End(h)
    /\ lock' = IF lock = h THEN None ELSE lock
    /\ UNCHANGED <<setup, files, world, acked>>
-----------------------------------------------------------------------------
\* The machine: an update appears, replaces another or is installed.
NewUpdate(i) ==
    \E v \in Version \ {world[i].installed, world[i].candidate} :
        /\ world' = [world EXCEPT ![i].candidate = v]
        /\ UNCHANGED <<setup, files, lock, cmd, acked>>

Install(i) ==
    /\ world[i].candidate # None
    /\ world' = [world EXCEPT ![i] = [installed |-> world[i].candidate, candidate |-> None]]
    /\ UNCHANGED <<setup, files, lock, cmd, acked>>

\* The cache directory is cleared, or a file is damaged.
LoseCache ==
    /\ "lost" \in setup.damage
    /\ gen # None
    /\ Unlocked
    /\ gen' = None
    /\ UNCHANGED <<setup, sfile, lock, cmd, world, acked>>

DamageGeneration ==
    /\ "generation" \in setup.damage
    /\ Unlocked
    /\ Readable
    /\ gen' = Corrupt
    /\ UNCHANGED <<setup, sfile, lock, cmd, world, acked>>

DamageState ==
    /\ "state" \in setup.damage
    /\ Unlocked
    /\ sfile \notin {None, Corrupt}
    /\ sfile' = Corrupt
    /\ UNCHANGED <<setup, gen, lock, cmd, world, acked>>

ScanStep(h) ==
    \/ BeginScan(h) \/ LoadPrevious(h) \/ LoadState(h)
    \/ Commit(h) \/ CommitState(h) \/ RefuseCommit(h)
    \/ Notify(h) \/ NotifyState(h) \/ NothingDue(h) \/ Reply(h)

StarStep(h) ==
    \/ \E i \in Item, m \in Mode : BeginStar(h, i, m)
    \/ Star(h) \/ StarState(h) \/ RefuseStar(h)

Next ==
    \/ \E h \in Helper : ScanStep(h) \/ StarStep(h) \/ Read(h) \/ Abort(h)
    \/ \E i \in Item : NewUpdate(i) \/ Install(i)
    \/ LoseCache \/ DamageGeneration \/ DamageState

Spec == Init /\ [][Next]_vars
-----------------------------------------------------------------------------
\* Type correctness of the files and of the running commands.
TypeOK ==
    /\ setup \in Setup
    /\ gen \in Generation \cup {None, Corrupt}
    /\ sfile \in PState \cup {None, Corrupt}
    /\ lock \in Helper \cup {None}
    /\ cmd \in [Helper -> Command]
    /\ world \in World
    /\ acked \in [Item -> Mode \cup {None}]

(***************************************************************************)
(* A confirmed star survives (set_star, write_state, commit_generation):   *)
(* the effective watch of an item has the mode of the last confirmed       *)
(* set-star, through scans, through a crash between the two writes and     *)
(* then the loss of either file (not of both), while no scan overlaps a    *)
(* set-star.                                                               *)
(***************************************************************************)
OneFileAtRisk == setup.damage \subseteq {"state"} \/ "state" \notin setup.damage

AckedDurable ==
    setup.overlap = "stars" /\ OneFileAtRisk =>
        \A i \in Item : acked[i] # None => Effective.watches[i].mode = acked[i]

(***************************************************************************)
(* The files and the lock implement one atomically updated state: loads,   *)
(* commits, refused commits, crashes and the loss of state.json leave the  *)
(* effective state alone, and a star or a dispatch changes it in a single  *)
(* step, whichever of its two writes takes effect (write_state,            *)
(* commit_generation).  It is shown where generation.json is not lost and  *)
(* no scan overlaps a set-star.                                            *)
(***************************************************************************)
Steady == setup.overlap = "stars" /\ setup.damage \subseteq {"state"}
Store == INSTANCE AtomicStore WITH store <- IF Steady THEN Effective ELSE EmptyState
Atomic == Store!Spec

(***************************************************************************)
(* Of overlapping scans that were given the same order one is committed    *)
(* (commit_generation): what is published changes only together with its   *)
(* order, which grows, and by one unless a generation was lost while scans *)
(* overlap.  A star or a dispatch that writes the generation back keeps    *)
(* both.                                                                   *)
(***************************************************************************)
Orderly == setup.overlap = "stars" \/ setup.damage \subseteq {"state"}

GenerationChain ==
    [][Readable /\ Readable' =>
          \/ gen'.order > gen.order /\ (Orderly => gen'.order = gen.order + 1)
          \/ gen'.order = gen.order /\ gen'.items = gen.items]_vars

(***************************************************************************)
(* A permanent watch stays recorded until it is turned off (README.md:62). *)
(***************************************************************************)
PermanentKept ==
    [][\A i \in Item :
          Effective.watches[i].mode = "permanent" =>
             \/ Effective'.watches[i].mode = "permanent"
             \/ \E h \in Helper : /\ cmd[h].at \in {"star", "starred"}
                                  /\ cmd[h].item = i /\ cmd[h].mode = "off"]_vars
=============================================================================
