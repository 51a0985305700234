--------------------------- MODULE StorageProofs ---------------------------
(***************************************************************************)
(* Proofs about HelperStorage, for any helpers, items, versions and        *)
(* machines.                                                               *)
(***************************************************************************)
EXTENDS HelperStorage, TLAPS

\* A listed update says what it updates.
Sensible(items) == \A i \in Item : InItems(items, i) => items[i].installed # None

ListsSensible ==
    /\ \A h \in Helper : Sensible(cmd[h].items)
    /\ Readable => Sensible(gen.items)

\* The lock is held exactly between the two writes of a command, and what the
\* first one wrote is what the second one writes.
Held == {"committed", "notified", "starred"}

LockOwned == \A h \in Helper : lock = h <=> cmd[h].at \in Held

HeldWritten == \A h \in Helper : cmd[h].at \in Held /\ Readable => gen.state = cmd[h].state

StarsTargeted ==
    \A h \in Helper :
        /\ cmd[h].at \in {"star", "starred"} => cmd[h].item \in Item
        /\ cmd[h].at = "starred" => cmd[h].state.watches[cmd[h].item].mode = cmd[h].mode

\* A scan runs alone where only set-stars overlap.
ScanAlone ==
    setup.overlap = "stars" =>
        \A h \in Helper : cmd[h].at \notin {"off", "star", "starred"} =>
            \A g \in Helper : g # h => cmd[g].at = "off"

\* While generation.json is safe, there is one before anything is written.
GenerationFirst ==
    setup.damage \subseteq {"state"} =>
        /\ gen # Corrupt
        /\ gen = None => sfile = None
        /\ \A h \in Helper : cmd[h].at \in Held => Readable

\* ... and a scan commits the state as it is.
CommitsEffective ==
    Steady => \A h \in Helper : cmd[h].at = "commit" => cmd[h].state = Effective

\* What state.json says, and the states that have every confirmed star.
Fallback == IF sfile \in {None, Corrupt} THEN EmptyState ELSE sfile
Agrees(state) == \A i \in Item : acked[i] # None => state.watches[i].mode = acked[i]
Writing == {"commit"} \cup Held

StarsEverywhere ==
    setup.overlap = "stars" /\ OneFileAtRisk =>
        /\ Agrees(Effective)
        /\ "state" \notin setup.damage => Agrees(Fallback)
        /\ \A h \in Helper : cmd[h].at \in Writing => Agrees(cmd[h].state)

\* The order of a scan under way is at most one ahead.
Ordering == {"previous", "state", "commit"}

OrderAhead ==
    Orderly => \A h \in Helper : cmd[h].at \in Ordering =>
        /\ Readable => cmd[h].order <= gen.order + 1
        /\ setup.overlap = "any" /\ ~Readable => cmd[h].order = 0

IInv ==
    /\ TypeOK
    /\ ListsSensible
    /\ LockOwned
    /\ HeldWritten
    /\ StarsTargeted
    /\ ScanAlone
    /\ GenerationFirst
    /\ CommitsEffective
    /\ StarsEverywhere
    /\ OrderAhead
-----------------------------------------------------------------------------
\* What the files say is well typed.
LEMMA FilesTyped ==
    ASSUME TypeOK
    PROVE  /\ Effective \in PState
           /\ Fallback \in PState
           /\ CurrentItems \in [Item -> Listing]
           /\ EmptyState \in PState
           /\ Unlisted \in [Item -> Listing]
<1>1. EmptyState \in PState
  BY DEF EmptyState, PState, NoWatch, Watch, Mode
<1>2. Unlisted \in [Item -> Listing]
  BY DEF Unlisted, Listing
<1>3. Readable => gen \in Generation
  BY DEF TypeOK, Readable
<1>4. Readable => gen.state \in PState /\ gen.items \in [Item -> Listing]
  BY <1>3 DEF Generation
<1>5. sfile \notin {None, Corrupt} => sfile \in PState
  BY DEF TypeOK
<1> QED
  BY <1>1, <1>2, <1>4, <1>5 DEF Effective, Fallback, CurrentItems

\* Reading the files, and putting aside the unreadable ones, changes nothing
\* that a command can see.
Looks == gen' \in {gen, ReadGeneration} /\ sfile' \in {sfile, ReadState}

LEMMA LooksKeep ==
    ASSUME TypeOK, Looks
    PROVE  /\ Readable' <=> Readable
           /\ Readable => gen' = gen
           /\ Effective' = Effective
           /\ Fallback' = Fallback
           /\ gen # Corrupt => gen' = gen
           /\ sfile = None => sfile' = None
           /\ gen' \in Generation \cup {None, Corrupt}
           /\ sfile' \in PState \cup {None, Corrupt}
<1>1. /\ Readable' <=> Readable
      /\ Readable => gen' = gen
      /\ gen # Corrupt => gen' = gen
      /\ gen' \in Generation \cup {None, Corrupt}
  BY StorageAssumption DEF Looks, ReadGeneration, Readable, TypeOK
<1>2. /\ \/ sfile' = sfile
         \/ sfile = Corrupt /\ sfile' = None /\ ~Readable
      /\ sfile' \in PState \cup {None, Corrupt}
  BY DEF Looks, ReadState, Readable, TypeOK
<1>3. /\ Fallback' = Fallback
      /\ sfile = None => sfile' = None
  BY <1>2, StorageAssumption DEF Fallback
<1>4. Effective' = Effective
  BY <1>1, <1>3 DEF Effective, Fallback
<1> QED
  BY <1>1, <1>2, <1>3, <1>4

(***************************************************************************)
(* A quiet step of helper h makes c its command, holds no lock afterwards  *)
(* and shows nothing new in the files.                                     *)
(***************************************************************************)
Quiet(h, c) ==
    /\ setup' = setup /\ acked' = acked
    /\ Looks
    /\ cmd' = [cmd EXCEPT ![h] = c]
    /\ lock' \in Helper \cup {None}
    /\ \A g \in Helper : lock' = g <=> (lock = g /\ g # h)
    /\ world' \in World

Fits(h, c) ==
    /\ c.at \notin Held
    /\ Sensible(c.items)
    /\ c.at = "star" => c.item \in Item
    /\ setup.overlap = "stars" =>
          /\ c.at \notin {"off", "star"} => \A g \in Helper : g # h => cmd[g].at = "off"
          /\ c.at # "off" =>
                \A g \in Helper : g # h => cmd[g].at \in {"off", "star", "starred"}
    /\ c.at = "commit" => c.state = Effective
    /\ Orderly /\ c.at \in Ordering =>
          /\ Readable => c.order <= gen.order + 1
          /\ setup.overlap = "any" /\ ~Readable => c.order = 0

LEMMA QuietStep ==
    ASSUME IInv, NEW h \in Helper, NEW c \in Command, Quiet(h, c), Fits(h, c)
    PROVE  IInv'
<1>0. /\ Readable' <=> Readable
      /\ Readable => gen' = gen
      /\ Effective' = Effective
      /\ Fallback' = Fallback
      /\ gen # Corrupt => gen' = gen
      /\ sfile = None => sfile' = None
      /\ gen' \in Generation \cup {None, Corrupt}
      /\ sfile' \in PState \cup {None, Corrupt}
  BY LooksKeep DEF IInv, Quiet
<1>1. /\ cmd' \in [Helper -> Command]
      /\ cmd'[h] = c
      /\ \A g \in Helper : g # h => cmd'[g] = cmd[g]
  BY DEF IInv, TypeOK, Quiet
<1>2. setup' = setup /\ acked' = acked
  BY DEF Quiet
<1>3. TypeOK'
  BY <1>0, <1>1, <1>2 DEF IInv, TypeOK, Quiet
<1>4. ListsSensible'
  BY <1>0, <1>1 DEF IInv, ListsSensible, Sensible, Fits
<1>5. LockOwned'
  BY <1>1 DEF IInv, LockOwned, Quiet, Fits
<1>6. HeldWritten'
  BY <1>0, <1>1 DEF IInv, HeldWritten, Fits
<1>7. StarsTargeted'
  BY <1>1 DEF IInv, StarsTargeted, Fits, Held
<1>8. ScanAlone'
  BY <1>1, <1>2 DEF IInv, ScanAlone, Fits, Held
<1>9. GenerationFirst'
  BY <1>0, <1>1, <1>2 DEF IInv, GenerationFirst, Fits
<1>10. CommitsEffective'
  BY <1>0, <1>1, <1>2 DEF IInv, CommitsEffective, Steady, Fits
<1>11. StarsEverywhere'
  BY <1>0, <1>1, <1>2 DEF IInv, StarsEverywhere, OneFileAtRisk, Agrees, Writing, Fits
<1>12. OrderAhead'
  BY <1>0, <1>1, <1>2 DEF IInv, OrderAhead, Orderly, Fits
<1> QED
  BY <1>3, <1>4, <1>5, <1>6, <1>7, <1>8, <1>9, <1>10, <1>11, <1>12 DEF IInv
-----------------------------------------------------------------------------
\* The quiet steps of a scan.
LEMMA BeginScanStep ==
    ASSUME IInv, NEW h \in Helper, BeginScan(h)
    PROVE  IInv'
<1> DEFINE n == IF Readable THEN gen.order + 1 ELSE 0
           c == [cmd[h] EXCEPT !.at = "previous", !.order = n]
<1>0. cmd \in [Helper -> Command] /\ cmd[h] \in Command
  BY DEF IInv, TypeOK
<1>1. n \in Nat
  BY DEF IInv, TypeOK, Readable, Generation
<1>2. c \in Command
  BY <1>0, <1>1 DEF Command, Point
<1>3. cmd' = [cmd EXCEPT ![h] = c]
  BY <1>0 DEF BeginScan
<1>4. Quiet(h, c)
  <2>1. cmd[h].at \notin Held
    BY DEF BeginScan, MayBegin, Held
  <2>2. lock # h
    BY <2>1 DEF IInv, LockOwned
  <2> QED
    BY <1>3, <2>2 DEF Quiet, Looks, BeginScan, IInv, TypeOK
<1>5. Fits(h, c)
  <2>1. c.at = "previous" /\ c.items = cmd[h].items /\ c.order = n
    BY <1>0 DEF Command
  <2>2. setup.overlap = "stars" => \A g \in Helper : cmd[g].at = "off"
    BY DEF BeginScan, MayBegin, Alone
  <2>3. Readable => n <= gen.order + 1
    BY <1>1
  <2>4. ~Readable => n = 0
    OBVIOUS
  <2> HIDE DEF c, n
  <2> QED
    BY <2>1, <2>2, <2>3, <2>4 DEF Fits, Held, IInv, ListsSensible
<1> HIDE DEF c
<1> QED
  BY <1>2, <1>4, <1>5, QuietStep

LEMMA LoadPreviousStep ==
    ASSUME IInv, NEW h \in Helper, LoadPrevious(h)
    PROVE  IInv'
<1> DEFINE items == LastGood(CurrentItems)
           c == [cmd[h] EXCEPT !.at = "state", !.items = items]
<1>0. cmd \in [Helper -> Command] /\ cmd[h] \in Command
  BY DEF IInv, TypeOK
<1>1. items \in [Item -> Listing] /\ Sensible(items)
  <2>1. CurrentItems \in [Item -> Listing]
    BY FilesTyped DEF IInv
  <2>2. Sensible(CurrentItems)
    BY DEF IInv, ListsSensible, Sensible, CurrentItems, Unlisted, InItems
  <2>3. \A i \in Item : /\ items[i] \in Listing
                        /\ items[i].installed = CurrentItems[i].installed
                        /\ items[i].candidate = CurrentItems[i].candidate
    BY <2>1 DEF LastGood, Listing
  <2>4. items = [i \in Item |-> items[i]]
    BY DEF LastGood
  <2> HIDE DEF items
  <2> QED
    BY <2>2, <2>3, <2>4 DEF Sensible, InItems
<1>2. c \in Command
  BY <1>0, <1>1 DEF Command, Point
<1>3. cmd' = [cmd EXCEPT ![h] = c]
  BY <1>0 DEF LoadPrevious
<1>4. Quiet(h, c)
  BY <1>3 DEF Quiet, Looks, LoadPrevious, IInv, TypeOK, LockOwned, Held, Unlocked
<1>5. Fits(h, c)
  <2>1. c.at = "state" /\ c.items = items /\ c.order = cmd[h].order
    BY <1>0 DEF Command
  <2>2. cmd[h].at = "previous"
    BY DEF LoadPrevious
  <2> HIDE DEF c, items
  <2>3. setup.overlap = "stars" => \A g \in Helper : g # h => cmd[g].at = "off"
    BY <2>2 DEF IInv, ScanAlone
  <2>4. Orderly => /\ Readable => c.order <= gen.order + 1
                   /\ setup.overlap = "any" /\ ~Readable => c.order = 0
    BY <2>1, <2>2 DEF IInv, OrderAhead, Ordering
  <2> QED
    BY <1>1, <2>1, <2>3, <2>4 DEF Fits, Held
<1> HIDE DEF c
<1> QED
  BY <1>2, <1>4, <1>5, QuietStep

LEMMA LoadStateStep ==
    ASSUME IInv, NEW h \in Helper, LoadState(h)
    PROVE  IInv'
<1>0. cmd \in [Helper -> Command] /\ cmd[h] \in Command
  BY DEF IInv, TypeOK
<1> PICK items \in {cmd[h].items, Collected} :
        cmd' = [cmd EXCEPT ![h].at = "commit", ![h].state = Effective, ![h].items = items]
  BY DEF LoadState
<1> DEFINE c == [cmd[h] EXCEPT !.at = "commit", !.state = Effective, !.items = items]
<1>1. items \in [Item -> Listing] /\ Sensible(items)
  <2>1. CASE items = cmd[h].items
    BY <1>0, <2>1 DEF IInv, ListsSensible, Command
  <2>2. CASE items = Collected
    BY <2>2, StorageAssumption
    DEF IInv, TypeOK, World, Collected, Listing, Sensible, InItems
  <2> QED
    BY <2>1, <2>2
<1>2. Effective \in PState
  BY FilesTyped DEF IInv
<1>3. c \in Command
  BY <1>0, <1>1, <1>2 DEF Command, Point
<1>4. cmd' = [cmd EXCEPT ![h] = c]
  BY <1>0
<1>5. Quiet(h, c)
  BY <1>4 DEF Quiet, Looks, LoadState, ReadFiles, IInv, TypeOK, LockOwned, Held, Unlocked
<1>6. Fits(h, c)
  <2>1. c.at = "commit" /\ c.items = items /\ c.state = Effective /\ c.order = cmd[h].order
    BY <1>0 DEF Command
  <2>2. cmd[h].at = "state"
    BY DEF LoadState
  <2> HIDE DEF c
  <2>3. setup.overlap = "stars" => \A g \in Helper : g # h => cmd[g].at = "off"
    BY <2>2 DEF IInv, ScanAlone
  <2>4. Orderly => /\ Readable => c.order <= gen.order + 1
                   /\ setup.overlap = "any" /\ ~Readable => c.order = 0
    BY <2>1, <2>2 DEF IInv, OrderAhead, Ordering
  <2> QED
    BY <1>1, <2>1, <2>3, <2>4 DEF Fits, Held
<1> HIDE DEF c
<1> QED
  BY <1>3, <1>5, <1>6, QuietStep

LEMMA RefuseCommitStep ==
    ASSUME IInv, NEW h \in Helper, RefuseCommit(h)
    PROVE  IInv'
<1> DEFINE c == [cmd[h] EXCEPT !.at = "reply"]
<1>0. cmd \in [Helper -> Command] /\ cmd[h] \in Command
  BY DEF IInv, TypeOK
<1>1. c \in Command
  BY <1>0 DEF Command, Point
<1>2. cmd' = [cmd EXCEPT ![h] = c]
  BY <1>0 DEF RefuseCommit, Goto
<1>3. Quiet(h, c)
  BY <1>2 DEF Quiet, Looks, RefuseCommit, files, IInv, TypeOK, LockOwned, Held, Unlocked
<1>4. Fits(h, c)
  <2>1. c.at = "reply" /\ c.items = cmd[h].items
    BY <1>0 DEF Command
  <2>2. cmd[h].at = "commit"
    BY DEF RefuseCommit
  <2> HIDE DEF c
  <2> QED
    BY <2>1, <2>2 DEF Fits, Held, Ordering, IInv, ListsSensible, ScanAlone
<1> HIDE DEF c
<1> QED
  BY <1>1, <1>3, <1>4, QuietStep

LEMMA NothingDueStep ==
    ASSUME IInv, NEW h \in Helper, NothingDue(h)
    PROVE  IInv'
<1> DEFINE c == [cmd[h] EXCEPT !.at = "reply"]
<1>0. cmd \in [Helper -> Command] /\ cmd[h] \in Command
  BY DEF IInv, TypeOK
<1>1. c \in Command
  BY <1>0 DEF Command, Point
<1>2. cmd' = [cmd EXCEPT ![h] = c]
  BY <1>0 DEF NothingDue, Goto
<1>3. Quiet(h, c)
  BY <1>2 DEF Quiet, Looks, NothingDue, ReadFiles, IInv, TypeOK, LockOwned, Held, Unlocked
<1>4. Fits(h, c)
  <2>1. c.at = "reply" /\ c.items = cmd[h].items
    BY <1>0 DEF Command
  <2>2. cmd[h].at = "notify"
    BY DEF NothingDue
  <2> HIDE DEF c
  <2> QED
    BY <2>1, <2>2 DEF Fits, Held, Ordering, IInv, ListsSensible, ScanAlone
<1> HIDE DEF c
<1> QED
  BY <1>1, <1>3, <1>4, QuietStep

\* A command that ends, however it ends.
LEMMA IdleFits ==
    ASSUME NEW h \in Helper
    PROVE  Idle \in Command /\ Fits(h, Idle)
<1>1. /\ EmptyState \in PState
      /\ Unlisted \in [Item -> Listing]
  BY DEF EmptyState, PState, NoWatch, Watch, Mode, Unlisted, Listing
<1>2. Idle \in Command
  BY <1>1 DEF Idle, Command, Point, Mode
<1>3. Idle.at = "off" /\ Idle.items = Unlisted
  BY DEF Idle
<1>4. Sensible(Unlisted)
  BY DEF Sensible, Unlisted, InItems
<1> QED
  BY <1>2, <1>3, <1>4 DEF Fits, Held, Ordering

LEMMA ReplyStep ==
    ASSUME IInv, NEW h \in Helper, Reply(h) \/ RefuseStar(h)
    PROVE  IInv'
<1>1. cmd[h].at \notin Held /\ Unlocked
  BY DEF Reply, RefuseStar, Held
<1>2. Quiet(h, Idle)
  BY <1>1 DEF Quiet, Looks, Reply, RefuseStar, End, ReadFiles, IInv, TypeOK, LockOwned, Unlocked
<1> QED
  BY <1>2, IdleFits, QuietStep

LEMMA AbortStep ==
    ASSUME IInv, NEW h \in Helper, Abort(h)
    PROVE  IInv'
<1>1. \A g \in Helper : lock' = g <=> (lock = g /\ g # h)
  BY StorageAssumption DEF Abort
<1>2. Quiet(h, Idle)
  BY <1>1 DEF Quiet, Looks, Abort, End, files, IInv, TypeOK
<1> QED
  BY <1>2, IdleFits, QuietStep

LEMMA ReadStep ==
    ASSUME IInv, NEW h \in Helper, Read(h)
    PROVE  IInv'
<1>0. cmd \in [Helper -> Command] /\ cmd[h] \in Command
  BY DEF IInv, TypeOK
<1>1. cmd[h].at = "off" /\ lock = None
  BY DEF Read, MayBegin, Unlocked
<1>2. cmd' = [cmd EXCEPT ![h] = cmd[h]]
  BY <1>0 DEF Read
<1>3. Quiet(h, cmd[h])
  BY <1>1, <1>2, StorageAssumption DEF Quiet, Looks, Read, ReadFiles, IInv, TypeOK
<1>4. Fits(h, cmd[h])
  BY <1>1 DEF Fits, Held, Ordering, IInv, ListsSensible
<1> QED
  BY <1>0, <1>3, <1>4, QuietStep

LEMMA BeginStarStep ==
    ASSUME IInv, NEW h \in Helper, NEW i \in Item, NEW m \in Mode, BeginStar(h, i, m)
    PROVE  IInv'
<1> DEFINE c == [cmd[h] EXCEPT !.at = "star", !.item = i, !.mode = m]
<1>0. cmd \in [Helper -> Command] /\ cmd[h] \in Command
  BY DEF IInv, TypeOK
<1>1. c \in Command
  BY <1>0 DEF Command, Point
<1>2. cmd' = [cmd EXCEPT ![h] = c]
  BY <1>0 DEF BeginStar
<1>3. cmd[h].at = "off"
  BY DEF BeginStar, MayBegin
<1>4. Quiet(h, c)
  <2>1. lock # h
    BY <1>3 DEF IInv, LockOwned, Held
  <2> QED
    BY <1>2, <2>1 DEF Quiet, Looks, BeginStar, files, IInv, TypeOK
<1>5. Fits(h, c)
  <2>1. c.at = "star" /\ c.items = cmd[h].items /\ c.item = i
    BY <1>0 DEF Command
  <2>2. setup.overlap = "stars" => \A g \in Helper : cmd[g].at \in {"off", "star", "starred"}
    BY DEF BeginStar, MayBegin, Alone
  <2> HIDE DEF c
  <2> QED
    BY <2>1, <2>2 DEF Fits, Held, Ordering, IInv, ListsSensible
<1> HIDE DEF c
<1> QED
  BY <1>1, <1>4, <1>5, QuietStep

\* The machine changes under the commands.
LEMMA WorldStep ==
    ASSUME IInv, NEW i \in Item, NewUpdate(i) \/ Install(i)
    PROVE  IInv'
<1>1. world' \in World
  BY DEF IInv, TypeOK, World, NewUpdate, Install
<1>2. UNCHANGED <<setup, gen, sfile, lock, cmd, acked>>
  BY DEF NewUpdate, Install, files
<1>3. TypeOK'
  BY <1>1, <1>2 DEF IInv, TypeOK
<1>4. (Readable' <=> Readable) /\ Effective' = Effective /\ Fallback' = Fallback
  BY <1>2 DEF Readable, Effective, Fallback
<1>5. ListsSensible' /\ HeldWritten' /\ StarsTargeted' /\ LockOwned'
  BY <1>2, <1>4 DEF IInv, ListsSensible, HeldWritten, StarsTargeted, LockOwned
<1>6. ScanAlone' /\ GenerationFirst' /\ CommitsEffective'
  BY <1>2, <1>4 DEF IInv, ScanAlone, GenerationFirst, CommitsEffective, Steady
<1>7. StarsEverywhere' /\ OrderAhead'
  BY <1>2, <1>4 DEF IInv, StarsEverywhere, OneFileAtRisk, Agrees, OrderAhead, Orderly
<1> QED
  BY <1>3, <1>5, <1>6, <1>7 DEF IInv
-----------------------------------------------------------------------------
\* A file is lost while nobody writes.
LEMMA LoseGenerationStep ==
    ASSUME IInv, LoseCache \/ DamageGeneration
    PROVE  IInv'
<1>1. /\ gen' \in {None, Corrupt}
      /\ lock = None
      /\ ~(setup.damage \subseteq {"state"})
      /\ UNCHANGED <<setup, sfile, lock, cmd, world, acked>>
  BY DEF LoseCache, DamageGeneration, Unlocked
<1>2. ~Readable' /\ Effective' = Fallback /\ Fallback' = Fallback
  BY <1>1 DEF Readable, Effective, Fallback
<1>3. \A h \in Helper : cmd[h].at \notin Held
  BY <1>1, StorageAssumption DEF IInv, LockOwned
<1>4. TypeOK'
  BY <1>1 DEF IInv, TypeOK
<1>5. ListsSensible' /\ HeldWritten' /\ StarsTargeted' /\ LockOwned'
  BY <1>1, <1>2 DEF IInv, ListsSensible, HeldWritten, StarsTargeted, LockOwned
<1>6. ScanAlone' /\ GenerationFirst' /\ CommitsEffective'
  BY <1>1 DEF IInv, ScanAlone, GenerationFirst, CommitsEffective, Steady
<1>7. StarsEverywhere'
  BY <1>1, <1>2 DEF IInv, StarsEverywhere, OneFileAtRisk, Agrees
<1>8. OrderAhead'
  BY <1>1, <1>2 DEF IInv, OrderAhead, Orderly
<1> QED
  BY <1>4, <1>5, <1>6, <1>7, <1>8 DEF IInv

LEMMA DamageStateStep ==
    ASSUME IInv, DamageState
    PROVE  IInv' /\ (Steady => Effective' = Effective)
<1>1. /\ sfile' = Corrupt /\ sfile # None
      /\ "state" \in setup.damage
      /\ UNCHANGED <<setup, gen, lock, cmd, world, acked>>
  BY DEF DamageState
<1>2. (Readable' <=> Readable) /\ (Readable => Effective' = Effective)
  BY <1>1 DEF Readable, Effective
<1>3. setup.damage \subseteq {"state"} => Readable
  BY <1>1 DEF IInv, GenerationFirst, Readable
<1>4. TypeOK'
  BY <1>1 DEF IInv, TypeOK
<1>5. ListsSensible' /\ HeldWritten' /\ StarsTargeted' /\ LockOwned'
  BY <1>1, <1>2 DEF IInv, ListsSensible, HeldWritten, StarsTargeted, LockOwned
<1>6. ScanAlone' /\ GenerationFirst'
  BY <1>1, <1>2, <1>3 DEF IInv, ScanAlone, GenerationFirst, Readable
<1>7. CommitsEffective'
  BY <1>1, <1>2, <1>3 DEF IInv, CommitsEffective, Steady
<1>8. StarsEverywhere'
  BY <1>1, <1>2, <1>3 DEF IInv, StarsEverywhere, OneFileAtRisk, Agrees
<1>9. OrderAhead'
  BY <1>1, <1>2 DEF IInv, OrderAhead, Orderly
<1> QED
  BY <1>2, <1>3, <1>4, <1>5, <1>6, <1>7, <1>8, <1>9 DEF IInv, Steady

(***************************************************************************)
(* The writes of a command.  The first of them takes the lock.             *)
(***************************************************************************)
LEMMA NobodyHolds ==
    ASSUME IInv, Unlocked
    PROVE  \A g \in Helper : cmd[g].at \notin Held
BY StorageAssumption DEF IInv, LockOwned, Unlocked

LEMMA CommitStep ==
    ASSUME IInv, NEW h \in Helper, Commit(h)
    PROVE  /\ IInv'
           /\ Steady => Effective' = Effective
           /\ Readable => /\ gen'.order > gen.order
                          /\ Orderly => gen'.order = gen.order + 1
<1> DEFINE c == [cmd[h] EXCEPT !.at = "committed"]
<1>0. cmd \in [Helper -> Command] /\ cmd[h] \in Command
  BY DEF IInv, TypeOK
<1>1. /\ c \in Command
      /\ c.at = "committed" /\ c.state = cmd[h].state /\ c.items = cmd[h].items
  BY <1>0 DEF Command, Point
<1>2. cmd' = [cmd EXCEPT ![h] = c]
  BY <1>0 DEF Commit, Goto
<1> HIDE DEF c
<1>3. /\ cmd' \in [Helper -> Command]
      /\ cmd'[h] = c
      /\ \A g \in Helper : g # h => cmd'[g] = cmd[g]
  BY <1>0, <1>1, <1>2
<1>4. /\ gen' = [order |-> cmd[h].order, items |-> cmd[h].items, state |-> cmd[h].state]
      /\ cmd[h].at = "commit" /\ lock = None /\ lock' = h
      /\ UNCHANGED <<setup, sfile, world, acked>>
  BY DEF Commit, Unlocked
<1>5. gen' \in Generation
  BY <1>0, <1>4 DEF Command, Generation
<1>6. Readable' /\ Effective' = cmd[h].state /\ Fallback' = Fallback
  BY <1>4, <1>5, MarkAssumption DEF Readable, Effective, Fallback
<1>7. \A g \in Helper : cmd[g].at \notin Held
  BY NobodyHolds DEF Commit
<1>8. /\ gen'.order = cmd[h].order /\ gen'.items = cmd[h].items
      /\ gen'.state = cmd[h].state /\ cmd[h].order \in Nat
  BY <1>0, <1>4 DEF Command
<1>9. Readable => gen.order \in Nat
  BY DEF IInv, TypeOK, Readable, Generation
<1>10. Readable => cmd[h].order > gen.order
  BY <1>8, <1>9 DEF Commit, Superseded
<1>11. Readable /\ Orderly => cmd[h].order = gen.order + 1
  BY <1>4, <1>8, <1>9, <1>10 DEF IInv, OrderAhead, Ordering
<1>12. TypeOK'
  BY <1>3, <1>4, <1>5 DEF IInv, TypeOK
<1>13. ListsSensible'
  BY <1>1, <1>3, <1>8 DEF IInv, ListsSensible, Sensible
<1>14. LockOwned' /\ HeldWritten'
  BY <1>1, <1>3, <1>4, <1>7, <1>8 DEF LockOwned, HeldWritten, Held
<1>15. StarsTargeted' /\ ScanAlone'
  BY <1>1, <1>3, <1>4 DEF IInv, StarsTargeted, ScanAlone
<1>16. GenerationFirst'
  BY <1>4, <1>6 DEF GenerationFirst, Readable
<1>17. Steady => Effective' = Effective
  BY <1>4, <1>6 DEF IInv, CommitsEffective
<1>18. CommitsEffective'
  BY <1>1, <1>3, <1>4, <1>17 DEF IInv, CommitsEffective, Steady
<1>19. StarsEverywhere'
  BY <1>1, <1>3, <1>4, <1>6 DEF IInv, StarsEverywhere, OneFileAtRisk, Agrees, Writing
<1>20. OrderAhead'
  <2> SUFFICES ASSUME Orderly, NEW g \in Helper, g # h, cmd[g].at \in Ordering
               PROVE  cmd[g].order <= gen'.order + 1
    BY <1>1, <1>3, <1>4, <1>6 DEF OrderAhead, Orderly, Ordering
  <2>1. cmd[g].order \in Nat
    BY <1>0 DEF Command
  <2>2. setup.overlap = "any"
    BY <1>4, StorageAssumption DEF IInv, ScanAlone, Ordering, TypeOK
  <2>3. Readable => cmd[g].order <= gen.order + 1
    BY DEF IInv, OrderAhead
  <2>4. ~Readable => cmd[g].order = 0
    BY <2>2 DEF IInv, OrderAhead
  <2> QED
    BY <1>8, <1>9, <1>10, <2>1, <2>3, <2>4
<1> QED
  BY <1>8, <1>10, <1>11, <1>12, <1>13, <1>14, <1>15, <1>16, <1>17, <1>18, <1>19, <1>20 DEF IInv

\* What the first write of a dispatch or a star has in common.
LEMMA FirstWrite ==
    ASSUME IInv, NEW h \in Helper, NEW new \in PState, NEW point \in {"notified", "starred"},
           Unlocked, WriteGeneration(h, new, point),
           setup' = setup, world' = world,
           acked' \in [Item -> Mode \cup {None}],
           \A i \in Item : acked'[i] # None =>
               acked'[i] = acked[i] /\ new.watches[i].mode = Effective.watches[i].mode,
           point = "notified" => cmd[h].at = "notify",
           point = "starred" => /\ cmd[h].at = "star"
                                /\ new.watches[cmd[h].item].mode = cmd[h].mode,
           setup.damage \subseteq {"state"} => Readable
    PROVE  /\ IInv'
           /\ Steady => Effective' = new
           /\ Readable => gen'.order = gen.order /\ gen'.items = gen.items
<1> DEFINE c == [cmd[h] EXCEPT !.at = point, !.state = new]
<1>0. cmd \in [Helper -> Command] /\ cmd[h] \in Command
  BY DEF IInv, TypeOK
<1>1. /\ c \in Command
      /\ c.at = point /\ c.state = new /\ c.items = cmd[h].items
      /\ c.item = cmd[h].item /\ c.mode = cmd[h].mode
  BY <1>0 DEF Command, Point
<1>2. cmd' = [cmd EXCEPT ![h] = c]
  BY <1>0 DEF WriteGeneration
<1> HIDE DEF c
<1>3. /\ cmd' \in [Helper -> Command]
      /\ cmd'[h] = c
      /\ \A g \in Helper : g # h => cmd'[g] = cmd[g]
  BY <1>0, <1>1, <1>2
<1>4. lock = None /\ lock' = h /\ sfile' = ReadState
  BY DEF WriteGeneration, Unlocked
<1>5. ASSUME Readable
      PROVE  /\ gen' \in Generation /\ gen'.state = new
             /\ gen'.order = gen.order /\ gen'.items = gen.items
  <2>1. gen \in Generation
    BY <1>5 DEF IInv, TypeOK, Readable
  <2>2. gen' = [gen EXCEPT !.state = new]
    BY <1>5 DEF WriteGeneration
  <2> QED
    BY <2>1, <2>2 DEF Generation
<1>6. ~Readable => gen' = None
  BY DEF WriteGeneration
<1>7. Readable' <=> Readable
  BY <1>5, <1>6, MarkAssumption DEF Readable
<1>8. /\ sfile' \in PState \cup {None, Corrupt}
      /\ Fallback' = Fallback
      /\ sfile = None => sfile' = None
  BY <1>4, StorageAssumption DEF IInv, TypeOK, ReadState, Readable, Fallback
<1>9. /\ Readable => Effective' = new
      /\ ~Readable => Effective' = Effective
  <2>1. Readable => Effective' = gen'.state
    BY <1>7 DEF Effective
  <2>2. ~Readable => Effective' = Fallback'
    BY <1>7 DEF Effective, Fallback
  <2>3. ~Readable => Effective = Fallback
    BY DEF Effective, Fallback
  <2> QED
    BY <1>5, <1>8, <2>1, <2>2, <2>3
<1>10. \A g \in Helper : cmd[g].at \notin Held
  BY NobodyHolds
<1>11. TypeOK'
  BY <1>3, <1>4, <1>5, <1>6, <1>8 DEF IInv, TypeOK
<1>12. ListsSensible'
  BY <1>1, <1>3, <1>5, <1>7 DEF IInv, ListsSensible, Sensible
<1>13. LockOwned' /\ HeldWritten'
  BY <1>1, <1>3, <1>4, <1>5, <1>7, <1>10 DEF LockOwned, HeldWritten, Held
<1>14. StarsTargeted'
  BY <1>1, <1>3 DEF IInv, StarsTargeted
<1>15. setup.overlap = "stars" =>
          /\ \A g \in Helper : g # h => cmd[g].at \in {"off", "star", "starred"}
          /\ point = "notified" => \A g \in Helper : g # h => cmd[g].at = "off"
  BY DEF IInv, ScanAlone
<1>16. ScanAlone'
  BY <1>1, <1>3, <1>15 DEF ScanAlone
<1>17. GenerationFirst'
  BY <1>7 DEF GenerationFirst, Readable
<1>18. CommitsEffective'
  BY <1>1, <1>3, <1>15 DEF CommitsEffective, Steady
<1>19. StarsEverywhere'
  <2> SUFFICES ASSUME setup.overlap = "stars", OneFileAtRisk
               PROVE  /\ Agrees(Effective)'
                      /\ "state" \notin setup.damage => Agrees(Fallback)'
                      /\ \A g \in Helper : cmd'[g].at \in Writing => Agrees(cmd[g].state)'
    BY DEF StarsEverywhere, OneFileAtRisk
  <2>1. /\ Agrees(Effective)
        /\ "state" \notin setup.damage => Agrees(Fallback)
    BY DEF IInv, StarsEverywhere
  <2>2. \A i \in Item : acked'[i] # None => new.watches[i].mode = acked'[i]
    BY <2>1 DEF Agrees
  <2>3. Agrees(Effective)'
    BY <1>9, <2>1, <2>2 DEF Agrees
  <2>4. "state" \notin setup.damage => Agrees(Fallback)'
    BY <1>8, <2>1 DEF Agrees
  <2>5. \A g \in Helper : cmd'[g].at \in Writing => Agrees(cmd[g].state)'
    BY <1>1, <1>3, <1>15, <1>10, <2>2 DEF Agrees, Writing, Held
  <2> QED
    BY <2>3, <2>4, <2>5
<1>20. OrderAhead'
  BY <1>1, <1>3, <1>5, <1>7 DEF IInv, OrderAhead, Orderly, Ordering
<1> QED
  BY <1>5, <1>9, <1>11, <1>12, <1>13, <1>14, <1>16, <1>17, <1>18, <1>19, <1>20 DEF IInv, Steady

\* A dispatch records what was due.
LEMMA DueTyped ==
    ASSUME IInv, NEW h \in Helper
    PROVE  /\ Due(Effective, cmd[h].items) \subseteq Item \X Version \X Version
           /\ \A n \in Due(Effective, cmd[h].items) :
                 Effective.watches[n[1]].mode = "permanent"
<1> DEFINE items == cmd[h].items
<1>1. items \in [Item -> Listing]
  BY DEF IInv, TypeOK, Command
<1>2. Sensible(items)
  BY DEF IInv, ListsSensible
<1> HIDE DEF items
<1>3. \A j \in Item : InItems(items, j) =>
          items[j].installed \in Version /\ items[j].candidate \in Version
  BY <1>1, <1>2 DEF Sensible, InItems, Listing
<1>4. \A n \in Due(Effective, items) :
         \E j \in Item : /\ n = <<j, items[j].installed, items[j].candidate>>
                         /\ Effective.watches[j].mode = "permanent"
                         /\ InItems(items, j)
  BY DEF Due
<1>5. \A n \in Due(Effective, items) :
         n \in Item \X Version \X Version /\ Effective.watches[n[1]].mode = "permanent"
  BY <1>3, <1>4
<1> QED
  BY <1>5 DEF items

LEMMA NotifyStep ==
    ASSUME IInv, NEW h \in Helper, Notify(h)
    PROVE  /\ IInv'
           /\ Steady => Effective' =
                  [Effective EXCEPT !.ledger = @ \cup Due(Effective, cmd[h].items)]
           /\ Readable => gen'.order = gen.order /\ gen'.items = gen.items
<1> DEFINE due == Due(Effective, cmd[h].items)
           new == [Effective EXCEPT !.ledger = @ \cup due]
<1>1. Effective \in PState
  BY FilesTyped DEF IInv
<1>2. due \subseteq Item \X Version \X Version
  BY DueTyped
<1> HIDE DEF due
<1>3. new \in PState /\ new.watches = Effective.watches
  BY <1>1, <1>2 DEF PState
<1>4. setup.damage \subseteq {"state"} => Readable
  <2>1. due # {}
    BY DEF Notify, due
  <2>2. PICK n \in due : Effective.watches[n[1]].mode = "permanent"
    BY <2>1, DueTyped DEF due
  <2>3. n[1] \in Item
    BY <1>2, <2>2
  <2>4. Effective # EmptyState
    BY <2>2, <2>3 DEF EmptyState, NoWatch
  <2> QED
    BY <2>4 DEF IInv, GenerationFirst, Effective, Readable
<1>5. /\ Unlocked /\ cmd[h].at = "notify"
      /\ WriteGeneration(h, new, "notified")
      /\ UNCHANGED <<setup, world, acked>>
  BY DEF Notify, due
<1>6. acked' \in [Item -> Mode \cup {None}]
  BY <1>5 DEF IInv, TypeOK
<1> HIDE DEF new
<1>7. /\ IInv'
      /\ Steady => Effective' = new
      /\ Readable => gen'.order = gen.order /\ gen'.items = gen.items
  BY <1>3, <1>4, <1>5, <1>6, FirstWrite
<1> QED
  BY <1>7 DEF new, due

\* A granted click moves one watch one step on, from an update that is listed.
LEMMA ClickFacts ==
    ASSUME IInv, NEW i \in Item
    PROVE  LET new == Click(Effective, CurrentItems, i) IN
           /\ new \in PState
           /\ new = [Effective EXCEPT !.watches[i] =
                        Clicked(Effective.watches[i], CurrentItems[i])]
           /\ new.watches[i] = Clicked(Effective.watches[i], CurrentItems[i])
           /\ \A j \in Item : j # i => new.watches[j] = Effective.watches[j]
<1> DEFINE w == Effective.watches[i]
           l == CurrentItems[i]
<1>1. Effective \in PState /\ CurrentItems \in [Item -> Listing]
  BY FilesTyped DEF IInv
<1>2. w \in Watch /\ l \in Listing
  BY <1>1 DEF PState
<1>3. Clicked(w, l) \in Watch
  <2>1. w.mode \in Mode /\ l.installed \in Version \cup {None}
    BY <1>2 DEF Watch, Listing
  <2> HIDE DEF w, l
  <2>2. CASE w.mode = "off"
    BY <2>1, <2>2 DEF Clicked, Watch, Mode
  <2>3. CASE w.mode = "temporary"
    BY <2>1, <2>3 DEF Clicked, Watch, Mode
  <2>4. CASE w.mode = "permanent"
    BY <2>1, <2>4 DEF Clicked, NoWatch, Watch, Mode
  <2> QED
    BY <2>1, <2>2, <2>3, <2>4 DEF Mode
<1>4. Click(Effective, CurrentItems, i) = [Effective EXCEPT !.watches[i] = Clicked(w, l)]
  BY DEF Click
<1> QED
  BY <1>1, <1>3, <1>4 DEF PState

LEMMA StarClicked ==
    ASSUME IInv, NEW h \in Helper, Star(h)
    PROVE  /\ IInv'
           /\ cmd[h].item \in Item
           /\ Steady => Effective' = Click(Effective, CurrentItems, cmd[h].item)
           /\ Readable => gen'.order = gen.order /\ gen'.items = gen.items
<1> DEFINE i == cmd[h].item
           new == Click(Effective, CurrentItems, i)
<1>1. i \in Item
  BY DEF IInv, StarsTargeted, Star
<1> HIDE DEF i
<1>2. /\ new \in PState
      /\ \A j \in Item : j # i => new.watches[j] = Effective.watches[j]
  BY <1>1, ClickFacts
<1>3. new.watches[i].mode = cmd[h].mode /\ Clickable(Effective, CurrentItems, i)
  BY DEF Star, Granted, i
<1>4. setup.damage \subseteq {"state"} => Readable
  <2>1. ~Readable => CurrentItems[i].candidate = None
    BY <1>1 DEF CurrentItems, Unlisted
  <2>2. EmptyState.watches[i].mode # "permanent"
    BY <1>1 DEF EmptyState, NoWatch
  <2> QED
    BY <1>3, <2>1, <2>2 DEF Clickable, InItems, IInv, GenerationFirst, Effective, Readable
<1>5. /\ Unlocked /\ cmd[h].at = "star"
      /\ WriteGeneration(h, new, "starred")
      /\ acked' = [acked EXCEPT ![i] = None]
      /\ UNCHANGED <<setup, world>>
  BY DEF Star, i
<1>6. /\ acked' \in [Item -> Mode \cup {None}]
      /\ acked'[i] = None
      /\ \A j \in Item : j # i => acked'[j] = acked[j]
  BY <1>1, <1>5 DEF IInv, TypeOK
<1> HIDE DEF new
<1>7. \A j \in Item : acked'[j] # None =>
          acked'[j] = acked[j] /\ new.watches[j].mode = Effective.watches[j].mode
  BY <1>2, <1>6
<1>8. /\ IInv'
      /\ Steady => Effective' = new
      /\ Readable => gen'.order = gen.order /\ gen'.items = gen.items
  BY <1>2, <1>3, <1>4, <1>5, <1>6, <1>7, FirstWrite DEF i
<1> QED
  BY <1>1, <1>8 DEF new, i

(***************************************************************************)
(* The second write only repeats the first in state.json, and releases the *)
(* lock.                                                                   *)
(***************************************************************************)
LEMMA SecondWrite ==
    ASSUME IInv, NEW h \in Helper, NEW c \in Command, cmd[h].at \in Held,
           c.at \in {"off", "notify", "reply"},
           c.at # "off" => cmd[h].at # "starred",
           Sensible(c.items),
           cmd' = [cmd EXCEPT ![h] = c],
           sfile' = cmd[h].state,
           lock' = None,
           setup' = setup, gen' = gen, world' = world,
           acked' \in [Item -> Mode \cup {None}],
           \A i \in Item : acked'[i] # acked[i] =>
               cmd[h].at = "starred" /\ cmd[h].state.watches[i].mode = acked'[i]
    PROVE  IInv' /\ (Steady => Effective' = Effective)
<1>0. cmd \in [Helper -> Command] /\ cmd[h] \in Command /\ cmd[h].state \in PState
  BY DEF IInv, TypeOK, Command
<1>1. /\ cmd' \in [Helper -> Command]
      /\ cmd'[h] = c
      /\ \A g \in Helper : g # h => cmd'[g] = cmd[g]
  BY <1>0
<1>2. lock = h /\ \A g \in Helper : g # h => cmd[g].at \notin Held
  BY DEF IInv, LockOwned
<1>3. Readable' <=> Readable
  BY DEF Readable
<1>4. Fallback' = cmd[h].state
  BY <1>0, MarkAssumption DEF Fallback
<1>5. Effective' = cmd[h].state /\ (Readable => Effective' = Effective)
  <2>1. Readable => Effective' = gen.state /\ Effective = gen.state /\ gen.state = cmd[h].state
    BY <1>3 DEF IInv, HeldWritten, Effective
  <2>2. ~Readable => Effective' = Fallback'
    BY <1>3 DEF Effective, Fallback
  <2> QED
    BY <1>4, <2>1, <2>2
<1>6. setup.damage \subseteq {"state"} => Readable
  BY DEF IInv, GenerationFirst
<1>7. TypeOK'
  BY <1>0, <1>1 DEF IInv, TypeOK
<1>8. ListsSensible'
  BY <1>1, <1>3 DEF IInv, ListsSensible, Sensible
<1>9. LockOwned'
  BY <1>1, <1>2, StorageAssumption DEF LockOwned, Held
<1>10. HeldWritten' /\ StarsTargeted'
  BY <1>1, <1>3 DEF IInv, HeldWritten, StarsTargeted, Held
<1>11. ScanAlone'
  BY <1>1 DEF IInv, ScanAlone, Held
<1>12. GenerationFirst'
  BY <1>1, <1>3, <1>6 DEF IInv, GenerationFirst, Held, Readable
<1>13. CommitsEffective'
  BY <1>1, <1>5, <1>6 DEF IInv, CommitsEffective, Steady
<1>14. StarsEverywhere'
  <2> SUFFICES ASSUME setup.overlap = "stars", OneFileAtRisk
               PROVE  /\ Agrees(Effective)'
                      /\ Agrees(Fallback)'
                      /\ \A g \in Helper : cmd'[g].at \in Writing => Agrees(cmd[g].state)'
    BY DEF StarsEverywhere, OneFileAtRisk
  <2>1. Agrees(cmd[h].state)
    BY DEF IInv, StarsEverywhere, Writing
  <2>2. \A i \in Item : acked'[i] # None => cmd[h].state.watches[i].mode = acked'[i]
    BY <2>1 DEF Agrees
  <2>3. \A g \in Helper : cmd'[g].at \in Writing => cmd[g].at = "commit" /\ g # h
    BY <1>1, <1>2 DEF Writing, Held
  <2>4. \A g \in Helper : cmd'[g].at \notin Writing
    BY <2>3, <1>1 DEF IInv, ScanAlone, Held, Writing
  <2> QED
    BY <1>4, <1>5, <2>2, <2>4 DEF Agrees
<1>15. OrderAhead'
  BY <1>1, <1>3 DEF IInv, OrderAhead, Orderly, Ordering
<1> QED
  BY <1>5, <1>6, <1>7, <1>8, <1>9, <1>10, <1>11, <1>12, <1>13, <1>14, <1>15 DEF IInv, Steady

LEMMA ScanWritten ==
    ASSUME IInv, NEW h \in Helper, CommitState(h) \/ NotifyState(h)
    PROVE  IInv' /\ (Steady => Effective' = Effective)
<1>1. PICK from \in {"committed", "notified"}, to \in {"notify", "reply"} :
        WriteState(h, from, to)
  BY DEF CommitState, NotifyState
<1> DEFINE c == [cmd[h] EXCEPT !.at = to]
<1>2. cmd \in [Helper -> Command] /\ cmd[h] \in Command
  BY DEF IInv, TypeOK
<1>3. c \in Command /\ c.at = to /\ c.items = cmd[h].items
  BY <1>2 DEF Command, Point
<1>4. cmd' = [cmd EXCEPT ![h] = c]
  BY <1>1, <1>2 DEF WriteState, Goto
<1> HIDE DEF c
<1>5. /\ cmd[h].at = from /\ from # "starred" /\ sfile' = cmd[h].state /\ lock' = None
      /\ UNCHANGED <<setup, gen, world, acked>>
  BY <1>1 DEF WriteState
<1>6. Sensible(c.items) /\ acked' \in [Item -> Mode \cup {None}]
  BY <1>3, <1>5 DEF IInv, ListsSensible, TypeOK
<1>7. cmd[h].at \in Held /\ c.at \in {"off", "notify", "reply"} /\ cmd[h].at # "starred"
  BY <1>3, <1>5 DEF Held
<1> QED
  BY <1>3, <1>4, <1>5, <1>6, <1>7, SecondWrite

LEMMA StarWritten ==
    ASSUME IInv, NEW h \in Helper, StarState(h)
    PROVE  IInv' /\ (Steady => Effective' = Effective)
<1>1. /\ cmd[h].at = "starred" /\ sfile' = cmd[h].state /\ lock' = None
      /\ cmd' = [cmd EXCEPT ![h] = Idle]
      /\ acked' = [acked EXCEPT ![cmd[h].item] = cmd[h].mode]
      /\ UNCHANGED <<setup, gen, world>>
  BY DEF StarState, End
<1>2. /\ cmd[h].item \in Item /\ cmd[h].mode \in Mode
      /\ cmd[h].state.watches[cmd[h].item].mode = cmd[h].mode
  BY <1>1 DEF IInv, StarsTargeted, TypeOK, Command
<1>3. /\ acked' \in [Item -> Mode \cup {None}]
      /\ acked'[cmd[h].item] = cmd[h].mode
      /\ \A i \in Item : i # cmd[h].item => acked'[i] = acked[i]
  BY <1>1, <1>2 DEF IInv, TypeOK
<1>4. Idle \in Command /\ Idle.at = "off" /\ Sensible(Idle.items)
  BY IdleFits DEF Fits, Idle
<1>5. cmd[h].at \in Held
  BY <1>1 DEF Held
<1> QED
  BY <1>1, <1>2, <1>3, <1>4, <1>5, SecondWrite
-----------------------------------------------------------------------------
(***************************************************************************)
(* The steps by what they do to the files.                                 *)
(***************************************************************************)
Looking ==
    \/ \E h \in Helper :
          \/ BeginScan(h) \/ LoadPrevious(h) \/ LoadState(h) \/ RefuseCommit(h)
          \/ NothingDue(h) \/ Reply(h) \/ RefuseStar(h) \/ Read(h) \/ Abort(h)
          \/ \E i \in Item, m \in Mode : BeginStar(h, i, m)
    \/ \E i \in Item : NewUpdate(i) \/ Install(i)

Writes(h) == Commit(h) \/ CommitState(h) \/ Notify(h) \/ NotifyState(h) \/ Star(h) \/ StarState(h)

LEMMA StepKinds ==
    ASSUME [Next]_vars
    PROVE  \/ Looking
           \/ \E h \in Helper : Writes(h)
           \/ LoseCache \/ DamageGeneration \/ DamageState
           \/ UNCHANGED vars
BY DEF Next, ScanStep, StarStep, Looking, Writes

LEMMA LookingLooks ==
    ASSUME Looking
    PROVE  Looks /\ setup' = setup
BY DEF Looking, Looks, BeginScan, LoadPrevious, LoadState, RefuseCommit, NothingDue, Reply,
       RefuseStar, Read, Abort, BeginStar, NewUpdate, Install, ReadFiles, files

LEMMA LookingKeeps ==
    ASSUME IInv, Looking
    PROVE  IInv'
BY BeginScanStep, LoadPreviousStep, LoadStateStep, RefuseCommitStep, NothingDueStep, ReplyStep,
   ReadStep, AbortStep, BeginStarStep, WorldStep
   DEF Looking

LEMMA WritesKeep ==
    ASSUME IInv, NEW h \in Helper, Writes(h)
    PROVE  IInv'
BY CommitStep, ScanWritten, NotifyStep, StarClicked, StarWritten DEF Writes

LEMMA StutterKeeps ==
    ASSUME IInv, UNCHANGED vars
    PROVE  IInv'
<1>1. UNCHANGED <<setup, gen, sfile, lock, cmd, world, acked>>
  BY DEF vars, files
<1>2. TypeOK'
  BY <1>1 DEF IInv, TypeOK
<1>3. (Readable' <=> Readable) /\ Effective' = Effective /\ Fallback' = Fallback
  BY <1>1 DEF Readable, Effective, Fallback
<1>4. ListsSensible' /\ HeldWritten' /\ StarsTargeted' /\ LockOwned'
  BY <1>1, <1>3 DEF IInv, ListsSensible, HeldWritten, StarsTargeted, LockOwned
<1>5. ScanAlone' /\ GenerationFirst' /\ CommitsEffective'
  BY <1>1, <1>3 DEF IInv, ScanAlone, GenerationFirst, CommitsEffective, Steady
<1>6. StarsEverywhere' /\ OrderAhead'
  BY <1>1, <1>3 DEF IInv, StarsEverywhere, OneFileAtRisk, Agrees, OrderAhead, Orderly
<1> QED
  BY <1>2, <1>4, <1>5, <1>6 DEF IInv

LEMMA InitIInv ==
    ASSUME Init
    PROVE  IInv
<1>1. /\ EmptyState \in PState
      /\ Idle \in Command /\ Idle.at = "off" /\ Idle.items = Unlisted
      /\ Sensible(Unlisted)
  BY IdleFits DEF Idle, EmptyState, PState, NoWatch, Watch, Command, Point, Mode,
     Unlisted, Listing, Sensible, InItems
<1>2. cmd \in [Helper -> Command] /\ \A h \in Helper : cmd[h] = Idle
  BY <1>1 DEF Init
<1>3. ~Readable /\ Effective = EmptyState /\ Fallback = EmptyState
  BY DEF Init, Readable, Effective, Fallback
<1>4. TypeOK
  BY <1>2 DEF Init, TypeOK, World, Mode
<1>5. ListsSensible /\ HeldWritten /\ StarsTargeted
  BY <1>1, <1>2, <1>3 DEF ListsSensible, HeldWritten, StarsTargeted, Held
<1>6. LockOwned
  BY <1>1, <1>2, StorageAssumption DEF Init, LockOwned, Held
<1>7. ScanAlone /\ CommitsEffective /\ OrderAhead
  BY <1>1, <1>2 DEF ScanAlone, CommitsEffective, OrderAhead, Ordering
<1>8. GenerationFirst
  BY <1>1, <1>2, StorageAssumption DEF Init, GenerationFirst, Held
<1>9. StarsEverywhere
  <2>1. Agrees(EmptyState)
    BY DEF Init, Agrees, EmptyState, NoWatch
  <2> QED
    BY <1>1, <1>2, <1>3, <2>1 DEF StarsEverywhere, Writing, Held
<1> QED
  BY <1>4, <1>5, <1>6, <1>7, <1>8, <1>9 DEF IInv

(***************************************************************************)
(* The inductive invariant of the helper's files: who holds the lock has   *)
(* written generation.json and not yet state.json, a scan that runs alone  *)
(* commits the state it found, and a confirmed star is in every state a    *)
(* command or a file could bring back.                                     *)
(***************************************************************************)
THEOREM FilesInvariant == Spec => []IInv
<1>1. Init => IInv
  BY InitIInv
<1>2. IInv /\ [Next]_vars => IInv'
  BY StepKinds, LookingKeeps, WritesKeep, LoseGenerationStep, DamageStateStep, StutterKeeps
<1> QED
  BY <1>1, <1>2, PTL DEF Spec

\* The files and the commands stay well typed, through crashes and lost files.
THEOREM FilesTypeCorrect == Spec => []TypeOK
<1>1. IInv => TypeOK
  BY DEF IInv
<1> QED
  BY <1>1, FilesInvariant, PTL

(***************************************************************************)
(* A confirmed star survives scans, crashes between the two writes of      *)
(* write_state and commit_generation, and then the loss of either file.    *)
(***************************************************************************)
THEOREM StarsDurable == Spec => []AckedDurable
<1>1. IInv => AckedDurable
  BY DEF IInv, StarsEverywhere, AckedDurable, Agrees
<1> QED
  BY <1>1, FilesInvariant, PTL

(***************************************************************************)
(* Generations form a chain: commit_generation publishes nothing under an  *)
(* order that was published before, and skips none.                        *)
(***************************************************************************)
THEOREM OrdersChain == Spec => GenerationChain
<1> DEFINE Step ==
      Readable /\ Readable' =>
          \/ gen'.order > gen.order /\ (Orderly => gen'.order = gen.order + 1)
          \/ gen'.order = gen.order /\ gen'.items = gen.items
<1>1. IInv /\ [Next]_vars => [Step]_vars
  <2> SUFFICES ASSUME IInv, [Next]_vars
               PROVE  Step \/ UNCHANGED vars
    OBVIOUS
  <2>1. CASE Looking
    BY <2>1, LookingLooks, LooksKeep DEF IInv
  <2>2. ASSUME NEW h \in Helper, Writes(h)
        PROVE  Step
    <3>1. CASE Commit(h)
      BY <3>1, CommitStep
    <3>2. CASE Notify(h)
      BY <3>2, NotifyStep
    <3>3. CASE Star(h)
      BY <3>3, StarClicked
    <3>4. CASE CommitState(h) \/ NotifyState(h) \/ StarState(h)
      BY <3>4 DEF CommitState, NotifyState, StarState, WriteState
    <3> QED
      BY <2>2, <3>1, <3>2, <3>3, <3>4 DEF Writes
  <2>3. CASE LoseCache \/ DamageGeneration
    BY <2>3 DEF LoseCache, DamageGeneration, Readable
  <2>4. CASE DamageState
    BY <2>4 DEF DamageState
  <2> QED
    BY <2>1, <2>2, <2>3, <2>4, StepKinds
<1>2. [][Next]_vars /\ []IInv => [][Step]_vars
  BY <1>1, PTL
<1> QED
  BY <1>2, FilesInvariant, PTL DEF Spec, GenerationChain
-----------------------------------------------------------------------------
\* A granted star is one step of the abstract store.
LEMMA StarIsClick ==
    ASSUME IInv, NEW h \in Helper, Star(h), Steady, Steady'
    PROVE  \E i \in Item : Store!Click(i)
<1> DEFINE i == cmd[h].item
           w == Effective.watches[i]
           l == CurrentItems[i]
<1>1. /\ i \in Item
      /\ Effective' = Click(Effective, CurrentItems, i)
  BY StarClicked
<1>2. Clickable(Effective, CurrentItems, i)
  BY DEF Star, Granted
<1> HIDE DEF i
<1>3. Effective' = [Effective EXCEPT !.watches[i] = Clicked(w, l)]
  BY <1>1, ClickFacts
<1>4. w \in Watch /\ l \in Listing
  BY <1>1, FilesTyped DEF IInv, PState
<1>5. w.mode \in Mode
  BY <1>4 DEF Watch
<1>6. Sensible(CurrentItems)
  BY DEF IInv, ListsSensible, Sensible, CurrentItems, Unlisted, InItems
<1>7. w.mode # "permanent" => l.installed \in Version
  BY <1>1, <1>2, <1>4, <1>6 DEF Clickable, Sensible, InItems, Listing
<1>8. world[i].installed \in Version
  BY <1>1 DEF IInv, TypeOK, World
<1>9. \E v \in Version : Clicked(w, l) = Store!NextWatch(w, v)
  <2>1. CASE w.mode = "off"
    BY <1>7, <2>1 DEF Clicked, Store!NextWatch
  <2>2. CASE w.mode = "temporary"
    BY <1>7, <2>2 DEF Clicked, Store!NextWatch
  <2>3. CASE w.mode = "permanent"
    BY <1>8, <2>3 DEF Clicked, NoWatch, Store!NextWatch, Store!NoWatch
  <2> QED
    BY <1>5, <2>1, <2>2, <2>3 DEF Mode
<1>10. PICK v \in Version : Clicked(w, l) = Store!NextWatch(w, v)
  BY <1>9
<1>11. Effective' = [Effective EXCEPT !.watches[i] = Store!NextWatch(@, v)]
  BY <1>3, <1>10
<1>12. Store!Click(i)
  BY <1>11 DEF Store!Click
<1> QED
  BY <1>1, <1>12

LEMMA NotifyIsDeliver ==
    ASSUME IInv, NEW h \in Helper, Notify(h), Steady, Steady'
    PROVE  Store!Deliver
<1> DEFINE due == Due(Effective, cmd[h].items)
<1>1. Effective' = [Effective EXCEPT !.ledger = @ \cup due]
  BY NotifyStep
<1>2. due \in SUBSET {n \in Item \X Version \X Version :
                         Effective.watches[n[1]].mode = "permanent"}
  BY DueTyped
<1> HIDE DEF due
<1> QED
  BY <1>1, <1>2 DEF Store!Deliver

(***************************************************************************)
(* The files and the lock implement one atomically updated state: a star   *)
(* and a dispatch change it in the step that replaces generation.json, and *)
(* every other step of a scan, a crash, a retry or the loss of state.json  *)
(* leaves it alone.                                                        *)
(***************************************************************************)
THEOREM FilesAreAtomic == Spec => Atomic
<1> DEFINE bar == IF Steady THEN Effective ELSE EmptyState
<1>1. Init => Store!Init
  BY DEF Init, Store!Init, Store!EmptyStore, Store!NoWatch, Effective, Readable, EmptyState, NoWatch
<1>2. IInv /\ [Next]_vars => [Store!Next]_bar
  <2> SUFFICES ASSUME IInv, [Next]_vars
               PROVE  Store!Next \/ bar' = bar
    OBVIOUS
  <2>1. setup' = setup
    BY StepKinds, LookingLooks
    DEF Writes, Commit, CommitState, Notify, NotifyState, Star, StarState, WriteState,
        LoseCache, DamageGeneration, DamageState, vars
  <2>2. Steady' <=> Steady
    BY <2>1 DEF Steady
  <2>3. EmptyState' = EmptyState
    BY DEF EmptyState, NoWatch
  <2>4. CASE ~Steady
    BY <2>2, <2>3, <2>4
  <2>5. CASE Steady
    <3>1. CASE Looking
      BY <2>2, <2>5, <3>1, LookingLooks, LooksKeep DEF IInv
    <3>2. ASSUME NEW h \in Helper, Writes(h)
          PROVE  Store!Next \/ bar' = bar
      <4>1. CASE Commit(h)
        BY <2>2, <2>5, <4>1, CommitStep
      <4>2. CASE Notify(h)
        BY <2>2, <2>5, <4>2, NotifyIsDeliver DEF Store!Next
      <4>3. CASE Star(h)
        BY <2>2, <2>5, <4>3, StarIsClick DEF Store!Next
      <4>4. CASE CommitState(h) \/ NotifyState(h) \/ StarState(h)
        BY <2>2, <2>5, <4>4, ScanWritten, StarWritten
      <4> QED
        BY <3>2, <4>1, <4>2, <4>3, <4>4 DEF Writes
    <3>3. CASE LoseCache \/ DamageGeneration
      BY <2>5, <3>3 DEF Steady, LoseCache, DamageGeneration
    <3>4. CASE DamageState
      BY <2>2, <2>5, <3>4, DamageStateStep
    <3>5. CASE UNCHANGED vars
      BY <2>2, <2>5, <3>5 DEF vars, files, Effective, Readable
    <3> QED
      BY <3>1, <3>2, <3>3, <3>4, <3>5, StepKinds
  <2> QED
    BY <2>4, <2>5
<1> QED
  BY <1>1, <1>2, FilesInvariant, PTL DEF Spec, Atomic, Store!Spec
=============================================================================
