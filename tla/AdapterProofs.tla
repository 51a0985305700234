---------------------------- MODULE AdapterProofs ----------------------------
(***************************************************************************)
(* Proofs about SourceAdapters, for any refs, applications and filter.     *)
(***************************************************************************)
EXTENDS SourceAdapters, TLAPS

(***************************************************************************)
(* What the two properties rest on: the history follows the system, and    *)
(* each adapter's partial inventory covers what it has to.  Between the    *)
(* two lists of Flatpak the inventory covers the applications only, which  *)
(* is why an update that is there all along cannot hide from both.         *)
(***************************************************************************)
Followed ==
    /\ steady \subseteq Updatable
    /\ Updatable \subseteq seen

AppsCovered ==
    step = "list --runtime" =>
        /\ apps.status # "not_applicable"
        /\ apps.status = "ok" => steady \cap App \subseteq inventory

Unfinished == step # "done" => outcome = Pending

CalmInventory ==
    calm =>
        /\ step \in {"checkupdates", "yay -Qua", "paru -Qua", "remote-ls --updates"}
              => inventory = installed
        /\ step = "list --runtime" => apps = Current({}) /\ inventory = installed \cap App

OwnSteps ==
    /\ step \in {"pacman -Qn", "checkupdates"} => source = "arch"
    /\ step = "mise outdated" => source = "mise"
    /\ step \in {"list --app", "list --runtime", "remote-ls --updates"} => source = "flatpak"

IndInv ==
    /\ OwnSteps /\ Followed /\ AppsCovered /\ Unfinished /\ CalmInventory
    /\ Bracketed /\ CalmSucceeds

\* An update is of something installed.
LEMMA UpdatableInstalled == Updatable \subseteq installed
BY DEF Updatable

\* The answers to a question are of four forms.
LEMMA AnswerForms ==
    ASSUME NEW program, NEW truth, NEW a \in Answers(program, truth)
    PROVE  \/ a = truth
           \/ a = Missing
           \/ ~Parses(a) /\ a.result \in {"succeeded", "exited", "timed_out", "exceeded"}
                         /\ (a.result = "exited" => a.code = 1)
BY DEF Answers, Unusable, Answer, Exited, Missing, Parses

\* A missing program gives no rows.
LEMMA MissingFields == Missing.result = "missing" /\ ~Parses(Missing)
BY DEF Missing, Answer, Parses

\* A failure is neither ok nor not applicable.
LEMMA FailedIsBad ==
    ASSUME NEW a, a.result \in {"missing", "succeeded", "exited", "timed_out", "exceeded"}
    PROVE  Failed(a).status \notin {"ok", "not_applicable"}
BY DEF Failed, Failure, Invalid

\* Init establishes the invariant.
LEMMA InitInv == Init => IndInv
<1> SUFFICES ASSUME Init PROVE IndInv
  OBVIOUS
<1>1. /\ step \in {"pacman -Qn", "pacman -Qm", "list --app", "mise outdated",
                   "omarchy-update-available"}
      /\ step = "pacman -Qn" => source = "arch"
      /\ step = "mise outdated" => source = "mise"
      /\ step = "list --app" => source = "flatpak"
  <2>1. source \in {"omarchy", "arch", "aur", "flatpak", "mise"} /\ step = FirstStep(source)
    BY DEF Init, Source
  <2> QED BY <2>1 DEF FirstStep
<1>2. Followed
  BY DEF Init, Followed
<1>3. OwnSteps /\ Unfinished /\ AppsCovered /\ CalmInventory /\ CalmSucceeds
  BY <1>1 DEF Init, OwnSteps, Unfinished, AppsCovered, CalmInventory, CalmSucceeds
<1>4. Bracketed
  BY DEF Init, Bracketed, Pending
<1> QED BY <1>2, <1>3, <1>4 DEF IndInv

\* A step in which a command answers leaves the system and its history alone.
LEMMA SameSystem ==
    ASSUME NEW a, NEW truth, NEW optional \in BOOLEAN, Followed, Answered(a, truth, optional)
    PROVE  /\ Followed'
           /\ steady' = steady /\ seen' = seen /\ installed' = installed /\ source' = source
           /\ Updatable' = Updatable
           /\ calm' => calm /\ (a = truth \/ (optional /\ a = Missing))
BY DEF Answered, machine, history, Followed, Updatable

\* The last step of a collection keeps the invariant when its outcome does.
LEMMA Returns ==
    ASSUME NEW o, Return(o), Followed', step' = "done",
           o.status \in {"ok", "not_applicable"} =>
              /\ steady' \ LeftOut' \subseteq o.offered
              /\ o.offered \subseteq seen',
           calm' => o.status \in {"ok", "not_applicable"}
    PROVE  IndInv'
BY DEF Return, IndInv, OwnSteps, AppsCovered, Unfinished, CalmInventory, Bracketed, CalmSucceeds,
       LeftOut

\* The fields of the outcomes.
LEMMA OutcomeFields ==
    /\ \A o : Current(o).status = "ok" /\ Current(o).offered = o
    /\ NotApplicable.status = "not_applicable" /\ NotApplicable.offered = {}
    /\ Invalid.status = "invalid"
BY DEF Current, NotApplicable, Invalid, Failure

\* What the joins make of rows that are the truth.
LEMMA JoinForms ==
    ASSUME NEW rows
    PROVE  /\ JoinOfficialUpdates(rows) \in {Current(rows \ Filter), Invalid}
           /\ ReconcileUpdates(rows) \in {Current(rows \ Blank), Invalid}
           /\ rows \subseteq inventory => /\ JoinOfficialUpdates(rows) = Current(rows \ Filter)
                                          /\ ReconcileUpdates(rows) = Current(rows \ Blank)
BY DEF JoinOfficialUpdates, ReconcileUpdates

\* The official inventory.
LEMMA OfficialInventoryInv == IndInv /\ OfficialInventory => IndInv'
<1> SUFFICES ASSUME IndInv, OfficialInventory PROVE IndInv'
  OBVIOUS
<1> DEFINE truth == Said(installed)
<1>1. PICK a \in Answers("pacman", truth) :
         /\ Answered(a, truth, FALSE)
         /\ \/ Parses(a) /\ inventory' = a.rows /\ Continue("checkupdates")
            \/ ~Parses(a) /\ Return(ArchFailure(a)) /\ UNCHANGED inventory
  BY DEF OfficialInventory
<1>2. /\ Followed' /\ steady' = steady /\ seen' = seen /\ installed' = installed
      /\ source' = source /\ Updatable' = Updatable /\ (calm' => calm /\ a = truth)
  BY <1>1, SameSystem DEF IndInv
<1>3. CASE Parses(a) /\ inventory' = a.rows /\ Continue("checkupdates")
  <2>1. OwnSteps' /\ Unfinished' /\ AppsCovered' /\ CalmSucceeds' /\ Bracketed'
    BY <1>3, <1>2 DEF Continue, OwnSteps, Unfinished, AppsCovered, CalmSucceeds, Bracketed,
                      LeftOut, IndInv,
                      OfficialInventory, Pending
  <2>2. CalmInventory'
    BY <1>3, <1>2 DEF Continue, CalmInventory, Said, Answer
  <2> QED BY <2>1, <2>2, <1>2 DEF IndInv
<1>4. CASE ~Parses(a) /\ Return(ArchFailure(a)) /\ UNCHANGED inventory
  <2>1. a # truth
    BY <1>4 DEF Parses, Said, Answer
  <2>2. ArchFailure(a).status \notin {"ok", "not_applicable"}
    BY <2>1, <1>1, AnswerForms, FailedIsBad DEF ArchFailure, Missing, Answer
  <2> QED BY <1>2, <1>4, <2>1, <2>2, Returns DEF Return
<1> QED BY <1>1, <1>3, <1>4

\* The official updates: what is joined is the truth of this moment.
LEMMA OfficialUpdatesInv == IndInv /\ OfficialUpdates => IndInv'
<1> SUFFICES ASSUME IndInv, OfficialUpdates PROVE IndInv'
  OBVIOUS
<1> DEFINE truth == IF Updatable = {} THEN Exited(2) ELSE Said(Updatable)
<1>1. PICK a \in Answers("checkupdates", truth) \cup {Said({})} :
         Answered(a, truth, FALSE) /\ Return(ArchUpdates(a))
  BY DEF OfficialUpdates
<1>2. /\ Followed' /\ steady' = steady /\ seen' = seen /\ installed' = installed
      /\ source' = source /\ Updatable' = Updatable /\ (calm' => calm /\ a = truth)
  BY <1>1, SameSystem DEF IndInv
<1>3. steady \subseteq Updatable /\ Updatable \subseteq seen
  BY DEF IndInv, Followed
<1>4. CASE a = truth /\ Updatable = {}
  <2>1. ArchUpdates(a) = Current({})
    BY <1>4 DEF ArchUpdates, Parses, Exited, Answer
  <2> QED BY <1>1, <1>2, <1>3, <1>4, <2>1, Returns DEF Return, Current
<1>5. CASE a = truth /\ Updatable # {}
  <2>1. ArchUpdates(a) = JoinOfficialUpdates(Updatable)
    BY <1>5 DEF ArchUpdates, Parses, Said, Answer
  <2>2. source = source' /\ (calm' => Updatable \subseteq inventory)
    BY <1>2, UpdatableInstalled DEF IndInv, CalmInventory, OfficialUpdates
  <2>3. CASE ArchUpdates(a) = Invalid
    <3>1. ~calm'
      BY <2>1, <2>2, <2>3, JoinForms, OutcomeFields
    <3> QED BY <1>1, <1>2, <2>3, <3>1, Returns DEF Return, Invalid, Failure
  <2>4. CASE ArchUpdates(a) = Current(Updatable \ Filter)
    <3>1. source = "arch"
      BY DEF OfficialUpdates, IndInv, OwnSteps
    <3>2. LeftOut' = Filter
      BY <1>2, <3>1 DEF LeftOut
    <3> QED BY <1>1, <1>2, <1>3, <2>4, <3>2, Returns DEF Return, Current
  <2> QED BY <2>1, <2>3, <2>4, JoinForms
<1>6. CASE a # truth
  <2>1. ~calm' /\ (a = Said({}) \/ a = Missing \/
           (~Parses(a) /\ a.result \in {"succeeded", "exited", "timed_out", "exceeded"}
                       /\ (a.result = "exited" => a.code = 1)))
    BY <1>1, <1>2, <1>6, AnswerForms
  <2>2. ArchUpdates(a).status \notin {"ok", "not_applicable"}
    BY <2>1, FailedIsBad
    DEF ArchUpdates, ArchFailure, Parses, Said, Missing, Answer, Invalid, Failure
  <2> QED BY <1>1, <1>2, <2>1, <2>2, Returns DEF Return
<1> QED BY <1>4, <1>5, <1>6

\* The foreign inventory: none installed, none to update.
LEMMA ForeignInventoryInv == IndInv /\ ForeignInventory => IndInv'
<1> SUFFICES ASSUME IndInv, ForeignInventory PROVE IndInv'
  OBVIOUS
<1> DEFINE truth == Said(installed)
<1>1. PICK a \in Answers("pacman", truth) :
         /\ Answered(a, truth, FALSE)
         /\ \/ Parses(a) /\ a.rows # {} /\ inventory' = a.rows /\ Continue("yay -Qua")
            \/ Parses(a) /\ a.rows = {} /\ Return(NotApplicable)
            \/ ~Parses(a) /\ Return(ArchFailure(a))
  BY DEF ForeignInventory
<1>2. /\ Followed' /\ steady' = steady /\ seen' = seen /\ installed' = installed
      /\ source' = source /\ Updatable' = Updatable /\ (calm' => calm /\ a = truth)
  BY <1>1, SameSystem DEF IndInv
<1>3. Parses(a) => a.rows = installed
  <2>1. a = truth \/ a = Missing \/ ~Parses(a)
    BY <1>1, AnswerForms
  <2> QED BY <2>1, MissingFields DEF Said, Answer
<1>4. CASE Parses(a) /\ a.rows # {} /\ inventory' = a.rows /\ Continue("yay -Qua")
  <2>1. OwnSteps' /\ Unfinished' /\ AppsCovered' /\ CalmSucceeds' /\ Bracketed' /\ CalmInventory'
    BY <1>2, <1>3, <1>4 DEF Continue, OwnSteps, Unfinished, AppsCovered, CalmSucceeds, Bracketed,
                            LeftOut, IndInv, ForeignInventory, Pending, CalmInventory
  <2> QED BY <2>1, <1>2 DEF IndInv
<1>5. CASE Parses(a) /\ a.rows = {} /\ Return(NotApplicable)
  <2>1. steady = {}
    BY <1>3, <1>5, UpdatableInstalled DEF IndInv, Followed
  <2> QED BY <1>2, <1>5, <2>1, Returns, OutcomeFields DEF Return
<1>6. CASE ~Parses(a) /\ Return(ArchFailure(a))
  <2>1. a # truth
    BY <1>6 DEF Parses, Said, Answer
  <2>2. ArchFailure(a).status \notin {"ok", "not_applicable"}
    <3>1. a.result \in {"missing", "succeeded", "exited", "timed_out", "exceeded"}
      BY <2>1, <1>1, AnswerForms, MissingFields
    <3> QED BY <3>1, FailedIsBad DEF ArchFailure
  <2> QED BY <1>2, <1>6, <2>1, <2>2, Returns DEF Return
<1> QED BY <1>1, <1>4, <1>5, <1>6

\* What yay or paru answered.
LEMMA HelperOutcome ==
    ASSUME IndInv, step \in {"yay -Qua", "paru -Qua"},
           NEW program, NEW optional \in BOOLEAN, NEW a \in Answers(program, Said(Updatable)),
           Answered(a, Said(Updatable), optional), Return(CollectFromResult(a)),
           a = Missing => ~optional
    PROVE  IndInv'
<1>1. /\ Followed' /\ steady' = steady /\ seen' = seen /\ source' = source
      /\ (calm' => calm /\ a = Said(Updatable))
  <2>1. /\ Followed' /\ steady' = steady /\ seen' = seen /\ source' = source
        /\ calm' => calm /\ (a = Said(Updatable) \/ (optional /\ a = Missing))
    <3>1. Followed
      BY DEF IndInv
    <3> QED BY <3>1, SameSystem
  <2> QED BY <2>1
<1>2. steady \subseteq Updatable /\ Updatable \subseteq seen
  BY DEF IndInv, Followed
<1>3. CASE a = Said(Updatable)
  <2>1. CollectFromResult(a) = IF Updatable \subseteq inventory THEN Current(Updatable) ELSE Invalid
    BY <1>3 DEF CollectFromResult, ParseHelperOutput, Parses, Said, Answer
  <2>2. calm' => Updatable \subseteq inventory
    BY <1>1, UpdatableInstalled DEF IndInv, CalmInventory
  <2> QED BY <1>1, <1>2, <2>1, <2>2, Returns, OutcomeFields DEF Return
<1>4. CASE a # Said(Updatable)
  <2>1. CollectFromResult(a).status \notin {"ok", "not_applicable"}
    <3>1. /\ a.result \in {"missing", "succeeded", "exited", "timed_out", "exceeded"}
          /\ ~Parses(a)
      BY <1>4, AnswerForms, MissingFields
    <3>2. CollectFromResult(a) = IF a.result = "succeeded" THEN Invalid ELSE Failed(a)
      BY <3>1 DEF CollectFromResult, ParseHelperOutput, AurFailure
    <3>3. Failed(a).status \notin {"ok", "not_applicable"}
      BY <3>1 DEF Failed, Failure, Invalid
    <3> QED BY <3>2, <3>3, OutcomeFields
  <2> QED BY <1>1, <1>4, <2>1, Returns DEF Return
<1> QED BY <1>3, <1>4

\* The AUR helpers.
LEMMA CollectYayInv == IndInv /\ CollectYay => IndInv'
<1> SUFFICES ASSUME IndInv, CollectYay PROVE IndInv'
  OBVIOUS
<1>1. PICK a \in Answers("yay", Said(Updatable)) :
         /\ Answered(a, Said(Updatable), TRUE)
         /\ IF a = Missing THEN Continue("paru -Qua") ELSE Return(CollectFromResult(a))
  BY DEF CollectYay
<1>2. CASE a # Missing
  BY <1>1, <1>2, HelperOutcome DEF CollectYay
<1>3. CASE a = Missing
  <2>1. /\ Followed' /\ steady' = steady /\ seen' = seen /\ source' = source
        /\ installed' = installed /\ (calm' => calm) /\ inventory' = inventory
    BY <1>1, SameSystem DEF IndInv, CollectYay
  <2>2. step' = "paru -Qua" /\ outcome' = outcome
    BY <1>1, <1>3 DEF Continue
  <2> QED BY <2>1, <2>2 DEF IndInv, OwnSteps, Unfinished, AppsCovered, CalmSucceeds, Bracketed,
                             LeftOut, CollectYay, Pending, CalmInventory
<1> QED BY <1>2, <1>3

\* paru answers where there is no yay.
LEMMA CollectParuInv == IndInv /\ CollectParu => IndInv'
BY HelperOutcome DEF CollectParu

\* The list of applications covers them.
LEMMA ListAppsInv == IndInv /\ ListApps => IndInv'
<1> SUFFICES ASSUME IndInv, ListApps PROVE IndInv'
  OBVIOUS
<1> DEFINE truth == Said(installed \cap App)
<1>1. PICK a \in Answers("flatpak", truth) :
         /\ Answered(a, truth, FALSE)
         /\ inventory' = IF Parses(a) THEN a.rows ELSE {}
         /\ apps' = IF Parses(a) THEN Current({}) ELSE FlatpakFailure(a)
  BY DEF ListApps
<1>2. /\ Followed' /\ steady' = steady /\ seen' = seen /\ installed' = installed
      /\ source' = source /\ (calm' => calm /\ a = truth)
  BY <1>1, SameSystem DEF IndInv
<1>3. step' = "list --runtime" /\ outcome' = Pending /\ source = "flatpak"
  BY DEF ListApps, Continue, IndInv, Unfinished, OwnSteps
<1>4. Parses(truth) /\ truth.rows = installed \cap App
  BY DEF Parses, Said, Answer
<1>5. a = truth \/ (~Parses(a) /\ a.result \in {"missing", "succeeded", "exited", "timed_out", "exceeded"})
  BY <1>1, AnswerForms, MissingFields
<1>6. AppsCovered'
  <2>1. CASE a = truth
    <3>1. apps' = Current({}) /\ inventory' = installed \cap App
      BY <1>1, <1>4, <2>1
    <3> QED BY <1>2, <3>1, UpdatableInstalled, OutcomeFields DEF AppsCovered, IndInv, Followed
  <2>2. CASE a # truth
    <3>1. FlatpakFailure(a).status \notin {"ok", "not_applicable"}
      BY <1>5, <2>2, FailedIsBad DEF FlatpakFailure
    <3> QED BY <1>1, <1>5, <2>2, <3>1 DEF AppsCovered
  <2> QED BY <2>1, <2>2
<1>7. CalmInventory'
  BY <1>1, <1>2, <1>3, <1>4 DEF CalmInventory
<1> QED BY <1>2, <1>3, <1>6, <1>7
        DEF IndInv, OwnSteps, Unfinished, CalmSucceeds, Bracketed, LeftOut, Pending

\* The list of runtimes completes the inventory; a scope that turns out empty
\* has nothing that stayed.
LEMMA ListRuntimesInv == IndInv /\ ListRuntimes => IndInv'
<1> SUFFICES ASSUME IndInv, ListRuntimes PROVE IndInv'
  OBVIOUS
<1> DEFINE truth == Said(installed \ App)
<1>1. PICK a \in Answers("flatpak", truth) :
         /\ Answered(a, truth, FALSE)
         /\ inventory' = inventory \cup (IF Parses(a) THEN a.rows ELSE {})
         /\ IF apps.status = "ok" /\ Parses(a) /\ inventory' # {}
            THEN Continue("remote-ls --updates")
            ELSE Return(ScopeInventory(a))
  BY DEF ListRuntimes
<1>2. /\ Followed' /\ steady' = steady /\ seen' = seen /\ installed' = installed
      /\ source' = source /\ (calm' => calm /\ a = truth)
  BY <1>1, SameSystem DEF IndInv
<1>3. Parses(truth) /\ truth.rows = installed \ App
  BY DEF Parses, Said, Answer
<1>4. a = truth \/ (~Parses(a) /\ a.result \in {"missing", "succeeded", "exited", "timed_out", "exceeded"})
  BY <1>1, AnswerForms, MissingFields
<1>5. calm => apps = Current({}) /\ inventory = installed \cap App
  BY DEF IndInv, CalmInventory, ListRuntimes
<1>6. CASE apps.status = "ok" /\ Parses(a) /\ inventory' # {}
  <2>1. step' = "remote-ls --updates" /\ outcome' = Pending /\ source = "flatpak"
    BY <1>1, <1>6 DEF Continue, IndInv, Unfinished, ListRuntimes, OwnSteps
  <2>2. CalmInventory'
    BY <1>1, <1>2, <1>3, <1>5, <2>1 DEF CalmInventory
  <2> QED BY <1>2, <2>1, <2>2
          DEF IndInv, OwnSteps, Unfinished, AppsCovered, CalmSucceeds, Bracketed, LeftOut, Pending
<1>7. CASE ~(apps.status = "ok" /\ Parses(a) /\ inventory' # {})
  <2>1. Return(ScopeInventory(a))
    BY <1>1, <1>7
  <2>2. CASE apps.status # "ok"
    <3>1. ScopeInventory(a) = apps
      BY <2>2 DEF ScopeInventory
    <3>2. apps.status \notin {"ok", "not_applicable"} /\ ~calm'
      BY <1>2, <1>5, <2>2, OutcomeFields DEF IndInv, AppsCovered, ListRuntimes
    <3> QED BY <1>2, <2>1, <3>1, <3>2, Returns DEF Return
  <2>3. CASE apps.status = "ok" /\ ~Parses(a)
    <3>1. ScopeInventory(a).status \notin {"ok", "not_applicable"}
      BY <1>4, <1>3, <2>3, FailedIsBad DEF ScopeInventory, FlatpakFailure
    <3> QED BY <1>2, <1>3, <2>1, <2>3, <3>1, Returns DEF Return
  <2>4. CASE apps.status = "ok" /\ Parses(a)
    <3>1. ScopeInventory(a) = NotApplicable
      BY <2>4 DEF ScopeInventory
    <3>2. steady \cap App \subseteq inventory /\ inventory = {} /\ installed \subseteq App
      BY <1>1, <1>3, <1>4, <1>7, <2>4 DEF IndInv, AppsCovered, ListRuntimes
    <3>3. steady = {}
      BY <3>2, UpdatableInstalled DEF IndInv, Followed
    <3> QED BY <1>2, <2>1, <3>1, <3>3, Returns, OutcomeFields DEF Return
  <2> QED BY <2>2, <2>3, <2>4
<1> QED BY <1>6, <1>7

\* The updates of a scope.
LEMMA ListUpdatesInv == IndInv /\ ListUpdates => IndInv'
<1> SUFFICES ASSUME IndInv, ListUpdates PROVE IndInv'
  OBVIOUS
<1> DEFINE truth == Said(Updatable)
<1>1. PICK a \in Answers("flatpak", truth) :
         /\ Answered(a, truth, FALSE)
         /\ Return(IF Parses(a) THEN ReconcileUpdates(a.rows) ELSE FlatpakFailure(a))
  BY DEF ListUpdates
<1>2. /\ Followed' /\ steady' = steady /\ seen' = seen /\ source' = source
      /\ (calm' => calm /\ a = truth)
  BY <1>1, SameSystem DEF IndInv
<1>3. steady \subseteq Updatable /\ Updatable \subseteq seen
  BY DEF IndInv, Followed
<1>4. Parses(truth) /\ truth.rows = Updatable
  BY DEF Parses, Said, Answer
<1>5. a = truth \/ (~Parses(a) /\ a.result \in {"missing", "succeeded", "exited", "timed_out", "exceeded"})
  BY <1>1, AnswerForms, MissingFields
<1>6. CASE a = truth
  <2>1. Return(ReconcileUpdates(Updatable))
    BY <1>1, <1>4, <1>6
  <2>2. calm' => Updatable \subseteq inventory
    BY <1>2, UpdatableInstalled DEF IndInv, CalmInventory, ListUpdates
  <2>3. ReconcileUpdates(Updatable) =
           IF Updatable \subseteq inventory THEN Current(Updatable \ Blank) ELSE Invalid
    BY DEF ReconcileUpdates
  <2>4. LeftOut' = Blank
    <3>1. source = "flatpak"
      BY DEF ListUpdates, IndInv, OwnSteps
    <3> QED BY <1>2, <3>1 DEF LeftOut
  <2> QED BY <1>2, <1>3, <2>1, <2>2, <2>3, <2>4, Returns, OutcomeFields DEF Return
<1>7. CASE a # truth
  <2>1. FlatpakFailure(a).status \notin {"ok", "not_applicable"}
    BY <1>5, <1>7 DEF FlatpakFailure, Failed, Failure, Invalid
  <2> QED BY <1>1, <1>2, <1>5, <1>7, <2>1, Returns DEF Return
<1> QED BY <1>6, <1>7

\* mise: without it there is nothing it could update.
LEMMA CollectMiseInv == IndInv /\ CollectMise => IndInv'
<1> SUFFICES ASSUME IndInv, CollectMise PROVE IndInv'
  OBVIOUS
<1> DEFINE truth == Said(Updatable)
<1>1. PICK a \in Answers("mise", truth) : Answered(a, truth, TRUE) /\ Return(MiseUpdates(a))
  BY DEF CollectMise
<1>2. /\ Followed' /\ steady' = steady /\ seen' = seen /\ source' = source
      /\ (calm' => calm /\ (a = truth \/ a = Missing))
  BY <1>1, SameSystem DEF IndInv
<1>3. steady \subseteq Updatable /\ Updatable \subseteq seen
  BY DEF IndInv, Followed
<1>4. Parses(truth) /\ truth.rows = Updatable /\ truth.result = "succeeded"
  BY DEF Parses, Said, Answer
<1>5. \/ a = truth \/ a = Missing
      \/ (~Parses(a) /\ a.result \in {"succeeded", "exited", "timed_out", "exceeded"})
  BY <1>1, AnswerForms
<1>6. CASE a = Missing
  <2>1. MiseUpdates(a) = NotApplicable
    BY <1>6, MissingFields DEF MiseUpdates
  <2>2. Updatable = {}
    <3>1. "mise" \in absent
      BY <1>1, <1>6, MissingFields DEF Answers, Unusable, Answer, Exited, Said
    <3>2. source = "mise"
      BY DEF IndInv, OwnSteps, CollectMise
    <3> QED BY <3>1, <3>2 DEF Updatable
  <2> QED BY <1>1, <1>2, <1>3, <2>1, <2>2, Returns, OutcomeFields DEF Return
<1>7. CASE a = truth
  <2>1. MiseUpdates(a) = IF Updatable = {} THEN NotApplicable ELSE Current(Updatable)
    BY <1>4, <1>7 DEF MiseUpdates
  <2> QED BY <1>1, <1>2, <1>3, <2>1, Returns, OutcomeFields DEF Return
<1>8. CASE a # truth /\ a # Missing
  <2>1. MiseUpdates(a).status \notin {"ok", "not_applicable"}
    <3>1. MiseUpdates(a) = Failed(a)
      BY <1>5, <1>8 DEF MiseUpdates
    <3> QED BY <1>5, <1>8, <3>1 DEF Failed, Failure, Invalid
  <2> QED BY <1>1, <1>2, <1>8, <2>1, Returns DEF Return
<1> QED BY <1>6, <1>7, <1>8

\* Omarchy.
LEMMA CollectOmarchyInv == IndInv /\ CollectOmarchy => IndInv'
<1> SUFFICES ASSUME IndInv, CollectOmarchy PROVE IndInv'
  OBVIOUS
<1> DEFINE truth == IF Updatable = {} THEN UpToDate ELSE Said(Updatable)
<1>1. PICK a \in Answers("omarchy", truth) \cup {Said({})} :
         Answered(a, truth, FALSE) /\ Return(OmarchyUpdates(a))
  BY DEF CollectOmarchy
<1>2. /\ Followed' /\ steady' = steady /\ seen' = seen /\ source' = source
      /\ (calm' => calm /\ a = truth)
  BY <1>1, SameSystem DEF IndInv
<1>3. steady \subseteq Updatable /\ Updatable \subseteq seen
  BY DEF IndInv, Followed
<1>4. CASE a = truth
  <2>1. OmarchyUpdates(a) = Current(Updatable)
    BY <1>4 DEF OmarchyUpdates, UpToDate, Parses, Said, Answer
  <2> QED BY <1>1, <1>2, <1>3, <2>1, Returns, OutcomeFields DEF Return
<1>5. CASE a # truth
  <2>1. \/ a = Said({}) \/ a = Missing
        \/ (~Parses(a) /\ a.result \in {"succeeded", "exited", "timed_out", "exceeded"})
    BY <1>1, <1>5, AnswerForms
  <2>2. OmarchyUpdates(a) \in {Invalid, Failed(a)}
    BY <2>1, MissingFields DEF OmarchyUpdates, Parses, Said, Answer
  <2>3. Failed(a).status \notin {"ok", "not_applicable"}
    BY <2>1, MissingFields DEF Failed, Failure, Invalid, Said, Answer
  <2> QED BY <1>1, <1>2, <1>5, <2>2, <2>3, Returns, OutcomeFields DEF Return
<1> QED BY <1>4, <1>5

\* The system changes: what stayed shrinks, what was seen grows.
LEMMA ChangeSystemInv == IndInv /\ ChangeSystem => IndInv'
BY DEF ChangeSystem, IndInv, OwnSteps, Followed, AppsCovered, Unfinished, CalmInventory,
       Bracketed, LeftOut, CalmSucceeds, Pending

\* Every step keeps the invariant.
LEMMA NextInv == IndInv /\ [Next]_vars => IndInv'
<1> SUFFICES ASSUME IndInv, [Next]_vars PROVE IndInv'
  OBVIOUS
<1>1. CASE UNCHANGED vars
  BY <1>1 DEF vars, machine, history, IndInv, OwnSteps, Followed, AppsCovered, Unfinished,
              CalmInventory, Bracketed, LeftOut, CalmSucceeds, Updatable
<1>2. CASE Done
  BY <1>1, <1>2 DEF Done
<1> QED
  BY <1>1, <1>2, OfficialInventoryInv, OfficialUpdatesInv, ForeignInventoryInv, CollectYayInv,
     CollectParuInv, ListAppsInv, ListRuntimesInv, ListUpdatesInv, CollectMiseInv,
     CollectOmarchyInv, ChangeSystemInv
  DEF Next

(***************************************************************************)
(* No adapter turns missing evidence into success: whatever fails and      *)
(* whatever changes between its commands, a source that is ok or not       *)
(* applicable names every update that stayed and none that never was, but  *)
(* for those LeftOut names: of Flatpak, the updates without a version      *)
(* (adapters/arch.py, aur.py, flatpak.py, mise.py, omarchy.py).            *)
(***************************************************************************)
THEOREM UpdatesBracketed == Spec => []Bracketed
<1>1. IndInv => Bracketed
  BY DEF IndInv
<1> QED BY InitInv, NextInv, <1>1, PTL DEF Spec

(***************************************************************************)
(* A collection in which every command answers and nothing changes ends    *)
(* well: the joins of inventories and updates cannot fail by themselves.   *)
(***************************************************************************)
THEOREM CalmEndsWell == Spec => []CalmSucceeds
<1>1. IndInv => CalmSucceeds
  BY DEF IndInv
<1> QED BY InitInv, NextInv, <1>1, PTL DEF Spec
-----------------------------------------------------------------------------
(***************************************************************************)
(* The types: every answer leads to one of the outcomes the scan knows.    *)
(***************************************************************************)
Results == {"missing", "succeeded", "exited", "timed_out", "exceeded", "up_to_date"}
Collected == {Current(o) : o \in SUBSET Ref} \cup Failures \cup {Pending, NotApplicable}
ScopeResult == Failures \cup {Pending, Current({})}

\* What a collection's step may leave behind.
Typed ==
    /\ step \in Step
    /\ inventory \in SUBSET Ref
    /\ apps \in ScopeResult
    /\ outcome \in Collected

System ==
    /\ source \in Source
    /\ installed \in SUBSET Ref /\ newer \in SUBSET Ref
    /\ absent \in SUBSET Program
    /\ calm \in BOOLEAN
    /\ steady \in SUBSET Ref /\ seen \in SUBSET Ref

LEMMA TypeParts == TypeOK <=> Typed /\ System
BY DEF TypeOK, Typed, System, Collected, ScopeResult

\* An answer names what the truth names, and ends in one of the known ways.
LEMMA AnswerTyped ==
    ASSUME NEW program, NEW truth, truth.rows \in SUBSET Ref, truth.result \in Results,
           NEW a \in Answers(program, truth)
    PROVE  a.rows \in SUBSET Ref /\ a.result \in Results
<1>1. CASE a = truth
  BY <1>1
<1>2. CASE a = Missing
  BY <1>2 DEF Missing, Answer, Results
<1>3. CASE a \in Unusable(truth.rows)
  BY <1>3 DEF Unusable, Exited, Answer, Results
<1> QED BY <1>1, <1>2, <1>3 DEF Answers

LEMMA TruthTyped ==
    /\ \A rows : Said(rows).rows = rows /\ Said(rows).result = "succeeded"
    /\ \A code : Exited(code).rows = {} /\ Exited(code).result = "exited"
    /\ UpToDate.rows = {} /\ UpToDate.result = "up_to_date"
BY DEF Said, Exited, UpToDate, Answer

\* Every way a command can end without rows is a known failure.
LEMMA FailedTyped ==
    ASSUME NEW a, a.result \in Results
    PROVE  Failed(a) \in Failures
<1>1. CASE a.result = "missing"
  BY <1>1 DEF Failed, Failures
<1>2. CASE a.result = "timed_out"
  BY <1>2 DEF Failed, Failures
<1>3. CASE a.result \in {"exited", "exceeded", "up_to_date"}
  BY <1>3 DEF Failed, Failures
<1>4. CASE a.result = "succeeded"
  BY <1>4 DEF Failed, Failures
<1> QED BY <1>1, <1>2, <1>3, <1>4 DEF Results

LEMMA CollectedForms ==
    /\ \A o \in SUBSET Ref : Current(o) \in Collected
    /\ \A f \in Failures : f \in Collected
    /\ NotApplicable \in Collected /\ Invalid \in Collected /\ Pending \in Collected
    /\ \A f \in ScopeResult : f \in Collected
BY DEF Collected, ScopeResult, Failures

LEMMA JoinsTyped ==
    ASSUME NEW rows \in SUBSET Ref
    PROVE  JoinOfficialUpdates(rows) \in Collected /\ ReconcileUpdates(rows) \in Collected
BY CollectedForms DEF JoinOfficialUpdates, ReconcileUpdates

\* The outcomes the adapters make of an answer.
LEMMA OutcomesTyped ==
    ASSUME NEW a, a.rows \in SUBSET Ref, a.result \in Results
    PROVE  /\ ArchUpdates(a) \in Collected /\ CollectFromResult(a) \in Collected
           /\ MiseUpdates(a) \in Collected /\ OmarchyUpdates(a) \in Collected
           /\ ArchFailure(a) \in Collected /\ FlatpakFailure(a) \in Failures
<1>1. Failed(a) \in Failures /\ Failed(a) \in Collected
  BY FailedTyped, CollectedForms
<1>2. ArchUpdates(a) \in Collected
  <2>1. Current({}) \in Collected /\ Invalid \in Collected
    BY CollectedForms
  <2> QED BY <1>1, <2>1, JoinsTyped DEF ArchUpdates, ArchFailure
<1>3. CollectFromResult(a) \in Collected
  BY <1>1, CollectedForms DEF CollectFromResult, ParseHelperOutput, AurFailure
<1>4. MiseUpdates(a) \in Collected
  BY <1>1, CollectedForms DEF MiseUpdates
<1>5. OmarchyUpdates(a) \in Collected
  <2>1. Current({}) \in Collected /\ Invalid \in Collected /\ Current(a.rows) \in Collected
    BY CollectedForms
  <2> QED BY <1>1, <2>1 DEF OmarchyUpdates
<1> QED BY <1>1, <1>2, <1>3, <1>4, <1>5 DEF ArchFailure, FlatpakFailure

LEMMA SystemKept ==
    ASSUME System, NEW a, NEW truth, NEW optional, Answered(a, truth, optional)
    PROVE  System'
<1>1. calm' \in BOOLEAN
  BY DEF Answered
<1> QED BY <1>1 DEF System, Answered, machine, history

LEMMA InitTyped == Init => TypeOK
<1> SUFFICES ASSUME Init PROVE TypeOK
  OBVIOUS
<1>1. source \in {"omarchy", "arch", "aur", "flatpak", "mise"}
  BY DEF Init, Source
<1>2. step \in Step
  BY <1>1 DEF Init, FirstStep, Step
<1>3. ProgramsOf(source) \subseteq Program
  BY <1>1 DEF ProgramsOf, Program
<1>4. Updatable \in SUBSET Ref
  BY DEF Init, Updatable
<1>5. System
  BY <1>3, <1>4 DEF Init, System
<1>6. Typed
  BY <1>2, CollectedForms DEF Init, Typed, ScopeResult
<1> QED BY <1>5, <1>6, TypeParts

LEMMA ChangeTyped ==
    ASSUME Typed, System, ChangeSystem
    PROVE  Typed' /\ System'
<1>1. Typed' /\ source' = source
  BY DEF Typed, ChangeSystem
<1>2. installed' \in SUBSET Ref /\ newer' \in SUBSET Ref
  BY DEF System, ChangeSystem
<1>3. absent' \in SUBSET Program
  <2>1. source \in {"omarchy", "arch", "aur", "flatpak", "mise"}
    BY DEF System, Source
  <2>2. ProgramsOf(source) \subseteq Program
    BY <2>1 DEF ProgramsOf, Program
  <2> QED BY <2>2 DEF System, ChangeSystem
<1>4. Updatable' \in SUBSET Ref
  BY <1>2 DEF Updatable
<1>5. steady' = steady \cap Updatable' /\ seen' = seen \cup Updatable' /\ calm' = FALSE
  BY DEF ChangeSystem
<1> QED BY <1>1, <1>2, <1>3, <1>4, <1>5 DEF System

\* A command answers, and the collection goes on or ends.
LEMMA AnswerStep ==
    ASSUME Typed, System, NEW a, NEW truth, NEW optional, Answered(a, truth, optional),
           inventory' \in SUBSET Ref, apps' \in ScopeResult,
           \/ \E next \in Step : Continue(next)
           \/ \E o \in Collected : Return(o)
    PROVE  Typed' /\ System'
<1>1. step' \in Step /\ outcome' \in Collected
  BY DEF Typed, Continue, Return, Step
<1> QED BY <1>1, SystemKept DEF Typed

LEMMA CommandTyped ==
    ASSUME Typed, System,
           \/ OfficialInventory \/ OfficialUpdates \/ ForeignInventory \/ CollectYay
           \/ CollectParu \/ ListApps \/ ListRuntimes \/ ListUpdates
           \/ CollectMise \/ CollectOmarchy
    PROVE  Typed' /\ System'
<1>0. installed \in SUBSET Ref /\ Updatable \in SUBSET Ref
  BY DEF System, Updatable
<1>t. "succeeded" \in Results /\ "exited" \in Results /\ "up_to_date" \in Results
  BY DEF Results
<1>1. CASE OfficialInventory
  <2>1. PICK a \in Answers("pacman", Said(installed)) :
           /\ Answered(a, Said(installed), FALSE)
           /\ \/ inventory' = a.rows /\ Continue("checkupdates")
              \/ Return(ArchFailure(a)) /\ UNCHANGED inventory
    BY <1>1 DEF OfficialInventory
  <2>2. a.rows \in SUBSET Ref /\ a.result \in Results
    BY <1>0, <1>t, TruthTyped, AnswerTyped
  <2>3. inventory' \in SUBSET Ref /\ apps' \in ScopeResult
    BY <1>1, <2>1, <2>2 DEF Typed, OfficialInventory
  <2>4. "checkupdates" \in Step /\ ArchFailure(a) \in Collected
    BY <2>2, OutcomesTyped DEF Step
  <2> QED BY <2>1, <2>3, <2>4, AnswerStep
<1>2. CASE OfficialUpdates
  <2> DEFINE truth == IF Updatable = {} THEN Exited(2) ELSE Said(Updatable)
  <2>1. PICK a \in Answers("checkupdates", truth) \cup {Said({})} :
           Answered(a, truth, FALSE) /\ Return(ArchUpdates(a))
    BY <1>2 DEF OfficialUpdates
  <2>2. truth.rows \in SUBSET Ref /\ truth.result \in Results
    BY <1>0, <1>t, TruthTyped
  <2> HIDE DEF truth
  <2>3. a.rows \in SUBSET Ref /\ a.result \in Results
    BY <1>t, <2>1, <2>2, TruthTyped, AnswerTyped
  <2>4. inventory' \in SUBSET Ref /\ apps' \in ScopeResult
    BY <1>2 DEF Typed, OfficialUpdates
  <2>5. ArchUpdates(a) \in Collected
    BY <2>3, OutcomesTyped
  <2> QED BY <2>1, <2>4, <2>5, AnswerStep
<1>3. CASE ForeignInventory
  <2>1. PICK a \in Answers("pacman", Said(installed)) :
           /\ Answered(a, Said(installed), FALSE)
           /\ \/ inventory' = a.rows /\ Continue("yay -Qua")
              \/ Return(NotApplicable) /\ UNCHANGED inventory
              \/ Return(ArchFailure(a)) /\ UNCHANGED inventory
    BY <1>3 DEF ForeignInventory
  <2>2. a.rows \in SUBSET Ref /\ a.result \in Results
    BY <1>0, <1>t, TruthTyped, AnswerTyped
  <2>3. inventory' \in SUBSET Ref /\ apps' \in ScopeResult
    BY <1>3, <2>1, <2>2 DEF Typed, ForeignInventory
  <2>4. "yay -Qua" \in Step /\ ArchFailure(a) \in Collected /\ NotApplicable \in Collected
    BY <2>2, OutcomesTyped, CollectedForms DEF Step
  <2> QED BY <2>1, <2>3, <2>4, AnswerStep
<1>4. CASE CollectYay
  <2>1. PICK a \in Answers("yay", Said(Updatable)) :
           /\ Answered(a, Said(Updatable), TRUE)
           /\ Continue("paru -Qua") \/ Return(CollectFromResult(a))
    BY <1>4 DEF CollectYay
  <2>2. a.rows \in SUBSET Ref /\ a.result \in Results
    BY <1>0, <1>t, TruthTyped, AnswerTyped
  <2>3. inventory' \in SUBSET Ref /\ apps' \in ScopeResult
    BY <1>4 DEF Typed, CollectYay
  <2>4. "paru -Qua" \in Step /\ CollectFromResult(a) \in Collected
    BY <2>2, OutcomesTyped DEF Step
  <2> QED BY <2>1, <2>3, <2>4, AnswerStep
<1>5. CASE CollectParu
  <2>1. PICK a \in Answers("paru", Said(Updatable)) :
           Answered(a, Said(Updatable), FALSE) /\ Return(CollectFromResult(a))
    BY <1>5 DEF CollectParu
  <2>2. a.rows \in SUBSET Ref /\ a.result \in Results
    BY <1>0, <1>t, TruthTyped, AnswerTyped
  <2>3. inventory' \in SUBSET Ref /\ apps' \in ScopeResult
    BY <1>5 DEF Typed, CollectParu
  <2>4. CollectFromResult(a) \in Collected
    BY <2>2, OutcomesTyped
  <2> QED BY <2>1, <2>3, <2>4, AnswerStep
<1>6. CASE ListApps
  <2>1. PICK a \in Answers("flatpak", Said(installed \cap App)) :
           /\ Answered(a, Said(installed \cap App), FALSE)
           /\ inventory' = IF Parses(a) THEN a.rows ELSE {}
           /\ apps' = IF Parses(a) THEN Current({}) ELSE FlatpakFailure(a)
    BY <1>6 DEF ListApps
  <2>2. a.rows \in SUBSET Ref /\ a.result \in Results
    BY <1>0, <1>t, TruthTyped, AnswerTyped
  <2>3. Continue("list --runtime") /\ "list --runtime" \in Step
    BY <1>6 DEF ListApps, Step
  <2>4. FlatpakFailure(a) \in Failures
    BY <2>2, OutcomesTyped
  <2>5. inventory' \in SUBSET Ref /\ apps' \in ScopeResult
    BY <2>1, <2>2, <2>4 DEF ScopeResult
  <2> QED BY <2>1, <2>3, <2>5, AnswerStep
<1>7. CASE ListRuntimes
  <2>1. PICK a \in Answers("flatpak", Said(installed \ App)) :
           /\ Answered(a, Said(installed \ App), FALSE)
           /\ inventory' = inventory \cup (IF Parses(a) THEN a.rows ELSE {})
           /\ Continue("remote-ls --updates") \/ Return(ScopeInventory(a))
    BY <1>7 DEF ListRuntimes
  <2>2. a.rows \in SUBSET Ref /\ a.result \in Results
    BY <1>0, <1>t, TruthTyped, AnswerTyped
  <2>3. inventory' \in SUBSET Ref /\ apps' \in ScopeResult
    BY <1>7, <2>1, <2>2 DEF Typed, ListRuntimes
  <2>4. ScopeInventory(a) \in Collected
    <3>1. apps \in Collected /\ FlatpakFailure(a) \in Collected /\ NotApplicable \in Collected
      BY <2>2, OutcomesTyped, CollectedForms DEF Typed
    <3> QED BY <3>1 DEF ScopeInventory
  <2>5. "remote-ls --updates" \in Step
    BY DEF Step
  <2> QED BY <2>1, <2>3, <2>4, <2>5, AnswerStep
<1>8. CASE ListUpdates
  <2>1. PICK a \in Answers("flatpak", Said(Updatable)) :
           /\ Answered(a, Said(Updatable), FALSE)
           /\ Return(IF Parses(a) THEN ReconcileUpdates(a.rows) ELSE FlatpakFailure(a))
    BY <1>8 DEF ListUpdates
  <2>2. a.rows \in SUBSET Ref /\ a.result \in Results
    BY <1>0, <1>t, TruthTyped, AnswerTyped
  <2>3. inventory' \in SUBSET Ref /\ apps' \in ScopeResult
    BY <1>8 DEF Typed, ListUpdates
  <2>4. (IF Parses(a) THEN ReconcileUpdates(a.rows) ELSE FlatpakFailure(a)) \in Collected
    BY <2>2, OutcomesTyped, JoinsTyped, CollectedForms
  <2> QED BY <2>1, <2>3, <2>4, AnswerStep
<1>9. CASE CollectMise
  <2>1. PICK a \in Answers("mise", Said(Updatable)) :
           Answered(a, Said(Updatable), TRUE) /\ Return(MiseUpdates(a))
    BY <1>9 DEF CollectMise
  <2>2. a.rows \in SUBSET Ref /\ a.result \in Results
    BY <1>0, <1>t, TruthTyped, AnswerTyped
  <2>3. inventory' \in SUBSET Ref /\ apps' \in ScopeResult
    BY <1>9 DEF Typed, CollectMise
  <2>4. MiseUpdates(a) \in Collected
    BY <2>2, OutcomesTyped
  <2> QED BY <2>1, <2>3, <2>4, AnswerStep
<1>10. CASE CollectOmarchy
  <2> DEFINE truth == IF Updatable = {} THEN UpToDate ELSE Said(Updatable)
  <2>1. PICK a \in Answers("omarchy", truth) \cup {Said({})} :
           Answered(a, truth, FALSE) /\ Return(OmarchyUpdates(a))
    BY <1>10 DEF CollectOmarchy
  <2>2. truth.rows \in SUBSET Ref /\ truth.result \in Results
    BY <1>0, <1>t, TruthTyped
  <2> HIDE DEF truth
  <2>3. a.rows \in SUBSET Ref /\ a.result \in Results
    BY <1>t, <2>1, <2>2, TruthTyped, AnswerTyped
  <2>4. inventory' \in SUBSET Ref /\ apps' \in ScopeResult
    BY <1>10 DEF Typed, CollectOmarchy
  <2>5. OmarchyUpdates(a) \in Collected
    BY <2>3, OutcomesTyped
  <2> QED BY <2>1, <2>4, <2>5, AnswerStep
<1> QED BY <1>1, <1>2, <1>3, <1>4, <1>5, <1>6, <1>7, <1>8, <1>9, <1>10

(***************************************************************************)
(* Every collection ends in an outcome scan_resolution.py knows how to     *)
(* resolve: current evidence about refs, not applicable, or one of the     *)
(* four failures with the permanence the adapters' tables give them.       *)
(***************************************************************************)
THEOREM CollectionsTyped == Spec => []TypeOK
<1>1. Init => TypeOK
  BY InitTyped
<1>2. TypeOK /\ [Next]_vars => TypeOK'
  <2> SUFFICES ASSUME Typed, System, [Next]_vars
               PROVE  Typed' /\ System'
    BY TypeParts DEF TypeOK, Typed, System, Collected, ScopeResult
  <2>1. CASE UNCHANGED vars
    BY <2>1 DEF vars, machine, history, Typed, System
  <2>2. CASE Done
    BY <2>1, <2>2 DEF Done
  <2>3. CASE ChangeSystem
    BY <2>3, ChangeTyped
  <2> QED BY <2>1, <2>2, <2>3, CommandTyped DEF Next
<1> QED BY <1>1, <1>2, PTL DEF Spec
=============================================================================
