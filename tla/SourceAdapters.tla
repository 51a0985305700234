--------------------------- MODULE SourceAdapters ---------------------------
(***************************************************************************)
(* How one source is collected: the commands its adapter runs one after    *)
(* the other, how their answers are parsed and joined, and the outcome the *)
(* scan is given (adapters/arch.py, aur.py, flatpak.py, flatpak_parser.py, *)
(* mise.py, omarchy.py, scan_command_outcomes.py, scan_normalize.py,       *)
(* scan_outcomes.py).                                                      *)
(*                                                                         *)
(* Between two commands the system may change: packages are installed,     *)
(* removed and upgraded, updates published, programs removed.  A command   *)
(* that succeeds with output that parses tells the truth about the moment  *)
(* it ran; it may as well time out, fail, say too much or print rows the   *)
(* parser does not take.  A ref stands for a package, a Flatpak ref or a   *)
(* tool of mise, an update for its newer version.                          *)
(***************************************************************************)
EXTENDS Naturals

CONSTANTS
    Ref,   \* what a source can hold
    App,   \* the refs `flatpak list --app` lists; the others are runtimes
    Blank, \* Flatpak: the refs whose update has a row without a version
    Filter \* OMARCHY_DUPLICATE_FILTER: reported by Omarchy's own adapter

ASSUME AdapterAssumption == App \subseteq Ref /\ Blank \subseteq Ref /\ Filter \subseteq Ref

VARIABLES
    source,    \* the source being collected
    step,      \* the command its adapter runs next, or "done"
    installed, \* the refs installed now
    newer,     \* the refs of which a newer version exists now
    absent,    \* the programs that are not installed now
    inventory, \* the refs the adapter has read so far
    apps,      \* Flatpak: how the list of applications ended
    outcome,   \* what the scan is given
    calm,      \* so far no command failed and nothing changed
    steady,    \* the refs with an update all the time since the collection began
    seen       \* the refs with an update at some time since then

machine == <<installed, newer, absent>>
history == <<steady, seen>>
vars == <<source, step, machine, inventory, apps, outcome, calm, history>>

Source == {"omarchy", "arch", "aur", "flatpak", "mise"}
Program == {"omarchy", "pacman", "checkupdates", "yay", "paru", "flatpak", "mise"}

ProgramsOf(s) ==
    CASE s = "arch" -> {"pacman", "checkupdates"}
      [] s = "aur"  -> {"pacman", "yay", "paru"}
      [] OTHER      -> {s}

\* A tool of mise has no updates without mise.
Updatable == IF source = "mise" /\ "mise" \in absent THEN {} ELSE installed \cap newer

-----------------------------------------------------------------------------
(***************************************************************************)
(* The answers of a command.  rows are the refs it names, twice those it   *)
(* names twice; garbled says that some row has the wrong shape or is not   *)
(* text.                                                                   *)
(***************************************************************************)
Answer(result, code, rows, twice, garbled) ==
    [result |-> result, code |-> code, rows |-> rows, twice |-> twice, garbled |-> garbled]

Said(rows) == Answer("succeeded", 0, rows, {}, FALSE)
Exited(code) == Answer("exited", code, {}, {}, FALSE)
Missing == Answer("missing", 0, {}, {}, FALSE)

\* omarchy-update-available has nothing to report: status 1, and _UP_TO_DATE.
UpToDate == Answer("up_to_date", 1, {}, {}, FALSE)

Unusable(rows) ==
    {Answer("succeeded", 0, rows, {r}, FALSE) : r \in rows}
    \cup {Answer("succeeded", 0, rows, {}, TRUE),
          Exited(1), Answer("timed_out", 0, {}, {}, FALSE), Answer("exceeded", 0, {}, {}, FALSE)}

\* What a command of the given program says, asked about rows: the truth, or
\* an answer the adapter cannot use.
Answers(program, truth) ==
    IF program \in absent THEN {Missing} ELSE {truth} \cup Unusable(truth.rows)

Parses(a) == a.result = "succeeded" /\ a.twice = {} /\ ~a.garbled
-----------------------------------------------------------------------------
\* scan_outcomes.py.
Current(offered) ==
    [status |-> "ok", permanent |-> FALSE, applicable |-> TRUE, offered |-> offered]
NotApplicable ==
    [status |-> "not_applicable", permanent |-> FALSE, applicable |-> FALSE, offered |-> {}]
Failure(status, permanent) ==
    [status |-> status, permanent |-> permanent, applicable |-> TRUE, offered |-> {}]
Invalid == Failure("invalid", TRUE)
Pending == [status |-> "pending", permanent |-> FALSE, applicable |-> FALSE, offered |-> {}]

(***************************************************************************)
(* The outcome of a command that gave no rows.  The adapters' tables agree *)
(* but for a command the runner refuses, which cannot happen here: they    *)
(* all pass no arguments.                                                  *)
(***************************************************************************)
Failed(a) ==
    CASE a.result = "missing"                  -> Failure("missing_dependency", TRUE)
      [] a.result = "timed_out"                -> Failure("timeout", FALSE)
      [] a.result \in {"exited", "exceeded", "up_to_date"} -> Failure("error", FALSE)
      [] a.result = "succeeded"                -> Invalid

\* _command_degraded and arch_failure.
ArchFailure(a) == Failed(a)

\* Faulty variant of AurFailure: without yay and paru the source is retried.
AurFailureRetried(a) == [Failed(a) EXCEPT !.permanent = FALSE]

\* AurResult and aur_outcome.
AurFailure(a) == Failed(a)

\* _command_outcome and _flatpak_scope.
FlatpakFailure(a) == Failed(a)

\* _join_official_updates: one unknown package spoils all.
JoinOfficialUpdates(rows) ==
    IF rows \subseteq inventory THEN Current(rows \ Filter) ELSE Invalid

\* Faulty variant of ArchUpdates: whatever status checkupdates ends with, there
\* is no update.
ArchUpdatesIfExited(a) ==
    CASE Parses(a) /\ a.rows # {}             -> JoinOfficialUpdates(a.rows)
      [] Parses(a) /\ a.rows = {}             -> Invalid
      [] a.result = "exited"                  -> Current({})
      [] OTHER                                -> ArchFailure(a)

\* collect_official_updates, after the inventory.
ArchUpdates(a) ==
    CASE Parses(a) /\ a.rows # {}             -> JoinOfficialUpdates(a.rows)
      [] Parses(a) /\ a.rows = {}             -> Invalid
      [] a.result = "exited" /\ a.code = 2    -> Current({})
      [] OTHER                                -> ArchFailure(a)

\* _parse_helper_output.
ParseHelperOutput(a) ==
    IF Parses(a) /\ a.rows \subseteq inventory THEN Current(a.rows) ELSE Invalid

CollectFromResult(a) ==
    IF a.result = "succeeded" THEN ParseHelperOutput(a) ELSE AurFailure(a)

\* _reconcile_updates, _with_candidate and _flatpak_scope: one unknown ref spoils
\* all; the version of the row is the candidate, so that an item whose row has
\* none reaches the scan as one without an update.
ReconcileUpdates(rows) ==
    IF rows \subseteq inventory THEN Current(rows \ Blank) ELSE Invalid

\* collect_mise_updates, _parse_output and mise_outcome.
MiseUpdates(a) ==
    CASE a.result = "missing"       -> NotApplicable
      [] Parses(a) /\ a.rows = {}   -> NotApplicable
      [] Parses(a) /\ a.rows # {}   -> Current(a.rows)
      [] OTHER                      -> Failed(a)

\* collect_omarchy_availability, _parse_available_rows and from_status.
OmarchyUpdates(a) ==
    CASE a.result = "up_to_date"    -> Current({})
      [] Parses(a) /\ a.rows = {}   -> Invalid
      [] Parses(a) /\ a.rows # {}   -> Current(a.rows)
      [] OTHER                      -> Failed(a)
-----------------------------------------------------------------------------
FirstStep(s) ==
    CASE s = "arch"    -> "pacman -Qn"
      [] s = "aur"     -> "pacman -Qm"
      [] s = "flatpak" -> "list --app"
      [] s = "mise"    -> "mise outdated"
      [] s = "omarchy" -> "omarchy-update-available"

Init ==
    /\ source \in Source
    /\ step = FirstStep(source)
    /\ installed \in SUBSET Ref
    /\ newer \in SUBSET Ref
    /\ absent \in SUBSET ProgramsOf(source)
    /\ inventory = {}
    /\ apps = Pending
    /\ outcome = Pending
    /\ calm = TRUE
    /\ steady = Updatable
    /\ seen = Updatable

\* A command answers: calm stays when the answer is the truth, or a program
\* is missing that need not be there.
Answered(a, truth, optional) ==
    /\ calm' = (calm /\ (a = truth \/ (optional /\ a = Missing)))
    /\ UNCHANGED <<source, machine, history>>

Continue(next) == step' = next /\ UNCHANGED outcome
Return(o) == step' = "done" /\ outcome' = o

\* collect_official_inventory.
OfficialInventory ==
    /\ step = "pacman -Qn"
    /\ \E a \in Answers("pacman", Said(installed)) :
          /\ Answered(a, Said(installed), FALSE)
          /\ \/ Parses(a) /\ inventory' = a.rows /\ Continue("checkupdates")
             \/ ~Parses(a) /\ Return(ArchFailure(a)) /\ UNCHANGED inventory
    /\ UNCHANGED apps

\* collect_official_updates.  checkupdates ends with status 2 when there is no
\* update.
OfficialUpdates ==
    LET truth == IF Updatable = {} THEN Exited(2) ELSE Said(Updatable)
    IN  /\ step = "checkupdates"
        /\ \E a \in Answers("checkupdates", truth) \cup
                    (IF "checkupdates" \in absent THEN {} ELSE {Said({})}) :
              Answered(a, truth, FALSE) /\ Return(ArchUpdates(a))
        /\ UNCHANGED <<inventory, apps>>

\* collect_foreign_inventory and collect_aur_updates.
ForeignInventory ==
    /\ step = "pacman -Qm"
    /\ \E a \in Answers("pacman", Said(installed)) :
          /\ Answered(a, Said(installed), FALSE)
          /\ \/ /\ Parses(a) /\ a.rows # {}
                /\ inventory' = a.rows
                /\ Continue("yay -Qua")
             \/ /\ Parses(a) /\ a.rows = {}
                /\ Return(NotApplicable)
                /\ UNCHANGED inventory
             \/ /\ ~Parses(a)
                /\ Return(ArchFailure(a))
                /\ UNCHANGED inventory
    /\ UNCHANGED apps

\* _collect_with_yay_or_paru: paru is asked only when there is no yay.
CollectYay ==
    /\ step = "yay -Qua"
    /\ \E a \in Answers("yay", Said(Updatable)) :
          /\ Answered(a, Said(Updatable), TRUE)
          /\ IF a = Missing THEN Continue("paru -Qua") ELSE Return(CollectFromResult(a))
    /\ UNCHANGED <<inventory, apps>>

CollectParu ==
    /\ step = "paru -Qua"
    /\ \E a \in Answers("paru", Said(Updatable)) :
          Answered(a, Said(Updatable), FALSE) /\ Return(CollectFromResult(a))
    /\ UNCHANGED <<inventory, apps>>

\* _collect_scope: both lists are asked for, whatever became of the first.
ListApps ==
    LET truth == Said(installed \cap App)
    IN  /\ step = "list --app"
        /\ \E a \in Answers("flatpak", truth) :
              /\ Answered(a, truth, FALSE)
              /\ inventory' = IF Parses(a) THEN a.rows ELSE {}
              /\ apps' = IF Parses(a) THEN Current({}) ELSE FlatpakFailure(a)
        /\ Continue("list --runtime")

\* The applications' failure is reported before the runtimes'; without a ref
\* there is nothing to ask about.
ScopeInventory(a) ==
    CASE apps.status # "ok"               -> apps
      [] apps.status = "ok" /\ ~Parses(a) -> FlatpakFailure(a)
      [] OTHER                            -> NotApplicable

\* Faulty variant of ListRuntimes: the applications are forgotten.
ListRuntimesAlone ==
    LET truth == Said(installed \ App)
    IN  /\ step = "list --runtime"
        /\ \E a \in Answers("flatpak", truth) :
              /\ Answered(a, truth, FALSE)
              /\ inventory' = IF Parses(a) THEN a.rows ELSE {}
              /\ IF apps.status = "ok" /\ Parses(a) /\ inventory' # {}
                 THEN Continue("remote-ls --updates")
                 ELSE Return(ScopeInventory(a))
        /\ UNCHANGED apps

ListRuntimes ==
    LET truth == Said(installed \ App)
    IN  /\ step = "list --runtime"
        /\ \E a \in Answers("flatpak", truth) :
              /\ Answered(a, truth, FALSE)
              /\ inventory' = inventory \cup (IF Parses(a) THEN a.rows ELSE {})
              /\ IF apps.status = "ok" /\ Parses(a) /\ inventory' # {}
                 THEN Continue("remote-ls --updates")
                 ELSE Return(ScopeInventory(a))
        /\ UNCHANGED apps

\* _collect_updates.
ListUpdates ==
    /\ step = "remote-ls --updates"
    /\ \E a \in Answers("flatpak", Said(Updatable)) :
          /\ Answered(a, Said(Updatable), FALSE)
          /\ Return(IF Parses(a) THEN ReconcileUpdates(a.rows) ELSE FlatpakFailure(a))
    /\ UNCHANGED <<inventory, apps>>

CollectMise ==
    /\ step = "mise outdated"
    /\ \E a \in Answers("mise", Said(Updatable)) :
          Answered(a, Said(Updatable), TRUE) /\ Return(MiseUpdates(a))
    /\ UNCHANGED <<inventory, apps>>

CollectOmarchy ==
    LET truth == IF Updatable = {} THEN UpToDate ELSE Said(Updatable)
    IN  /\ step = "omarchy-update-available"
        /\ \E a \in Answers("omarchy", truth) \cup
                    (IF "omarchy" \in absent THEN {} ELSE {Said({})}) :
              Answered(a, truth, FALSE) /\ Return(OmarchyUpdates(a))
        /\ UNCHANGED <<inventory, apps>>

\* Somebody installs, removes or upgrades, or a version is published.
ChangeSystem ==
    /\ step # "done"
    /\ UNCHANGED <<source, step, inventory, apps, outcome>>
    /\ \/ /\ \E r \in Ref : \/ installed' = installed \cup {r}
                            \/ installed' = installed \ {r}
          /\ UNCHANGED <<newer, absent>>
       \/ /\ \E r \in Ref : newer' = newer \cup {r} \/ newer' = newer \ {r}
          /\ UNCHANGED <<installed, absent>>
       \/ /\ \E p \in ProgramsOf(source) : absent' = absent \cup {p} \/ absent' = absent \ {p}
          /\ UNCHANGED <<installed, newer>>
    /\ <<installed', newer', absent'>> # machine
    /\ calm' = FALSE
    /\ steady' = steady \cap Updatable'
    /\ seen' = seen \cup Updatable'

\* The scan goes on with the outcome.
Done == step = "done" /\ UNCHANGED vars

Next ==
    \/ OfficialInventory \/ OfficialUpdates
    \/ ForeignInventory \/ CollectYay \/ CollectParu
    \/ ListApps \/ ListRuntimes \/ ListUpdates
    \/ CollectMise \/ CollectOmarchy
    \/ ChangeSystem \/ Done

Spec == Init /\ [][Next]_vars
-----------------------------------------------------------------------------
Step == {"pacman -Qn", "checkupdates", "pacman -Qm", "yay -Qua", "paru -Qua", "list --app",
         "list --runtime", "remote-ls --updates", "mise outdated",
         "omarchy-update-available", "done"}

\* The failures scan_resolution.py is given: a missing program and output that
\* is not understood are permanent, the others are not.
Failures == {Failure("missing_dependency", TRUE), Invalid,
             Failure("timeout", FALSE), Failure("error", FALSE)}

\* Type correctness of a collection.
TypeOK ==
    /\ source \in Source
    /\ step \in Step
    /\ installed \in SUBSET Ref /\ newer \in SUBSET Ref
    /\ absent \in SUBSET Program
    /\ inventory \in SUBSET Ref
    /\ apps \in Failures \cup {Pending, Current({})}
    /\ outcome \in {Current(o) : o \in SUBSET Ref} \cup Failures \cup {Pending, NotApplicable}
    /\ calm \in BOOLEAN
    /\ steady \in SUBSET Ref /\ seen \in SUBSET Ref

\* What an adapter leaves out of its updates: the packages that Omarchy's own
\* adapter reports, and the Flatpak refs whose update row has no version.
LeftOut ==
    CASE source = "arch"    -> Filter
      [] source = "flatpak" -> Blank
      [] OTHER              -> {}

(***************************************************************************)
(* "Unavailable evidence never becomes empty success"                      *)
(* (adapters/security.py:89, and the tables of every adapter): a source    *)
(* that is ok, or not applicable, names every update that was there all    *)
(* along, but for what the adapter leaves out, and offers none that never  *)
(* was, whatever commands failed and whatever changed between them.        *)
(***************************************************************************)
Bracketed ==
    outcome.status \in {"ok", "not_applicable"} =>
        /\ steady \ LeftOut \subseteq outcome.offered
        /\ outcome.offered \subseteq seen

(***************************************************************************)
(* A source fails only for a reason: when every command answers and the    *)
(* system stays as it is, the joins of inventory and updates find what     *)
(* they look for and the collection ends well.  An invalid source is not   *)
(* tried again for six hours (scan_generation.py RETRY_DELAYS).            *)
(***************************************************************************)
CalmSucceeds ==
    step = "done" /\ calm => outcome.status \in {"ok", "not_applicable"}
=============================================================================
