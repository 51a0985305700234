---------------------------- MODULE WatchPolicy ----------------------------
(***************************************************************************)
(* Which notifications a scan asks for: what it collects of the official   *)
(* packages and of their advisories, how the evidence of earlier scans is  *)
(* carried along, the watches the user sets with the star, and the         *)
(* candidates that follow (adapters/security.py, security_correlation.py,  *)
(* scan_resolution.py, stars.py, cli_operations.py,                        *)
(* conditional_security_policy.py, notification_policy.py).                *)
(*                                                                         *)
(* The machine is the record world: the installed version of each package  *)
(* (0 when it is not installed), the version its repository offers, and    *)
(* what is published of each advisory.  Versions are numbers, and vercmp   *)
(* compares them, when it works.  A scan is four steps, for the machine    *)
(* may change between them.  Which sources a scan collects is              *)
(* ScanEvidence's subject: here any scan may collect, and one may leave    *)
(* out a source that is fresh or that failed.  What becomes of a candidate *)
(* is NotificationDispatch's.  One helper runs at a time, as in the        *)
(* service; HelperStorage has what overlapping helpers do to the watches.  *)
(***************************************************************************)
EXTENDS Integers

CONSTANTS
    Package,    \* official packages
    Advisory,   \* advisories of the Arch security team, which are also the finding ids
    Affected,   \* [Advisory -> SUBSET Package], the packages an advisory names
    Severity,   \* [Advisory -> the severities below]
    Cves,       \* the sets of CVE identifiers an advisory may list
    MaxVersion, \* bound: the newest version of a package
    MaxChanges, \* bound: how often the machine changes
    Freshness,  \* FRESHNESS, in time units
    World,      \* the machines to start from
    Report,     \* what may be published of an advisory
    Wish,       \* <<package, condition or None>>: the temporary watches the user sets
    Setting,    \* the notification settings the user chooses from
    None

Version == 1..MaxVersion
ArchStatus == {"not_affected", "vulnerable", "testing", "fixed"}
Record == [status : ArchStatus, fixed : Version \cup {None}, cves : Cves]
Machine == [inst : [Package -> 0..MaxVersion], repo : [Package -> Version],
            adv : [Advisory -> Record]]

Condition == [adv : Advisory, fixed : Version, cves : Cves]
Settings == [permanent : BOOLEAN, security : BOOLEAN, minimum : {"high", "critical"}]

ASSUME PolicyAssumption ==
    /\ MaxVersion \in Nat \ {0} /\ MaxChanges \in Nat /\ Freshness \in Nat \ {0}
    /\ None \notin Int /\ None \notin Condition
    /\ Affected \in [Advisory -> SUBSET Package]
    /\ Severity \in [Advisory -> {"critical", "high", "medium"}]
    /\ World \subseteq Machine
    /\ Report \subseteq Record
    /\ Wish \subseteq Package \X (Condition \cup {None})
    /\ Setting \subseteq Settings

VARIABLES
    world,    \* the machine and what is published about it
    changes,  \* how often it has changed
    calm,     \* TRUE once nothing changes, no backoff runs, commands work without delay
    settings, \* the notification settings every scan is given
    watches,  \* [Package -> WatchRecord, or None]
    snap,     \* the last generation, or None
    scan,     \* the scan that runs, or None
    alerts    \* the candidates of the scan that runs

vars == <<world, changes, calm, settings, watches, snap, scan, alerts>>

Provenance == {"live", "fallback", "last_good"}
-----------------------------------------------------------------------------
(***************************************************************************)
(* The sources.                                                            *)
(***************************************************************************)
Updates(m) == {[pkg |-> p, inst |-> m.inst[p], cand |-> m.repo[p], prov |-> "live"] :
                  p \in {q \in Package : m.inst[q] \in 1..(m.repo[q] - 1)}}

\* _finding: without a fixed version every installed one is affected.
Vulnerable(inst, record) == record.fixed = None \/ inst < record.fixed

\* correlate_arch: the findings of the packages that are installed.
Correlate(m, prov) ==
    {[pkg |-> r[1], adv |-> r[2], fixed |-> m.adv[r[2]].fixed, cves |-> m.adv[r[2]].cves,
      status |-> m.adv[r[2]].status, prov |-> prov] :
        r \in {s \in Package \X Advisory :
                  /\ s[1] \in Affected[s[2]] /\ m.inst[s[1]] # 0
                  /\ m.adv[s[2]].status # "not_affected"
                  /\ Vulnerable(m.inst[s[1]], m.adv[s[2]])}}

Current(prov, items) == [ok |-> TRUE, prov |-> prov, items |-> items, of |-> world]
Failed == [ok |-> FALSE]

ArchOutcomes == {Current("live", Updates(world))} \cup (IF calm THEN {} ELSE {Failed})

\* collect_security: arch-audit, else the tracker, else nothing; a failing
\* inventory or vercmp fails it too.  "fallback" stands for both ways to have
\* the tracker's evidence, FALLBACK and CACHE.
SecurityOutcomes ==
    {Current(prov, Correlate(world, prov)) :
        prov \in IF calm THEN {"live"} ELSE {"live", "fallback"}}
    \cup (IF calm THEN {} ELSE {Failed})

(***************************************************************************)
(* resolve for one source.  part.left is the time to freshUntil; part.of   *)
(* and part.age, the machine its items were collected from and the time    *)
(* since, and part.now, were they collected by the last scan, are history  *)
(* variables.  Only items are marked as last good; findings keep their     *)
(* provenance.                                                             *)
(***************************************************************************)
Part(status, prov, left, items, of, age, now) ==
    [status |-> status, prov |-> prov, left |-> left, items |-> items,
     of |-> of, age |-> age, now |-> now]

Nothing == Part("failed", "live", 0, {}, None, None, FALSE)

MarkLastGood(part) == {[i EXCEPT !.prov = "last_good"] : i \in part.items}

\* Faulty variant of Carry: items that are passed on are not marked as last good.
CarryUnmarked(part, items) == [part EXCEPT !.now = FALSE]

Carry(part, items) == [part EXCEPT !.items = items, !.now = FALSE]

Resolve(part, outcome, items) ==
    IF outcome = None THEN Carry(part, items)
    ELSE IF outcome.ok
    THEN Part("ok", outcome.prov, Freshness, outcome.items, outcome.of, 0, TRUE)
    ELSE IF part.age # None
    THEN [part EXCEPT !.status = "stale", !.prov = "last_good", !.items = items, !.now = FALSE]
    ELSE Nothing

Previous == IF snap = None THEN [arch |-> Nothing, security |-> Nothing] ELSE snap

\* due: what was collected within the freshness may be left out, and a source
\* that failed until its backoff is over.
MaySkip(source) ==
    snap # None /\ (snap[source].left > 0 \/ (snap[source].status # "ok" /\ ~calm))
-----------------------------------------------------------------------------
(***************************************************************************)
(* The candidates.                                                         *)
(***************************************************************************)
FreshStatus(part) == part.status = "ok" /\ part.left >= 0
CurrentProvenance(prov) == prov # "last_good"
FreshSource(part) == CurrentProvenance(part.prov) /\ FreshStatus(part)
Notifiable(a) ==
    Severity[a] = "critical" \/ (Severity[a] = "high" /\ settings.minimum # "critical")

\* Faulty variant of WatchAlerts: a watch must be armed, which only a temporary
\* one is.
WatchAlertsArmed ==
    IF ~settings.permanent \/ ~FreshSource(snap.arch) THEN {}
    ELSE {[kind |-> "watch", pkg |-> i.pkg, inst |-> i.inst, cand |-> i.cand] :
             i \in {j \in snap.arch.items :
                       /\ watches[j.pkg] # None /\ watches[j.pkg].mode = "permanent"
                       /\ watches[j.pkg].armed
                       /\ CurrentProvenance(j.prov)}}

\* _watch_candidates
WatchAlerts ==
    IF ~settings.permanent \/ ~FreshSource(snap.arch) THEN {}
    ELSE {[kind |-> "watch", pkg |-> i.pkg, inst |-> i.inst, cand |-> i.cand] :
             i \in {j \in snap.arch.items :
                       /\ watches[j.pkg] # None /\ watches[j.pkg].mode = "permanent"
                       /\ CurrentProvenance(j.prov)}}

\* _matching_finding, as a set that has one element or none.
MatchingFindings(p) ==
    {f \in snap.security.items :
        /\ watches[p].condition # None
        /\ f.pkg = p /\ f.adv = watches[p].condition.adv
        /\ f.fixed = watches[p].condition.fixed /\ f.cves = watches[p].condition.cves}

Conditional == {p \in Package : watches[p] # None /\ watches[p].mode = "temporary"}

\* Faulty variant of OwnedFindings: a condition owns its advisory even when the
\* finding no longer is the one it names.
OwnedByName ==
    {watches[p].condition.adv : p \in {c \in Conditional : watches[c].condition # None}}

\* conditional_security_owned_findings: finding ids, whatever the package.
OwnedFindings == {f.adv : f \in UNION {MatchingFindings(p) : p \in Conditional}}

\* _security_candidates
SecurityAlerts ==
    IF ~settings.security \/ ~FreshSource(snap.security) THEN {}
    ELSE {[kind |-> "security", pkg |-> f.pkg, adv |-> f.adv, fixed |-> f.fixed,
           cves |-> f.cves] :
             f \in {g \in snap.security.items :
                       /\ g.adv \notin OwnedFindings
                       /\ g.fixed # None
                       /\ CurrentProvenance(g.prov)
                       /\ g.status = "fixed" /\ Notifiable(g.adv)}}

\* Conditions are stricter about their sources: only live evidence counts.
Live(prov) == prov = "live"
LiveSource(part) == Live(part.prov) /\ FreshStatus(part)

\* _notification: an alert names its condition and the candidate it found.
ConditionalAlert(item) ==
    [kind |-> "condition", pkg |-> item.pkg, adv |-> watches[item.pkg].condition.adv,
     fixed |-> watches[item.pkg].condition.fixed, cves |-> watches[item.pkg].condition.cves,
     cand |-> item.cand]

\* conditional_security_candidates; broken are the packages for which vercmp fails.
ConditionalAlerts(broken) ==
    IF ~settings.security \/ ~LiveSource(snap.arch) \/ ~LiveSource(snap.security) THEN {}
    ELSE {ConditionalAlert(i) :
             i \in {j \in snap.arch.items :
                       /\ j.pkg \in Conditional \ broken /\ Live(j.prov)
                       /\ \E f \in MatchingFindings(j.pkg) :
                              f.status = "fixed" /\ Live(f.prov) /\ Notifiable(f.adv)
                       /\ j.cand >= watches[j.pkg].condition.fixed}}
-----------------------------------------------------------------------------
(***************************************************************************)
(* A scan.                                                                 *)
(***************************************************************************)
\* run, up to the security source.
CollectArch ==
    /\ scan = None
    /\ \E o \in ArchOutcomes \cup (IF MaySkip("arch") THEN {None} ELSE {}) :
          scan' = [at |-> "collecting", arch |-> o]
    /\ UNCHANGED <<world, changes, calm, settings, watches, snap, alerts>>

\* The security source, build_generation and commit_generation.
CollectSecurity ==
    /\ scan # None /\ scan.at = "collecting"
    /\ \E o \in SecurityOutcomes \cup (IF MaySkip("security") THEN {None} ELSE {}) :
          snap' = [arch |-> Resolve(Previous.arch, scan.arch, MarkLastGood(Previous.arch)),
                   security |-> Resolve(Previous.security, o, Previous.security.items)]
    /\ scan' = [at |-> "committed"]
    /\ UNCHANGED <<world, changes, calm, settings, watches, alerts>>

\* dispatch: the candidates of the committed generation.
Dispatch ==
    /\ scan # None /\ scan.at = "committed"
    /\ \E broken \in IF calm THEN {{}} ELSE SUBSET Package :
          alerts' = WatchAlerts \cup SecurityAlerts \cup ConditionalAlerts(broken)
    /\ scan' = [at |-> "told"]
    /\ UNCHANGED <<world, changes, calm, settings, watches, snap>>

\* The scan's response is printed and the helper ends.
Respond ==
    /\ scan # None /\ scan.at = "told"
    /\ scan' = None
    /\ alerts' = {}
    /\ UNCHANGED <<world, changes, calm, settings, watches, snap>>

\* The helper dies.
Die ==
    /\ scan # None /\ ~calm
    /\ scan' = None
    /\ alerts' = {}
    /\ UNCHANGED <<world, changes, calm, settings, watches, snap>>
-----------------------------------------------------------------------------
(***************************************************************************)
(* set_star: the transition must lead to the mode the command names.  The  *)
(* others are refused and change nothing.  The items known to set_star     *)
(* are those of the last generation, which all have a candidate.           *)
(***************************************************************************)
Listed(p) == IF snap = None THEN {} ELSE {i \in snap.arch.items : i.pkg = p}

StarTemporary(p, condition) ==
    /\ scan = None
    /\ watches[p] = None
    /\ \E i \in Listed(p) :
          watches' = [watches EXCEPT ![p] = [mode |-> "temporary", base |-> i.inst,
                                             armed |-> TRUE, condition |-> condition]]
    /\ UNCHANGED <<world, changes, calm, settings, snap, scan, alerts>>

\* Faulty variant of StarPermanent: the record keeps what only a temporary one has.
StarPermanentKeeps(p) ==
    /\ scan = None
    /\ watches[p] # None /\ watches[p].mode = "temporary"
    /\ Listed(p) # {}
    /\ watches' = [watches EXCEPT ![p].mode = "permanent"]
    /\ UNCHANGED <<world, changes, calm, settings, snap, scan, alerts>>

StarPermanent(p) ==
    /\ scan = None
    /\ watches[p] # None /\ watches[p].mode = "temporary"
    /\ Listed(p) # {}
    /\ watches' = [watches EXCEPT ![p] = [mode |-> "permanent", base |-> None,
                                          armed |-> FALSE, condition |-> None]]
    /\ UNCHANGED <<world, changes, calm, settings, snap, scan, alerts>>

StarOff(p) ==
    /\ scan = None
    /\ watches[p] # None /\ watches[p].mode = "permanent"
    /\ watches' = [watches EXCEPT ![p] = None]
    /\ UNCHANGED <<world, changes, calm, settings, snap, scan, alerts>>
-----------------------------------------------------------------------------
(***************************************************************************)
(* The machine: packages are released, upgraded or removed, advisories     *)
(* published and revised.                                                  *)
(***************************************************************************)
Change(m) ==
    /\ ~calm /\ changes < MaxChanges
    /\ m # world
    /\ world' = m
    /\ changes' = changes + 1
    /\ UNCHANGED <<calm, settings, watches, snap, scan, alerts>>

Release(p) == \E v \in (world.repo[p] + 1)..MaxVersion : Change([world EXCEPT !.repo[p] = v])
Upgrade(p) == world.inst[p] # 0 /\ Change([world EXCEPT !.inst[p] = world.repo[p]])
Remove(p) == Change([world EXCEPT !.inst[p] = 0])
Publish(a) == \E r \in Report : Change([world EXCEPT !.adv[a] = r])

Settle ==
    /\ ~calm
    /\ calm' = TRUE
    /\ UNCHANGED <<world, changes, settings, watches, snap, scan, alerts>>

Older(part) ==
    [part EXCEPT !.left = IF @ = -1 THEN -1 ELSE @ - 1,
                 !.age = IF @ \in {None, Freshness + 1} THEN @ ELSE @ + 1]

Tick ==
    /\ snap # None
    /\ calm => scan = None
    /\ snap' = [arch |-> Older(snap.arch), security |-> Older(snap.security)]
    /\ snap' # snap
    /\ UNCHANGED <<world, changes, calm, settings, watches, scan, alerts>>
-----------------------------------------------------------------------------
Init ==
    /\ world \in World
    /\ changes = 0
    /\ calm = FALSE
    /\ settings \in Setting
    /\ watches = [p \in Package |-> None]
    /\ snap = None
    /\ scan = None
    /\ alerts = {}

Scanning == CollectArch \/ CollectSecurity \/ Dispatch \/ Respond
Starring(p) ==
    \/ \E w \in Wish : w[1] = p /\ StarTemporary(p, w[2])
    \/ StarPermanent(p) \/ StarOff(p)
Environment ==
    \/ \E p \in Package : Release(p) \/ Upgrade(p) \/ Remove(p)
    \/ \E a \in Advisory : Publish(a)
    \/ Settle \/ Tick

Next == Scanning \/ Die \/ (\E p \in Package : Starring(p)) \/ Environment

Spec == Init /\ [][Next]_vars

(***************************************************************************)
(* Scans go on being made, what is left to do in one is done, and time     *)
(* passes, so that no source is fresh for ever: strongly, since Tick waits *)
(* for a scan that runs without delay.                                     *)
(***************************************************************************)
FairSpec == Spec /\ WF_vars(Scanning) /\ SF_vars(Tick)
-----------------------------------------------------------------------------
(***************************************************************************)
(* The variables have their types, and every watch is one that             *)
(* validate_watch accepts: a permanent one keeps no baseline, arming or    *)
(* condition, a temporary one has its baseline.                            *)
(***************************************************************************)
WatchRecord ==
    [mode : {"permanent"}, base : {None}, armed : {FALSE}, condition : {None}]
    \cup [mode : {"temporary"}, base : Version, armed : {TRUE},
          condition : Condition \cup {None}]

TypeOK ==
    /\ world \in Machine /\ changes \in 0..MaxChanges /\ calm \in BOOLEAN
    /\ settings \in Settings
    /\ watches \in [Package -> WatchRecord \cup {None}]
    /\ snap = None \/
          \A part \in {snap.arch, snap.security} :
             /\ part.status \in {"ok", "stale", "failed"} /\ part.prov \in Provenance
             /\ part.left \in -1..Freshness /\ \A i \in part.items : i.prov \in Provenance
             /\ part.age \in 0..(Freshness + 1) \cup {None} /\ part.now \in BOOLEAN
    /\ scan = None \/ scan.at \in {"collecting", "committed", "told"}

(***************************************************************************)
(* A scan announces only what is so (README.md:62-66, notification_policy  *)
(* and conditional_security_policy).  A watched update was seen by this    *)
(* very scan on a package watched for good.  A security alert names a      *)
(* version that fixes an advisory, and the package was installed below it  *)
(* when the advisories were last read, not longer ago than the freshness;  *)
(* a condition of that package for the very same evidence would have       *)
(* claimed it.  A conditional alert has in addition a candidate this scan  *)
(* saw, at least as new as the version its condition names.                *)
(***************************************************************************)
Read(p, a) == \* what was published of the advisory when it was last read
    snap.security.of.adv[a]

Confirmed(x) ==
    /\ settings.security /\ Notifiable(x.adv)
    /\ snap.security.age \in 0..Freshness
    /\ x.pkg \in Affected[x.adv]
    /\ Read(x.pkg, x.adv) = [status |-> "fixed", fixed |-> x.fixed, cves |-> x.cves]
    /\ snap.security.of.inst[x.pkg] \in 1..(x.fixed - 1)

Seen(x) ==
    /\ snap.arch.now /\ snap.arch.age \in 0..Freshness
    /\ snap.arch.of.inst[x.pkg] \in 1..(x.cand - 1)
    /\ x.cand = snap.arch.of.repo[x.pkg]

Claims(p, x) ==
    /\ watches[p] # None /\ watches[p].mode = "temporary"
    /\ watches[p].condition = [adv |-> x.adv, fixed |-> x.fixed, cves |-> x.cves]

Earned(x) ==
    CASE x.kind = "watch" ->
            Seen(x) /\ settings.permanent /\ watches[x.pkg].mode = "permanent"
      [] x.kind = "security" -> Confirmed(x) /\ ~Claims(x.pkg, x)
      [] x.kind = "condition" ->
            Confirmed(x) /\ Seen(x) /\ Claims(x.pkg, x) /\ x.cand >= x.fixed

AlertsEarned == [][\A x \in alerts' \ alerts : Earned(x)]_vars

(***************************************************************************)
(* Once the machine is left alone and the commands work, a scan announces  *)
(* every update of a package watched for good, unless the watch goes.      *)
(***************************************************************************)
Pending(p) == world.inst[p] \in 1..(world.repo[p] - 1)
WatchKept(p) == watches[p] # None /\ watches[p].mode = "permanent"

WatchTold ==
    \A p \in Package :
        (calm /\ settings.permanent /\ Pending(p) /\ WatchKept(p))
            ~> (~WatchKept(p) \/ \E x \in alerts : x.kind = "watch" /\ x.pkg = p)

(***************************************************************************)
(* And it announces every advisory with a fix that the machine does not    *)
(* have and its repository offers, in one way or the other, whatever       *)
(* conditions come and go: unless a condition on another package of the    *)
(* same advisory claims it, as the code claims findings by advisory alone. *)
(***************************************************************************)
Fixable(p, a) ==
    /\ p \in Affected[a] /\ world.adv[a].status = "fixed"
    /\ world.inst[p] \in 1..(world.adv[a].fixed - 1)
    /\ world.repo[p] >= world.adv[a].fixed

ClaimedElsewhere(p, a) ==
    \E q \in Affected[a] \ {p} : Claims(q, [adv |-> a, fixed |-> world.adv[a].fixed, cves |-> world.adv[a].cves])

FixTold ==
    \A p \in Package, a \in Advisory :
        (calm /\ settings.security /\ Notifiable(a) /\ Fixable(p, a))
            ~> (\/ ClaimedElsewhere(p, a)
                \/ \E x \in alerts : x.kind # "watch" /\ x.pkg = p /\ x.adv = a)

(***************************************************************************)
(* A temporary watch "clears when a later fresh scan observes a changed    *)
(* installed version or a confirmed removal" (README.md:60-61): stated     *)
(* here of a package that has an update, for then every scan that collects *)
(* it reports the installed version.                                       *)
(***************************************************************************)
TemporaryKept(p) == watches[p] # None /\ watches[p].mode = "temporary"

TemporaryClears ==
    \A p \in Package :
        (calm /\ Pending(p) /\ TemporaryKept(p) /\ world.inst[p] # watches[p].base)
            ~> ~TemporaryKept(p)
=============================================================================
