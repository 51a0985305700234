---------------------------- MODULE ScanEvidence ----------------------------
(***************************************************************************)
(* What a scan knows of its sources and for how long: which sources are    *)
(* due, how an outcome is merged with the previous generation, how the     *)
(* state of the scan follows, and when a source is tried again             *)
(* (scan.py, scan_generation.py, scan_resolution.py, scan_assembly.py,     *)
(* scan_outcomes.py).                                                      *)
(*                                                                         *)
(* A slice is what the code keys evidence by: a source, or one of the two  *)
(* scopes of Flatpak.  Retry metadata is kept per source, in the           *)
(* persistent state; the rest is in the generation, which is a cache.      *)
(* Moments are kept as the time left until them, 0 once they are past (or  *)
(* never were).  A scan is one step here; HelperStorage has its parts.     *)
(***************************************************************************)
EXTENDS Integers, Sequences, FiniteSets

CONSTANTS
    Setup,       \* [slices, loss]: the slices in use; may the generation be lost?
    Value,       \* what a source may report
    Freshness,   \* FRESHNESS, in time units
    RetryDelays, \* RETRY_DELAYS, in time units
    Empty, None

AllSlices == {"omarchy", "arch", "aur", "flatpak:user", "flatpak:system", "mise",
              "security", "cisa_kev"}

ASSUME EvidenceAssumption ==
    /\ Setup \subseteq [slices : SUBSET AllSlices, loss : BOOLEAN]
    /\ \A u \in Setup : /\ "cisa_kev" \in u.slices => "security" \in u.slices
                        /\ "flatpak:user" \in u.slices <=> "flatpak:system" \in u.slices
    /\ Freshness \in Nat \ {0}
    /\ RetryDelays \in Seq(Nat \ {0}) /\ RetryDelays # <<>>
    /\ \A i \in DOMAIN RetryDelays : RetryDelays[i] <= Freshness
    /\ Empty \notin Value /\ None \notin Value /\ Empty # None

Status == {"ok", "not_applicable", "missing_dependency", "timeout", "error", "invalid", "stale"}

\* The generations over some slices, and what a source may have reported.
GenerationOf(slices) ==
    [health : [slices -> [status : Status, live : BOOLEAN, fresh : 0..Freshness]],
     items : [slices -> Value \cup {Empty}], keys : SUBSET slices,
     state : {"complete", "partial", "failed"}, age : 0..Freshness]
Outcome == [status : Status, permanent : BOOLEAN, applicable : BOOLEAN,
            items : Value \cup {Empty}]

\* None is no report and no generation.
ASSUME NoneAssumption ==
    None \notin Outcome /\ \A u \in Setup : None \notin GenerationOf(u.slices)

VARIABLES
    setup, \* the member of Setup this machine is
    gen,   \* the last generation and the time since its generatedAt, or None
    meta,  \* [Source -> SourceMetadata]
    kev,   \* the setting enableCisaKev
    sound, \* TRUE once every source works, for good
    good   \* [Slice -> what was last collected, and how long ago]

vars == <<setup, gen, meta, kev, sound, good>>

Slice == setup.slices
Flatpak == {"flatpak:user", "flatpak:system"}
SourceOf(s) == IF s \in Flatpak THEN "flatpak" ELSE s
Source == {SourceOf(s) : s \in Slice}
SlicesOf(n) == {s \in Slice : SourceOf(s) = n}

Good(status) == status \in {"ok", "not_applicable"}

\* current, not_applicable and failure of scan_outcomes.py.
Current(v) == [status |-> "ok", permanent |-> FALSE, applicable |-> TRUE, items |-> v]
NotApplicable == [status |-> "not_applicable", permanent |-> FALSE, applicable |-> FALSE,
                  items |-> Empty]
Failure(status, permanent, applicable) ==
    [status |-> status, permanent |-> permanent, applicable |-> applicable, items |-> Empty]

(***************************************************************************)
(* What the adapter of a slice may report.  "timeout" stands for every     *)
(* transient failure, "invalid" for every permanent one but a missing      *)
(* command.  Security and CISA KEV are collected together.                 *)
(***************************************************************************)
Failures ==
    {Failure("timeout", FALSE, TRUE), Failure("invalid", TRUE, TRUE),
     Failure("missing_dependency", TRUE, TRUE)}

Outcomes(s) ==
    {Current(v) : v \in Value}
    \cup (IF s \in {"omarchy", "arch", "security", "cisa_kev"} THEN {} ELSE {NotApplicable})
    \cup (IF sound THEN {} ELSE Failures)

KevOutcomes ==
    IF ~kev THEN {NotApplicable}
    ELSE {Current(Empty)} \cup (IF sound THEN {} ELSE {Failure("error", FALSE, TRUE)})

SecurityOutcomes ==
    ({Current(v) : v \in Value} \X KevOutcomes)
    \cup (IF sound THEN {}
          ELSE {<<Failure("error", FALSE, TRUE),
                  IF kev THEN Failure("error", FALSE, FALSE) ELSE NotApplicable>>})

\* due: a backoff comes first; then what is fresh is not collected again.
Due(n, force) ==
    \/ force
    \/ meta[n].backoff = 0 /\ meta[n].success = 0

\* The inputs of a scan: None for a slice that is not collected.
SecurityInputs(force) ==
    IF Due("security", force) \/ (kev /\ "cisa_kev" \in Slice /\ Due("cisa_kev", force))
    THEN SecurityOutcomes
    ELSE {<<None, IF kev THEN None ELSE NotApplicable>>}

Joined(f, p) ==
    [s \in Slice |-> IF s = "security" THEN p[1] ELSE IF s = "cisa_kev" THEN p[2] ELSE f[s]]

Inputs(force) ==
    LET Alone == Slice \ {"security", "cisa_kev"}
        Any == {None} \cup UNION {Outcomes(s) : s \in Alone}
        plain == {f \in [Alone -> Any] : \A s \in Alone :
                     IF Due(SourceOf(s), force) THEN f[s] \in Outcomes(s) ELSE f[s] = None}
        pairs == IF "security" \in Slice THEN SecurityInputs(force) ELSE {<<None, None>>}
    IN  {Joined(x[1], x[2]) : x \in plain \X pairs}
-----------------------------------------------------------------------------
(***************************************************************************)
(* resolve: a fresh outcome stands for itself; a failed one falls back on  *)
(* the previous generation when its key is known good; a slice that was    *)
(* not collected keeps what the previous generation says.  live is FALSE   *)
(* for evidence marked LAST_GOOD.                                          *)
(***************************************************************************)
Health(status, live, fresh) == [status |-> status, live |-> live, fresh |-> fresh]
Resolved(status, applicable, health, items, usable) ==
    [status |-> status, applicable |-> applicable, health |-> health, items |-> items,
     usable |-> usable]

\* Faulty variant of Cached: what is passed on counts as fresh again.
CachedRenewed(s) ==
    IF gen = None
    THEN Resolved("error", s = "aur", Health("error", TRUE, 0), Empty, FALSE)
    ELSE Resolved(gen.health[s].status, gen.health[s].status # "not_applicable",
                  [gen.health[s] EXCEPT !.fresh = Freshness], gen.items[s], s \in gen.keys)

Cached(s) ==
    IF gen = None
    THEN Resolved("error", s = "aur", Health("error", TRUE, 0), Empty, FALSE)
    ELSE Resolved(gen.health[s].status, gen.health[s].status # "not_applicable",
                  gen.health[s], gen.items[s], s \in gen.keys)

\* Faulty variants of Fallback: the items are dropped, or the freshness is
\* counted from its end.
FallbackEmpty(s, o) ==
    IF gen # None /\ s \in gen.keys
    THEN Resolved(o.status, o.applicable, Health("stale", FALSE, gen.health[s].fresh),
                  Empty, TRUE)
    ELSE Resolved(o.status, o.applicable, Health(o.status, TRUE, 0), Empty, FALSE)

FallbackExtended(s, o) ==
    IF gen # None /\ s \in gen.keys
    THEN Resolved(o.status, o.applicable,
                  Health("stale", FALSE, gen.health[s].fresh + Freshness), gen.items[s], TRUE)
    ELSE Resolved(o.status, o.applicable, Health(o.status, TRUE, 0), Empty, FALSE)

Fallback(s, o) ==
    IF gen # None /\ s \in gen.keys
    THEN Resolved(o.status, o.applicable, Health("stale", FALSE, gen.health[s].fresh),
                  gen.items[s], TRUE)
    ELSE Resolved(o.status, o.applicable, Health(o.status, TRUE, 0), Empty, FALSE)

\* Faulty variant of Resolve: a slice that is stale stays so when it is collected.
ResolveStaysStale(s, o) ==
    IF o = None THEN Cached(s)
    ELSE IF Good(o.status)
    THEN Resolved(o.status, o.applicable,
                  IF gen # None /\ gen.health[s].status = "stale"
                  THEN [gen.health[s] EXCEPT !.fresh = Freshness]
                  ELSE Health(o.status, TRUE, Freshness), o.items, TRUE)
    ELSE Fallback(s, o)

Resolve(s, o) ==
    IF o = None THEN Cached(s)
    ELSE IF Good(o.status)
    THEN Resolved(o.status, o.applicable, Health(o.status, TRUE, Freshness), o.items, TRUE)
    ELSE Fallback(s, o)

\* scan_state: AUR is mandatory too where it applies.
Mandatory == {"omarchy", "arch", "security"}
Counts(s, r) == r.applicable /\ ~(s \in Flatpak /\ r.status = "missing_dependency")

\* Faulty variant of ScanState: only what was collected now makes a source usable.
ScanStateNow(r) ==
    IF \A s \in Slice \cap Mandatory : ~Good(r[s].status) THEN "failed"
    ELSE IF \A s \in Slice : Counts(s, r[s]) => Good(r[s].status) THEN "complete"
    ELSE "partial"

ScanState(r) ==
    LET mandatory == Slice \cap (Mandatory \cup (IF "aur" \in Slice /\ r["aur"].applicable
                                                 THEN {"aur"} ELSE {}))
        counted == {s \in Slice : Counts(s, r[s])}
    IN  IF \A s \in mandatory : ~r[s].usable THEN "failed"
        ELSE IF \A s \in counted : Good(r[s].status) /\ r[s].health.status = "ok"
        THEN "complete"
        ELSE IF \E s \in counted : r[s].usable THEN "partial"
        ELSE "failed"

\* _scope_health: without the flatpak command its scopes do not apply.
Shown(s, health) ==
    IF s \in Flatpak /\ health.status = "missing_dependency"
    THEN [health EXCEPT !.status = "not_applicable"] ELSE health

\* last_good_keys: a slice that was ever collected stays known good.
LastGoodKeys(r) ==
    (IF gen = None THEN {} ELSE gen.keys) \cup {s \in Slice : Good(r[s].status)}

Generation(r) ==
    [health |-> [s \in Slice |-> Shown(s, r[s].health)],
     items |-> [s \in Slice |-> r[s].items],
     keys |-> LastGoodKeys(r),
     state |-> ScanState(r),
     age |-> 0]

(***************************************************************************)
(* _flatpak_status and source_healths: what the snapshot says of a source  *)
(* as a whole, which for Flatpak is put together from its two scopes.      *)
(***************************************************************************)
FlatpakStatus(user, system) ==
    IF "stale" \in {user, system} THEN "stale"
    ELSE IF user # "not_applicable" THEN user
    ELSE system

SourceHealth(n) ==
    IF n # "flatpak" THEN gen.health[n]
    ELSE LET user == gen.health["flatpak:user"]
             system == gen.health["flatpak:system"]
         IN  Health(FlatpakStatus(user.status, system.status),
                    "stale" \notin {user.status, system.status},
                    IF user.fresh < system.fresh THEN user.fresh ELSE system.fresh)

\* Faulty variant of NextMeta: a source that was not tried counts as a success.
NextMetaVacuous(n, in) ==
    LET failed == {s \in SlicesOf(n) : in[s] # None /\ ~Good(in[s].status)}
    IN  IF failed = {} THEN [success |-> Freshness, backoff |-> 0, count |-> 0]
        ELSE [success |-> meta[n].success, backoff |-> RetryDelays[1], count |-> 1]

\* _next_metadata; the failure count matters up to the number of delays.
NextMeta(n, in) ==
    LET tried == {s \in SlicesOf(n) : in[s] # None}
        failed == {s \in tried : ~Good(in[s].status)}
        first == IF "flatpak:user" \in failed THEN "flatpak:user" ELSE CHOOSE s \in failed : TRUE
        count == IF meta[n].count < Len(RetryDelays) THEN meta[n].count + 1 ELSE meta[n].count
        delay == IF in[first].permanent THEN Len(RetryDelays) ELSE count
    IN  IF tried = {} THEN meta[n]
        ELSE IF failed = {} THEN [success |-> Freshness, backoff |-> 0, count |-> 0]
        ELSE [success |-> meta[n].success, backoff |-> RetryDelays[delay], count |-> count]

Metadata(in) == [n \in Source |-> NextMeta(n, in)]
-----------------------------------------------------------------------------
Init ==
    /\ setup \in Setup
    /\ gen = None
    /\ meta = [n \in Source |-> [success |-> 0, backoff |-> 0, count |-> 0]]
    /\ kev \in BOOLEAN
    /\ sound = FALSE
    /\ good = [s \in Slice |-> [items |-> None, age |-> 0]]

\* ScanCoordinator.run and build_generation.  A source switched off in the
\* settings was not collected.
CollectedFrom(s, in) == in[s] # None /\ (s = "cisa_kev" => kev)

Scan(force) ==
    \E in \in Inputs(force) :
        /\ gen' = Generation([s \in Slice |-> Resolve(s, in[s])])
        /\ meta' = Metadata(in)
        /\ good' = [s \in Slice |->
              IF CollectedFrom(s, in) /\ Good(in[s].status)
              THEN [items |-> in[s].items, age |-> 0] ELSE good[s]]
        /\ UNCHANGED <<setup, kev, sound>>

\* The cache directory is cleared; the metadata survives in state.json.
LoseCache ==
    /\ setup.loss
    /\ gen # None
    /\ gen' = None
    /\ good' = [s \in Slice |-> [items |-> None, age |-> 0]]
    /\ UNCHANGED <<setup, meta, kev, sound>>

\* The user changes the setting.
ToggleKev ==
    /\ "cisa_kev" \in Slice
    /\ kev' = ~kev
    /\ UNCHANGED <<setup, gen, meta, sound, good>>

\* From now on every source works.
Settle ==
    /\ ~sound
    /\ sound' = TRUE
    /\ UNCHANGED <<setup, gen, meta, kev, good>>

\* One time unit; beyond Freshness the age of a thing does not matter.
Less(d) == IF d > 0 THEN d - 1 ELSE 0
More(d) == IF d < Freshness THEN d + 1 ELSE d

Tick ==
    /\ gen' = IF gen = None THEN None
              ELSE [gen EXCEPT
                       !.age = More(@),
                       !.health = [s \in Slice |-> [gen.health[s] EXCEPT !.fresh = Less(@)]]]
    /\ meta' = [n \in Source |-> [meta[n] EXCEPT !.success = Less(@), !.backoff = Less(@)]]
    /\ good' = [s \in Slice |->
          [good[s] EXCEPT !.age = IF good[s].items # None THEN More(@) ELSE @]]
    /\ UNCHANGED <<setup, kev, sound>>

Next ==
    \/ \E force \in BOOLEAN : Scan(force)
    \/ LoseCache \/ ToggleKev \/ Settle
    \/ Tick

Spec == Init /\ [][Next]_vars

\* The service goes on asking for scans, and time passes.
FairSpec == Spec /\ []<>(gen # None /\ gen.age = 0) /\ WF_vars(Tick)
-----------------------------------------------------------------------------
\* Type correctness of the generation and the retry metadata.
TypeOK ==
    /\ setup \in Setup
    /\ gen \in GenerationOf(Slice) \cup {None}
    /\ meta \in [Source -> [success : 0..Freshness, backoff : 0..Freshness,
                            count : 0..Len(RetryDelays)]]
    /\ kev \in BOOLEAN /\ sound \in BOOLEAN
    /\ good \in [Slice -> [items : Value \cup {Empty, None}, age : 0..Freshness]]

(***************************************************************************)
(* What was collected last is kept: failures, backoffs and scans that skip *)
(* a slice never replace or lose its items (resolve, last_good_keys).      *)
(***************************************************************************)
EvidenceKept ==
    gen # None => \A s \in Slice : good[s].items # None => gen.items[s] = good[s].items

(***************************************************************************)
(* Retained evidence is not promoted to current (docs/architecture.md:45): *)
(* a slice is "ok" only with evidence collected for it, fresh until        *)
(* Freshness after that collection, however many scans passed it on.  A    *)
(* source as a whole is "ok" only if one of its slices is and none is      *)
(* stale, and is not fresher than any of them: a Flatpak scope that was    *)
(* never collected may hide behind the other, a stale one may not.         *)
(***************************************************************************)
OkIsCurrent ==
    gen # None =>
        /\ \A s \in Slice :
              gen.health[s].status = "ok" =>
                  /\ good[s].items # None
                  /\ gen.health[s].live
                  /\ gen.health[s].fresh = Freshness - good[s].age
        /\ \A n \in Source :
              SourceHealth(n).status = "ok" =>
                  /\ SourceHealth(n).live
                  /\ \E s \in SlicesOf(n) : gen.health[s].status = "ok"
                  /\ \A s \in SlicesOf(n) :
                        /\ gen.health[s].status # "stale"
                        /\ SourceHealth(n).fresh <= gen.health[s].fresh

(***************************************************************************)
(* No scan passes an expired slice on as "ok": the backoff of a source, of *)
(* one Flatpak scope for the other too, ends before what it holds back     *)
(* goes stale (due, RETRY_DELAYS and FRESHNESS).                           *)
(***************************************************************************)
NoneExpired ==
    gen # None =>
        (gen.age = 0 =>
            \A s \in Slice : gen.health[s].status = "ok" => gen.health[s].fresh > 0)

(***************************************************************************)
(* The state of a scan is earned (scan_state), while the cache lasts: it   *)
(* is "failed" exactly as long as no mandatory source, nor AUR where it    *)
(* applies, was ever collected, whatever fails later, and "complete" only  *)
(* if every slice is healthy; a Flatpak scope may be stale in it, when the *)
(* flatpak command is gone.                                                *)
(***************************************************************************)
StateEarned ==
    ~setup.loss /\ gen # None =>
        /\ (gen.state = "failed") <=>
              \A s \in Slice \cap (Mandatory \cup {"aur"}) :
                  good[s].items = None \/ gen.health[s].status = "not_applicable"
        /\ gen.state = "complete" =>
              \A s \in Slice : \/ Good(gen.health[s].status)
                               \/ s \in Flatpak /\ gen.health[s].status = "stale"

(***************************************************************************)
(* Once the sources work, every one of them becomes healthy again, from    *)
(* whatever backoff, permanent failure or loss of the cache: retry         *)
(* metadata never keeps a source from being collected for ever (due).      *)
(***************************************************************************)
Recovers ==
    <>[](sound /\ gen # None) =>
        <>[](gen # None => \A s \in Slice : Good(gen.health[s].status))
=============================================================================
