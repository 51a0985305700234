--------------------------- MODULE EvidenceProofs ---------------------------
(***************************************************************************)
(* Proofs about ScanEvidence, for any slices, values, freshness and        *)
(* delays.                                                                 *)
(***************************************************************************)
EXTENDS ScanEvidence, TLAPS

\* Without a generation there is nothing to keep, and while the cache lasts
\* nothing was tried yet.
NothingYet ==
    gen = None =>
        /\ \A s \in Slice : good[s].items = None
        /\ ~setup.loss => \A n \in Source : meta[n].success = 0 /\ meta[n].backoff = 0

\* What was collected is known good; for what is not of Flatpak the converse
\* holds too, and a healthy slice is known good.
KnownGood ==
    gen # None =>
        /\ \A s \in Slice : good[s].items # None => s \in gen.keys
        /\ \A s \in Slice \ (Flatpak \cup {"cisa_kev"}) :
              /\ s \in gen.keys => good[s].items # None
              /\ Good(gen.health[s].status) => s \in gen.keys

\* CISA KEV annotates what Security lists and has no items of its own.
KevEmpty ==
    "cisa_kev" \in Slice =>
        /\ gen # None => gen.items["cisa_kev"] = Empty
        /\ good["cisa_kev"].items \in {None, Empty}

\* A mandatory source always applies.
MandatoryApplies ==
    gen # None => \A s \in Slice \cap Mandatory : gen.health[s].status # "not_applicable"

\* What is "ok" outlives both the freshness and the backoff of its source.
OkCovered ==
    gen # None => \A s \in Slice : gen.health[s].status = "ok" =>
        /\ gen.health[s].fresh >= meta[SourceOf(s)].success
        /\ gen.health[s].fresh >= meta[SourceOf(s)].backoff

\* The part of OkIsCurrent that is about slices.
SlicesCurrent ==
    gen # None => \A s \in Slice : gen.health[s].status = "ok" =>
        /\ good[s].items # None
        /\ gen.health[s].live
        /\ gen.health[s].fresh = Freshness - good[s].age

IInv ==
    /\ TypeOK
    /\ NothingYet
    /\ KnownGood
    /\ KevEmpty
    /\ MandatoryApplies
    /\ OkCovered
    /\ EvidenceKept
    /\ SlicesCurrent
    /\ NoneExpired
    /\ StateEarned
-----------------------------------------------------------------------------
(***************************************************************************)
(* What the adapters may report.                                           *)
(***************************************************************************)
LEMMA CurrentFacts ==
    ASSUME NEW v \in Value \cup {Empty}
    PROVE  /\ Current(v) \in Outcome /\ Current(v) # None
           /\ Current(v).status = "ok" /\ Current(v).applicable = TRUE /\ Current(v).items = v
<1>1. Current(v) \in Outcome
  BY DEF Current, Outcome, Status
<1> QED
  BY <1>1, NoneAssumption DEF Current

LEMMA NotApplicableFacts ==
    /\ NotApplicable \in Outcome /\ NotApplicable # None
    /\ NotApplicable.status = "not_applicable" /\ NotApplicable.applicable = FALSE
    /\ NotApplicable.items = Empty
<1>1. NotApplicable \in Outcome
  BY DEF NotApplicable, Outcome, Status
<1> QED
  BY <1>1, NoneAssumption DEF NotApplicable

Failing == {"missing_dependency", "timeout", "error", "invalid"}

LEMMA FailureFacts ==
    ASSUME NEW status \in Failing, NEW permanent \in BOOLEAN, NEW applicable \in BOOLEAN
    PROVE  LET o == Failure(status, permanent, applicable) IN
           /\ o \in Outcome /\ o # None
           /\ o.status = status /\ o.applicable = applicable /\ o.items = Empty
<1>1. status \in Status
  BY DEF Failing, Status
<1>2. Failure(status, permanent, applicable) \in Outcome
  BY <1>1 DEF Failure, Outcome
<1> QED
  BY <1>2, NoneAssumption DEF Failure

\* A report of slice s that is no failure of CISA KEV for Security's sake.
Plain(s, o) ==
    /\ o \in Outcome /\ o # None
    /\ o.status \in {"ok", "not_applicable"} \cup Failing
    /\ s \in Mandatory => o.status # "not_applicable"
    /\ o.applicable <=> o.status # "not_applicable"

LEMMA OutcomesPlain ==
    ASSUME NEW s \in AllSlices, NEW o \in Outcomes(s)
    PROVE  Plain(s, o)
<1>1. ASSUME NEW v \in Value, o = Current(v)
      PROVE  Plain(s, o)
  BY <1>1, CurrentFacts DEF Plain
<1>2. CASE o = NotApplicable /\ s \notin {"omarchy", "arch", "security", "cisa_kev"}
  BY <1>2, NotApplicableFacts DEF Plain, Mandatory
<1>3. CASE o \in Failures
  <2>1. PICK status \in Failing, permanent \in BOOLEAN : o = Failure(status, permanent, TRUE)
    BY <1>3 DEF Failures, Failing
  <2> QED
    BY <2>1, FailureFacts DEF Plain, Failing
<1> QED
  BY <1>1, <1>2, <1>3 DEF Outcomes

\* Security and CISA KEV are reported together; when Security fails, CISA KEV
\* was not asked for, or could not be.
KevReport(o, k) ==
    /\ k \in Outcome /\ k # None /\ k.items = Empty
    /\ k.status \in {"ok", "not_applicable"} \cup Failing
    /\ k.status = "ok" => kev
    /\ \/ k.applicable <=> k.status # "not_applicable"
       \/ o.status = "error" /\ k.status = "error" /\ k.applicable = FALSE

LEMMA SecurityOutcomesFacts ==
    ASSUME NEW p \in SecurityOutcomes
    PROVE  Plain("security", p[1]) /\ KevReport(p[1], p[2])
<1> DEFINE Down == <<Failure("error", FALSE, TRUE),
                     IF kev THEN Failure("error", FALSE, FALSE) ELSE NotApplicable>>
<1>0. p \in {Current(v) : v \in Value} \X KevOutcomes \/ p = Down
  BY DEF SecurityOutcomes
<1>1. ASSUME p \in {Current(v) : v \in Value} \X KevOutcomes
      PROVE  Plain("security", p[1]) /\ KevReport(p[1], p[2])
  <2>0. PICK v \in Value, k \in KevOutcomes : p = <<Current(v), k>>
    BY <1>1
  <2>1. p[1] = Current(v) /\ p[2] = k
    BY <2>0
  <2>2. Plain("security", p[1])
    BY <2>1, CurrentFacts DEF Plain
  <2>3. CASE k = NotApplicable
    BY <2>1, <2>2, <2>3, NotApplicableFacts DEF KevReport
  <2>4. CASE k = Current(Empty) /\ kev
    BY <2>1, <2>2, <2>4, CurrentFacts DEF KevReport
  <2>5. CASE k = Failure("error", FALSE, TRUE)
    BY <2>1, <2>2, <2>5, FailureFacts DEF KevReport, Failing
  <2>6. k = NotApplicable \/ (k = Current(Empty) /\ kev) \/ k = Failure("error", FALSE, TRUE)
    BY DEF KevOutcomes
  <2> QED
    BY <2>2, <2>3, <2>4, <2>5, <2>6
<1>2. CASE p = Down
  <2>1. p[1] = Failure("error", FALSE, TRUE)
    BY <1>2
  <2>2. Plain("security", p[1]) /\ p[1].status = "error"
    BY <2>1, FailureFacts DEF Plain, Failing
  <2>3. p[2] = Failure("error", FALSE, FALSE) \/ p[2] = NotApplicable
    BY <1>2
  <2>4. CASE p[2] = Failure("error", FALSE, FALSE)
    BY <2>2, <2>4, FailureFacts DEF KevReport, Failing
  <2>5. CASE p[2] = NotApplicable
    BY <2>2, <2>5, NotApplicableFacts DEF KevReport
  <2> QED
    BY <2>2, <2>3, <2>4, <2>5
<1> HIDE DEF Down
<1> QED
  BY <1>0, <1>1, <1>2

(***************************************************************************)
(* The inputs of a scan: a slice is left out only while its source is not  *)
(* due, and all the slices of a source are left out together.              *)
(***************************************************************************)
Fed(in, force) ==
    /\ in = [s \in Slice |-> in[s]]
    /\ \A s \in Slice : in[s] = None => ~Due(SourceOf(s), force)
    /\ \A s, t \in Slice : SourceOf(s) = SourceOf(t) => (in[s] = None <=> in[t] = None)
    /\ \A s \in Slice \ {"cisa_kev"} : in[s] # None => Plain(s, in[s])
    /\ "cisa_kev" \in Slice /\ in["cisa_kev"] # None =>
          /\ KevReport(in["security"], in["cisa_kev"])
          /\ in["cisa_kev"].applicable = FALSE =>
                \/ in["cisa_kev"].status = "not_applicable"
                \/ in["security"] # None

LEMMA SourceFacts ==
    ASSUME setup \in Setup
    PROVE  /\ Slice \subseteq AllSlices
           /\ \A s \in Slice : SourceOf(s) \in Source
           /\ \A s \in Slice : s \notin Flatpak => SourceOf(s) = s /\ SlicesOf(s) = {s}
           /\ \A s \in Slice : s \in Flatpak => SourceOf(s) = "flatpak"
           /\ "flatpak" \notin Slice
           /\ "cisa_kev" \in Slice => "security" \in Slice
           /\ "flatpak" \in Source => Flatpak \subseteq Slice /\ SlicesOf("flatpak") = Flatpak
           /\ \A n \in Source : n # "flatpak" => n \in Slice /\ SlicesOf(n) = {n} /\ n \notin Flatpak
<1>1. Slice \subseteq AllSlices /\ "flatpak" \notin Slice
  BY EvidenceAssumption DEF Slice, AllSlices
<1>2. /\ "cisa_kev" \in Slice => "security" \in Slice
      /\ "flatpak:user" \in Slice <=> "flatpak:system" \in Slice
  <2>1. \A u \in Setup : /\ "cisa_kev" \in u.slices => "security" \in u.slices
                         /\ "flatpak:user" \in u.slices <=> "flatpak:system" \in u.slices
    BY EvidenceAssumption
  <2> QED
    BY <2>1 DEF Slice
<1>3. \A s \in Slice : /\ s \notin Flatpak => SourceOf(s) = s
                       /\ s \in Flatpak => SourceOf(s) = "flatpak"
                       /\ SourceOf(s) \in Source
  BY DEF SourceOf, Source
<1>4. \A s \in Slice : s \notin Flatpak => SlicesOf(s) = {s}
  BY <1>1, <1>3 DEF SlicesOf
<1>5. "flatpak" \in Source => Flatpak \subseteq Slice /\ SlicesOf("flatpak") = Flatpak
  BY <1>1, <1>2, <1>3 DEF Source, SlicesOf, Flatpak
<1>6. \A n \in Source : n # "flatpak" => n \in Slice /\ SlicesOf(n) = {n} /\ n \notin Flatpak
  BY <1>3, <1>4 DEF Source
<1> QED
  BY <1>1, <1>2, <1>3, <1>4, <1>5, <1>6

LEMMA InputsFed ==
    ASSUME setup \in Setup, NEW force \in BOOLEAN, NEW in \in Inputs(force)
    PROVE  Fed(in, force)
<1> DEFINE Others == Slice \ {"security", "cisa_kev"}
           Any == {None} \cup UNION {Outcomes(s) : s \in Others}
           plain == {f \in [Others -> Any] : \A s \in Others :
                       IF Due(SourceOf(s), force) THEN f[s] \in Outcomes(s) ELSE f[s] = None}
           pairs == IF "security" \in Slice THEN SecurityInputs(force) ELSE {<<None, None>>}
<1>0. in \in {Joined(x[1], x[2]) : x \in plain \X pairs}
  BY DEF Inputs
<1> HIDE DEF Any, plain, pairs
<1>1. PICK f \in plain, p \in pairs : in = Joined(f, p)
  BY <1>0
<1> USE DEF Any, plain, pairs
<1>2. /\ in = [s \in Slice |-> in[s]]
      /\ "security" \in Slice => in["security"] = p[1]
      /\ "cisa_kev" \in Slice => in["cisa_kev"] = p[2]
      /\ \A s \in Others : in[s] = f[s]
  BY <1>1 DEF Joined
<1>3. \A s \in Others : /\ Due(SourceOf(s), force) => in[s] \in Outcomes(s)
                        /\ ~Due(SourceOf(s), force) => in[s] = None
  BY <1>1, <1>2
<1>4. \A s \in Others : /\ in[s] # None => Plain(s, in[s])
                        /\ in[s] = None <=> ~Due(SourceOf(s), force)
  BY <1>3, OutcomesPlain, SourceFacts DEF Plain
<1>5. ASSUME "security" \in Slice
      PROVE  /\ in["security"] # None => Plain("security", in["security"])
             /\ in["security"] = None => ~Due("security", force)
             /\ "cisa_kev" \in Slice =>
                   /\ in["cisa_kev"] # None => KevReport(in["security"], in["cisa_kev"])
                   /\ in["cisa_kev"] = None => ~Due("cisa_kev", force)
                   /\ in["cisa_kev"] # None =>
                         in["cisa_kev"].status = "not_applicable" \/ in["security"] # None
  <2>1. CASE p \in SecurityOutcomes
    <3>1. Plain("security", p[1]) /\ KevReport(p[1], p[2])
      BY <2>1, SecurityOutcomesFacts
    <3>2. p[1] # None /\ p[2] # None
      BY <3>1 DEF Plain, KevReport
    <3> QED
      BY <1>2, <1>5, <3>1, <3>2
  <2>2. CASE /\ p = <<None, IF kev THEN None ELSE NotApplicable>>
             /\ ~(Due("security", force) \/ (kev /\ "cisa_kev" \in Slice /\ Due("cisa_kev", force)))
    <3>1. p[1] = None /\ p[2] = IF kev THEN None ELSE NotApplicable
      BY <2>2
    <3>2. KevReport(p[1], NotApplicable)
      BY NotApplicableFacts DEF KevReport
    <3>3. CASE kev
      BY <1>2, <1>5, <2>2, <3>1, <3>3
    <3>4. CASE ~kev
      BY <1>2, <1>5, <2>2, <3>1, <3>2, <3>4, NotApplicableFacts
    <3> QED
      BY <3>3, <3>4
  <2> QED
    BY <1>1, <1>5, <2>1, <2>2 DEF SecurityInputs
<1> HIDE DEF Any, plain, pairs
<1>6. "cisa_kev" \in Slice => "security" \in Slice
  BY SourceFacts
<1>7. \A s \in Slice : in[s] = None => ~Due(SourceOf(s), force)
  BY <1>4, <1>5, <1>6 DEF SourceOf, Flatpak
<1>8. \A s, t \in Slice : SourceOf(s) = SourceOf(t) => (in[s] = None <=> in[t] = None)
  <2>1. \A s, t \in Slice : SourceOf(s) = SourceOf(t) => s = t \/ (s \in Others /\ t \in Others)
    BY SourceFacts DEF Flatpak, AllSlices
  <2> QED
    BY <1>4, <2>1
<1>9. \A s \in Slice \ {"cisa_kev"} : in[s] # None => Plain(s, in[s])
  BY <1>4, <1>5
<1> QED
  BY <1>2, <1>5, <1>6, <1>7, <1>8, <1>9 DEF Fed
-----------------------------------------------------------------------------
(***************************************************************************)
(* resolve, case by case.                                                  *)
(***************************************************************************)
HealthSet == [status : Status, live : BOOLEAN, fresh : 0..Freshness]
ResolvedSet == [status : Status, applicable : BOOLEAN, health : HealthSet,
                items : Value \cup {Empty}, usable : BOOLEAN]

LEMMA GenerationFacts ==
    ASSUME TypeOK, gen # None
    PROVE  /\ gen.health \in [Slice -> HealthSet]
           /\ gen.items \in [Slice -> Value \cup {Empty}]
           /\ gen.keys \subseteq Slice
           /\ gen.age \in 0..Freshness
           /\ \A s \in Slice : /\ gen.health[s] \in HealthSet
                               /\ gen.health[s].status \in Status
                               /\ gen.health[s].live \in BOOLEAN
                               /\ gen.health[s].fresh \in 0..Freshness
                               /\ gen.items[s] \in Value \cup {Empty}
<1>1. gen \in GenerationOf(Slice)
  BY DEF TypeOK
<1>2. /\ gen.health \in [Slice -> HealthSet]
      /\ gen.items \in [Slice -> Value \cup {Empty}]
      /\ gen.keys \subseteq Slice
      /\ gen.age \in 0..Freshness
  BY <1>1 DEF GenerationOf, HealthSet
<1>3. \A s \in Slice : gen.health[s] \in HealthSet /\ gen.items[s] \in Value \cup {Empty}
  BY <1>2
<1> QED
  BY <1>2, <1>3 DEF HealthSet

Times == Freshness \in Nat /\ Freshness > 0

LEMMA TimesFacts ==
    Times /\ 0 \in 0..Freshness /\ Freshness \in 0..Freshness
BY EvidenceAssumption DEF Times

\* Slices that were not collected.
CachedAs(s, r) ==
    /\ r \in ResolvedSet
    /\ gen = None =>
          /\ r.status = "error" /\ r.applicable = (s = "aur") /\ r.items = Empty
          /\ r.usable = FALSE
          /\ r.health.status = "error" /\ r.health.live = TRUE /\ r.health.fresh = 0
    /\ gen # None =>
          /\ r.status = gen.health[s].status
          /\ r.applicable = (gen.health[s].status # "not_applicable")
          /\ r.items = gen.items[s] /\ r.usable = (s \in gen.keys)
          /\ r.health = gen.health[s]

LEMMA CachedFacts ==
    ASSUME TypeOK, NEW s \in Slice
    PROVE  CachedAs(s, Resolve(s, None))
<1>1. Resolve(s, None) = Cached(s)
  BY DEF Resolve
<1>2. CASE gen = None
  <2>1. "error" \in Status
    BY DEF Status
  <2>2. Resolve(s, None) = Resolved("error", s = "aur", Health("error", TRUE, 0), Empty, FALSE)
    BY <1>1, <1>2 DEF Cached
  <2> QED
    BY <1>2, <2>1, <2>2, TimesFacts DEF CachedAs, Resolved, Health, ResolvedSet, HealthSet
<1>3. CASE gen # None
  <2>1. Resolve(s, None) =
          Resolved(gen.health[s].status, gen.health[s].status # "not_applicable",
                   gen.health[s], gen.items[s], s \in gen.keys)
    BY <1>1, <1>3 DEF Cached
  <2> QED
    BY <1>3, <2>1, GenerationFacts DEF CachedAs, Resolved, ResolvedSet
<1> QED
  BY <1>2, <1>3

\* Slices that were collected, or could not be.
CollectedAs(s, o, r) ==
    /\ r \in ResolvedSet
    /\ r.status = o.status /\ r.applicable = o.applicable
    /\ Good(o.status) =>
          /\ r.items = o.items /\ r.usable = TRUE
          /\ r.health.status = o.status /\ r.health.live = TRUE
          /\ r.health.fresh = Freshness
    /\ ~Good(o.status) /\ gen # None /\ s \in gen.keys =>
          /\ r.items = gen.items[s] /\ r.usable = TRUE
          /\ r.health.status = "stale" /\ r.health.fresh = gen.health[s].fresh
    /\ ~Good(o.status) /\ ~(gen # None /\ s \in gen.keys) =>
          /\ r.items = Empty /\ r.usable = FALSE
          /\ r.health.status = o.status /\ r.health.fresh = 0

LEMMA CollectedFacts ==
    ASSUME TypeOK, NEW s \in Slice, NEW o \in Outcome, o # None
    PROVE  CollectedAs(s, o, Resolve(s, o))
<1>1. o.status \in Status /\ o.applicable \in BOOLEAN /\ o.items \in Value \cup {Empty}
  BY DEF Outcome
<1>2. CASE Good(o.status)
  <2>1. Resolve(s, o) = Resolved(o.status, o.applicable, Health(o.status, TRUE, Freshness),
                                 o.items, TRUE)
    BY <1>2 DEF Resolve
  <2> QED
    BY <1>1, <1>2, <2>1, TimesFacts DEF CollectedAs, Resolved, Health, ResolvedSet, HealthSet
<1>3. CASE ~Good(o.status) /\ gen # None /\ s \in gen.keys
  <2>1. Resolve(s, o) = Resolved(o.status, o.applicable,
                                 Health("stale", FALSE, gen.health[s].fresh), gen.items[s], TRUE)
    BY <1>3 DEF Resolve, Fallback
  <2>2. "stale" \in Status
    BY DEF Status
  <2> QED
    BY <1>1, <1>3, <2>1, <2>2, GenerationFacts
    DEF CollectedAs, Resolved, Health, ResolvedSet, HealthSet
<1>4. CASE ~Good(o.status) /\ ~(gen # None /\ s \in gen.keys)
  <2>1. Resolve(s, o) = Resolved(o.status, o.applicable, Health(o.status, TRUE, 0), Empty, FALSE)
    BY <1>4 DEF Resolve, Fallback
  <2> QED
    BY <1>1, <1>4, <2>1, TimesFacts DEF CollectedAs, Resolved, Health, ResolvedSet, HealthSet
<1> QED
  BY <1>2, <1>3, <1>4
-----------------------------------------------------------------------------
(***************************************************************************)
(* A slice of the new generation: not collected, collected, kept after a   *)
(* failure, or failed with nothing to fall back on.                        *)
(***************************************************************************)
ShownAs(s, status) ==
    IF s \in Flatpak /\ status = "missing_dependency" THEN "not_applicable" ELSE status

Kept(s) ==
    /\ gen # None
    /\ gen'.health[s].status = ShownAs(s, gen.health[s].status)
    /\ gen'.health[s].live = gen.health[s].live
    /\ gen'.health[s].fresh = gen.health[s].fresh
    /\ gen'.items[s] = gen.items[s]
    /\ s \in gen'.keys <=> (s \in gen.keys \/ Good(gen.health[s].status))

Unknown(s) ==
    /\ gen = None
    /\ gen'.health[s].status = "error"
    /\ gen'.items[s] = Empty
    /\ s \notin gen'.keys

Renewed(s, o) ==
    /\ Good(o.status)
    /\ gen'.health[s].status = o.status
    /\ gen'.health[s].live = TRUE
    /\ gen'.health[s].fresh = Freshness
    /\ gen'.items[s] = o.items
    /\ s \in gen'.keys

FellBack(s, o) ==
    /\ ~Good(o.status)
    /\ gen # None /\ s \in gen.keys /\ s \in gen'.keys
    /\ gen'.health[s].status = "stale"
    /\ gen'.items[s] = gen.items[s]

Failed(s, o) ==
    /\ ~Good(o.status)
    /\ gen # None => s \notin gen.keys
    /\ s \notin gen'.keys
    /\ gen'.health[s].status = ShownAs(s, o.status)
    /\ gen'.items[s] = Empty

Merged(in) ==
    \A s \in Slice :
        /\ in[s] = None => Kept(s) \/ Unknown(s)
        /\ in[s] # None => Renewed(s, in[s]) \/ FellBack(s, in[s]) \/ Failed(s, in[s])

LEMMA FedTyped ==
    ASSUME NEW in, NEW force \in BOOLEAN, Fed(in, force)
    PROVE  \A s \in Slice : in[s] # None => in[s] \in Outcome
BY DEF Fed, Plain, KevReport

LEMMA ResolveTyped ==
    ASSUME TypeOK, NEW in, NEW force \in BOOLEAN, Fed(in, force), NEW s \in Slice
    PROVE  Resolve(s, in[s]) \in ResolvedSet
<1>1. CASE in[s] = None
  BY <1>1, CachedFacts DEF CachedAs
<1>2. CASE in[s] # None
  <2>1. in[s] \in Outcome
    BY <1>2, FedTyped
  <2>2. CollectedAs(s, in[s], Resolve(s, in[s]))
    BY <1>2, <2>1, CollectedFacts
  <2> QED
    BY <2>2 DEF CollectedAs
<1> QED
  BY <1>1, <1>2

LEMMA ScanMerges ==
    ASSUME TypeOK, NEW in, NEW force \in BOOLEAN, Fed(in, force),
           gen' = Generation([s \in Slice |-> Resolve(s, in[s])]), setup' = setup
    PROVE  /\ gen' \in GenerationOf(Slice) /\ gen' # None /\ gen'.age = 0
           /\ gen'.state = ScanState([s \in Slice |-> Resolve(s, in[s])])
           /\ Merged(in)
<1> DEFINE r == [s \in Slice |-> Resolve(s, in[s])]
<1>1. r \in [Slice -> ResolvedSet] /\ \A s \in Slice : r[s] = Resolve(s, in[s])
  BY ResolveTyped
<1>2. gen' = Generation(r)
  OBVIOUS
<1> HIDE DEF r
<1>3. /\ gen'.health = [s \in Slice |-> Shown(s, r[s].health)]
      /\ gen'.items = [s \in Slice |-> r[s].items]
      /\ gen'.keys = LastGoodKeys(r)
      /\ gen'.state = ScanState(r)
      /\ gen'.age = 0
  BY <1>2 DEF Generation
<1>4. \A s \in Slice : /\ gen'.health[s] = Shown(s, r[s].health)
                       /\ gen'.items[s] = r[s].items
                       /\ r[s].health \in HealthSet /\ r[s].items \in Value \cup {Empty}
  BY <1>1, <1>3 DEF ResolvedSet
<1>5. \A s \in Slice : /\ gen'.health[s] \in HealthSet
                       /\ gen'.health[s].status = ShownAs(s, r[s].health.status)
                       /\ gen'.health[s].live = r[s].health.live
                       /\ gen'.health[s].fresh = r[s].health.fresh
  <2> SUFFICES ASSUME NEW s \in Slice, NEW h \in HealthSet
               PROVE  /\ Shown(s, h) \in HealthSet
                      /\ Shown(s, h).status = ShownAs(s, h.status)
                      /\ Shown(s, h).live = h.live
                      /\ Shown(s, h).fresh = h.fresh
    BY <1>4
  <2>1. "not_applicable" \in Status
    BY DEF Status
  <2> QED
    BY <2>1 DEF Shown, ShownAs, HealthSet
<1>6. \A s \in Slice : s \in gen'.keys <=>
          Good(r[s].status) \/ (gen # None /\ s \in gen.keys)
  BY <1>3 DEF LastGoodKeys
<1>7. gen' \in GenerationOf(Slice)
  <2>1. gen'.health \in [Slice -> HealthSet]
    BY <1>3, <1>5
  <2>2. gen'.items \in [Slice -> Value \cup {Empty}]
    BY <1>3, <1>4
  <2>3. gen'.keys \in SUBSET Slice
    BY <1>3, GenerationFacts DEF LastGoodKeys
  <2>4. gen'.state \in {"complete", "partial", "failed"}
    BY <1>3 DEF ScanState
  <2>5. gen'.age \in 0..Freshness
    BY <1>3, TimesFacts
  <2>6. gen' = [health |-> gen'.health, items |-> gen'.items, keys |-> gen'.keys,
                state |-> gen'.state, age |-> gen'.age]
    BY <1>2 DEF Generation
  <2> QED
    BY <2>1, <2>2, <2>3, <2>4, <2>5, <2>6 DEF GenerationOf, HealthSet
<1>8. gen' # None
  BY <1>7, NoneAssumption DEF TypeOK, Slice
<1>9. ASSUME NEW s \in Slice, in[s] = None
      PROVE  Kept(s) \/ Unknown(s)
  <2>0. CachedAs(s, r[s])
    BY <1>1, <1>9, CachedFacts
  <2>1. CASE gen = None
    <3>1. r[s].status = "error" /\ r[s].health.status = "error" /\ r[s].items = Empty
      BY <2>0, <2>1 DEF CachedAs
    <3> QED
      BY <1>4, <1>5, <1>6, <2>1, <3>1 DEF Unknown, ShownAs, Good
  <2>2. CASE gen # None
    <3>1. /\ r[s].health = gen.health[s]
          /\ r[s].status = gen.health[s].status
          /\ r[s].items = gen.items[s]
      BY <2>0, <2>2 DEF CachedAs
    <3> QED
      BY <1>4, <1>5, <1>6, <2>2, <3>1 DEF Kept
  <2> QED
    BY <2>1, <2>2
<1>10. ASSUME NEW s \in Slice, in[s] # None
       PROVE  Renewed(s, in[s]) \/ FellBack(s, in[s]) \/ Failed(s, in[s])
  <2> DEFINE o == in[s]
  <2>1. o \in Outcome /\ o # None /\ r[s] = Resolve(s, o)
    BY <1>1, <1>10, FedTyped
  <2> HIDE DEF o
  <2>0. CollectedAs(s, o, r[s])
    BY <2>1, CollectedFacts
  <2>2. r[s].status = o.status
    BY <2>0 DEF CollectedAs
  <2>3. CASE Good(o.status)
    <3>1. /\ r[s].items = o.items
          /\ r[s].health.status = o.status /\ r[s].health.live = TRUE
          /\ r[s].health.fresh = Freshness
      BY <2>0, <2>3 DEF CollectedAs
    <3>2. ShownAs(s, o.status) = o.status
      BY <2>3 DEF ShownAs, Good
    <3> QED
      BY <1>4, <1>5, <1>6, <2>2, <2>3, <3>1, <3>2 DEF Renewed, o
  <2>4. CASE ~Good(o.status) /\ gen # None /\ s \in gen.keys
    <3>1. r[s].items = gen.items[s] /\ r[s].health.status = "stale"
      BY <2>0, <2>4 DEF CollectedAs
    <3>2. ShownAs(s, "stale") = "stale"
      BY DEF ShownAs
    <3> QED
      BY <1>4, <1>5, <1>6, <2>4, <3>1, <3>2 DEF FellBack, o
  <2>5. CASE ~Good(o.status) /\ ~(gen # None /\ s \in gen.keys)
    <3>1. r[s].items = Empty /\ r[s].health.status = o.status
      BY <2>0, <2>5 DEF CollectedAs
    <3> QED
      BY <1>4, <1>5, <1>6, <2>2, <2>5, <3>1 DEF Failed, o
  <2> QED
    BY <2>3, <2>4, <2>5
<1> QED
  BY <1>3, <1>7, <1>8, <1>9, <1>10 DEF Merged, r
-----------------------------------------------------------------------------
(***************************************************************************)
(* _next_metadata: a source that was not tried keeps its metadata; one     *)
(* that succeeded is fresh; one that failed backs off for at most          *)
(* Freshness.                                                              *)
(***************************************************************************)
MetaSet == [success : 0..Freshness, backoff : 0..Freshness, count : 0..Len(RetryDelays)]

MetaAfter(n, in, m) ==
    /\ m \in MetaSet
    /\ \/ (\A s \in SlicesOf(n) : in[s] = None) /\ m = meta[n]
       \/ (\A s \in SlicesOf(n) : in[s] # None /\ Good(in[s].status))
       \/ /\ \A s \in SlicesOf(n) : in[s] # None
          /\ m.success = meta[n].success

LEMMA MetaFacts ==
    ASSUME TypeOK, NEW in, NEW force \in BOOLEAN, Fed(in, force), NEW n \in Source
    PROVE  MetaAfter(n, in, NextMeta(n, in))
<1> DEFINE tried == {s \in SlicesOf(n) : in[s] # None}
           failed == {s \in tried : ~Good(in[s].status)}
           first == IF "flatpak:user" \in failed THEN "flatpak:user" ELSE CHOOSE s \in failed : TRUE
           count == IF meta[n].count < Len(RetryDelays) THEN meta[n].count + 1 ELSE meta[n].count
           delay == IF in[first].permanent THEN Len(RetryDelays) ELSE count
<1>1. meta[n] \in MetaSet
  BY DEF TypeOK, MetaSet
<1>2. \A s, t \in SlicesOf(n) : in[s] = None <=> in[t] = None
  BY DEF Fed, SlicesOf
<1>3. tried # {} => \A s \in SlicesOf(n) : in[s] # None
  BY <1>2
<1>4. CASE tried = {}
  <2>1. NextMeta(n, in) = meta[n]
    BY <1>4 DEF NextMeta
  <2> QED
    BY <1>1, <1>4, <2>1 DEF MetaAfter
<1>5. CASE tried # {} /\ failed = {}
  <2>1. NextMeta(n, in) = [success |-> Freshness, backoff |-> 0, count |-> 0]
    BY <1>5 DEF NextMeta
  <2>2. NextMeta(n, in) \in MetaSet
    BY <2>1, EvidenceAssumption DEF MetaSet
  <2>3. \A s \in SlicesOf(n) : in[s] # None /\ Good(in[s].status)
    BY <1>3, <1>5
  <2> QED
    BY <2>2, <2>3 DEF MetaAfter
<1>6. CASE tried # {} /\ failed # {}
  <2>1. NextMeta(n, in) = [success |-> meta[n].success, backoff |-> RetryDelays[delay],
                           count |-> count]
    BY <1>6 DEF NextMeta
  <2>2. Len(RetryDelays) \in Nat /\ Len(RetryDelays) > 0
    BY EvidenceAssumption
  <2>3. count \in 1..Len(RetryDelays)
    BY <1>1, <2>2 DEF MetaSet
  <2> HIDE DEF count, first
  <2>4. delay \in 1..Len(RetryDelays)
    BY <2>2, <2>3
  <2> HIDE DEF delay
  <2>5. RetryDelays[delay] \in 0..Freshness
    BY <2>4, EvidenceAssumption
  <2>6. NextMeta(n, in) \in MetaSet /\ NextMeta(n, in).success = meta[n].success
    BY <1>1, <2>1, <2>2, <2>3, <2>5 DEF MetaSet
  <2> QED
    BY <1>3, <1>6, <2>6 DEF MetaAfter
<1> QED
  BY <1>4, <1>5, <1>6

\* What was collected in a scan, slice by slice.
Gathered(s, in) ==
    IF CollectedFrom(s, in) /\ Good(in[s].status)
    THEN good'[s].items = in[s].items /\ good'[s].age = 0
    ELSE good'[s] = good[s]

\* The facts about a scan that the invariants rest on.
Scanned(in, force) ==
    /\ Fed(in, force)
    /\ Merged(in)
    /\ gen' \in GenerationOf(Slice) /\ gen' # None /\ gen'.age = 0
    /\ gen'.state = ScanState([s \in Slice |-> Resolve(s, in[s])])
    /\ meta' \in [Source -> MetaSet]
    /\ \A n \in Source : MetaAfter(n, in, meta'[n])
    /\ good' \in [Slice -> [items : Value \cup {Empty, None}, age : 0..Freshness]]
    /\ \A s \in Slice : Gathered(s, in)
    /\ setup' = setup /\ kev' = kev /\ sound' = sound
    /\ Slice' = Slice /\ Source' = Source

LEMMA ScanFacts ==
    ASSUME TypeOK, NEW force \in BOOLEAN, Scan(force)
    PROVE  \E in : Scanned(in, force)
<1>1. PICK in \in Inputs(force) :
        /\ gen' = Generation([s \in Slice |-> Resolve(s, in[s])])
        /\ meta' = Metadata(in)
        /\ good' = [s \in Slice |->
              IF CollectedFrom(s, in) /\ Good(in[s].status)
              THEN [items |-> in[s].items, age |-> 0] ELSE good[s]]
        /\ UNCHANGED <<setup, kev, sound>>
  BY DEF Scan
<1>2. Fed(in, force)
  BY InputsFed DEF TypeOK
<1>3. /\ gen' \in GenerationOf(Slice) /\ gen' # None /\ gen'.age = 0
      /\ gen'.state = ScanState([s \in Slice |-> Resolve(s, in[s])])
      /\ Merged(in)
  BY <1>1, <1>2, ScanMerges
<1>4. meta' \in [Source -> MetaSet] /\ \A n \in Source : MetaAfter(n, in, meta'[n])
  <2>1. meta' = [n \in Source |-> NextMeta(n, in)]
    BY <1>1 DEF Metadata
  <2>2. \A n \in Source : MetaAfter(n, in, NextMeta(n, in))
    BY <1>2, MetaFacts
  <2>3. \A n \in Source : MetaAfter(n, in, meta'[n])
    BY <2>1, <2>2
  <2> QED
    BY <2>1, <2>3 DEF MetaAfter
<1>5. good' \in [Slice -> [items : Value \cup {Empty, None}, age : 0..Freshness]]
  <2>1. \A s \in Slice : CollectedFrom(s, in) => in[s].items \in Value \cup {Empty}
    BY <1>2, FedTyped DEF CollectedFrom, Outcome
  <2> QED
    BY <1>1, <2>1, TimesFacts DEF TypeOK
<1>6. \A s \in Slice : Gathered(s, in)
  BY <1>1 DEF Gathered
<1>7. Slice' = Slice /\ Source' = Source
  BY <1>1 DEF Slice, Source
<1> QED
  BY <1>1, <1>2, <1>3, <1>4, <1>5, <1>6, <1>7 DEF Scanned
-----------------------------------------------------------------------------
(***************************************************************************)
(* A scan preserves each part of the invariant.                            *)
(***************************************************************************)
LEMMA ScanKnownGood ==
    ASSUME IInv, NEW in, NEW force \in BOOLEAN, Scanned(in, force)
    PROVE  KnownGood' /\ EvidenceKept'
<1>1. ASSUME NEW s \in Slice, good'[s].items # None
      PROVE  s \in gen'.keys /\ gen'.items[s] = good'[s].items
  <2>1. CASE CollectedFrom(s, in) /\ Good(in[s].status)
    BY <2>1 DEF Scanned, Merged, Gathered, CollectedFrom, Renewed, FellBack, Failed
  <2>2. CASE ~(CollectedFrom(s, in) /\ Good(in[s].status))
    <3>1. good'[s] = good[s] /\ good[s].items # None
      BY <1>1, <2>2 DEF Scanned, Gathered
    <3>2. gen # None /\ s \in gen.keys /\ gen.items[s] = good[s].items
      BY <3>1 DEF IInv, NothingYet, KnownGood, EvidenceKept
    <3>3. CASE in[s] = None
      BY <3>1, <3>2, <3>3 DEF Scanned, Merged, Kept, Unknown
    <3>4. CASE in[s] # None /\ ~Good(in[s].status)
      BY <3>1, <3>2, <3>4 DEF Scanned, Merged, Renewed, FellBack, Failed
    <3>5. CASE in[s] # None /\ Good(in[s].status)
      <4>1. s = "cisa_kev"
        BY <2>2, <3>5 DEF CollectedFrom
      <4>2. in[s].items = Empty
        BY <3>5, <4>1 DEF Scanned, Fed, KevReport
      <4>3. good[s].items = Empty
        BY <3>1, <4>1 DEF IInv, KevEmpty
      <4>4. Renewed(s, in[s])
        BY <3>5 DEF Scanned, Merged, FellBack, Failed
      <4> QED
        BY <3>1, <4>2, <4>3, <4>4 DEF Renewed
    <3> QED
      BY <3>3, <3>4, <3>5
  <2> QED
    BY <2>1, <2>2
<1>2. ASSUME NEW s \in Slice, s \notin Flatpak, s # "cisa_kev"
      PROVE  /\ s \in gen'.keys => good'[s].items # None
             /\ Good(gen'.health[s].status) => s \in gen'.keys
  <2>1. /\ gen # None /\ s \in gen.keys => good[s].items # None
        /\ gen # None /\ Good(gen.health[s].status) => s \in gen.keys
    BY <1>2 DEF IInv, KnownGood
  <2>2. Gathered(s, in)
    BY DEF Scanned
  <2>3. CASE in[s] = None
    <3>1. Kept(s) \/ Unknown(s)
      BY <2>3 DEF Scanned, Merged
    <3>2. good'[s] = good[s]
      BY <2>2, <2>3 DEF Gathered, CollectedFrom
    <3>3. CASE Kept(s)
      BY <1>2, <2>1, <3>2, <3>3 DEF Kept, ShownAs
    <3>4. CASE Unknown(s)
      BY <3>4 DEF Unknown, Good
    <3> QED
      BY <3>1, <3>3, <3>4
  <2>4. CASE in[s] # None
    <3>1. Renewed(s, in[s]) \/ FellBack(s, in[s]) \/ Failed(s, in[s])
      BY <2>4 DEF Scanned, Merged
    <3>2. in[s].items # None /\ in[s].status \in Status
      BY <2>4, FedTyped, EvidenceAssumption DEF Scanned, Outcome
    <3>3. CASE Renewed(s, in[s])
      BY <1>2, <2>2, <2>4, <3>2, <3>3 DEF Renewed, Gathered, CollectedFrom
    <3>4. CASE FellBack(s, in[s])
      BY <2>1, <2>2, <3>4 DEF FellBack, Gathered, Good
    <3>5. CASE Failed(s, in[s])
      BY <1>2, <3>5 DEF Failed, ShownAs
    <3> QED
      BY <3>1, <3>3, <3>4, <3>5
  <2> QED
    BY <2>3, <2>4
<1> QED
  BY <1>1, <1>2 DEF Scanned, KnownGood, EvidenceKept

LEMMA ScanKevEmpty ==
    ASSUME IInv, NEW in, NEW force \in BOOLEAN, Scanned(in, force)
    PROVE  KevEmpty'
<1> SUFFICES ASSUME "cisa_kev" \in Slice
             PROVE  gen'.items["cisa_kev"] = Empty /\ good'["cisa_kev"].items \in {None, Empty}
  BY DEF Scanned, KevEmpty
<1>1. /\ gen # None => gen.items["cisa_kev"] = Empty
      /\ good["cisa_kev"].items \in {None, Empty}
  BY DEF IInv, KevEmpty
<1>2. in["cisa_kev"] # None => in["cisa_kev"].items = Empty
  BY DEF Scanned, Fed, KevReport
<1>3. gen'.items["cisa_kev"] = Empty
  BY <1>1, <1>2 DEF Scanned, Merged, Kept, Unknown, Renewed, FellBack, Failed
<1>4. good'["cisa_kev"].items \in {None, Empty}
  BY <1>1, <1>2 DEF Scanned, Gathered, CollectedFrom
<1> QED
  BY <1>3, <1>4

LEMMA ScanMandatory ==
    ASSUME IInv, NEW in, NEW force \in BOOLEAN, Scanned(in, force)
    PROVE  MandatoryApplies'
<1> SUFFICES ASSUME NEW s \in Slice, s \in Mandatory
             PROVE  gen'.health[s].status # "not_applicable"
  BY DEF Scanned, MandatoryApplies
<1>1. s \notin Flatpak /\ s # "cisa_kev"
  BY DEF Mandatory, Flatpak
<1>2. gen # None => gen.health[s].status # "not_applicable"
  BY DEF IInv, MandatoryApplies
<1>3. in[s] # None => in[s].status # "not_applicable"
  BY <1>1 DEF Scanned, Fed, Plain
<1> QED
  BY <1>1, <1>2, <1>3 DEF Scanned, Merged, Kept, Unknown, Renewed, FellBack, Failed, ShownAs

LEMMA ScanCurrent ==
    ASSUME IInv, NEW in, NEW force \in BOOLEAN, Scanned(in, force)
    PROVE  SlicesCurrent' /\ OkCovered' /\ NoneExpired'
<1> SUFFICES ASSUME NEW s \in Slice, gen'.health[s].status = "ok"
             PROVE  /\ good'[s].items # None
                    /\ gen'.health[s].live
                    /\ gen'.health[s].fresh = Freshness - good'[s].age
                    /\ gen'.health[s].fresh >= meta'[SourceOf(s)].success
                    /\ gen'.health[s].fresh >= meta'[SourceOf(s)].backoff
                    /\ gen'.health[s].fresh > 0
  BY DEF Scanned, SlicesCurrent, OkCovered, NoneExpired
<1> DEFINE n == SourceOf(s)
<1>1. n \in Source /\ s \in SlicesOf(n)
  BY SourceFacts DEF IInv, TypeOK, SlicesOf
<1> HIDE DEF n
<1>2. MetaAfter(n, in, meta'[n]) /\ meta'[n] \in MetaSet /\ meta[n] \in MetaSet
  BY <1>1 DEF Scanned, IInv, TypeOK, MetaSet
<1>3. Gathered(s, in)
  BY DEF Scanned
<1>4. CASE in[s] = None
  <2>1. Kept(s)
    BY <1>4 DEF Scanned, Merged, Unknown
  <2>2. gen # None /\ gen.health[s].status = "ok"
    BY <2>1 DEF Kept, ShownAs
  <2>3. good'[s] = good[s] /\ meta'[n] = meta[n]
    BY <1>1, <1>2, <1>3, <1>4 DEF Gathered, CollectedFrom, MetaAfter
  <2>4. /\ good[s].items # None
        /\ gen.health[s].live
        /\ gen.health[s].fresh = Freshness - good[s].age
        /\ gen.health[s].fresh >= meta[n].success
        /\ gen.health[s].fresh >= meta[n].backoff
    BY <2>2 DEF IInv, SlicesCurrent, OkCovered, n
  <2>5. meta[n].success # 0 \/ meta[n].backoff # 0
    BY <1>4 DEF Scanned, Fed, Due, n
  <2>6. gen.health[s].fresh \in Nat
    BY <2>2, GenerationFacts DEF IInv
  <2>7. gen.health[s].fresh > 0
    BY <1>2, <2>4, <2>5, <2>6, TimesFacts DEF MetaSet, Times
  <2> QED
    BY <2>1, <2>3, <2>4, <2>7 DEF Kept, n
<1>5. CASE in[s] # None
  <2>1. Renewed(s, in[s])
    BY <1>5 DEF Scanned, Merged, FellBack, Failed, ShownAs, Good
  <2>2. in[s].status = "ok" /\ gen'.health[s].fresh = Freshness /\ gen'.health[s].live = TRUE
    BY <2>1 DEF Renewed
  <2>3. CollectedFrom(s, in)
    BY <1>5, <2>2 DEF CollectedFrom, Scanned, Fed, KevReport
  <2>4. good'[s].items = in[s].items /\ good'[s].age = 0
    BY <1>3, <2>2, <2>3 DEF Gathered, Good
  <2>5. in[s].items # None
    BY <1>5, FedTyped, EvidenceAssumption DEF Scanned, Outcome
  <2> QED
    BY <1>2, <2>2, <2>4, <2>5, TimesFacts DEF MetaSet, Times, n
<1> QED
  BY <1>4, <1>5

\* What scan_state sees of the sources it may call a scan failed for.
Vital == Slice \cap (Mandatory \cup {"aur"})

LEMMA VitalFacts ==
    ASSUME IInv, NEW in, NEW force \in BOOLEAN, Scanned(in, force), ~setup.loss,
           NEW s \in Vital
    PROVE  LET r == Resolve(s, in[s]) IN
           /\ r.usable = (good'[s].items # None)
           /\ r.applicable = (gen'.health[s].status # "not_applicable")
<1> DEFINE r == Resolve(s, in[s])
<1>0. s \in Slice /\ s \notin Flatpak /\ s # "cisa_kev"
  BY DEF Vital, Mandatory, Flatpak
<1>1. Gathered(s, in)
  BY <1>0 DEF Scanned
<1>2. (gen # None /\ s \in gen.keys) <=> good[s].items # None
  BY <1>0 DEF IInv, NothingYet, KnownGood
<1>3. CASE in[s] = None
  <2>1. CachedAs(s, r)
    BY <1>0, <1>3, CachedFacts DEF IInv
  <2>2. gen # None
    <3>1. ~Due(SourceOf(s), force) /\ SourceOf(s) \in Source
      BY <1>0, <1>3, SourceFacts DEF Scanned, Fed, IInv, TypeOK
    <3> QED
      BY <3>1 DEF IInv, NothingYet, Due
  <2>3. Kept(s)
    BY <1>0, <1>3, <2>2 DEF Scanned, Merged, Unknown
  <2>4. gen'.health[s].status = gen.health[s].status
    BY <1>0, <2>3 DEF Kept, ShownAs
  <2>5. good'[s] = good[s]
    BY <1>1, <1>3 DEF Gathered, CollectedFrom
  <2> HIDE DEF r
  <2>6. r.usable = (s \in gen.keys) /\ r.applicable = (gen.health[s].status # "not_applicable")
    BY <2>1, <2>2 DEF CachedAs
  <2>7. (s \in gen.keys) = (good'[s].items # None)
    BY <1>2, <2>2, <2>5
  <2> QED
    BY <2>4, <2>6, <2>7 DEF r
<1>4. CASE in[s] # None
  <2>1. in[s] \in Outcome
    BY <1>0, <1>4, FedTyped DEF Scanned
  <2>2. CollectedAs(s, in[s], r)
    BY <1>0, <1>4, <2>1, CollectedFacts DEF IInv
  <2>3. Plain(s, in[s])
    BY <1>0, <1>4 DEF Scanned, Fed
  <2> HIDE DEF r
  <2>4. r.applicable = in[s].applicable /\ in[s].applicable \in BOOLEAN
    BY <2>1, <2>2 DEF CollectedAs, Outcome
  <2>5. CASE Good(in[s].status)
    <3>1. r.usable = TRUE
      BY <2>2, <2>5 DEF CollectedAs
    <3>2. Renewed(s, in[s])
      BY <1>0, <1>4, <2>5 DEF Scanned, Merged, FellBack, Failed
    <3>3. good'[s].items # None
      BY <1>0, <1>1, <1>4, <2>1, <2>5, EvidenceAssumption DEF Gathered, CollectedFrom, Outcome
    <3>4. in[s].applicable = (gen'.health[s].status # "not_applicable")
      BY <2>3, <2>4, <3>2 DEF Renewed, Plain
    <3> QED
      BY <2>4, <3>1, <3>3, <3>4 DEF r
  <2>6. CASE ~Good(in[s].status)
    <3>1. good'[s] = good[s]
      BY <1>1, <2>6 DEF Gathered
    <3>2. r.usable = (good'[s].items # None)
      BY <1>2, <2>2, <2>6, <3>1 DEF CollectedAs
    <3>3. in[s].applicable = TRUE
      BY <2>3, <2>4, <2>6 DEF Plain, Good
    <3>4. gen'.health[s].status # "not_applicable"
      BY <1>0, <1>4, <2>6 DEF Scanned, Merged, Renewed, FellBack, Failed, ShownAs, Good
    <3> QED
      BY <2>4, <3>2, <3>3, <3>4 DEF r
  <2> QED
    BY <2>5, <2>6
<1> QED
  BY <1>3, <1>4

LEMMA ScanEarned ==
    ASSUME IInv, NEW in, NEW force \in BOOLEAN, Scanned(in, force)
    PROVE  StateEarned'
<1> SUFFICES ASSUME ~setup.loss
             PROVE  /\ (gen'.state = "failed") <=>
                          \A s \in Vital : \/ good'[s].items = None
                                           \/ gen'.health[s].status = "not_applicable"
                    /\ gen'.state = "complete" =>
                          \A s \in Slice : \/ Good(gen'.health[s].status)
                                           \/ s \in Flatpak /\ gen'.health[s].status = "stale"
  BY DEF Scanned, StateEarned, Vital
<1> DEFINE r == [s \in Slice |-> Resolve(s, in[s])]
           mandatory == Slice \cap (Mandatory \cup (IF "aur" \in Slice /\ r["aur"].applicable
                                                   THEN {"aur"} ELSE {}))
           counted == {s \in Slice : Counts(s, r[s])}
<1>1. \A s \in Slice : r[s] = Resolve(s, in[s])
  OBVIOUS
<1>2. gen'.state = ScanState(r)
  BY DEF Scanned
<1> HIDE DEF r
<1>3. gen'.state = IF \A s \in mandatory : ~r[s].usable THEN "failed"
                   ELSE IF \A s \in counted : Good(r[s].status) /\ r[s].health.status = "ok"
                   THEN "complete"
                   ELSE IF \E s \in counted : r[s].usable THEN "partial"
                   ELSE "failed"
  BY <1>2 DEF ScanState
<1>4. \A s \in Vital : /\ r[s].usable = (good'[s].items # None)
                       /\ r[s].applicable = (gen'.health[s].status # "not_applicable")
  BY <1>1, VitalFacts DEF Vital
<1>5. \A s \in Slice \cap Mandatory : gen'.health[s].status # "not_applicable"
  BY ScanMandatory DEF MandatoryApplies, Scanned
<1>6. \A s \in Slice : s \in mandatory <=>
          s \in Vital /\ gen'.health[s].status # "not_applicable"
  BY <1>4, <1>5 DEF Vital, Mandatory
<1>7. mandatory \subseteq Vital /\ Vital \subseteq Slice
  BY <1>6 DEF Vital
<1>8. \A s \in mandatory : s \in counted
  BY <1>4, <1>6, <1>7 DEF Counts, Vital, Mandatory, Flatpak
<1> HIDE DEF mandatory, counted
<1>9. (gen'.state = "failed") <=> \A s \in mandatory : ~r[s].usable
  BY <1>3, <1>8
<1>10. (gen'.state = "failed") <=>
          \A s \in Vital : good'[s].items = None \/ gen'.health[s].status = "not_applicable"
  <2>1. \A s \in mandatory : r[s].usable = (good'[s].items # None)
    BY <1>4, <1>7
  <2> QED
    BY <1>6, <1>7, <1>9, <2>1
<1>11. ASSUME gen'.state = "complete", NEW s \in Slice
       PROVE  \/ Good(gen'.health[s].status)
              \/ s \in Flatpak /\ gen'.health[s].status = "stale"
  <2>1. \A t \in counted : Good(r[t].status) /\ r[t].health.status = "ok"
    BY <1>3, <1>11
  <2>2. CASE in[s] = None
    <3>1. gen # None
      <4>1. ~Due(SourceOf(s), force) /\ SourceOf(s) \in Source
        BY <2>2, SourceFacts DEF Scanned, Fed, IInv, TypeOK
      <4> QED
        BY <4>1 DEF IInv, NothingYet, Due
    <3>2. gen'.health[s].status = ShownAs(s, gen.health[s].status)
      BY <2>2, <3>1 DEF Scanned, Merged, Kept, Unknown
    <3>3. /\ r[s].status = gen.health[s].status
          /\ r[s].applicable = (gen.health[s].status # "not_applicable")
          /\ r[s].health = gen.health[s]
      BY <1>1, <2>2, <3>1, CachedFacts DEF CachedAs, IInv
    <3>4. CASE s \in counted
      BY <2>1, <3>2, <3>3, <3>4 DEF ShownAs, Good
    <3>5. CASE s \notin counted
      <4>1. \/ gen.health[s].status = "not_applicable"
            \/ s \in Flatpak /\ gen.health[s].status = "missing_dependency"
        BY <3>3, <3>5 DEF counted, Counts
      <4> QED
        BY <3>2, <4>1 DEF ShownAs, Good
    <3> QED
      BY <3>4, <3>5
  <2>3. CASE in[s] # None
    <3>1. Renewed(s, in[s]) \/ FellBack(s, in[s]) \/ Failed(s, in[s])
      BY <2>3 DEF Scanned, Merged
    <3>2. in[s] \in Outcome
      BY <2>3, FedTyped DEF Scanned
    <3>3. CollectedAs(s, in[s], r[s])
      BY <1>1, <2>3, <3>2, CollectedFacts DEF IInv
    <3>4. r[s].status = in[s].status /\ r[s].applicable = in[s].applicable
      BY <3>3 DEF CollectedAs
    <3>5. CASE s \in counted
      BY <2>1, <3>1, <3>4, <3>5 DEF Renewed, FellBack, Failed
    <3>6. CASE in[s].status = "missing_dependency" /\ s \in Flatpak
      BY <3>1, <3>6 DEF Renewed, FellBack, Failed, ShownAs, Good
    <3>7. CASE in[s].status = "not_applicable"
      BY <3>1, <3>7 DEF Renewed, FellBack, Failed, Good
    <3>8. CASE s \notin counted /\ in[s].applicable = FALSE /\ in[s].status # "not_applicable"
      <4>1. s = "cisa_kev"
        BY <2>3, <3>8 DEF Scanned, Fed, Plain
      <4>2. /\ "security" \in Slice
            /\ in["security"] # None /\ in["security"].status = "error"
        BY <2>3, <3>8, <4>1, SourceFacts DEF Scanned, Fed, KevReport, IInv, TypeOK
      <4>3. Plain("security", in["security"]) /\ in["security"] \in Outcome
        BY <4>2 DEF Scanned, Fed, Plain
      <4>4. CollectedAs("security", in["security"], r["security"])
        BY <1>1, <4>2, <4>3, CollectedFacts DEF IInv
      <4>5. r["security"].status = "error" /\ r["security"].applicable = TRUE
        BY <4>2, <4>3, <4>4 DEF CollectedAs, Plain, Outcome
      <4>6. "security" \in counted
        BY <4>2, <4>5 DEF counted, Counts, Flatpak
      <4> QED
        BY <2>1, <4>5, <4>6 DEF Good
    <3>9. in[s].applicable \in BOOLEAN
      BY <3>2 DEF Outcome
    <3>10. s \notin counted => \/ in[s].applicable = FALSE
                               \/ in[s].status = "missing_dependency" /\ s \in Flatpak
      BY <3>4, <3>9 DEF counted, Counts
    <3> QED
      BY <3>5, <3>6, <3>7, <3>8, <3>10
  <2> QED
    BY <2>2, <2>3
<1> QED
  BY <1>10, <1>11

LEMMA ScanStep ==
    ASSUME IInv, NEW force \in BOOLEAN, Scan(force)
    PROVE  IInv'
<1>1. PICK in : Scanned(in, force)
  BY ScanFacts DEF IInv
<1>2. TypeOK'
  BY <1>1 DEF Scanned, IInv, TypeOK, MetaSet
<1>3. NothingYet'
  BY <1>1 DEF Scanned, NothingYet
<1> QED
  BY <1>1, <1>2, <1>3, ScanKnownGood, ScanKevEmpty, ScanMandatory, ScanCurrent, ScanEarned
  DEF IInv
-----------------------------------------------------------------------------
(***************************************************************************)
(* Time passes: the age of what is kept and the time left to it move       *)
(* together, and so do the freshness and the backoff of its source.        *)
(***************************************************************************)
LEMMA LessMore ==
    /\ \A d \in 0..Freshness : Less(d) \in 0..Freshness /\ More(d) \in 0..Freshness /\ More(d) > 0
    /\ \A d, e \in 0..Freshness : d >= e => Less(d) >= Less(e)
    /\ \A d \in 0..Freshness : Less(Freshness - d) = Freshness - More(d)
    /\ Less(0) = 0
BY TimesFacts DEF Less, More, Times

Aged ==
    /\ (gen' = None) <=> (gen = None)
    /\ gen # None =>
          /\ gen' \in GenerationOf(Slice) /\ gen'.age > 0
          /\ gen'.items = gen.items /\ gen'.keys = gen.keys /\ gen'.state = gen.state
          /\ \A s \in Slice : /\ gen'.health[s].status = gen.health[s].status
                              /\ gen'.health[s].live = gen.health[s].live
                              /\ gen'.health[s].fresh = Less(gen.health[s].fresh)
    /\ meta' \in [Source -> MetaSet]
    /\ \A n \in Source : /\ meta'[n].success = Less(meta[n].success)
                         /\ meta'[n].backoff = Less(meta[n].backoff)
    /\ good' \in [Slice -> [items : Value \cup {Empty, None}, age : 0..Freshness]]
    /\ \A s \in Slice :
          /\ good'[s].items = good[s].items
          /\ good[s].items # None => good'[s].age = More(good[s].age)
    /\ setup' = setup /\ kev' = kev /\ sound' = sound
    /\ Slice' = Slice /\ Source' = Source

LEMMA TickFacts ==
    ASSUME TypeOK, Tick
    PROVE  Aged
<1>1. setup' = setup /\ kev' = kev /\ sound' = sound /\ Slice' = Slice /\ Source' = Source
  BY DEF Tick, Slice, Source
<1>2. ASSUME gen # None
      PROVE  /\ gen' \in GenerationOf(Slice) /\ gen' # None /\ gen'.age > 0
             /\ gen'.items = gen.items /\ gen'.keys = gen.keys /\ gen'.state = gen.state
             /\ \A s \in Slice : /\ gen'.health[s].status = gen.health[s].status
                                 /\ gen'.health[s].live = gen.health[s].live
                                 /\ gen'.health[s].fresh = Less(gen.health[s].fresh)
  <2> DEFINE health == [s \in Slice |-> [gen.health[s] EXCEPT !.fresh = Less(@)]]
  <2>1. gen \in GenerationOf(Slice)
    BY <1>2 DEF TypeOK
  <2>2. gen' = [gen EXCEPT !.age = More(@), !.health = health]
    BY <1>2 DEF Tick
  <2>3. \A s \in Slice : /\ health[s] \in HealthSet
                         /\ health[s].status = gen.health[s].status
                         /\ health[s].live = gen.health[s].live
                         /\ health[s].fresh = Less(gen.health[s].fresh)
    <3> SUFFICES ASSUME NEW s \in Slice
                 PROVE  /\ health[s] \in HealthSet
                        /\ health[s].status = gen.health[s].status
                        /\ health[s].live = gen.health[s].live
                        /\ health[s].fresh = Less(gen.health[s].fresh)
      OBVIOUS
    <3>1. gen.health[s] \in HealthSet
      BY <1>2, GenerationFacts
    <3>2. Less(gen.health[s].fresh) \in 0..Freshness
      BY <3>1, LessMore DEF HealthSet
    <3> QED
      BY <3>1, <3>2 DEF HealthSet
  <2>4. health \in [Slice -> HealthSet]
    BY <2>3
  <2> HIDE DEF health
  <2>5. More(gen.age) \in 0..Freshness /\ More(gen.age) > 0
    BY <1>2, GenerationFacts, LessMore
  <2>6. /\ gen'.health = health /\ gen'.age = More(gen.age)
        /\ gen'.items = gen.items /\ gen'.keys = gen.keys /\ gen'.state = gen.state
        /\ gen' \in GenerationOf(Slice)
    BY <2>1, <2>2, <2>4, <2>5 DEF GenerationOf, HealthSet
  <2>7. gen' # None
    BY <2>6, NoneAssumption DEF TypeOK, Slice
  <2> QED
    BY <2>3, <2>5, <2>6, <2>7
<1>3. /\ meta' \in [Source -> MetaSet]
      /\ \A n \in Source : /\ meta'[n].success = Less(meta[n].success)
                           /\ meta'[n].backoff = Less(meta[n].backoff)
  <2>1. \A n \in Source : meta[n] \in MetaSet
    BY DEF TypeOK, MetaSet
  <2>2. \A n \in Source : /\ Less(meta[n].success) \in 0..Freshness
                          /\ Less(meta[n].backoff) \in 0..Freshness
    BY <2>1, LessMore DEF MetaSet
  <2>3. meta' = [n \in Source |-> [meta[n] EXCEPT !.success = Less(@), !.backoff = Less(@)]]
    BY DEF Tick
  <2> QED
    BY <2>1, <2>2, <2>3 DEF MetaSet
<1>4. /\ good' \in [Slice -> [items : Value \cup {Empty, None}, age : 0..Freshness]]
      /\ \A s \in Slice :
            /\ good'[s].items = good[s].items
            /\ good[s].items # None => good'[s].age = More(good[s].age)
  <2>1. \A s \in Slice : good[s] \in [items : Value \cup {Empty, None}, age : 0..Freshness]
    BY DEF TypeOK
  <2>2. \A s \in Slice : More(good[s].age) \in 0..Freshness
    BY <2>1, LessMore
  <2>3. good' = [s \in Slice |->
            [good[s] EXCEPT !.age = IF good[s].items # None THEN More(@) ELSE @]]
    BY DEF Tick
  <2>4. \A s \in Slice : /\ good'[s].items = good[s].items
                         /\ good[s].items # None => good'[s].age = More(good[s].age)
                         /\ good[s].items = None => good'[s].age = good[s].age
    BY <2>1, <2>3
  <2>5. \A s \in Slice : good'[s] \in [items : Value \cup {Empty, None}, age : 0..Freshness]
    BY <2>1, <2>2, <2>3
  <2> QED
    BY <2>3, <2>4, <2>5
<1>5. gen = None => gen' = None
  BY DEF Tick
<1> QED
  BY <1>1, <1>2, <1>3, <1>4, <1>5 DEF Aged

LEMMA TickStep ==
    ASSUME IInv, Tick
    PROVE  IInv'
<1>0. Aged
  BY TickFacts DEF IInv
<1>1. TypeOK'
  BY <1>0 DEF Aged, IInv, TypeOK, MetaSet
<1>2. NothingYet'
  BY <1>0, LessMore DEF Aged, IInv, NothingYet
<1>3. KnownGood' /\ KevEmpty' /\ MandatoryApplies' /\ EvidenceKept'
  BY <1>0 DEF Aged, IInv, KnownGood, KevEmpty, MandatoryApplies, EvidenceKept
<1>4. ASSUME gen' # None, NEW s \in Slice, gen'.health[s].status = "ok"
      PROVE  /\ good'[s].items # None
             /\ gen'.health[s].live
             /\ gen'.health[s].fresh = Freshness - good'[s].age
             /\ gen'.health[s].fresh >= meta'[SourceOf(s)].success
             /\ gen'.health[s].fresh >= meta'[SourceOf(s)].backoff
  <2>1. gen # None /\ gen.health[s].status = "ok"
    BY <1>0, <1>4 DEF Aged
  <2>2. /\ good[s].items # None
        /\ gen.health[s].live
        /\ gen.health[s].fresh = Freshness - good[s].age
        /\ gen.health[s].fresh >= meta[SourceOf(s)].success
        /\ gen.health[s].fresh >= meta[SourceOf(s)].backoff
    BY <2>1 DEF IInv, SlicesCurrent, OkCovered
  <2>3. SourceOf(s) \in Source
    BY SourceFacts DEF IInv, TypeOK
  <2>4. /\ good[s].age \in 0..Freshness
        /\ gen.health[s].fresh \in 0..Freshness
        /\ meta[SourceOf(s)].success \in 0..Freshness
        /\ meta[SourceOf(s)].backoff \in 0..Freshness
    BY <2>1, <2>3, GenerationFacts DEF IInv, TypeOK
  <2>5. /\ Less(gen.health[s].fresh) = Freshness - More(good[s].age)
        /\ Less(gen.health[s].fresh) >= Less(meta[SourceOf(s)].success)
        /\ Less(gen.health[s].fresh) >= Less(meta[SourceOf(s)].backoff)
    BY <2>2, <2>4, LessMore
  <2> QED
    BY <1>0, <2>1, <2>2, <2>3, <2>5 DEF Aged
<1>5. SlicesCurrent' /\ OkCovered'
  BY <1>0, <1>4 DEF Aged, SlicesCurrent, OkCovered
<1>6. NoneExpired'
  BY <1>0 DEF Aged, NoneExpired
<1>7. StateEarned'
  BY <1>0 DEF Aged, IInv, StateEarned
<1> QED
  BY <1>1, <1>2, <1>3, <1>5, <1>6, <1>7 DEF IInv

\* The other steps.
LEMMA LoseCacheStep ==
    ASSUME IInv, LoseCache
    PROVE  IInv'
<1>1. /\ gen' = None /\ setup' = setup /\ setup.loss /\ meta' = meta /\ kev' = kev /\ sound' = sound
      /\ Slice' = Slice /\ Source' = Source
  BY DEF LoseCache, Slice, Source
<1>2. /\ good' \in [Slice -> [items : Value \cup {Empty, None}, age : 0..Freshness]]
      /\ \A s \in Slice : good'[s].items = None
  BY TimesFacts DEF LoseCache
<1>3. TypeOK'
  BY <1>1, <1>2 DEF IInv, TypeOK
<1> QED
  BY <1>1, <1>2, <1>3
  DEF IInv, NothingYet, KnownGood, KevEmpty, MandatoryApplies, OkCovered, EvidenceKept,
      SlicesCurrent, NoneExpired, StateEarned

LEMMA SettingStep ==
    ASSUME IInv, ToggleKev \/ Settle \/ UNCHANGED vars
    PROVE  IInv'
<1>1. UNCHANGED <<setup, gen, meta, good>>
  BY DEF ToggleKev, Settle, vars
<1>2. Slice' = Slice /\ Source' = Source
  BY <1>1 DEF Slice, Source
<1>3. kev' \in BOOLEAN /\ sound' \in BOOLEAN
  BY DEF ToggleKev, Settle, vars, IInv, TypeOK
<1>4. TypeOK'
  BY <1>1, <1>2, <1>3 DEF IInv, TypeOK
<1>5. NothingYet' /\ KnownGood' /\ KevEmpty' /\ MandatoryApplies'
  BY <1>1, <1>2 DEF IInv, NothingYet, KnownGood, KevEmpty, MandatoryApplies
<1>6. OkCovered' /\ EvidenceKept' /\ SlicesCurrent' /\ NoneExpired'
  BY <1>1, <1>2 DEF IInv, OkCovered, EvidenceKept, SlicesCurrent, NoneExpired
<1>7. StateEarned'
  BY <1>1, <1>2 DEF IInv, StateEarned
<1> QED
  BY <1>4, <1>5, <1>6, <1>7 DEF IInv

LEMMA InitIInv ==
    ASSUME Init
    PROVE  IInv
<1>1. /\ gen = None
      /\ \A s \in Slice : good[s].items = None
      /\ \A n \in Source : meta[n].success = 0 /\ meta[n].backoff = 0
  BY DEF Init
<1>2. /\ meta \in [Source -> MetaSet]
      /\ good \in [Slice -> [items : Value \cup {Empty, None}, age : 0..Freshness]]
  BY TimesFacts, EvidenceAssumption DEF Init, MetaSet
<1>3. kev \in BOOLEAN /\ sound \in BOOLEAN
  BY DEF Init
<1>4. TypeOK
  BY <1>1, <1>2, <1>3 DEF Init, TypeOK, MetaSet
<1> QED
  BY <1>1, <1>4
  DEF IInv, NothingYet, KnownGood, KevEmpty, MandatoryApplies, OkCovered, EvidenceKept,
      SlicesCurrent, NoneExpired, StateEarned

(***************************************************************************)
(* What the snapshot says of a source as a whole is no better than what it *)
(* says of its slices.                                                     *)
(***************************************************************************)
LEMMA SourcesCurrent ==
    ASSUME TypeOK, SlicesCurrent
    PROVE  OkIsCurrent
<1> SUFFICES ASSUME gen # None, NEW n \in Source, SourceHealth(n).status = "ok"
             PROVE  /\ SourceHealth(n).live
                    /\ \E s \in SlicesOf(n) : gen.health[s].status = "ok"
                    /\ \A s \in SlicesOf(n) :
                          /\ gen.health[s].status # "stale"
                          /\ SourceHealth(n).fresh <= gen.health[s].fresh
  BY DEF OkIsCurrent, SlicesCurrent
<1>1. \A s \in Slice : gen.health[s] \in HealthSet /\ gen.health[s].fresh \in Nat
  BY GenerationFacts, TimesFacts DEF Times
<1>2. CASE n # "flatpak"
  <2>1. n \in Slice /\ SlicesOf(n) = {n}
    BY <1>2, SourceFacts DEF TypeOK
  <2>2. SourceHealth(n) = gen.health[n]
    BY <1>2 DEF SourceHealth
  <2>3. gen.health[n].live
    BY <2>1, <2>2 DEF SlicesCurrent
  <2>4. gen.health[n].fresh <= gen.health[n].fresh
    BY <1>1, <2>1
  <2> QED
    BY <2>1, <2>2, <2>3, <2>4
<1>3. CASE n = "flatpak"
  <2> DEFINE user == gen.health["flatpak:user"]
             system == gen.health["flatpak:system"]
  <2>1. SlicesOf(n) = {"flatpak:user", "flatpak:system"} /\ SlicesOf(n) \subseteq Slice
    BY <1>3, SourceFacts DEF TypeOK, Flatpak, SlicesOf
  <2>2. SourceHealth(n) = Health(FlatpakStatus(user.status, system.status),
                                 "stale" \notin {user.status, system.status},
                                 IF user.fresh < system.fresh THEN user.fresh ELSE system.fresh)
    BY <1>3 DEF SourceHealth
  <2>3. user.fresh \in Nat /\ system.fresh \in Nat
    BY <1>1, <2>1
  <2> HIDE DEF user, system
  <2>4. /\ SourceHealth(n).status = FlatpakStatus(user.status, system.status)
        /\ SourceHealth(n).live = ("stale" \notin {user.status, system.status})
        /\ SourceHealth(n).fresh = IF user.fresh < system.fresh THEN user.fresh ELSE system.fresh
    BY <2>2 DEF Health
  <2>5. /\ user.status # "stale" /\ system.status # "stale"
        /\ user.status = "ok" \/ system.status = "ok"
    BY <2>4 DEF FlatpakStatus
  <2>6. SourceHealth(n).fresh <= user.fresh /\ SourceHealth(n).fresh <= system.fresh
    BY <2>3, <2>4
  <2>7. SourceHealth(n).live
    BY <2>4, <2>5
  <2>8. \E s \in SlicesOf(n) : gen.health[s].status = "ok"
    BY <2>1, <2>5 DEF user, system
  <2>9. \A s \in SlicesOf(n) : /\ gen.health[s].status # "stale"
                               /\ SourceHealth(n).fresh <= gen.health[s].fresh
    BY <2>1, <2>5, <2>6 DEF user, system
  <2> QED
    BY <2>7, <2>8, <2>9
<1> QED
  BY <1>2, <1>3
-----------------------------------------------------------------------------
(***************************************************************************)
(* The inductive invariant of a scan's evidence: what was collected is     *)
(* known good, and what is "ok" outlives whatever keeps its source from    *)
(* being collected again.                                                  *)
(***************************************************************************)
THEOREM EvidenceInvariant == Spec => []IInv
<1>1. Init => IInv
  BY InitIInv
<1>2. IInv /\ [Next]_vars => IInv'
  BY ScanStep, LoseCacheStep, SettingStep, TickStep DEF Next
<1> QED
  BY <1>1, <1>2, PTL DEF Spec

\* The generation and the retry metadata stay well typed.
THEOREM EvidenceTyped == Spec => []TypeOK
<1>1. IInv => TypeOK
  BY DEF IInv
<1> QED
  BY <1>1, EvidenceInvariant, PTL

\* No failure, backoff or skipped scan loses what was collected last (resolve,
\* last_good_keys).
THEOREM EvidenceNeverLost == Spec => []EvidenceKept
<1>1. IInv => EvidenceKept
  BY DEF IInv
<1> QED
  BY <1>1, EvidenceInvariant, PTL

\* Nothing that is passed on becomes fresh again, for a slice or for a source
\* as a whole (resolve, source_healths).
THEOREM NothingPromoted == Spec => []OkIsCurrent
<1>1. IInv => OkIsCurrent
  BY SourcesCurrent DEF IInv
<1> QED
  BY <1>1, EvidenceInvariant, PTL

\* No backoff outlasts what it holds back, whatever the delays up to FRESHNESS
\* (due, _next_metadata).
THEOREM BackoffNeverOutlasts == Spec => []NoneExpired
<1>1. IInv => NoneExpired
  BY DEF IInv
<1> QED
  BY <1>1, EvidenceInvariant, PTL

\* A scan is called failed, partial or complete for what was collected
\* (scan_state).
THEOREM StatesEarned == Spec => []StateEarned
<1>1. IInv => StateEarned
  BY DEF IInv
<1> QED
  BY <1>1, EvidenceInvariant, PTL
=============================================================================
