---------------------------- MODULE PolicyProofs ----------------------------
(***************************************************************************)
(* A scan announces only what is so, whatever the packages, advisories,    *)
(* settings and the order of events.  The argument: the items and findings *)
(* of the last generation are true of the machine they were collected      *)
(* from, an item that is not marked as last good was collected by the scan *)
(* that committed the generation, and as long as a source is ok the time   *)
(* left of its freshness is what its age leaves of it.                     *)
(***************************************************************************)
EXTENDS WatchPolicy, TLAPS

Item == [pkg : Package, inst : Version, cand : Version, prov : Provenance]
Finding == [pkg : Package, adv : Advisory, fixed : Version \cup {None}, cves : Cves,
            status : ArchStatus, prov : Provenance]
Parts(Evidence) ==
    [status : {"ok", "stale", "failed"}, prov : Provenance, left : Int,
     items : SUBSET Evidence, of : Machine \cup {None}, age : Int \cup {None}, now : BOOLEAN]

\* An update and a finding that hold of machine m.
UpdateOf(i, m) ==
    /\ m \in Machine
    /\ m.inst[i.pkg] \in 1..(m.repo[i.pkg] - 1)
    /\ i.inst = m.inst[i.pkg] /\ i.cand = m.repo[i.pkg]

FindingOf(f, m) ==
    /\ m \in Machine
    /\ f.pkg \in Affected[f.adv] /\ m.inst[f.pkg] # 0
    /\ f.fixed = m.adv[f.adv].fixed /\ f.cves = m.adv[f.adv].cves
    /\ f.status = m.adv[f.adv].status
    /\ Vulnerable(m.inst[f.pkg], m.adv[f.adv])

\* The clock of a source that is ok: the time left is what the age leaves.
Timed(part) ==
    part.status = "ok" =>
        /\ part.left \in -1..Freshness
        /\ part.age \in Int
        /\ part.left >= 0 => part.age = Freshness - part.left

ArchOK(part) ==
    /\ part \in Parts(Item)
    /\ Timed(part)
    /\ \A i \in part.items : UpdateOf(i, part.of) /\ (i.prov # "last_good" => part.now)

SecurityOK(part) ==
    /\ part \in Parts(Finding)
    /\ Timed(part)
    /\ \A f \in part.items : FindingOf(f, part.of)

CollectedOK(o) ==
    \/ o = None
    \/ o = Failed
    \/ \E m \in Machine :
          o = [ok |-> TRUE, prov |-> "live", items |-> Updates(m), of |-> m]

Watch ==
    [mode : {"permanent"}, base : {None}, armed : {FALSE}, condition : {None}]
    \cup [mode : {"temporary"}, base : Version, armed : {TRUE},
          condition : Condition \cup {None}]

Committed == scan # None /\ scan.at = "committed"

SnapOK ==
    /\ snap \in [arch : Parts(Item), security : Parts(Finding)]
    /\ ArchOK(snap.arch) /\ SecurityOK(snap.security)

SnapTrue == snap # None \/ Committed => SnapOK

IndInv ==
    /\ world \in Machine
    /\ watches \in [Package -> Watch \cup {None}]
    /\ SnapTrue
    /\ scan # None /\ scan.at = "collecting" => CollectedOK(scan.arch)
-----------------------------------------------------------------------------
\* What the sources report is true of the machine: the updates.
LEMMA UpdatesTrue ==
    ASSUME NEW m \in Machine
    PROVE  /\ Updates(m) \in SUBSET Item
           /\ \A i \in Updates(m) : UpdateOf(i, m)
  BY PolicyAssumption DEF Updates, Item, UpdateOf, Machine, Version, Provenance

\* And the findings.
LEMMA CorrelateTrue ==
    ASSUME NEW m \in Machine, NEW prov \in Provenance
    PROVE  /\ Correlate(m, prov) \in SUBSET Finding
           /\ \A f \in Correlate(m, prov) : FindingOf(f, m)
<1>1. ASSUME NEW f \in Correlate(m, prov)
      PROVE  f \in Finding /\ FindingOf(f, m)
  <2>1. PICK r \in Package \X Advisory :
            /\ r[1] \in Affected[r[2]] /\ m.inst[r[1]] # 0
            /\ Vulnerable(m.inst[r[1]], m.adv[r[2]])
            /\ f = [pkg |-> r[1], adv |-> r[2], fixed |-> m.adv[r[2]].fixed,
                    cves |-> m.adv[r[2]].cves, status |-> m.adv[r[2]].status, prov |-> prov]
    BY <1>1 DEF Correlate
  <2>2. r[1] \in Package /\ r[2] \in Advisory /\ m.adv[r[2]] \in Record
    BY <2>1 DEF Machine
  <2>3. f \in Finding
    BY <2>1, <2>2 DEF Finding, Record
  <2>4. FindingOf(f, m)
    BY <2>1, <2>2 DEF FindingOf
  <2> QED  BY <2>3, <2>4
<1> QED  BY <1>1

\* A source resolves to evidence that is as true as what it is resolved from: Arch.
LEMMA ResolveArch ==
    ASSUME NEW part, ArchOK(part), NEW o, CollectedOK(o)
    PROVE  ArchOK(Resolve(part, o, MarkLastGood(part)))
<1> DEFINE new == Resolve(part, o, MarkLastGood(part))
<1>1. /\ MarkLastGood(part) \in SUBSET Item
      /\ \A i \in MarkLastGood(part) : UpdateOf(i, part.of) /\ i.prov = "last_good"
  BY DEF MarkLastGood, ArchOK, Parts, Item, UpdateOf, Provenance
<1>2. CASE o = None
  <2>1. new = [part EXCEPT !.items = MarkLastGood(part), !.now = FALSE]
    BY <1>2 DEF Resolve, Carry
  <2> QED  BY <1>1, <2>1 DEF ArchOK, Parts, Timed
<1>3. CASE o # None /\ o = Failed
  <2>1. CASE part.age # None
    <3>1. new = [part EXCEPT !.status = "stale", !.prov = "last_good",
                             !.items = MarkLastGood(part), !.now = FALSE]
      BY <1>3, <2>1 DEF Resolve, Failed
    <3> QED  BY <1>1, <3>1 DEF ArchOK, Parts, Timed, Provenance
  <2>2. CASE part.age = None
    <3>1. new = Nothing
      BY <1>3, <2>2 DEF Resolve, Failed
    <3> QED  BY <3>1 DEF Nothing, Part, ArchOK, Parts, Timed, Provenance
  <2> QED  BY <2>1, <2>2
<1>4. CASE /\ o # None
           /\ \E m \in Machine :
                 o = [ok |-> TRUE, prov |-> "live", items |-> Updates(m), of |-> m]
  <2>1. PICK m \in Machine :
            o = [ok |-> TRUE, prov |-> "live", items |-> Updates(m), of |-> m]
    BY <1>4
  <2>2. new = [status |-> "ok", prov |-> "live", left |-> Freshness, items |-> Updates(m),
               of |-> m, age |-> 0, now |-> TRUE]
    BY <1>4, <2>1 DEF Resolve, Part
  <2> QED  BY <2>2, UpdatesTrue, PolicyAssumption DEF ArchOK, Parts, Timed, Provenance
<1> QED  BY <1>2, <1>3, <1>4 DEF CollectedOK

\* The same for the security source.
LEMMA ResolveSecurity ==
    ASSUME NEW part, SecurityOK(part), world \in Machine,
           NEW o \in SecurityOutcomes \cup {None}
    PROVE  SecurityOK(Resolve(part, o, part.items))
<1> DEFINE new == Resolve(part, o, part.items)
<1>2. CASE o = None
  <2>1. new = [part EXCEPT !.items = part.items, !.now = FALSE]
    BY <1>2 DEF Resolve, Carry
  <2> QED  BY <2>1 DEF SecurityOK, Parts, Timed
<1>3. CASE o # None /\ o = Failed
  <2>1. CASE part.age # None
    <3>1. new = [part EXCEPT !.status = "stale", !.prov = "last_good",
                             !.items = part.items, !.now = FALSE]
      BY <1>3, <2>1 DEF Resolve, Failed
    <3> QED  BY <3>1 DEF SecurityOK, Parts, Timed, Provenance
  <2>2. CASE part.age = None
    <3>1. new = Nothing
      BY <1>3, <2>2 DEF Resolve, Failed
    <3> QED  BY <3>1 DEF Nothing, Part, SecurityOK, Parts, Timed, Provenance
  <2> QED  BY <2>1, <2>2
<1>4. CASE o # None /\ o # Failed
  <2>1. PICK prov \in {"live", "fallback"} :
            o = [ok |-> TRUE, prov |-> prov, items |-> Correlate(world, prov), of |-> world]
    BY <1>4 DEF SecurityOutcomes, Current
  <2>2. new = [status |-> "ok", prov |-> prov, left |-> Freshness,
               items |-> Correlate(world, prov), of |-> world, age |-> 0, now |-> TRUE]
    BY <1>4, <2>1 DEF Resolve, Part
  <2>3. prov \in Provenance
    BY DEF Provenance
  <2> QED  BY <2>2, <2>3, CorrelateTrue, PolicyAssumption DEF SecurityOK, Parts, Timed
<1> QED  BY <1>2, <1>3, <1>4

\* Growing older keeps evidence what it is.
LEMMA OlderOK ==
    ASSUME NEW part
    PROVE  /\ ArchOK(part) => ArchOK(Older(part))
           /\ SecurityOK(part) => SecurityOK(Older(part))
<1>1. ASSUME NEW E, part \in Parts(E), Timed(part)
      PROVE  /\ Older(part) \in Parts(E) /\ Timed(Older(part))
             /\ Older(part).items = part.items /\ Older(part).of = part.of
             /\ Older(part).now = part.now
  <2> DEFINE left == IF part.left = -1 THEN -1 ELSE part.left - 1
             age == IF part.age \in {None, Freshness + 1} THEN part.age ELSE part.age + 1
  <2>1. Older(part) = [part EXCEPT !.left = left, !.age = age]
    BY <1>1 DEF Older, Parts
  <2>2. left \in Int /\ age \in Int \cup {None}
    BY <1>1, PolicyAssumption DEF Parts
  <2>3. /\ Older(part) \in Parts(E)
        /\ Older(part).status = part.status /\ Older(part).left = left
        /\ Older(part).age = age
        /\ Older(part).items = part.items /\ Older(part).of = part.of
        /\ Older(part).now = part.now
    <3> HIDE DEF left, age
    <3> QED  BY <1>1, <2>1, <2>2 DEF Parts
  <2>4. Timed(Older(part))
    BY <1>1, <2>3, PolicyAssumption DEF Timed, Parts
  <2> QED  BY <2>3, <2>4
<1>2. ASSUME ArchOK(part) PROVE ArchOK(Older(part))
  BY <1>1, <1>2 DEF ArchOK
<1>3. ASSUME SecurityOK(part) PROVE SecurityOK(Older(part))
  BY <1>1, <1>3 DEF SecurityOK
<1> QED  BY <1>2, <1>3
-----------------------------------------------------------------------------
\* The machine stays a machine, whatever happens to it.
LEMMA ChangeInv ==
    ASSUME IndInv, NEW m \in Machine, Change(m)
    PROVE  IndInv'
  BY DEF Change, IndInv, SnapTrue, SnapOK, Committed

\* One lemma for each step of a scan.
LEMMA CollectArchInv ==
    ASSUME IndInv, CollectArch
    PROVE  IndInv'
<1>1. PICK o \in ArchOutcomes \cup {None} : scan' = [at |-> "collecting", arch |-> o]
  BY DEF CollectArch
<1>2. CollectedOK(o)
  BY <1>1 DEF ArchOutcomes, CollectedOK, Current, IndInv
<1>3. (scan # None /\ scan.at = "collecting" => CollectedOK(scan.arch))'
  BY <1>1, <1>2 DEF CollectedOK, Failed, Updates
<1> QED  BY <1>1, <1>3 DEF IndInv, SnapTrue, SnapOK, Committed, CollectArch

\* The commit: both sources are resolved against the previous generation.
LEMMA CollectSecurityInv ==
    ASSUME IndInv, CollectSecurity
    PROVE  IndInv'
<1>1. PICK o \in SecurityOutcomes \cup {None} :
          snap' = [arch |-> Resolve(Previous.arch, scan.arch, MarkLastGood(Previous.arch)),
                   security |-> Resolve(Previous.security, o, Previous.security.items)]
  BY DEF CollectSecurity
<1>2. ArchOK(Nothing) /\ SecurityOK(Nothing)
  BY DEF Nothing, Part, ArchOK, SecurityOK, Parts, Timed, Provenance
<1>3. ArchOK(Previous.arch) /\ SecurityOK(Previous.security)
  BY <1>2 DEF Previous, IndInv, SnapTrue, SnapOK
<1>4. CollectedOK(scan.arch) /\ world \in Machine
  BY DEF IndInv, CollectSecurity
<1>5. ArchOK(snap'.arch) /\ SecurityOK(snap'.security)
  BY <1>1, <1>3, <1>4, ResolveArch, ResolveSecurity
<1>6. snap' \in [arch : Parts(Item), security : Parts(Finding)]
  BY <1>1, <1>5 DEF ArchOK, SecurityOK
<1>7. SnapTrue'
  BY <1>5, <1>6 DEF SnapTrue, SnapOK, ArchOK, SecurityOK, Timed, UpdateOf, FindingOf, Vulnerable
<1>8. (scan # None /\ scan.at = "collecting" => CollectedOK(scan.arch))'
  BY DEF CollectSecurity
<1> QED  BY <1>7, <1>8 DEF IndInv, CollectSecurity

\* Dispatch, its end and a helper's death leave the evidence alone.
LEMMA EndInv ==
    ASSUME IndInv, Dispatch \/ Respond \/ Die \/ Settle
    PROVE  IndInv'
  BY DEF Dispatch, Respond, Die, Settle, IndInv, SnapTrue, SnapOK, Committed

\* The star writes watches that have their type.
LEMMA StarringInv ==
    ASSUME IndInv, NEW p \in Package, Starring(p)
    PROVE  IndInv'
<1>1. UNCHANGED <<world, snap, scan>>
  BY DEF Starring, StarTemporary, StarPermanent, StarOff
<1>2. watches' \in [Package -> Watch \cup {None}]
  <2>1. ASSUME NEW w \in Wish, StarTemporary(p, w[2]), w[1] = p
        PROVE  watches' \in [Package -> Watch \cup {None}]
    <3>1. PICK i \in Listed(p) :
              watches' = [watches EXCEPT ![p] = [mode |-> "temporary", base |-> i.inst,
                                                 armed |-> TRUE, condition |-> w[2]]]
      BY <2>1 DEF StarTemporary
    <3>2. i.inst \in Version
      BY <3>1 DEF Listed, IndInv, SnapTrue, SnapOK, Parts, Item
    <3>3. w[2] \in Condition \cup {None}
      BY <2>1, PolicyAssumption
    <3>4. [mode |-> "temporary", base |-> i.inst, armed |-> TRUE, condition |-> w[2]] \in Watch
      BY <3>2, <3>3 DEF Watch
    <3> QED  BY <3>1, <3>4 DEF IndInv
  <2>2. CASE StarPermanent(p)
    BY <2>2 DEF StarPermanent, IndInv, Watch
  <2>3. CASE StarOff(p)
    BY <2>3 DEF StarOff, IndInv
  <2> QED  BY <2>1, <2>2, <2>3 DEF Starring
<1> QED  BY <1>1, <1>2 DEF IndInv, SnapTrue, SnapOK, Committed

\* Time passes.
LEMMA TickInv ==
    ASSUME IndInv, Tick
    PROVE  IndInv'
<1>1. snap # None /\ snap' = [arch |-> Older(snap.arch), security |-> Older(snap.security)]
  BY DEF Tick
<1>2. ArchOK(snap'.arch) /\ SecurityOK(snap'.security)
  BY <1>1, OlderOK DEF IndInv, SnapTrue, SnapOK
<1>3. snap' \in [arch : Parts(Item), security : Parts(Finding)]
  BY <1>1, <1>2 DEF ArchOK, SecurityOK
<1>4. SnapTrue'
  BY <1>2, <1>3 DEF SnapTrue, SnapOK, ArchOK, SecurityOK, Timed, UpdateOf, FindingOf, Vulnerable
<1> QED  BY <1>4 DEF IndInv, Tick

\* The machine's own changes.
LEMMA EnvironmentInv ==
    ASSUME IndInv, Environment
    PROVE  IndInv'
<1>0. world \in Machine
  BY DEF IndInv
<1>1. ASSUME NEW p \in Package, Release(p) PROVE IndInv'
  <2>1. PICK v \in (world.repo[p] + 1)..MaxVersion : Change([world EXCEPT !.repo[p] = v])
    BY <1>1 DEF Release
  <2>2. [world EXCEPT !.repo[p] = v] \in Machine
    BY <1>0, <2>1, PolicyAssumption DEF Machine, Version
  <2> QED  BY <2>1, <2>2, ChangeInv
<1>2. ASSUME NEW p \in Package, Upgrade(p) PROVE IndInv'
  <2>1. [world EXCEPT !.inst[p] = world.repo[p]] \in Machine
    BY <1>0, PolicyAssumption DEF Machine, Version
  <2> QED  BY <1>2, <2>1, ChangeInv DEF Upgrade
<1>3. ASSUME NEW p \in Package, Remove(p) PROVE IndInv'
  <2>1. [world EXCEPT !.inst[p] = 0] \in Machine
    BY <1>0, PolicyAssumption DEF Machine, Version
  <2> QED  BY <1>3, <2>1, ChangeInv DEF Remove
<1>4. ASSUME NEW a \in Advisory, Publish(a) PROVE IndInv'
  <2>1. PICK r \in Report : Change([world EXCEPT !.adv[a] = r])
    BY <1>4 DEF Publish
  <2>2. [world EXCEPT !.adv[a] = r] \in Machine
    BY <1>0, PolicyAssumption DEF Machine
  <2> QED  BY <2>1, <2>2, ChangeInv
<1> QED  BY <1>1, <1>2, <1>3, <1>4, EndInv, TickInv DEF Environment

\* The invariant holds in every state.
LEMMA Inductive == Spec => []IndInv
<1>1. Init => IndInv
  BY PolicyAssumption DEF Init, IndInv, SnapTrue, Committed
<1>2. IndInv /\ [Next]_vars => IndInv'
  <2> SUFFICES ASSUME IndInv, [Next]_vars PROVE IndInv'
    OBVIOUS
  <2>1. CASE UNCHANGED vars
    BY <2>1 DEF vars, IndInv, SnapTrue, SnapOK, Committed
  <2> QED
    BY <2>1, CollectArchInv, CollectSecurityInv, EndInv, StarringInv, EnvironmentInv
       DEF Next, Scanning
<1> QED  BY <1>1, <1>2, PTL DEF Spec
-----------------------------------------------------------------------------
\* A watched update that is announced was seen by the scan that announces it.
LEMMA WatchEarned ==
    ASSUME IndInv, SnapOK, NEW x \in WatchAlerts
    PROVE  Earned(x)
<1>1. PICK i \in snap.arch.items :
          /\ settings.permanent /\ FreshSource(snap.arch)
          /\ watches[i.pkg] # None /\ watches[i.pkg].mode = "permanent"
          /\ i.prov # "last_good"
          /\ x = [kind |-> "watch", pkg |-> i.pkg, inst |-> i.inst, cand |-> i.cand]
  BY DEF WatchAlerts, CurrentProvenance
<1>2. ArchOK(snap.arch)
  BY DEF SnapOK
<1>3. UpdateOf(i, snap.arch.of) /\ snap.arch.now
  BY <1>1, <1>2 DEF ArchOK
<1>4. snap.arch.age \in 0..Freshness
  BY <1>1, <1>2, PolicyAssumption DEF FreshSource, FreshStatus, ArchOK, Timed
<1>5. Seen(x)
  BY <1>1, <1>3, <1>4 DEF Seen, UpdateOf
<1> QED  BY <1>1, <1>5 DEF Earned

\* A finding of a fresh source that says "fixed" confirms an alert about it.
LEMMA FindingConfirms ==
    ASSUME IndInv, SnapOK, NEW f \in snap.security.items, FreshStatus(snap.security),
           settings.security, Notifiable(f.adv), f.status = "fixed", f.fixed # None,
           NEW x, x.pkg = f.pkg, x.adv = f.adv, x.fixed = f.fixed, x.cves = f.cves
    PROVE  Confirmed(x)
<1>1. SecurityOK(snap.security)
  BY DEF SnapOK
<1>2. f \in Finding /\ FindingOf(f, snap.security.of)
  BY <1>1 DEF SecurityOK, Parts
<1> DEFINE m == snap.security.of
<1>3. m \in Machine /\ m.adv[f.adv] \in Record /\ m.inst[f.pkg] \in 0..MaxVersion
  BY <1>2 DEF FindingOf, Finding, Machine
<1>4. Read(x.pkg, x.adv) = [status |-> "fixed", fixed |-> x.fixed, cves |-> x.cves]
  BY <1>2, <1>3 DEF Read, FindingOf, Record
<1>5. f.fixed \in Version /\ m.inst[f.pkg] # 0 /\ m.inst[f.pkg] < f.fixed
  BY <1>2, <1>3 DEF Finding, FindingOf, Vulnerable
<1>6. m.inst[x.pkg] \in 1..(x.fixed - 1)
  BY <1>3, <1>5, PolicyAssumption DEF Version
<1>7. snap.security.age \in 0..Freshness
  BY <1>1, PolicyAssumption DEF FreshStatus, SecurityOK, Timed
<1> QED  BY <1>2, <1>4, <1>6, <1>7 DEF Confirmed, FindingOf

\* A general alert is confirmed, and no condition of its package claims it.
LEMMA SecurityEarned ==
    ASSUME IndInv, SnapOK, NEW x \in SecurityAlerts
    PROVE  Earned(x)
<1>1. PICK f \in snap.security.items :
          /\ settings.security /\ FreshSource(snap.security)
          /\ f.adv \notin OwnedFindings /\ f.fixed # None
          /\ f.status = "fixed" /\ Notifiable(f.adv)
          /\ x = [kind |-> "security", pkg |-> f.pkg, adv |-> f.adv, fixed |-> f.fixed,
                  cves |-> f.cves]
  BY DEF SecurityAlerts
<1>2. Confirmed(x)
  BY <1>1, FindingConfirms DEF FreshSource
<1>3. f.pkg \in Package
  BY DEF SnapOK, Parts, Finding
<1>4. ASSUME Claims(f.pkg, x) PROVE FALSE
  <2>1. f.pkg \in Conditional
    BY <1>3, <1>4 DEF Claims, Conditional
  <2>2. watches[f.pkg].condition = [adv |-> f.adv, fixed |-> f.fixed, cves |-> f.cves]
    BY <1>1, <1>4 DEF Claims
  <2>3. watches[f.pkg].condition # None
    <3>1. f \in Finding
      BY DEF SnapOK, Parts
    <3>2. [adv |-> f.adv, fixed |-> f.fixed, cves |-> f.cves] \in Condition
      BY <1>1, <3>1 DEF Finding, Condition
    <3> QED  BY <2>2, <3>2, PolicyAssumption
  <2>4. f \in MatchingFindings(f.pkg)
    BY <2>2, <2>3 DEF MatchingFindings
  <2> QED  BY <1>1, <2>1, <2>4 DEF OwnedFindings
<1> QED  BY <1>1, <1>2, <1>4 DEF Earned

\* A conditional alert has its candidate, its finding and its condition.
LEMMA ConditionEarned ==
    ASSUME IndInv, SnapOK, NEW broken, NEW x \in ConditionalAlerts(broken)
    PROVE  Earned(x)
<1>1. PICK i \in snap.arch.items :
          /\ settings.security
          /\ \A part \in {snap.arch, snap.security} : part.prov = "live" /\ FreshStatus(part)
          /\ i.pkg \in Conditional /\ i.prov = "live"
          /\ \E f \in MatchingFindings(i.pkg) :
                 f.status = "fixed" /\ f.prov = "live" /\ Notifiable(f.adv)
          /\ i.cand >= watches[i.pkg].condition.fixed
          /\ x = [kind |-> "condition", pkg |-> i.pkg, adv |-> watches[i.pkg].condition.adv,
                  fixed |-> watches[i.pkg].condition.fixed,
                  cves |-> watches[i.pkg].condition.cves, cand |-> i.cand]
  BY DEF ConditionalAlerts, ConditionalAlert, LiveSource, Live
<1>2. PICK f \in MatchingFindings(i.pkg) : f.status = "fixed" /\ Notifiable(f.adv)
  BY <1>1
<1>3. /\ f \in snap.security.items /\ f.pkg = i.pkg
      /\ f.adv = x.adv /\ f.fixed = x.fixed /\ f.cves = x.cves
      /\ watches[i.pkg].condition # None
  BY <1>1, <1>2 DEF MatchingFindings
<1>4. watches[i.pkg] \in Watch /\ watches[i.pkg].mode = "temporary" /\ watches[i.pkg] # None
  BY <1>1 DEF Conditional, IndInv
<1>5. watches[i.pkg].condition \in Condition
  BY <1>3, <1>4 DEF Watch
<1>6. Claims(x.pkg, x)
  BY <1>1, <1>4, <1>5 DEF Claims, Condition
<1>7. Confirmed(x)
  <2>1. f.fixed # None
    BY <1>1, <1>3, <1>5, PolicyAssumption DEF Condition, Version
  <2> QED  BY <1>1, <1>2, <1>3, <2>1, FindingConfirms
<1>8. ArchOK(snap.arch)
  BY DEF SnapOK
<1>9. UpdateOf(i, snap.arch.of) /\ snap.arch.now
  BY <1>1, <1>8 DEF ArchOK
<1>10. snap.arch.age \in 0..Freshness
  BY <1>1, <1>8, PolicyAssumption DEF FreshStatus, ArchOK, Timed
<1>11. Seen(x)
  BY <1>1, <1>9, <1>10 DEF Seen, UpdateOf
<1> QED  BY <1>1, <1>6, <1>7, <1>11 DEF Earned

(***************************************************************************)
(* A scan announces only what is so: for any number of packages and        *)
(* advisories, any settings, any freshness and any order in which the      *)
(* machine, the watches and the sources change, every candidate of         *)
(* notification_candidates is backed by the evidence the README asks of it.*)
(***************************************************************************)
THEOREM OnlyEarnedAlerts == Spec => AlertsEarned
<1>1. IndInv /\ [Next]_vars => [\A x \in alerts' \ alerts : Earned(x)]_vars
  <2> SUFFICES ASSUME IndInv, Next, NEW x \in alerts' \ alerts
               PROVE  Earned(x)
    OBVIOUS
  <2>1. CASE Dispatch
    <3>1. SnapOK
      BY <2>1 DEF Dispatch, IndInv, SnapTrue, Committed
    <3>2. PICK broken : alerts' = WatchAlerts \cup SecurityAlerts \cup ConditionalAlerts(broken)
      BY <2>1 DEF Dispatch
    <3> QED  BY <3>1, <3>2, WatchEarned, SecurityEarned, ConditionEarned
  <2>2. CASE ~Dispatch
    BY <2>2 DEF Next, Scanning, CollectArch, CollectSecurity, Respond, Die, Starring,
                StarTemporary, StarPermanent, StarOff, Environment, Release, Upgrade, Remove,
                Publish, Change, Settle, Tick
  <2> QED  BY <2>1, <2>2
<1> QED  BY <1>1, Inductive, PTL DEF Spec, AlertsEarned
-----------------------------------------------------------------------------
(***************************************************************************)
(* The types, on top of that invariant: the clocks of both sources stay in *)
(* their ranges, also of a source that is stale or failed.                 *)
(***************************************************************************)
Clocked(part) ==
    part.left \in -1..Freshness /\ part.age \in 0..(Freshness + 1) \cup {None}

Bounded ==
    /\ changes \in 0..MaxChanges /\ calm \in BOOLEAN
    /\ settings \in Settings
    /\ snap # None => Clocked(snap.arch) /\ Clocked(snap.security)
    /\ scan # None => scan.at \in {"collecting", "committed", "told"}

\* Resolving a source winds its clock up, or leaves it as it is.
LEMMA ResolveClocked ==
    ASSUME NEW E, NEW part \in Parts(E), Clocked(part), NEW o, NEW items
    PROVE  Clocked(Resolve(part, o, items))
<1>1. CASE o = None
  <2>1. Resolve(part, o, items) = [part EXCEPT !.items = items, !.now = FALSE]
    BY <1>1 DEF Resolve, Carry
  <2> QED  BY <2>1 DEF Clocked, Parts
<1>2. CASE o # None /\ o.ok
  <2>1. Resolve(part, o, items).left = Freshness /\ Resolve(part, o, items).age = 0
    BY <1>2 DEF Resolve, Part
  <2> QED  BY <2>1, PolicyAssumption DEF Clocked
<1>3. CASE o # None /\ ~o.ok /\ part.age # None
  <2>1. Resolve(part, o, items) = [part EXCEPT !.status = "stale", !.prov = "last_good",
                                               !.items = items, !.now = FALSE]
    BY <1>3 DEF Resolve
  <2> QED  BY <2>1 DEF Clocked, Parts
<1>4. CASE o # None /\ ~o.ok /\ part.age = None
  <2>1. Resolve(part, o, items) = Nothing
    BY <1>4 DEF Resolve
  <2>2. Nothing.left = 0 /\ Nothing.age = None
    BY DEF Nothing, Part
  <2> QED  BY <2>1, <2>2, PolicyAssumption DEF Clocked
<1> QED  BY <1>1, <1>2, <1>3, <1>4

LEMMA OlderClocked ==
    ASSUME NEW E, NEW part \in Parts(E), Clocked(part)
    PROVE  Clocked(Older(part))
<1> DEFINE left == IF part.left = -1 THEN -1 ELSE part.left - 1
           age == IF part.age \in {None, Freshness + 1} THEN part.age ELSE part.age + 1
<1>1. Older(part) = [part EXCEPT !.left = left, !.age = age]
  BY DEF Older, Parts
<1>2. left \in -1..Freshness
  BY PolicyAssumption DEF Clocked
<1>3. age \in 0..(Freshness + 1) \cup {None}
  <2>1. CASE part.age \in {None, Freshness + 1}
    BY <2>1 DEF Clocked
  <2>2. CASE part.age \notin {None, Freshness + 1}
    <3>1. part.age \in 0..Freshness
      BY <2>2, PolicyAssumption DEF Clocked
    <3> QED  BY <2>2, <3>1, PolicyAssumption
  <2> QED  BY <2>1, <2>2
<1> HIDE DEF left, age
<1>4. Older(part).left = left /\ Older(part).age = age
  BY <1>1 DEF Parts
<1> QED  BY <1>2, <1>3, <1>4 DEF Clocked

LEMMA BoundedStep ==
    ASSUME IndInv, Bounded, [Next]_vars
    PROVE  Bounded'
<1>0. snap # None => /\ snap.arch \in Parts(Item) /\ snap.security \in Parts(Finding)
                     /\ Clocked(snap.arch) /\ Clocked(snap.security)
  BY DEF IndInv, SnapTrue, SnapOK, Bounded
<1>1. CASE CollectArch
  <2>1. PICK o : scan' = [at |-> "collecting", arch |-> o]
    BY <1>1 DEF CollectArch
  <2> QED  BY <1>1, <2>1 DEF CollectArch, Bounded
<1>2. CASE CollectSecurity
  <2>1. PICK o : snap' =
            [arch |-> Resolve(Previous.arch, scan.arch, MarkLastGood(Previous.arch)),
             security |-> Resolve(Previous.security, o, Previous.security.items)]
    BY <1>2 DEF CollectSecurity
  <2>2. Nothing \in Parts(Item) /\ Nothing \in Parts(Finding) /\ Clocked(Nothing)
    BY PolicyAssumption DEF Nothing, Part, Parts, Provenance, Clocked
  <2>3. /\ Previous.arch \in Parts(Item) /\ Previous.security \in Parts(Finding)
        /\ Clocked(Previous.arch) /\ Clocked(Previous.security)
    BY <1>0, <2>2 DEF Previous
  <2>4. Clocked(snap'.arch) /\ Clocked(snap'.security)
    BY <2>1, <2>3, ResolveClocked
  <2>5. /\ scan'.at = "committed" /\ changes' = changes /\ calm' = calm
        /\ settings' = settings
    BY <1>2 DEF CollectSecurity
  <2> QED  BY <2>4, <2>5 DEF Bounded
<1>3. CASE Dispatch
  <2>1. /\ scan'.at = "told" /\ changes' = changes /\ calm' = calm
        /\ settings' = settings /\ snap' = snap
    BY <1>3 DEF Dispatch
  <2> QED  BY <2>1 DEF Bounded
<1>4. CASE Respond \/ Die \/ Settle
  BY <1>4 DEF Respond, Die, Settle, Bounded
<1>5. CASE \E p \in Package : Starring(p)
  <2>1. UNCHANGED <<changes, calm, settings, snap, scan>>
    BY <1>5 DEF Starring, StarTemporary, StarPermanent, StarOff
  <2> QED  BY <2>1 DEF Bounded
<1>6. ASSUME NEW m, Change(m)
      PROVE  Bounded'
  <2>1. /\ changes < MaxChanges /\ changes' = changes + 1 /\ calm' = calm
        /\ settings' = settings /\ snap' = snap /\ scan' = scan
    BY <1>6 DEF Change
  <2>2. changes' \in 0..MaxChanges
    BY <2>1, PolicyAssumption DEF Bounded
  <2> QED  BY <2>1, <2>2 DEF Bounded
<1>7. CASE \/ \E p \in Package : Release(p) \/ Upgrade(p) \/ Remove(p)
           \/ \E a \in Advisory : Publish(a)
  BY <1>6, <1>7 DEF Release, Upgrade, Remove, Publish
<1>8. CASE Tick
  <2>1. /\ snap # None
        /\ snap' = [arch |-> Older(snap.arch), security |-> Older(snap.security)]
        /\ changes' = changes /\ calm' = calm /\ settings' = settings /\ scan' = scan
    BY <1>8 DEF Tick
  <2>2. Clocked(snap'.arch) /\ Clocked(snap'.security)
    BY <1>0, <2>1, OlderClocked
  <2> QED  BY <2>1, <2>2 DEF Bounded
<1>9. CASE UNCHANGED vars
  BY <1>9 DEF vars, Bounded
<1> QED
  BY <1>1, <1>2, <1>3, <1>4, <1>5, <1>7, <1>8, <1>9 DEF Next, Scanning, Environment

(***************************************************************************)
(* Every watch that is ever stored is one that validate_watch accepts      *)
(* (stars.py): a permanent one keeps nothing of the temporary one it was,  *)
(* a temporary one has its baseline; and the evidence has its type.        *)
(***************************************************************************)
THEOREM PolicyTyped == Spec => []TypeOK
<1>1. Init => Bounded
  <2> SUFFICES ASSUME Init
               PROVE  Bounded
    OBVIOUS
  <2>1. settings \in Settings
    <3>1. Setting \subseteq Settings
      BY PolicyAssumption
    <3> QED  BY <3>1 DEF Init
  <2>2. changes \in 0..MaxChanges
    BY PolicyAssumption DEF Init
  <2>3. calm \in BOOLEAN /\ snap = None /\ scan = None
    BY DEF Init
  <2> QED  BY <2>1, <2>2, <2>3 DEF Bounded
<1>2. IndInv /\ Bounded /\ [Next]_vars => Bounded'
  BY BoundedStep
<1>3. IndInv /\ Bounded => TypeOK
  <2> SUFFICES ASSUME IndInv, Bounded
               PROVE  TypeOK
    OBVIOUS
  <2>1. watches \in [Package -> WatchRecord \cup {None}]
    BY DEF IndInv, Watch, WatchRecord
  <2>2. ASSUME snap # None, NEW part \in {snap.arch, snap.security}
        PROVE  /\ part.status \in {"ok", "stale", "failed"} /\ part.prov \in Provenance
               /\ part.left \in -1..Freshness /\ \A i \in part.items : i.prov \in Provenance
               /\ part.age \in 0..(Freshness + 1) \cup {None} /\ part.now \in BOOLEAN
    <3>1. CASE part = snap.arch
      <4>1. part \in Parts(Item) /\ Clocked(part)
        BY <2>2, <3>1 DEF IndInv, SnapTrue, SnapOK, Bounded
      <4> QED  BY <4>1 DEF Parts, Item, Clocked
    <3>2. CASE part = snap.security
      <4>1. part \in Parts(Finding) /\ Clocked(part)
        BY <2>2, <3>2 DEF IndInv, SnapTrue, SnapOK, Bounded
      <4> QED  BY <4>1 DEF Parts, Finding, Clocked
    <3> QED  BY <2>2, <3>1, <3>2
  <2>3. /\ world \in Machine /\ changes \in 0..MaxChanges /\ calm \in BOOLEAN
        /\ settings \in Settings
        /\ scan = None \/ scan.at \in {"collecting", "committed", "told"}
    BY DEF IndInv, Bounded
  <2> QED  BY <2>1, <2>2, <2>3 DEF TypeOK
<1> QED  BY <1>1, <1>2, <1>3, Inductive, PTL DEF Spec
=============================================================================
