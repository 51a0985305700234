------------------------------ MODULE MCPolicy ------------------------------
(***************************************************************************)
(* The instances of WatchPolicy for TLC: one advisory that names both      *)
(* packages.                                                               *)
(***************************************************************************)
EXTENDS WatchPolicy

CONSTANTS p, q, a, c1, c2

BothAffected == [x \in Advisory |-> Package]
AllHigh == [x \in Advisory |-> "high"]
EitherCve == {{c1}, {c1, c2}}

Says(status, fixed, cves) == [status |-> status, fixed |-> fixed, cves |-> cves]
Reports == {Says("not_affected", None, {c1}), Says("vulnerable", None, {c1}),
            Says("testing", 3, {c1}), Says("fixed", 3, {c1, c2})}

\* Both packages lack the fix that is offered; or q is not installed, and what
\* is offered of p is older than the fix.
Starting ==
    {[inst |-> [x \in Package |-> 1], repo |-> [x \in Package |-> 3],
      adv |-> [x \in Advisory |-> Says("fixed", 3, {c1})]],
     [inst |-> [x \in Package |-> IF x = p THEN 1 ELSE 0],
      repo |-> [x \in Package |-> IF x = p THEN 2 ELSE 3],
      adv |-> [x \in Advisory |-> Says("fixed", 3, {c1})]]}

\* A condition names the advisory as it is before its CVEs are revised.
Named == [adv |-> a, fixed |-> 3, cves |-> {c1}]
Wishes == {<<p, None>>, <<p, Named>>}

Defaults == {[permanent |-> TRUE, security |-> TRUE, minimum |-> "high"]}
=============================================================================
