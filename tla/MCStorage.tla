----------------------------- MODULE MCStorage -----------------------------
\* Instances of HelperStorage for TLC.
EXTENDS HelperStorage, TLC

CONSTANTS h1, h2

Machine(scanners, overlap, damage, orders) ==
    [scanners |-> scanners, overlap |-> overlap, damage |-> damage, orders |-> orders]

\* One helper scans and set-stars overlap, while either file may be damaged; or
\* both helpers scan and anything overlaps.
Machines ==
    {Machine({h1}, "stars", {"state"}, 2),
     Machine({h1}, "stars", {"lost", "generation"}, 2),
     Machine({h1, h2}, "any", {}, 1)}
Overlapping == {Machine({h1}, "any", {}, 2)}

\* Versions are only compared for equality.
VersionSymmetry == Permutations(Version)
=============================================================================
