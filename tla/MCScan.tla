------------------------------- MODULE MCScan -------------------------------
\* Instances of ScanEvidence for TLC.
EXTENDS ScanEvidence, TLC

\* Two retry delays, the longer as long as the freshness.
Delays == <<1, 2>>

\* A mandatory source with the two Flatpak scopes, which share their backoff,
\* with Security and CISA KEV, which are collected together, or with AUR, which
\* is mandatory where it applies.
Machines ==
    {[slices |-> {"arch", "flatpak:user", "flatpak:system"}, loss |-> FALSE],
     [slices |-> {"arch", "security", "cisa_kev"}, loss |-> TRUE],
     [slices |-> {"arch", "aur"}, loss |-> FALSE]}
=============================================================================
