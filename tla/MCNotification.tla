--------------------------- MODULE MCNotification ---------------------------
\* Instances of NotificationDispatch for TLC.
EXTENDS NotificationDispatch, TLC

\* One advisory with two severities.
AdvisoryRefOf == "s1a" :> "s1" @@ "s1b" :> "s1"
AdvisoryKindOf == "s1" :> "security"
AdvisoryStartsWith == "s1a" :> {"s1"} @@ "s1b" :> {"s1"}
AdvisoryOrder == <<"watch", "security">>

\* One watched item with one version.
WatchRefOf == "w1a" :> "w1"
WatchKindOf == "w1" :> "watch"
WatchStartsWith == "w1a" :> {"w1"}
WatchOrder == <<"watch">>

\* The helper processes are interchangeable.
HelperSymmetry == Permutations(Helper)
=============================================================================
