-------------------------- MODULE MCCalicoWatcher --------------------------
(***************************************************************************)
(* Small instances of CalicoWatcher for TLC.                               *)
(***************************************************************************)
EXTENDS CalicoWatcher

CONSTANTS n1, n2, n3

\* n3 may join.
ThreeNodes == {n1, n2, n3}
TwoNodes   == {n1, n2}

Conf(managed, mesh) == [managed |-> managed, mesh |-> mesh]

\* The BGP configurations a cluster may begin with.
ManagedConfs == {Conf(TRUE, "unset"), Conf(TRUE, "off")}
AllConfs     == {Conf(TRUE, "unset"), Conf(FALSE, "off"), NoConf, NoCRD}

HasPool == {TRUE}

\* The disturbances of a run: to the nodes and the process; to the annotation, there and
\* back; or to all else.
Disturb(ds) == [d \in Disturbances |-> IF d \in ds THEN 1 ELSE 0]

Churn    == Disturb({"crash", "leave", "join"})
Flapping == Disturb({"fault", "stale", "down", "toggle"})
Wavering == [Disturb({"drift"}) EXCEPT !["toggle"] = 2]

AnyTrouble == {Churn, Wavering, Flapping}
Joining         == {Disturb({"fault", "join"})}

=============================================================================
