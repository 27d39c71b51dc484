---------------------------- MODULE MCCascade ----------------------------
(***************************************************************************)
(* Small instances of Cascade for TLC.                                     *)
(***************************************************************************)
EXTENDS Cascade

Scenario(k, a, o, p, d) ==
    [wish |-> [kind |-> k, addr |-> a, open |-> o, policy |-> p],
     left |-> [e \in Disturbances |-> IF e = d THEN 1 ELSE 0]]

\* One disturbance by itself: an L4LB with its address or its tenant left open, which is
\* edited, or imported while a call fails; a Site with everything but an edit
OneAtATime ==
    {Scenario("L4LB", "none", FALSE, "partial", "edit"),
     Scenario("L4LB", "given", TRUE, "partial", "edit"),
     Scenario("L4LB", "none", FALSE, "import", "fault")}
    \union {Scenario("Site", "none", FALSE, "import", d) : d \in Disturbances \ {"edit"}}

\* An edit leaves the address alone: m may take back one that changes it.
NoOther == {}

PlainOrRetain == {"plain", "retain"}

=============================================================================
