---------------------------- MODULE MCResource ----------------------------
(***************************************************************************)
(* Small instances of Resource for TLC.                                    *)
(***************************************************************************)
EXTENDS Resource

\* The thirteen kinds fall into seven classes.  The runs take VNetKind, NatKind, VPCKind,
\* SoftgateKind and ControllerKind; the others differ from one of these in a single trait.
ASSUME SevenClasses ==
    /\ SubnetKind = AllocationKind /\ SubnetKind = BGPKind
    /\ SubnetKind = [NatKind EXCEPT !.absentOK = VNetKind.absentOK]
    /\ NatKind = InventoryProfileKind
    /\ VPCKind = ServerClusterKind /\ VPCKind = ServerClusterTemplateKind
    /\ SoftgateKind = SwitchKind
    /\ SoftgateKind = [SubnetKind EXCEPT !.fill = "before"]
    /\ ControllerKind = [SoftgateKind EXCEPT !.fill = "after"]
    /\ InventoryServerKind = [SoftgateKind EXCEPT !.nilGuard = VPCKind.nilGuard]

Set(i, r) == [import |-> i, reclaim |-> r]

\* The annotations a new CR may carry
Plain  == {Set("false", "delete")}
Blank  == {Set("unset", "unset")}
Import == {Set("true", "delete")}
Bare   == {NilMap}

\* What the user writes as the address: it is left open at the first n edits, or at the
\* first and given at the second.
Open(n)       == [e \in 1 .. MaxEdit |-> IF e <= n THEN {"none"} ELSE {}]
OpenThenGiven == [e \in 1 .. MaxEdit |-> IF e = 1 THEN {"none"} ELSE {"given"}]

Scenario(kind, addresses, annotations, rejected, preexisting, ds) ==
    [kind |-> kind, addresses |-> addresses, annotations |-> annotations,
     rejected |-> rejected, preexisting |-> preexisting,
     left |-> [d \in Disturbances |-> IF d \in ds THEN 1 ELSE 0]]

\* A VNet while a reconciler works on an outdated copy; and one whose first spec is refused
Recreated ==
    {Scenario(VNetKind, Open(2), Bare \union Blank, {}, FALSE, {"stale"}),
     Scenario(VNetKind, Open(2), Blank, {1}, FALSE, {})}

\* A Nat that imports an object somebody else works on; a VPC, importing or bare, whose
\* first spec cannot be translated, and which loses the id of its object; a piece of
\* hardware whose address is left open, and given by an edit
Disturbed ==
    {Scenario(NatKind, Open(1), Import, {}, TRUE, {"fault", "drift"}),
     Scenario(VPCKind, Open(2), Bare \union Import, {1}, FALSE, {"crash", "annotate"}),
     Scenario(SoftgateKind, OpenThenGiven, Plain, {}, FALSE, {"fault"}),
     Scenario(ControllerKind, OpenThenGiven, Plain, {}, FALSE, {})}

\* VNets that nothing disturbs
BareVNet  == {Scenario(VNetKind, Open(1), Bare, {}, FALSE, {})}
PlainVNet == {Scenario(VNetKind, Open(1), Plain, {}, FALSE, {})}

=============================================================================
