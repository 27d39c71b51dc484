---------------------------- MODULE MCLBWatcher ----------------------------
(***************************************************************************)
(* Small instances of LBWatcher for TLC.                                   *)
(***************************************************************************)
EXTENDS LBWatcher

CONSTANTS p, q, h1, h2, a1, a2

Wish(ports, static) == [ports |-> ports, static |-> static]

\* One Service: of two ports and automatic, or of the second port alone and with an address.
OneService == {1}
ChangeWishes == {Wish(<<q>>, a1), Wish(<<p, q>>, None)}

\* Two Services of one port each.
TwoServices == {1, 2}
PlainWishes == {Wish(<<p>>, None)}

OneSite  == [h \in Hosts |-> "site"]
EachSite == [h \in Hosts |-> h]

NoneOrOne == {{}, {h1}, {h2}}
Each      == {{h1}, {h2}}

\* The disturbances of a run: none, or any two.
Calm   == [d \in Disturbances |-> 0]
AnyTwo == [d \in Disturbances |-> 2]

=============================================================================
