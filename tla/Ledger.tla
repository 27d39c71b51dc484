------------------------------- MODULE Ledger -------------------------------
(***************************************************************************)
(* What the meta resources promise, whatever the reconcilers do and in     *)
(* whatever order: a ledger of the Netris ids.  An incarnation of a CR is  *)
(* entered only once the operator's finalizer protects it, an id once      *)
(* written is replaced but never lost, and an entry is erased only when    *)
(* the user has deleted the CR.                                            *)
(***************************************************************************)
CONSTANTS Uids, Ids, NoEntry

VARIABLES life, entry

vars == <<life, entry>>

Lives == {"unborn", "open", "protected", "doomed", "gone"}

Init ==
    /\ life = [u \in Uids |-> "unborn"]
    /\ entry = [u \in Uids |-> NoEntry]

Become(u, from, to) ==
    /\ life[u] = from
    /\ life' = [life EXCEPT ![u] = to]
    /\ UNCHANGED entry

Create(u)  == Become(u, "unborn", "open")
Abandon(u) == Become(u, "open", "gone")
Protect(u) == Become(u, "open", "protected")
Doom(u)    == Become(u, "protected", "doomed")
Release(u) == Become(u, "doomed", "gone")

Write(u, e) == entry' = [entry EXCEPT ![u] = e] /\ UNCHANGED life

\* The entry is made before the object is.
Register(u) ==
    /\ life[u] \in {"protected", "doomed"}
    /\ entry[u] = NoEntry
    /\ Write(u, 0)

Record(u, i) == entry[u] # NoEntry /\ Write(u, i)

Erase(u) == life[u] \in {"doomed", "gone"} /\ Write(u, NoEntry)

Next ==
    \E u \in Uids :
        \/ Create(u) \/ Abandon(u) \/ Protect(u) \/ Doom(u) \/ Release(u)
        \/ Register(u) \/ Erase(u)
        \/ \E i \in Ids : Record(u, i)

Spec == Init /\ [][Next]_vars

=============================================================================
