------------------------------- MODULE Copies -------------------------------
(***************************************************************************)
(* What netrisstorage promises its callers, whatever they and the full     *)
(* download do at once: there is one copy of each list, a copy is replaced *)
(* as a whole by what Netris holds at that moment, and a look-up answers   *)
(* by the copy.  It says nothing of mutexes, requests or threads; module   *)
(* Resource works with it in this form.                                    *)
(***************************************************************************)
EXTENDS Naturals

CONSTANTS Lists, Keys, Callers, Asked

VARIABLES
    netris,  \* the lists as Netris has them
    copy,    \* the copies
    got      \* what the last look-up of each caller has answered

vars == <<netris, copy, got>>

Init ==
    /\ copy = [l \in Lists |-> [ver |-> 0, objs |-> {}]]
    /\ got = [c \in Callers |-> Asked]

\* Somebody changes a list in Netris.
Change(l) ==
    /\ \E objs \in SUBSET Keys :
          netris' = [netris EXCEPT ![l] = [ver |-> @.ver + 1, objs |-> objs]]
    /\ UNCHANGED <<copy, got>>

Refresh(l) ==
    /\ copy' = [copy EXCEPT ![l] = netris[l]]
    /\ UNCHANGED <<netris, got>>

\* A caller looks the key k up, and is answered.
Ask(c) ==
    /\ got' = [got EXCEPT ![c] = Asked]
    /\ UNCHANGED <<netris, copy>>

Answer(c, l, k) ==
    /\ got' = [got EXCEPT ![c] = [list |-> l, key |-> k, found |-> k \in copy[l].objs]]
    /\ UNCHANGED <<netris, copy>>

Next ==
    \/ \E l \in Lists : Change(l) \/ Refresh(l)
    \/ \E c \in Callers : Ask(c) \/ \E l \in Lists, k \in Keys : Answer(c, l, k)

Spec == Init /\ [][Next]_vars

=============================================================================
