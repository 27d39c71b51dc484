------------------------------ MODULE Storage ------------------------------
(***************************************************************************)
(* netrisstorage: copies of Netris's lists in memory, which the thirty-two *)
(* reconcilers and both watchers look things up in.                        *)
(*                                                                         *)
(* Each list has a mutex that a look-up holds from beginning to end, also  *)
(* while it asks Netris for the list anew because of a miss.  The full     *)
(* download goes through the lists in a fixed order, every ten seconds,    *)
(* under each list's mutex in turn, and stops at the first error.  What    *)
(* happens between two steps of one thread: Netris changes, and the other  *)
(* threads run.                                                            *)
(*                                                                         *)
(* An object is a key: what the caller looks for, be it a name, an id or   *)
(* two ports.  Netris counts the changes of a list, which the code cannot  *)
(* see; the count tells an older answer from a newer one.  The mutex of    *)
(* Storage itself is not kept: only one thread ever takes it.              *)
(*                                                                         *)
(* A definition MutF is F with a plausible mistake in it.  No definition   *)
(* uses it; the properties are checked to notice F being replaced by it.   *)
(***************************************************************************)
EXTENDS Naturals, Lists, Functions

CONSTANTS
    Order,     \* the lists of the instance, in the order of the download
    Keys,      \* the objects a list may hold
    Callers,   \* the goroutines that look things up
    Sought,    \* bound: the lists of these that they look in
    Broken,    \* the lists that Netris never answers for
    Budget,    \* bound: how often Netris changes, and how often a request fails
    Downloader, Nobody, NoKey, Error, Asked

Held == Range(Order)
Threads == Callers \union {Downloader}

ASSUME OrderAssumption ==
    /\ Order \in Seq(DOMAIN TheLists) /\ Order # << >> /\ IsInjective(Order)
    /\ Sought \subseteq Held /\ Broken \subseteq Held
ASSUME ThreadAssumption == Downloader \notin Callers /\ Nobody \notin Threads
ASSUME BudgetAssumption == Budget \in [{"change", "fault"} -> Nat]

Versions == [ver : Nat, objs : SUBSET Keys]

ASSUME SentinelAssumption == Error \notin Versions /\ NoKey \notin Keys

VARIABLES
    netris,  \* the lists as Netris has them
    copy,    \* the copies
    owner,   \* who holds the mutex of a list
    t,       \* the threads: where they are, and what for
    up,      \* the first download is over, and main has gone on
    got,     \* what the last look-up of each caller has answered
    left     \* the changes and the failures left

vars == <<netris, copy, owner, t, up, got, left>>

Idle(l) == [pc |-> "idle", list |-> l, key |-> NoKey, reloads |-> TRUE, reply |-> Error,
            there |-> FALSE]

\* main begins with a download, before anything else runs.
Init ==
    /\ netris \in [Held -> {[ver |-> 1, objs |-> objs] : objs \in SUBSET Keys}]
    /\ copy = [l \in Held |-> [ver |-> 0, objs |-> {}]]
    /\ owner = [l \in Held |-> Nobody]
    /\ t = [c \in Threads |->
               IF c = Downloader THEN [Idle(Order[1]) EXCEPT !.pc = "waiting"]
               ELSE Idle(Order[1])]
    /\ up = FALSE
    /\ got = [c \in Callers |-> Asked]
    /\ left = Budget

Spend(d) == left[d] > 0 /\ left' = [left EXCEPT ![d] = @ - 1]

-----------------------------------------------------------------------------
(* Netris.                                                                 *)

\* there remembers, for a property, whether the object that a look-up is for has been
\* in Netris ever since the call.
Change(l) ==
    /\ \E objs \in SUBSET Keys :
          /\ objs # netris[l].objs
          /\ netris' = [netris EXCEPT ![l] = [ver |-> @.ver + 1, objs |-> objs]]
          /\ t' = [c \in Threads |->
                      IF t[c].list = l THEN [t[c] EXCEPT !.there = @ /\ t[c].key \in objs]
                      ELSE t[c]]
    /\ Spend("change")
    /\ UNCHANGED <<copy, owner, up, got>>

\* Netris answers with the list as it is then; or the request fails, or times out.
Respond(c) ==
    /\ t[c].pc = "asking"
    /\ \/ /\ t[c].list \notin Broken
          /\ t' = [t EXCEPT ![c].pc = "answered", ![c].reply = netris[t[c].list]]
          /\ UNCHANGED left
       \/ /\ t' = [t EXCEPT ![c].pc = "answered", ![c].reply = Error]
          /\ IF t[c].list \in Broken THEN UNCHANGED left ELSE Spend("fault")
    /\ UNCHANGED <<netris, copy, owner, up, got>>

-----------------------------------------------------------------------------
(* The list's mutex, and what is done under it.                            *)

MutFree(l) == TRUE

Free(l) == owner[l] = Nobody

Lock(c, l)   == Free(l) /\ owner' = [owner EXCEPT ![l] = c]
MutUnlock(l) == UNCHANGED owner
Unlock(l)    == owner' = [owner EXCEPT ![l] = Nobody]

MutStored(c) ==
    LET l == t[c].list
    IN  IF t[c].reply = Error THEN [ver |-> 0, objs |-> {}] ELSE t[c].reply

\* download, from the reply on: storeAll, or nothing after an error
Stored(c) ==
    LET l == t[c].list
    IN  IF t[c].reply = Error THEN copy[l] ELSE t[c].reply

Found(key, contents) == key \in contents.objs

MutSecondLook(c) == copy[t[c].list]

\* What a look-up that has downloaded looks through
SecondLook(c) == Stored(c)

Answer(c, contents) ==
    got' = [got EXCEPT ![c] = [list |-> t[c].list, key |-> t[c].key,
                               found |-> Found(t[c].key, contents)]]

-----------------------------------------------------------------------------
(* The look-ups.                                                           *)

\* A reconciler or a watcher calls a look-up of a list.
Call(c) ==
    /\ up
    /\ t[c].pc = "idle"
    /\ \E l \in Sought, k \in Keys :
          \E method \in TheLists[l].looks \union TheLists[l].reloads :
             t' = [t EXCEPT ![c] =
                      [pc |-> "waiting", list |-> l, key |-> k,
                       reloads |-> method \in TheLists[l].reloads, reply |-> Error,
                       there |-> k \in netris[l].objs]]
    /\ got' = [got EXCEPT ![c] = Asked]
    /\ UNCHANGED <<netris, copy, owner, up, left>>

MutDone(c) ==
    t' = [t EXCEPT ![c] = IF Found(@.key, SecondLook(c)) THEN Idle(Order[1])
                          ELSE [@ EXCEPT !.pc = "waiting"]]

Done(c) == t' = [t EXCEPT ![c] = Idle(Order[1])]

\* The mutex is free, and the first look is enough.
LookUp(c) ==
    /\ t[c].pc = "waiting"
    /\ LET l == t[c].list
       IN  /\ Free(l)
           /\ Found(t[c].key, copy[l]) \/ ~t[c].reloads
           /\ Answer(c, copy[l])
    /\ Done(c)
    /\ UNCHANGED <<netris, copy, owner, up, left>>

\* A miss: the look-up asks Netris, and keeps the mutex.
Miss(c) ==
    /\ t[c].pc = "waiting"
    /\ t[c].reloads
    /\ ~Found(t[c].key, copy[t[c].list])
    /\ Lock(c, t[c].list)
    /\ t' = [t EXCEPT ![c].pc = "asking"]
    /\ UNCHANGED <<netris, copy, up, got, left>>

\* The error of the download is dropped.
Reload(c) ==
    /\ t[c].pc = "answered"
    /\ copy' = [copy EXCEPT ![t[c].list] = Stored(c)]
    /\ Answer(c, SecondLook(c))
    /\ Unlock(t[c].list)
    /\ Done(c)
    /\ UNCHANGED <<netris, up, left>>

-----------------------------------------------------------------------------
(* The full download.                                                      *)

Position == CHOOSE i \in DOMAIN Order : Order[i] = t[Downloader].list

\* DownloadWithInterval's ticker
Tick ==
    /\ t[Downloader].pc = "idle"
    /\ t' = [t EXCEPT ![Downloader] = [Idle(Order[1]) EXCEPT !.pc = "waiting"]]
    /\ UNCHANGED <<netris, copy, owner, up, got, left>>

\* Download of one list, up to the request
Request ==
    /\ t[Downloader].pc = "waiting"
    /\ Lock(Downloader, t[Downloader].list)
    /\ t' = [t EXCEPT ![Downloader].pc = "asking"]
    /\ UNCHANGED <<netris, copy, up, got, left>>

MutGoesOn == FALSE

\* Whether another list follows: not after the last one, nor after an error
GoesOn == t[Downloader].reply # Error /\ Position < Len(Order)

\* The list is stored, and the next one's turn comes.  main goes on when the first
\* download is over, however it has ended.
Store ==
    /\ t[Downloader].pc = "answered"
    /\ copy' = [copy EXCEPT ![t[Downloader].list] = Stored(Downloader)]
    /\ Unlock(t[Downloader].list)
    /\ t' = [t EXCEPT ![Downloader] =
                IF GoesOn THEN [Idle(Order[Position + 1]) EXCEPT !.pc = "waiting"]
                ELSE Idle(Order[1])]
    /\ up' = (up \/ ~GoesOn)
    /\ UNCHANGED <<netris, got, left>>

-----------------------------------------------------------------------------

Next ==
    \/ \E l \in Held : Change(l)
    \/ \E c \in Threads : Respond(c)
    \/ \E c \in Callers : Call(c) \/ LookUp(c) \/ Miss(c) \/ Reload(c)
    \/ Tick \/ Request \/ Store

Spec == Init /\ [][Next]_vars

\* Requests have a timeout, the ticker fires, and a mutex that is asked for again and
\* again goes to each of those that wait for it.
Fairness ==
    /\ \A c \in Threads : WF_vars(Respond(c))
    /\ \A c \in Callers : SF_vars(LookUp(c) \/ Miss(c)) /\ WF_vars(Reload(c))
    /\ WF_vars(Tick) /\ SF_vars(Request) /\ WF_vars(Store)

FairSpec == Spec /\ Fairness

-----------------------------------------------------------------------------
(* Properties.                                                             *)

ThreadType ==
    [pc : {"idle", "waiting", "asking", "answered"}, list : Held, key : Keys \union {NoKey},
     reloads : BOOLEAN, reply : Versions \union {Error}, there : BOOLEAN]

\* From its request to the end of it, and only then, a thread holds the mutex of its list.
MutexOK ==
    \A l \in Held, c \in Threads :
        owner[l] = c <=> t[c].list = l /\ t[c].pc \in {"asking", "answered"}

\* A thread holds the mutex of the list it asks for, from its request to the end, and
\* no other does; values are of their types.
TypeOK ==
    /\ netris \in [Held -> Versions]
    /\ copy \in [Held -> Versions]
    /\ owner \in [Held -> Threads \union {Nobody}]
    /\ t \in [Threads -> ThreadType]
    /\ \A c \in Callers : t[c].pc # "idle" => t[c].key \in Keys
    /\ MutexOK
    /\ up \in BOOLEAN
    /\ left \in [{"change", "fault"} -> Nat]

\* A copy is never replaced by an older state of the list, although look-ups and the
\* full download ask for the same list at the same time and answers take their time.
NeverBackwards == [][\A l \in Held : copy[l].ver <= copy'[l].ver]_vars

\* The reconcilers create what a look-up by id does not find.  It does not miss an object that has
\* been in Netris since the call, unless its request failed.
NoFalseMiss ==
    [][\A c \in Callers :
          /\ t[c].pc = "answered" /\ t'[c].pc = "idle"
          /\ t[c].reply # Error
          /\ t[c].there
          => got'[c].found]_vars

\* Every look-up ends: no thread keeps a mutex for ever, or waits for itself.
LookUpsEnd == \A c \in Callers : t[c].pc # "idle" ~> t[c].pc = "idle"

\* The lists that come before the first one Netris fails to answer for.  For the others
\* it does not hold: one list that fails keeps all behind it as they were.
Ahead == {l \in Held : \A i \in DOMAIN Order :
             Order[i] \in Broken => \E j \in 1 .. i - 1 : Order[j] = l}

\* When Netris is left alone and answers again, those lists become current, though
\* nobody misses anything in them.
BecomesCurrent == <>[](\A l \in Ahead : copy[l] = netris[l])

-----------------------------------------------------------------------------
(* The copies of module Copies: an answer that its thread has received and *)
(* not stored yet is the copy already, since nobody else can look at it.   *)

CopyOf(l) ==
    IF owner[l] # Nobody /\ t[owner[l]].pc = "answered" THEN Stored(owner[l]) ELSE copy[l]

C == INSTANCE Copies WITH Lists <- Held, copy <- [l \in Held |-> CopyOf(l)]

\* Look-ups that ask, wait and store under their mutex come to no other answers than
\* look-ups that do it all at once, which is how module Resource has them.
KeepsCopies == C!Spec

=============================================================================
