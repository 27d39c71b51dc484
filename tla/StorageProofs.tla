--------------------------- MODULE StorageProofs ---------------------------
(***************************************************************************)
(* Theorems about Storage: the mutexes, the age of the copies, and that    *)
(* the module implements Copies.                                           *)
(***************************************************************************)
EXTENDS Storage, TLAPS

\* The list before the first, and the list after one that is not the last, are lists.
LEMMA ListsHeld ==
    /\ Order[1] \in Held
    /\ \A l \in Held : \E i \in DOMAIN Order : Order[i] = l
    /\ \A i \in DOMAIN Order : Order[i] \in Held
    /\ DOMAIN Order = 1 .. Len(Order) /\ Len(Order) \in Nat
    /\ Held \subseteq DOMAIN TheLists
<1>1. /\ DOMAIN Order = 1 .. Len(Order) /\ Len(Order) \in Nat
      /\ \A i \in DOMAIN Order : Order[i] \in DOMAIN TheLists
  BY OrderAssumption
<1>2. Held = {Order[i] : i \in DOMAIN Order}
  BY DEF Held, Range
<1>3. 1 \in DOMAIN Order
  BY <1>1, OrderAssumption
<1> QED
  BY <1>1, <1>2, <1>3

\* The next list of the full download is a list.
LEMMA NextHeld ==
    ASSUME TypeOK, GoesOn
    PROVE  Order[Position + 1] \in Held
<1>1. t[Downloader].list \in Held
  BY DEF TypeOK, Threads, ThreadType
<1>2. Position \in DOMAIN Order
  BY <1>1, ListsHeld DEF Position
<1>3. Position + 1 \in DOMAIN Order
  BY <1>2, ListsHeld DEF GoesOn
<1> QED
  BY <1>3, ListsHeld

-----------------------------------------------------------------------------

LEMMA Members ==
    /\ Downloader \in Threads /\ Downloader \notin Callers /\ Callers \subseteq Threads
    /\ Nobody \notin Threads
  BY ThreadAssumption DEF Threads

LEMMA IdleType ==
    \A l \in Held :
        /\ Idle(l) \in ThreadType /\ [Idle(l) EXCEPT !.pc = "waiting"] \in ThreadType
        /\ Idle(l).pc = "idle" /\ [Idle(l) EXCEPT !.pc = "waiting"].pc = "waiting"
  BY DEF Idle, ThreadType

LEMMA InitType == Init => TypeOK
<1> SUFFICES ASSUME Init PROVE TypeOK
  OBVIOUS
<1>1. netris \in [Held -> Versions]
  BY DEF Init, Versions
<1>2. copy \in [Held -> Versions]
  BY DEF Init, Versions
<1>3. owner \in [Held -> Threads \union {Nobody}] /\ \A l \in Held, c \in Threads : owner[l] # c
  BY Members DEF Init
<1>4. t \in [Threads -> ThreadType]
  BY IdleType, ListsHeld DEF Init
<1>5. \A c \in Threads : t[c].pc \in {"idle", "waiting"} /\ (c \in Callers => t[c].pc = "idle")
  BY IdleType, ListsHeld, Members DEF Init
<1>6. MutexOK
  BY <1>3, <1>5 DEF MutexOK
<1>7. \A c \in Callers : t[c].pc # "idle" => t[c].key \in Keys
  BY <1>5, Members
<1>8. up \in BOOLEAN /\ left \in [{"change", "fault"} -> Nat]
  BY BudgetAssumption DEF Init
<1> QED
  BY <1>1, <1>2, <1>3, <1>4, <1>6, <1>7, <1>8 DEF TypeOK

LEMMA StoredType ==
    ASSUME TypeOK, NEW c \in Threads
    PROVE  Stored(c) \in Versions
<1>1. copy \in [Held -> Versions] /\ t[c] \in ThreadType
  BY DEF TypeOK
<1> QED
  BY <1>1 DEF Stored, ThreadType

\* What a step has to leave of one thread, for the mutexes and the keys to stay right: it
\* takes the mutex of its list, gives it back, or keeps what it has.
LEMMA OneThread ==
    ASSUME TypeOK, NEW c \in Threads, t' \in [Threads -> ThreadType],
           \A b \in Threads : b # c => t'[b] = t[b],
           c \in Callers /\ t'[c].pc # "idle" => t'[c].key \in Keys,
           \/ /\ owner' = owner
              /\ \/ t[c].pc \in {"idle", "waiting"} /\ t'[c].pc \in {"idle", "waiting"}
                 \/ /\ t[c].pc = "asking" /\ t'[c].pc = "answered"
                    /\ t'[c].list = t[c].list
           \/ /\ owner[t[c].list] = Nobody /\ owner' = [owner EXCEPT ![t[c].list] = c]
              /\ t[c].pc = "waiting" /\ t'[c].pc = "asking" /\ t'[c].list = t[c].list
           \/ /\ owner' = [owner EXCEPT ![t[c].list] = Nobody]
              /\ t[c].pc = "answered" /\ t'[c].pc \in {"idle", "waiting"}
    PROVE  /\ owner' \in [Held -> Threads \union {Nobody}]
           /\ MutexOK'
           /\ \A b \in Callers : t'[b].pc # "idle" => t'[b].key \in Keys
<1>1. /\ owner \in [Held -> Threads \union {Nobody}] /\ t[c].list \in Held
      /\ \A b \in Callers : t[b].pc # "idle" => t[b].key \in Keys
      /\ MutexOK
  BY DEF TypeOK, ThreadType
<1>2. owner' \in [Held -> Threads \union {Nobody}]
  BY <1>1
<1>3. ASSUME NEW l \in Held, NEW b \in Threads
      PROVE  owner'[l] = b <=> t'[b].list = l /\ t'[b].pc \in {"asking", "answered"}
  <2>1. owner[l] = b <=> t[b].list = l /\ t[b].pc \in {"asking", "answered"}
    BY <1>1 DEF MutexOK
  <2>2. owner[l] = c <=> t[c].list = l /\ t[c].pc \in {"asking", "answered"}
    BY <1>1 DEF MutexOK
  <2> QED
    BY <1>1, <2>1, <2>2, Members
<1> QED
  BY <1>1, <1>2, <1>3, Members DEF MutexOK

LEMMA StepType == TypeOK /\ [Next]_vars => TypeOK'
<1> SUFFICES ASSUME TypeOK, [Next]_vars PROVE TypeOK'
  OBVIOUS
<1>t. t \in [Threads -> ThreadType]
  BY DEF TypeOK
<1>1. ASSUME NEW l \in Held, Change(l) PROVE TypeOK'
  <2>1. PICK objs \in SUBSET Keys :
            /\ netris' = [netris EXCEPT ![l] = [ver |-> @.ver + 1, objs |-> objs]]
            /\ t' = [c \in Threads |->
                        IF t[c].list = l
                        THEN [t[c] EXCEPT !.there = @ /\ t[c].key \in objs]
                        ELSE t[c]]
    BY <1>1 DEF Change
  <2>2. netris' \in [Held -> Versions]
    BY <2>1 DEF TypeOK, Versions
  <2>3. \A c \in Threads : t'[c] \in ThreadType
    BY <1>t, <2>1 DEF ThreadType
  <2>4. t' \in [Threads -> ThreadType]
    BY <2>1, <2>3
  <2>5. \A c \in Threads : t'[c].pc = t[c].pc /\ t'[c].list = t[c].list /\ t'[c].key = t[c].key
    BY <1>t, <2>1 DEF ThreadType
  <2>6. left' \in [{"change", "fault"} -> Nat]
    BY <1>1 DEF Change, Spend, TypeOK
  <2>7. MutexOK'
    BY <1>1, <2>5 DEF TypeOK, MutexOK, Change
  <2> QED
    BY <1>1, <2>2, <2>4, <2>5, <2>6, <2>7, Members DEF TypeOK, Change
<1>2. ASSUME NEW c \in Threads, Respond(c) PROVE TypeOK'
  <2>1. t[c] \in ThreadType /\ netris[t[c].list] \in Versions
    BY DEF TypeOK, ThreadType
  <2>2. PICK r \in Versions \union {Error} :
            t' = [t EXCEPT ![c].pc = "answered", ![c].reply = r]
    BY <1>2, <2>1 DEF Respond
  <2>3. t' \in [Threads -> ThreadType]
    BY <1>t, <2>1, <2>2 DEF ThreadType
  <2>4. /\ t'[c].list = t[c].list /\ t'[c].key = t[c].key /\ t'[c].pc = "answered"
        /\ \A b \in Threads : b # c => t'[b] = t[b]
    BY <1>t, <2>1, <2>2 DEF ThreadType
  <2>5. t[c].pc = "asking" /\ owner' = owner
    BY <1>2 DEF Respond
  <2>6. c \in Callers => t'[c].key \in Keys
    BY <2>4, <2>5 DEF TypeOK
  <2>7. left' \in [{"change", "fault"} -> Nat]
    BY <1>2 DEF Respond, Spend, TypeOK
  <2>8. /\ owner' \in [Held -> Threads \union {Nobody}] /\ MutexOK'
        /\ \A b \in Callers : t'[b].pc # "idle" => t'[b].key \in Keys
    BY <2>3, <2>4, <2>5, <2>6, OneThread
  <2> QED
    BY <1>2, <2>3, <2>7, <2>8 DEF TypeOK, Respond
<1>3. ASSUME NEW c \in Callers, Call(c) PROVE TypeOK'
  <2> DEFINE Asking(l, k, r) == [pc |-> "waiting", list |-> l, key |-> k, reloads |-> r,
                                 reply |-> Error, there |-> k \in netris[l].objs]
  <2>0. PICK l \in Sought, k \in Keys :
            \E method \in TheLists[l].looks \union TheLists[l].reloads :
                t' = [t EXCEPT ![c] = Asking(l, k, method \in TheLists[l].reloads)]
    BY <1>3 DEF Call
  <2>1. PICK method : t' = [t EXCEPT ![c] = Asking(l, k, method \in TheLists[l].reloads)]
    BY <2>0
  <2>2. Asking(l, k, method \in TheLists[l].reloads) \in ThreadType
    BY OrderAssumption DEF ThreadType
  <2>3. t' \in [Threads -> ThreadType]
    BY <1>t, <2>1, <2>2
  <2>4. \A b \in Threads : b # c => t'[b] = t[b]
    BY <1>t, <2>1
  <2>5. t[c].pc = "idle" /\ t'[c].pc = "waiting" /\ t'[c].key \in Keys /\ owner' = owner
    BY <1>3, <1>t, <2>1, Members DEF Call
  <2>6. /\ owner' \in [Held -> Threads \union {Nobody}] /\ MutexOK'
        /\ \A b \in Callers : t'[b].pc # "idle" => t'[b].key \in Keys
    BY <2>3, <2>4, <2>5, OneThread, Members
  <2> QED
    BY <1>3, <2>3, <2>6 DEF TypeOK, Call
<1>4. ASSUME NEW c \in Callers, LookUp(c) PROVE TypeOK'
  <2>1. t' = [t EXCEPT ![c] = Idle(Order[1])] /\ t[c].pc = "waiting" /\ owner' = owner
    BY <1>4 DEF LookUp, Done
  <2>2. t' \in [Threads -> ThreadType] /\ t'[c].pc = "idle"
        /\ \A b \in Threads : b # c => t'[b] = t[b]
    BY <1>t, <2>1, IdleType, ListsHeld, Members
  <2>3. /\ owner' \in [Held -> Threads \union {Nobody}] /\ MutexOK'
        /\ \A b \in Callers : t'[b].pc # "idle" => t'[b].key \in Keys
    BY <2>1, <2>2, OneThread, Members
  <2> QED
    BY <1>4, <2>2, <2>3 DEF TypeOK, LookUp
<1>5. ASSUME NEW c \in Callers, Miss(c) PROVE TypeOK'
  <2>1. /\ t' = [t EXCEPT ![c].pc = "asking"] /\ t[c].pc = "waiting"
        /\ owner[t[c].list] = Nobody /\ owner' = [owner EXCEPT ![t[c].list] = c]
    BY <1>5 DEF Miss, Lock, Free
  <2>2. /\ t' \in [Threads -> ThreadType] /\ t'[c].pc = "asking"
        /\ t'[c].list = t[c].list /\ t'[c].key = t[c].key
        /\ \A b \in Threads : b # c => t'[b] = t[b]
    BY <1>t, <2>1, Members DEF ThreadType
  <2>3. t'[c].key \in Keys
    BY <2>1, <2>2 DEF TypeOK
  <2>4. /\ owner' \in [Held -> Threads \union {Nobody}] /\ MutexOK'
        /\ \A b \in Callers : t'[b].pc # "idle" => t'[b].key \in Keys
    BY <2>1, <2>2, <2>3, OneThread, Members
  <2> QED
    BY <1>5, <2>2, <2>4 DEF TypeOK, Miss
<1>6. ASSUME NEW c \in Callers, Reload(c) PROVE TypeOK'
  <2>1. /\ t' = [t EXCEPT ![c] = Idle(Order[1])] /\ t[c].pc = "answered"
        /\ owner' = [owner EXCEPT ![t[c].list] = Nobody]
    BY <1>6 DEF Reload, Done, Unlock
  <2>2. t' \in [Threads -> ThreadType] /\ t'[c].pc = "idle"
        /\ \A b \in Threads : b # c => t'[b] = t[b]
    BY <1>t, <2>1, IdleType, ListsHeld, Members
  <2>3. /\ owner' \in [Held -> Threads \union {Nobody}] /\ MutexOK'
        /\ \A b \in Callers : t'[b].pc # "idle" => t'[b].key \in Keys
    BY <2>1, <2>2, OneThread, Members
  <2>4. copy' \in [Held -> Versions]
    BY <1>6, StoredType, Members DEF Reload, TypeOK
  <2> QED
    BY <1>6, <2>2, <2>3, <2>4 DEF TypeOK, Reload
<1>7. ASSUME Tick PROVE TypeOK'
  <2>1. /\ t' = [t EXCEPT ![Downloader] = [Idle(Order[1]) EXCEPT !.pc = "waiting"]]
        /\ t[Downloader].pc = "idle" /\ owner' = owner
    BY <1>7 DEF Tick
  <2>2. t' \in [Threads -> ThreadType] /\ t'[Downloader].pc = "waiting"
        /\ \A b \in Threads : b # Downloader => t'[b] = t[b]
    BY <1>t, <2>1, IdleType, ListsHeld, Members
  <2>3. /\ owner' \in [Held -> Threads \union {Nobody}] /\ MutexOK'
        /\ \A b \in Callers : t'[b].pc # "idle" => t'[b].key \in Keys
    BY <2>1, <2>2, OneThread, Members
  <2> QED
    BY <1>7, <2>2, <2>3 DEF TypeOK, Tick
<1>8. ASSUME Request PROVE TypeOK'
  <2>1. /\ t' = [t EXCEPT ![Downloader].pc = "asking"] /\ t[Downloader].pc = "waiting"
        /\ owner[t[Downloader].list] = Nobody
        /\ owner' = [owner EXCEPT ![t[Downloader].list] = Downloader]
    BY <1>8 DEF Request, Lock, Free
  <2>2. /\ t' \in [Threads -> ThreadType] /\ t'[Downloader].pc = "asking"
        /\ t'[Downloader].list = t[Downloader].list
        /\ \A b \in Threads : b # Downloader => t'[b] = t[b]
    BY <1>t, <2>1, Members DEF ThreadType
  <2>3. /\ owner' \in [Held -> Threads \union {Nobody}] /\ MutexOK'
        /\ \A b \in Callers : t'[b].pc # "idle" => t'[b].key \in Keys
    BY <2>1, <2>2, OneThread, Members
  <2> QED
    BY <1>8, <2>2, <2>3 DEF TypeOK, Request
<1>9. ASSUME Store PROVE TypeOK'
  <2>1. /\ t[Downloader].pc = "answered"
        /\ owner' = [owner EXCEPT ![t[Downloader].list] = Nobody]
    BY <1>9 DEF Store, Unlock
  <2>2. /\ t' \in [Threads -> ThreadType] /\ t'[Downloader].pc \in {"idle", "waiting"}
        /\ \A b \in Threads : b # Downloader => t'[b] = t[b]
    <3>1. CASE GoesOn
      <4>1. t' = [t EXCEPT ![Downloader] = [Idle(Order[Position + 1]) EXCEPT !.pc = "waiting"]]
        BY <1>9, <3>1 DEF Store
      <4> QED
        BY <1>t, <3>1, <4>1, NextHeld, IdleType, Members
    <3>2. CASE ~GoesOn
      <4>1. t' = [t EXCEPT ![Downloader] = Idle(Order[1])]
        BY <1>9, <3>2 DEF Store
      <4> QED
        BY <1>t, <4>1, ListsHeld, IdleType, Members
    <3> QED
      BY <3>1, <3>2
  <2>3. /\ owner' \in [Held -> Threads \union {Nobody}] /\ MutexOK'
        /\ \A b \in Callers : t'[b].pc # "idle" => t'[b].key \in Keys
    BY <2>1, <2>2, OneThread, Members
  <2>4. copy' \in [Held -> Versions]
    BY <1>9, StoredType, Members DEF Store, TypeOK
  <2>5. up' \in BOOLEAN
    BY <1>9 DEF Store, TypeOK, GoesOn
  <2> QED
    BY <1>9, <2>2, <2>3, <2>4, <2>5 DEF TypeOK, Store
<1>10. CASE UNCHANGED vars
  BY <1>10 DEF vars, TypeOK, MutexOK
<1> QED
  BY <1>1, <1>2, <1>3, <1>4, <1>5, <1>6, <1>7, <1>8, <1>9, <1>10 DEF Next

\* Values are of their types, and the mutex of a list belongs to the one thread that
\* asks Netris for it: sync.Mutex held from the look-up to the end of the download.
THEOREM TypeCorrect == Spec => []TypeOK
<1>1. Init => TypeOK
  BY InitType
<1>2. TypeOK /\ [Next]_vars => TypeOK'
  BY StepType
<1> QED
  BY <1>1, <1>2, PTL DEF Spec

-----------------------------------------------------------------------------
(* The age of the copies.                                                  *)

\* Neither the copy nor an answer on its way to it is ahead of Netris, and the answer is
\* not behind the copy, since nobody else can have stored one meanwhile.
AgesOK ==
    /\ \A l \in Held : copy[l].ver <= netris[l].ver
    /\ \A c \in Threads :
          t[c].pc = "answered" /\ t[c].reply # Error =>
              /\ t[c].reply.ver <= netris[t[c].list].ver
              /\ copy[t[c].list].ver <= t[c].reply.ver

\* What Reload and Store leave: a thread that gives its mutex back stores what it has.
LEMMA Stores ==
    ASSUME TypeOK, TypeOK', AgesOK, NEW c \in Threads, t[c].pc = "answered",
           copy' = [copy EXCEPT ![t[c].list] = Stored(c)],
           t'[c].pc # "answered", \A b \in Threads : b # c => t'[b] = t[b],
           netris' = netris
    PROVE  AgesOK' /\ \A l \in Held : copy[l].ver <= copy'[l].ver
<1>1. /\ copy \in [Held -> Versions] /\ t[c] \in ThreadType /\ MutexOK
      /\ netris \in [Held -> Versions]
  BY DEF TypeOK
<1>2. Stored(c).ver <= netris[t[c].list].ver /\ copy[t[c].list].ver <= Stored(c).ver
  BY <1>1 DEF AgesOK, Stored, ThreadType, Versions
<1>3. \A l \in Held : copy[l].ver <= copy'[l].ver /\ copy'[l].ver <= netris'[l].ver
  BY <1>1, <1>2 DEF AgesOK, Versions
<1>4. ASSUME NEW b \in Threads, t'[b].pc = "answered", t'[b].reply # Error
      PROVE  /\ t'[b].reply.ver <= netris'[t'[b].list].ver
             /\ copy'[t'[b].list].ver <= t'[b].reply.ver
  <2>1. b # c /\ t'[b] = t[b] /\ t[b].list \in Held
    BY <1>4 DEF TypeOK, ThreadType
  <2>2. t[b].list # t[c].list
    BY <1>1, <1>4, <2>1 DEF MutexOK
  <2>3. copy'[t[b].list] = copy[t[b].list]
    BY <1>1, <2>1, <2>2
  <2> QED
    BY <1>4, <2>1, <2>3 DEF AgesOK
<1> QED
  BY <1>3, <1>4 DEF AgesOK

LEMMA AgesInit == Init => AgesOK
<1> SUFFICES ASSUME Init PROVE AgesOK
  OBVIOUS
<1>1. \A l \in Held : copy[l].ver = 0 /\ netris[l].ver = 1
  BY DEF Init
<1>2. \A c \in Threads : t[c].pc # "answered"
  BY IdleType, ListsHeld, Members DEF Init
<1> QED
  BY <1>1, <1>2 DEF AgesOK

LEMMA AgesStep ==
    TypeOK /\ TypeOK' /\ AgesOK /\ [Next]_vars
        => AgesOK' /\ \A l \in Held : copy[l].ver <= copy'[l].ver
<1> SUFFICES ASSUME TypeOK, TypeOK', AgesOK, [Next]_vars
             PROVE  AgesOK' /\ \A l \in Held : copy[l].ver <= copy'[l].ver
  OBVIOUS
<1>t. /\ t \in [Threads -> ThreadType] /\ netris \in [Held -> Versions]
      /\ copy \in [Held -> Versions]
      /\ \A l \in Held : copy[l].ver \in Nat /\ netris[l].ver \in Nat
      /\ \A c \in Threads : t[c].reply # Error => t[c].reply.ver \in Nat
      /\ \A c \in Threads : t[c].list \in Held
  BY DEF TypeOK, ThreadType, Versions
<1>1. ASSUME NEW l \in Held, Change(l)
      PROVE  AgesOK' /\ \A h \in Held : copy[h].ver <= copy'[h].ver
  <2>1. PICK objs \in SUBSET Keys :
            /\ netris' = [netris EXCEPT ![l] = [ver |-> @.ver + 1, objs |-> objs]]
            /\ t' = [c \in Threads |->
                        IF t[c].list = l
                        THEN [t[c] EXCEPT !.there = @ /\ t[c].key \in objs]
                        ELSE t[c]]
    BY <1>1 DEF Change
  <2>2. \A h \in Held : netris[h].ver <= netris'[h].ver
    BY <1>t, <2>1
  <2>3. \A c \in Threads : t'[c].pc = t[c].pc /\ t'[c].list = t[c].list
                          /\ t'[c].reply = t[c].reply
    BY <1>t, <2>1 DEF ThreadType
  <2>4. copy' = copy /\ \A h \in Held : netris'[h].ver \in Nat
    BY <1>1, <1>t, <2>1 DEF Change
  <2> QED
    BY <1>t, <2>2, <2>3, <2>4 DEF AgesOK
<1>2. ASSUME NEW c \in Threads, Respond(c)
      PROVE  AgesOK' /\ \A h \in Held : copy[h].ver <= copy'[h].ver
  <2>1. \/ t' = [t EXCEPT ![c].pc = "answered", ![c].reply = netris[t[c].list]]
        \/ t' = [t EXCEPT ![c].pc = "answered", ![c].reply = Error]
    BY <1>2 DEF Respond
  <2>2. /\ t'[c].list = t[c].list /\ t'[c].reply \in {netris[t[c].list], Error}
        /\ \A b \in Threads : b # c => t'[b] = t[b]
    BY <1>t, <2>1 DEF ThreadType
  <2>3. copy' = copy /\ netris' = netris
    BY <1>2 DEF Respond
  <2> QED
    BY <1>t, <2>2, <2>3 DEF AgesOK
<1>3. ASSUME NEW c \in Threads, copy' = copy, netris' = netris, t'[c].pc # "answered",
             \A b \in Threads : b # c => t'[b] = t[b]
      PROVE  AgesOK' /\ \A h \in Held : copy[h].ver <= copy'[h].ver
  BY <1>3, <1>t DEF AgesOK
<1>4. ASSUME NEW c \in Callers, Call(c) \/ LookUp(c) \/ Miss(c)
      PROVE  AgesOK' /\ \A h \in Held : copy[h].ver <= copy'[h].ver
  <2>1. copy' = copy /\ netris' = netris
    BY <1>4 DEF Call, LookUp, Miss
  <2>2. t'[c].pc # "answered" /\ \A b \in Threads : b # c => t'[b] = t[b]
    <3>1. CASE Call(c)
      BY <1>t, <3>1, Members DEF Call
    <3>2. CASE LookUp(c)
      BY <1>t, <3>2, Members, IdleType, ListsHeld DEF LookUp, Done
    <3>3. CASE Miss(c)
      BY <1>t, <3>3, Members DEF Miss, ThreadType
    <3> QED
      BY <1>4, <3>1, <3>2, <3>3
  <2> QED
    BY <1>3, <2>1, <2>2, Members
<1>5. ASSUME NEW c \in Callers, Reload(c)
      PROVE  AgesOK' /\ \A h \in Held : copy[h].ver <= copy'[h].ver
  <2>1. /\ t[c].pc = "answered" /\ copy' = [copy EXCEPT ![t[c].list] = Stored(c)]
        /\ netris' = netris
    BY <1>5 DEF Reload
  <2>2. t'[c].pc # "answered" /\ \A b \in Threads : b # c => t'[b] = t[b]
    BY <1>5, <1>t, Members, IdleType, ListsHeld DEF Reload, Done
  <2> QED
    BY <2>1, <2>2, Stores, Members
<1>6. ASSUME Tick \/ Request
      PROVE  AgesOK' /\ \A h \in Held : copy[h].ver <= copy'[h].ver
  <2>1. copy' = copy /\ netris' = netris
    BY <1>6 DEF Tick, Request
  <2>2. t'[Downloader].pc # "answered" /\ \A b \in Threads : b # Downloader => t'[b] = t[b]
    <3>1. CASE Tick
      BY <1>t, <3>1, Members, IdleType, ListsHeld DEF Tick
    <3>2. CASE Request
      BY <1>t, <3>2, Members DEF Request, ThreadType
    <3> QED
      BY <1>6, <3>1, <3>2
  <2> QED
    BY <1>3, <2>1, <2>2, Members
<1>7. ASSUME Store
      PROVE  AgesOK' /\ \A h \in Held : copy[h].ver <= copy'[h].ver
  <2>1. /\ t[Downloader].pc = "answered" /\ netris' = netris
        /\ copy' = [copy EXCEPT ![t[Downloader].list] = Stored(Downloader)]
    BY <1>7 DEF Store
  <2>2. t'[Downloader].pc # "answered" /\ \A b \in Threads : b # Downloader => t'[b] = t[b]
    <3>1. CASE GoesOn
      <4>1. t' = [t EXCEPT ![Downloader] = [Idle(Order[Position + 1]) EXCEPT !.pc = "waiting"]]
        BY <1>7, <3>1 DEF Store
      <4> QED
        BY <1>t, <3>1, <4>1, NextHeld, IdleType, Members
    <3>2. CASE ~GoesOn
      <4>1. t' = [t EXCEPT ![Downloader] = Idle(Order[1])]
        BY <1>7, <3>2 DEF Store
      <4> QED
        BY <1>t, <4>1, ListsHeld, IdleType, Members
    <3> QED
      BY <3>1, <3>2
  <2> QED
    BY <2>1, <2>2, Stores, Members
<1>8. ASSUME UNCHANGED vars
      PROVE  AgesOK' /\ \A h \in Held : copy[h].ver <= copy'[h].ver
  BY <1>8, <1>t DEF vars, AgesOK
<1> QED
  BY <1>1, <1>2, <1>4, <1>5, <1>6, <1>7, <1>8 DEF Next

\* storeAll never puts an older answer in the place of a newer one: the mutex of a list is held
\* from before the request until the answer is stored.
THEOREM CopiesAge == Spec => NeverBackwards
<1>1. Init => TypeOK /\ AgesOK
  BY InitType, AgesInit
<1>2. TypeOK /\ AgesOK /\ [Next]_vars => (TypeOK /\ AgesOK)'
  BY StepType, AgesStep
<1>3. TypeOK /\ AgesOK /\ [Next]_vars => [\A l \in Held : copy[l].ver <= copy'[l].ver]_vars
  BY StepType, AgesStep
<1> QED
  BY <1>1, <1>2, <1>3, PTL DEF Spec, NeverBackwards

-----------------------------------------------------------------------------
(* What a look-up finds.                                                   *)

\* An object that has been in Netris since the call is there until Netris answers, and
\* in the answer from then on, whatever becomes of it in Netris.
PresentInv ==
    /\ DOMAIN got = Callers
    /\ \A c \in Callers : t[c].there =>
          /\ t[c].pc \in {"waiting", "asking"} => t[c].key \in netris[t[c].list].objs
          /\ t[c].pc = "answered" /\ t[c].reply # Error => t[c].key \in t[c].reply.objs

\* A step of one thread that asks for nothing new leaves the others and Netris alone.
LEMMA PresentKept ==
    ASSUME TypeOK, PresentInv, NEW c \in Threads, netris' = netris, DOMAIN got' = Callers,
           \A b \in Threads : b # c => t'[b] = t[b],
           c \in Callers =>
               \/ t'[c].pc = "idle"
               \/ /\ t[c].pc = "waiting" /\ t'[c].pc = "asking"
                  /\ t'[c].list = t[c].list /\ t'[c].key = t[c].key
                  /\ t'[c].there = t[c].there
    PROVE  PresentInv'
BY Members DEF PresentInv

LEMMA PresentStep == TypeOK /\ PresentInv /\ [Next]_vars => PresentInv'
<1> SUFFICES ASSUME TypeOK, PresentInv, [Next]_vars PROVE PresentInv'
  OBVIOUS
<1>t. /\ t \in [Threads -> ThreadType] /\ netris \in [Held -> Versions]
      /\ \A c \in Threads : t[c].list \in Held
  BY DEF TypeOK, ThreadType
<1>1. ASSUME NEW l \in Held, Change(l) PROVE PresentInv'
  <2>1. PICK objs \in SUBSET Keys :
            /\ netris' = [netris EXCEPT ![l] = [ver |-> @.ver + 1, objs |-> objs]]
            /\ t' = [c \in Threads |->
                        IF t[c].list = l
                        THEN [t[c] EXCEPT !.there = @ /\ t[c].key \in objs]
                        ELSE t[c]]
    BY <1>1 DEF Change
  <2>2. \A c \in Threads : /\ t'[c].pc = t[c].pc /\ t'[c].list = t[c].list
                           /\ t'[c].key = t[c].key /\ t'[c].reply = t[c].reply
                           /\ t'[c].there => t[c].there
                           /\ t'[c].there /\ t[c].list = l => t[c].key \in objs
    BY <1>t, <2>1 DEF ThreadType
  <2>3. /\ netris'[l].objs = objs
        /\ \A h \in Held : h # l => netris'[h] = netris[h]
    BY <1>t, <2>1
  <2>4. got' = got
    BY <1>1 DEF Change
  <2> QED
    BY <1>t, <2>2, <2>3, <2>4, Members DEF PresentInv
<1>2. ASSUME NEW c \in Threads, Respond(c) PROVE PresentInv'
  <2>1. \/ t' = [t EXCEPT ![c].pc = "answered", ![c].reply = netris[t[c].list]]
        \/ t' = [t EXCEPT ![c].pc = "answered", ![c].reply = Error]
    BY <1>2 DEF Respond
  <2>2. /\ t'[c].pc = "answered" /\ t'[c].list = t[c].list /\ t'[c].key = t[c].key
        /\ t'[c].there = t[c].there
        /\ t'[c].reply \in {netris[t[c].list], Error}
        /\ \A b \in Threads : b # c => t'[b] = t[b]
    BY <1>t, <2>1 DEF ThreadType
  <2>3. t[c].pc = "asking" /\ netris' = netris /\ got' = got
    BY <1>2 DEF Respond
  <2> QED
    BY <1>t, <2>2, <2>3, Members DEF PresentInv
<1>3. ASSUME NEW c \in Callers, Call(c) PROVE PresentInv'
  <2>1. /\ \A b \in Threads : b # c => t'[b] = t[b]
        /\ t'[c].pc = "waiting" /\ (t'[c].there => t'[c].key \in netris[t'[c].list].objs)
    <3>w. PICK l \in Sought, k \in Keys :
              \E method \in TheLists[l].looks \union TheLists[l].reloads :
                 t' = [t EXCEPT ![c] =
                          [pc |-> "waiting", list |-> l, key |-> k,
                           reloads |-> method \in TheLists[l].reloads, reply |-> Error,
                           there |-> k \in netris[l].objs]]
      BY <1>3 DEF Call
    <3> DEFINE Waits(r) == [pc |-> "waiting", list |-> l, key |-> k,
                            reloads |-> r, reply |-> Error, there |-> k \in netris[l].objs]
    <3>1. PICK method : t' = [t EXCEPT ![c] = Waits(method \in TheLists[l].reloads)]
      BY <3>w
    <3>2. t'[c] = Waits(method \in TheLists[l].reloads)
      BY <1>t, <3>1, Members
    <3>3. \A b \in Threads : b # c => t'[b] = t[b]
      BY <1>t, <3>1
    <3>4. t'[c].there = (k \in netris[l].objs)
      BY <3>2
    <3>5. t'[c].pc = "waiting" /\ t'[c].key = k /\ t'[c].list = l
      BY <3>2
    <3> QED
      BY <3>3, <3>4, <3>5
  <2>2. netris' = netris /\ DOMAIN got' = Callers
    BY <1>3 DEF Call, PresentInv
  <2> QED
    BY <2>1, <2>2, Members DEF PresentInv
<1>4. ASSUME NEW c \in Callers, LookUp(c) \/ Reload(c) PROVE PresentInv'
  <2>1. t'[c].pc = "idle" /\ \A b \in Threads : b # c => t'[b] = t[b]
    BY <1>4, <1>t, Members, IdleType, ListsHeld DEF LookUp, Reload, Done
  <2>2. netris' = netris /\ DOMAIN got' = Callers
    BY <1>4 DEF LookUp, Reload, Answer, PresentInv
  <2> QED
    BY <2>1, <2>2, PresentKept, Members
<1>5. ASSUME NEW c \in Callers, Miss(c) PROVE PresentInv'
  <2>1. /\ t[c].pc = "waiting" /\ t' = [t EXCEPT ![c].pc = "asking"]
        /\ netris' = netris /\ got' = got
    BY <1>5 DEF Miss
  <2>2. /\ t'[c].pc = "asking" /\ t'[c].list = t[c].list /\ t'[c].key = t[c].key
        /\ t'[c].there = t[c].there /\ \A b \in Threads : b # c => t'[b] = t[b]
    BY <1>t, <2>1, Members DEF ThreadType
  <2>3. DOMAIN got' = Callers
    BY <2>1 DEF PresentInv
  <2> QED
    BY <2>1, <2>2, <2>3, PresentKept, Members
<1>6. CASE Tick \/ Request \/ Store
  <2>1. netris' = netris /\ got' = got /\ \A b \in Threads : b # Downloader => t'[b] = t[b]
    BY <1>6, <1>t DEF Tick, Request, Store
  <2>2. DOMAIN got' = Callers
    BY <2>1 DEF PresentInv
  <2> QED
    BY <2>1, <2>2, PresentKept, Members
<1>7. CASE UNCHANGED vars
  BY <1>7 DEF vars, PresentInv
<1> QED
  BY <1>1, <1>2, <1>3, <1>4, <1>5, <1>6, <1>7 DEF Next

\* Of all steps only a reload ends a look-up that has asked Netris.
LEMMA EndsByReload ==
    ASSUME TypeOK, [Next]_vars, NEW c \in Callers, t[c].pc = "answered", t'[c].pc = "idle"
    PROVE  Reload(c)
<1>t. t \in [Threads -> ThreadType] /\ c \in Threads /\ c # Downloader
  BY Members DEF TypeOK
<1>1. ASSUME NEW l \in Held, Change(l) PROVE FALSE
  <2>1. t'[c].pc = t[c].pc
    BY <1>1, <1>t DEF Change, ThreadType
  <2> QED
    BY <2>1
<1>2. ASSUME NEW b \in Threads, Respond(b) PROVE FALSE
  <2>1. t[b].pc = "asking"
    BY <1>2 DEF Respond
  <2>2. t'[c] = t[c]
    BY <1>2, <1>t, <2>1 DEF Respond
  <2> QED
    BY <2>2
<1>3. ASSUME NEW b \in Callers, Call(b) \/ LookUp(b) \/ Miss(b) \/ Reload(b), b # c PROVE FALSE
  <2>1. t'[c] = t[c]
    BY <1>3, <1>t DEF Call, LookUp, Miss, Reload, Done
  <2> QED
    BY <2>1
<1>4. ~Call(c) /\ ~LookUp(c) /\ ~Miss(c)
  BY DEF Call, LookUp, Miss
<1>5. CASE Tick \/ Request \/ Store \/ UNCHANGED vars
  <2>1. t'[c] = t[c]
    BY <1>5, <1>t DEF Tick, Request, Store, vars
  <2> QED
    BY <2>1
<1> QED
  BY <1>1, <1>2, <1>3, <1>4, <1>5 DEF Next

\* FindByID and its like do not miss what has been in Netris since the call, unless the
\* request has failed: the second look goes through what has been downloaded for it.
THEOREM LooksTwice == Spec => NoFalseMiss
<1>1. Init => PresentInv
  <2> SUFFICES ASSUME Init PROVE PresentInv
    OBVIOUS
  <2>1. \A c \in Callers : t[c].pc = "idle"
    BY IdleType, ListsHeld, Members DEF Init
  <2> QED
    BY <2>1 DEF Init, PresentInv
<1>2. TypeOK /\ PresentInv /\ [Next]_vars => PresentInv'
  BY PresentStep
<1>3. TypeOK /\ PresentInv /\ [Next]_vars =>
        [\A c \in Callers :
            /\ t[c].pc = "answered" /\ t'[c].pc = "idle"
            /\ t[c].reply # Error
            /\ t[c].there
            => got'[c].found]_vars
  <2> SUFFICES ASSUME TypeOK, PresentInv, [Next]_vars, NEW c \in Callers,
                      t[c].pc = "answered", t'[c].pc = "idle", t[c].reply # Error, t[c].there
               PROVE  got'[c].found
    OBVIOUS
  <2>1. Reload(c)
    BY EndsByReload
  <2>2. t[c].key \in SecondLook(c).objs
    BY DEF PresentInv, SecondLook, Stored
  <2> QED
    BY <2>1, <2>2 DEF Reload, Answer, Found, PresentInv
<1> QED
  BY <1>1, <1>2, <1>3, TypeCorrect, PTL DEF Spec, NoFalseMiss

-----------------------------------------------------------------------------
(* Storage implements Copies.                                              *)

\* Where the mutex is free, or its owner has no answer yet, the copy is what is stored.
LEMMA CopyWithout ==
    ASSUME TypeOK, NEW l \in Held, owner[l] = Nobody \/ t[owner[l]].pc = "asking"
    PROVE  CopyOf(l) = copy[l]
  BY DEF CopyOf

\* A step that touches neither the mutex, nor a copy, nor an answer leaves all copies.
LEMMA SameCopies ==
    ASSUME copy' = copy, owner' = owner, TypeOK, TypeOK',
           \A c \in Threads : t[c].pc \in {"asking", "answered"} =>
               /\ t'[c].pc = t[c].pc /\ t'[c].list = t[c].list /\ t'[c].reply = t[c].reply
    PROVE  [l \in Held |-> CopyOf(l)]' = [l \in Held |-> CopyOf(l)]
<1>1. ASSUME NEW l \in Held PROVE CopyOf(l)' = CopyOf(l)
  <2>1. CASE owner[l] = Nobody
    BY <2>1 DEF CopyOf
  <2>2. CASE owner[l] # Nobody
    <3>1. /\ owner[l] \in Threads /\ t[owner[l]].list = l
          /\ t[owner[l]].pc \in {"asking", "answered"}
      BY <2>2 DEF TypeOK, MutexOK
    <3> QED
      BY <2>2, <3>1 DEF CopyOf, Stored
  <2> QED
    BY <2>1, <2>2
<1> QED
  BY <1>1

\* A thread that takes the mutex has no answer yet.
LEMMA TakesMutex ==
    ASSUME TypeOK, TypeOK', NEW c \in Threads, t[c].pc = "waiting", Lock(c, t[c].list),
           copy' = copy, t' = [t EXCEPT ![c].pc = "asking"]
    PROVE  [l \in Held |-> CopyOf(l)]' = [l \in Held |-> CopyOf(l)]
<1>1. /\ t \in [Threads -> ThreadType] /\ t[c].list \in Held /\ MutexOK
      /\ owner \in [Held -> Threads \union {Nobody}]
  BY DEF TypeOK, ThreadType
<1>2. /\ t'[c].pc = "asking" /\ \A b \in Threads : b # c => t'[b] = t[b]
      /\ owner[t[c].list] = Nobody /\ owner' = [owner EXCEPT ![t[c].list] = c]
  BY <1>1 DEF Lock, Free, ThreadType
<1>3. ASSUME NEW l \in Held PROVE CopyOf(l)' = CopyOf(l)
  <2>1. CASE l = t[c].list
    BY <1>1, <1>2, <2>1, Members DEF CopyOf
  <2>2. CASE l # t[c].list
    <3>1. owner'[l] = owner[l] /\ owner[l] # c
      BY <1>1, <1>2, <2>2 DEF MutexOK
    <3>2. CASE owner[l] = Nobody
      BY <3>1, <3>2 DEF CopyOf
    <3>3. CASE owner[l] # Nobody
      <4>1. t'[owner[l]] = t[owner[l]]
        BY <1>1, <1>2, <3>1, <3>3
      <4> QED
        BY <3>1, <3>3, <4>1 DEF CopyOf, Stored
    <3> QED
      BY <3>2, <3>3
  <2> QED
    BY <2>1, <2>2
<1> QED
  BY <1>3

\* A thread that stores its answer and gives the mutex back leaves the copy as it counted.
LEMMA GivesMutex ==
    ASSUME TypeOK, TypeOK', NEW c \in Threads, t[c].pc = "answered", Unlock(t[c].list),
           copy' = [copy EXCEPT ![t[c].list] = Stored(c)],
           \A b \in Threads : b # c => t'[b] = t[b]
    PROVE  /\ CopyOf(t[c].list) = Stored(c)
           /\ [l \in Held |-> CopyOf(l)]' = [l \in Held |-> CopyOf(l)]
<1>1. /\ t[c].list \in Held /\ MutexOK /\ copy \in [Held -> Versions]
      /\ owner \in [Held -> Threads \union {Nobody}]
  BY DEF TypeOK, ThreadType
<1>2. owner[t[c].list] = c /\ owner' = [owner EXCEPT ![t[c].list] = Nobody]
  BY <1>1 DEF Unlock, MutexOK
<1>3. CopyOf(t[c].list) = Stored(c)
  BY <1>2, Members DEF CopyOf
<1>4. ASSUME NEW l \in Held PROVE CopyOf(l)' = CopyOf(l)
  <2>1. CASE l = t[c].list
    BY <1>1, <1>2, <1>3, <2>1, Members DEF CopyOf
  <2>2. CASE l # t[c].list
    <3>1. owner'[l] = owner[l] /\ owner[l] # c /\ copy'[l] = copy[l]
      BY <1>1, <1>2, <2>2 DEF MutexOK
    <3>2. CASE owner[l] = Nobody
      BY <3>1, <3>2 DEF CopyOf
    <3>3. CASE owner[l] # Nobody
      <4>1. t'[owner[l]] = t[owner[l]] /\ t[owner[l]].list = l
        BY <1>1, <3>1, <3>3 DEF MutexOK
      <4> QED
        BY <3>1, <3>3, <4>1 DEF CopyOf, Stored
    <3> QED
      BY <3>2, <3>3
  <2> QED
    BY <2>1, <2>2
<1> QED
  BY <1>3, <1>4

LEMMA RefineInit == Init => C!Init
<1> SUFFICES ASSUME Init PROVE C!Init
  OBVIOUS
<1>1. \A l \in Held : CopyOf(l) = [ver |-> 0, objs |-> {}]
  BY DEF Init, CopyOf
<1> QED
  BY <1>1 DEF Init, C!Init

LEMMA RefineStep == TypeOK /\ TypeOK' /\ [Next]_vars => [C!Next]_(C!vars)
<1> SUFFICES ASSUME TypeOK, TypeOK', [Next]_vars PROVE [C!Next]_(C!vars)
  OBVIOUS
<1> DEFINE copies == [l \in Held |-> CopyOf(l)]
<1>t. t \in [Threads -> ThreadType] /\ \A c \in Threads : t[c].list \in Held
  BY DEF TypeOK, ThreadType
<1>s. ASSUME copies' = copies, netris' = netris, got' = got PROVE [C!Next]_(C!vars)
  BY <1>s DEF C!vars
<1>1. ASSUME NEW l \in Held, Change(l) PROVE [C!Next]_(C!vars)
  <2>1. PICK objs \in SUBSET Keys :
            /\ netris' = [netris EXCEPT ![l] = [ver |-> @.ver + 1, objs |-> objs]]
            /\ t' = [c \in Threads |->
                        IF t[c].list = l
                        THEN [t[c] EXCEPT !.there = @ /\ t[c].key \in objs]
                        ELSE t[c]]
    BY <1>1 DEF Change
  <2>2. \A c \in Threads : t'[c].pc = t[c].pc /\ t'[c].list = t[c].list
                          /\ t'[c].reply = t[c].reply
    BY <1>t, <2>1 DEF ThreadType
  <2>3. copies' = copies
    BY <1>1, <2>2, SameCopies DEF Change
  <2>4. C!Change(l)
    BY <1>1, <2>1, <2>3 DEF C!Change, Change
  <2> QED
    BY <2>4 DEF C!Next
<1>2. ASSUME NEW c \in Threads, Respond(c) PROVE [C!Next]_(C!vars)
  <2>0. PICK l \in Held : l = t[c].list
    BY <1>t
  <2>1. /\ l \in Held /\ owner[l] = c /\ owner' = owner /\ copy' = copy
        /\ netris' = netris /\ got' = got /\ t[c].pc = "asking"
    BY <1>2, <1>t, <2>0 DEF Respond, TypeOK, MutexOK
  <2>2. PICK r : /\ t' = [t EXCEPT ![c].pc = "answered", ![c].reply = r]
                 /\ r = Error \/ r = netris[l]
    BY <1>2, <2>0 DEF Respond
  <2>3. /\ t'[c].pc = "answered" /\ t'[c].reply = r /\ t'[c].list = l
        /\ \A b \in Threads : b # c => t'[b] = t[b]
    BY <1>t, <2>0, <2>2 DEF ThreadType
  <2>4. CopyOf(l)' = (IF r = Error THEN copy[l] ELSE r) /\ CopyOf(l) = copy[l]
    BY <2>0, <2>1, <2>3, Members DEF CopyOf, Stored
  <2>5. ASSUME NEW h \in Held, h # l PROVE CopyOf(h)' = CopyOf(h)
    <3>1. CASE owner[h] = Nobody
      BY <2>1, <3>1 DEF CopyOf
    <3>2. CASE owner[h] # Nobody
      <4>1. owner[h] \in Threads /\ t[owner[h]].list = h
        BY <3>2 DEF TypeOK, MutexOK
      <4>2. t'[owner[h]] = t[owner[h]]
        BY <2>0, <2>3, <2>5, <4>1
      <4> QED
        BY <2>1, <3>2, <4>2 DEF CopyOf, Stored
    <3> QED
      BY <3>1, <3>2
  <2>6. CASE r = Error
    <3>1. \A h \in Held : CopyOf(h)' = CopyOf(h)
      BY <2>4, <2>5, <2>6
    <3> QED
      BY <1>s, <2>1, <3>1
  <2>7. CASE r # Error
    <3>1. /\ \A h \in Held : h # l => CopyOf(h)' = CopyOf(h)
          /\ CopyOf(l)' = netris[l]
      BY <2>2, <2>4, <2>5, <2>7
    <3>2. copies' = [copies EXCEPT ![l] = netris[l]]
      BY <2>1, <3>1
    <3>3. C!Refresh(l)
      BY <2>1, <3>2 DEF C!Refresh
    <3> QED
      BY <2>1, <3>3 DEF C!Next
  <2> QED
    BY <2>6, <2>7
<1>3. ASSUME NEW c \in Callers, Call(c) PROVE [C!Next]_(C!vars)
  <2>1. \A b \in Threads : b # c => t'[b] = t[b]
    BY <1>3, <1>t, Members DEF Call
  <2>2. copies' = copies
    BY <1>3, <2>1, SameCopies DEF Call
  <2>3. C!Ask(c)
    BY <1>3, <2>2 DEF C!Ask, Call
  <2> QED
    BY <2>3 DEF C!Next
<1>4. ASSUME NEW c \in Callers, LookUp(c) PROVE [C!Next]_(C!vars)
  <2> DEFINE l == t[c].list
  <2>1. /\ l \in Held /\ t[c].key \in Keys /\ owner[l] = Nobody /\ t[c].pc = "waiting"
    BY <1>4, <1>t, Members DEF LookUp, TypeOK, Free
  <2>2. \A b \in Threads : b # c => t'[b] = t[b]
    BY <1>4, <1>t DEF LookUp, Done
  <2>3. copies' = copies
    BY <1>4, <2>1, <2>2, SameCopies DEF LookUp
  <2>4. copies[l] = copy[l]
    BY <2>1 DEF CopyOf
  <2>5. C!Answer(c, l, t[c].key)
    BY <1>4, <2>1, <2>3, <2>4 DEF C!Answer, LookUp, Answer, Found
  <2> QED
    BY <2>1, <2>5 DEF C!Next
<1>5. ASSUME NEW c \in Callers, Miss(c) PROVE [C!Next]_(C!vars)
  <2>1. copies' = copies
    BY <1>5, TakesMutex, Members DEF Miss
  <2> QED
    BY <1>5, <1>s, <2>1 DEF Miss
<1>6. ASSUME NEW c \in Callers, Reload(c) PROVE [C!Next]_(C!vars)
  <2> DEFINE l == t[c].list
  <2>1. l \in Held /\ t[c].key \in Keys /\ t[c].pc = "answered" /\ netris' = netris
    BY <1>6, <1>t, Members DEF Reload, TypeOK
  <2>2. \A b \in Threads : b # c => t'[b] = t[b]
    BY <1>6, <1>t DEF Reload, Done
  <2>3. copies' = copies /\ copies[l] = Stored(c)
    BY <1>6, <2>1, <2>2, GivesMutex, Members DEF Reload
  <2>4. C!Answer(c, l, t[c].key)
    BY <1>6, <2>1, <2>3 DEF C!Answer, Reload, Answer, SecondLook, Found
  <2> QED
    BY <2>1, <2>4 DEF C!Next
<1>7. ASSUME Tick PROVE [C!Next]_(C!vars)
  <2>1. \A b \in Threads : b # Downloader => t'[b] = t[b]
    BY <1>7, <1>t DEF Tick
  <2>2. copies' = copies
    BY <1>7, <2>1, SameCopies DEF Tick
  <2> QED
    BY <1>7, <1>s, <2>2 DEF Tick
<1>8. ASSUME Request PROVE [C!Next]_(C!vars)
  <2>1. copies' = copies
    BY <1>8, TakesMutex, Members DEF Request
  <2> QED
    BY <1>8, <1>s, <2>1 DEF Request
<1>9. ASSUME Store PROVE [C!Next]_(C!vars)
  <2>1. \A b \in Threads : b # Downloader => t'[b] = t[b]
    BY <1>9, <1>t DEF Store
  <2>2. copies' = copies
    BY <1>9, <2>1, GivesMutex, Members DEF Store
  <2> QED
    BY <1>9, <1>s, <2>2 DEF Store
<1>10. ASSUME UNCHANGED vars PROVE [C!Next]_(C!vars)
  <2>1. copies' = copies
    BY <1>10, SameCopies DEF vars
  <2> QED
    BY <1>10, <1>s, <2>1 DEF vars
<1> QED
  BY <1>1, <1>2, <1>3, <1>4, <1>5, <1>6, <1>7, <1>8, <1>9, <1>10 DEF Next

\* Whatever look-ups and downloads run at once, callers see copies that are replaced as a whole,
\* and answers by such a copy: netrisstorage can be thought of without its mutexes.
THEOREM ImplementsCopies == Spec => KeepsCopies
<1>1. Init => C!Init
  BY RefineInit
<1>2. TypeOK /\ TypeOK' /\ [Next]_vars => [C!Next]_(C!vars)
  BY RefineStep
<1>3. Spec => []TypeOK
  BY TypeCorrect
<1> QED
  BY <1>1, <1>2, <1>3, PTL DEF Spec, KeepsCopies, C!Spec

=============================================================================
