-------------------------- MODULE JavaObjects_proofs --------------------------
(***************************************************************************)
(* Proofs about JavaObjects: its types, and that Lua code which uses Java  *)
(* objects in the main lua_State only never gets another object than the   *)
(* one it pushed, also with threads that push and call gc() outside the    *)
(* monitor, as long as they do not take one index together.                *)
(***************************************************************************)
EXTENDS JavaObjects, TLAPS

USE JavaObjectsAssumption, NoneAssumption

\* Every push has the record of a push, every walk that of a walk, and every
\* userdata that exists its own.
LEMMA Shapes ==
    ASSUME TypeOK
    PROVE  /\ \A t \in Threads : call[t].at \in {"read", "put", "new"} => call[t] \in Pushing
           /\ \A t \in Threads : call[t].at = "walking" => call[t] \in Walking
           /\ \A u \in Userdata : udata[u].status # "free" => udata[u] \in Existing
  BY DEF TypeOK, Pushing, Walking, Existing, Idle, Walked, Free

\* What a write does to the maps: an entry stays, becomes what is written, or gets
\* lost, and as long as nobody raced it is what is written.
LEMMA WriteEffect ==
    ASSUME TypeOK, NEW t \in Threads, NEW s \in States, NEW new,
           new \in [Indices -> Objects \cup {None}],
           Write(t, s, javaObjectMap[s], new)
    PROVE  /\ javaObjectMap' \in [States -> [Indices -> Objects \cup {None}]]
           /\ raced' \subseteq States /\ raced \subseteq raced'
           /\ \A i \in Indices :
                 javaObjectMap'[s][i] \in {javaObjectMap[s][i], new[i], None}
           /\ s \notin raced' => javaObjectMap'[s] = new
<1>1. raced' \subseteq States /\ raced \subseteq raced'
  BY DEF Write, TypeOK
<1>2. CASE s \notin raced'
  BY <1>1, <1>2 DEF Write, TypeOK
<1>3. CASE s \in raced'
  <2>1. PICK m \in {javaObjectMap[s], new}, lost \in SUBSET Indices :
           javaObjectMap' = [javaObjectMap EXCEPT ![s] =
               [i \in Indices |-> IF i \in lost THEN None ELSE m[i]]]
    BY <1>3 DEF Write
  <2>2. m \in [Indices -> Objects \cup {None}]
    BY DEF TypeOK
  <2>3. [i \in Indices |-> IF i \in lost THEN None ELSE m[i]]
           \in [Indices -> Objects \cup {None}]
    BY <2>2
  <2> QED
    BY <1>1, <1>3, <2>1, <2>3 DEF TypeOK
<1> QED
  BY <1>2, <1>3

LEMMA InitTypes == Init => TypeOK
  BY DEF Init, TypeOK, Indices, Idle, Walked, Free

\* The walks notice a change and go on.
LEMMA ModifiedTypes ==
    ASSUME TypeOK
    PROVE  /\ Modified \in [Threads -> Pushing \cup Walking \cup {Idle, Walked}]
           /\ \A t \in Threads :
                 /\ Modified[t].at = call[t].at
                 /\ call[t].at # "walking" => Modified[t] = call[t]
                 /\ call[t].at = "walking" => Modified[t].left = call[t].left
<1>1. ASSUME NEW t \in Threads, call[t].at = "walking"
      PROVE  /\ Modified[t] \in Walking /\ Modified[t].at = "walking"
             /\ Modified[t].left = call[t].left
  BY <1>1, Shapes DEF Modified, Walking
<1>2. ASSUME NEW t \in Threads, call[t].at # "walking" PROVE Modified[t] = call[t]
  BY <1>2 DEF Modified
<1>3. Modified = [t \in Threads |-> Modified[t]]
  BY DEF Modified
<1> QED
  BY <1>1, <1>2, <1>3 DEF TypeOK

LEMMA StepTypes == TypeOK /\ [Next]_vars => TypeOK'
<1> SUFFICES ASSUME TypeOK, [Next]_vars PROVE TypeOK'
  OBVIOUS
<1> DEFINE Calls == [Threads -> Pushing \cup Walking \cup {Idle, Walked}]
<1>1. ASSUME NEW t \in Threads, Enter(t) \/ Leave(t) PROVE TypeOK'
  BY <1>1 DEF TypeOK, Enter, Leave
<1>2. ASSUME NEW t \in Threads, WriteIndex(t) PROVE TypeOK'
  <2>1. call[t] \in Pushing
    BY <1>2, Shapes DEF WriteIndex
  <2>2. /\ call[t].home \in States /\ call[t].index + 1 \in 0..MaxIdx
        /\ [call[t] EXCEPT !.at = "put"] \in Pushing
    BY <2>1 DEF Pushing, Indices
  <2> QED
    BY <1>2, <2>2 DEF WriteIndex, TypeOK
<1>3. ASSUME NEW t \in Threads, PutObject(t) PROVE TypeOK'
  <2> DEFINE c == call[t]
             new == [javaObjectMap[c.home] EXCEPT ![c.index] = c.obj]
  <2>1. c \in Pushing
    BY <1>3, Shapes DEF PutObject
  <2>2. /\ c.home \in States /\ c.index \in Indices /\ c.obj \in Objects
        /\ [c EXCEPT !.at = "new"] \in Pushing
    BY <2>1 DEF Pushing
  <2>3. new \in [Indices -> Objects \cup {None}]
    BY <2>2 DEF TypeOK
  <2>4. Write(t, c.home, javaObjectMap[c.home], new)
    BY <1>3 DEF PutObject
  <2>5. /\ javaObjectMap' \in [States -> [Indices -> Objects \cup {None}]]
        /\ raced' \subseteq States
    BY <2>2, <2>3, <2>4, WriteEffect
  <2>6. call' \in Calls
    BY <1>3, <2>2 DEF PutObject, TypeOK
  <2> QED
    BY <1>3, <2>5, <2>6 DEF PutObject, TypeOK
<1>4. ASSUME NEW t \in Threads, GcBegin(t) \/ GcWalked(t) PROVE TypeOK'
  <2>1. call' \in Calls
    <3>1. CASE GcBegin(t)
      <4>1. [at |-> "walking", left |-> javaObjectGcList[Main], modified |-> FALSE]
               \in Walking
        BY DEF TypeOK, Walking
      <4> QED
        BY <3>1, <4>1 DEF GcBegin, TypeOK
    <3>2. CASE GcWalked(t)
      BY <3>2 DEF GcWalked, TypeOK
    <3> QED
      BY <1>4, <3>1, <3>2
  <2> QED
    BY <1>4, <2>1 DEF GcBegin, GcWalked, TypeOK
<1>5. ASSUME NEW t \in Threads, GcRemove(t) PROVE TypeOK'
  <2>1. PICK i \in call[t].left :
           /\ Write(t, Main, javaObjectMap[Main], [javaObjectMap[Main] EXCEPT ![i] = None])
           /\ call' = [call EXCEPT ![t].left = @ \ {i}]
    BY <1>5 DEF GcRemove
  <2>2. call[t] \in Walking
    BY <1>5, Shapes DEF GcRemove
  <2>3. i \in Indices /\ [call[t] EXCEPT !.left = @ \ {i}] \in Walking
    BY <2>2 DEF Walking
  <2>4. [javaObjectMap[Main] EXCEPT ![i] = None] \in [Indices -> Objects \cup {None}]
    BY DEF TypeOK
  <2>5. /\ javaObjectMap' \in [States -> [Indices -> Objects \cup {None}]]
        /\ raced' \subseteq States
    BY <2>1, <2>4, WriteEffect
  <2>6. call' \in Calls
    BY <2>1, <2>3 DEF TypeOK
  <2> QED
    BY <1>5, <2>5, <2>6 DEF GcRemove, TypeOK
<1>6. ASSUME NEW t \in Threads, GcClear(t) PROVE TypeOK'
  BY <1>6, ModifiedTypes DEF GcClear, TypeOK
<1>7. ASSUME NEW t \in Threads, NEW o \in Objects, ReadIndex(t, o) PROVE TypeOK'
  <2>1. PICK home \in States : /\ sIdx[home] < MaxIdx
                               /\ call' = [call EXCEPT ![t] =
                                     [at |-> "read", home |-> home,
                                      index |-> sIdx[home], obj |-> o]]
                               /\ overlapped' \subseteq overlapped \cup {home}
    BY <1>7 DEF ReadIndex
  <2>2. sIdx[home] \in Indices
    BY <2>1 DEF TypeOK, Indices
  <2>3. [at |-> "read", home |-> home, index |-> sIdx[home], obj |-> o] \in Pushing
    BY <2>2 DEF Pushing
  <2>4. call' \in Calls
    BY <2>1, <2>3 DEF TypeOK
  <2> QED
    BY <1>7, <2>1, <2>4 DEF ReadIndex, TypeOK
<1>8. ASSUME NEW t \in Threads, NEW u \in Userdata, NewUserdata(t, u) PROVE TypeOK'
  <2>1. call[t] \in Pushing
    BY <1>8, Shapes DEF NewUserdata
  <2>2. [status |-> "held", index |-> call[t].index, obj |-> call[t].obj] \in Existing
    BY <2>1 DEF Pushing, Existing
  <2> QED
    BY <1>8, <2>2 DEF NewUserdata, TypeOK
<1>9. ASSUME NEW s \in States, Switch(s) PROVE TypeOK'
  BY <1>9 DEF Switch, TypeOK
<1>10. ASSUME NEW u \in Userdata, Lose(u) \/ Clear(u) \/ Finalize(u) PROVE TypeOK'
  <2>1. udata[u] \in Existing
    BY <1>10, Shapes DEF Lose, Clear, Finalize
  <2>2. /\ udata[u].index \in Indices
        /\ \A x \in {"lost", "cleared"} : [udata[u] EXCEPT !.status = x] \in Existing
    BY <2>1 DEF Existing
  <2>3. udata' \in [Userdata -> Existing \cup {Free}]
    BY <1>10, <2>2 DEF Lose, Clear, Finalize, TypeOK
  <2>4. javaObjectGcList' \in [States -> SUBSET Indices]
    BY <1>10, <2>2 DEF Lose, Clear, Finalize, List, TypeOK
  <2>5. call' \in Calls
    BY <1>10, ModifiedTypes DEF Lose, Clear, Finalize, List, TypeOK
  <2> QED
    BY <1>10, <2>3, <2>4, <2>5 DEF Lose, Clear, Finalize, TypeOK
<1>11. CASE UNCHANGED vars
  BY <1>11 DEF vars, TypeOK
<1> QED
  BY <1>1, <1>2, <1>3, <1>4, <1>5, <1>6, <1>7, <1>8, <1>9, <1>10, <1>11 DEF Next

\* The state of the maps, the lists, the userdata, the pushes and the walks.
THEOREM TypeCorrect == Spec => []TypeOK
  BY InitTypes, StepTypes, PTL DEF Spec
-------------------------------------------------------------------------------
(* RightUnlessRaced when only the main lua_State uses Java objects. What     *)
(* makes it inductive, as long as no two pushes took an index together: an   *)
(* index that a push, a userdata or a list has was given out (it is below    *)
(* sIdx), no two pushes or userdata share one, none that is pushed or held   *)
(* is listed or still to be removed by a walk, and the entries of the others *)
(* are theirs or none.                                                       *)

Exists(u) == udata[u].status # "free"
Given(t) == call[t].at \in {"put", "new"}

\* What is on the list of the main lua_State or still to be removed by a walk.
Listed ==
    javaObjectGcList[Main] \cup
    {i \in Indices : \E t \in Threads : call[t].at = "walking" /\ i \in call[t].left}

\* An entry may be o, or none; it is o if nobody raced.
Entry(found, o, safe) == found \in {o, None} /\ (safe => found = o)

HomeInv == \A t \in Threads : call[t].at = "read" \/ Given(t) => call[t].home = Main

ReadInv ==
    \A t \in Threads : call[t].at = "read" =>
        /\ call[t].index = sIdx[Main]
        /\ \A w \in Threads : call[w].at = "read" => w = t

FreshInv == \A i \in Indices : i >= sIdx[Main] => javaObjectMap[Main][i] = None

GivenInv ==
    \A t \in Threads : Given(t) =>
        /\ call[t].index < sIdx[Main] /\ call[t].index \notin Listed
        /\ \A u \in Userdata : Exists(u) => udata[u].index # call[t].index
        /\ \A w \in Threads : Given(w) /\ w # t => call[w].index # call[t].index
        /\ call[t].at = "put" => javaObjectMap[Main][call[t].index] = None
        /\ call[t].at = "new" => 
                 Entry(javaObjectMap[Main][call[t].index], call[t].obj, Main \notin raced)

ListInv == \A i \in Listed : i < sIdx[Main]

UdataInv ==
    \A u \in Userdata : Exists(u) =>
        /\ udata[u].index < sIdx[Main]
        /\ udata[u].status = "held" =>
              /\ udata[u].index \notin Listed
              /\ Entry(javaObjectMap[Main][udata[u].index], udata[u].obj, Main \notin raced)

DistinctInv ==
    \A u, v \in Userdata :
        u # v /\ Exists(u) /\ Exists(v) => udata[u].index # udata[v].index

Apart == ReadInv /\ FreshInv /\ GivenInv /\ ListInv /\ UdataInv /\ DistinctInv

IInv == TypeOK /\ HomeInv /\ (Main \notin overlapped => Apart)

LEMMA InitIInv == Init => IInv
  BY InitTypes DEF Init, IInv, HomeInv, Apart, ReadInv, FreshInv, GivenInv, ListInv,
     UdataInv, DistinctInv, Exists, Given, Listed, Entry, Idle, Free

\* The indices of what exists, is pushed or is listed.
LEMMA Ranges ==
    ASSUME TypeOK
    PROVE  /\ \A t \in Threads : call[t].at = "read" \/ Given(t) =>
                 call[t].index \in Indices /\ call[t].obj \in Objects
           /\ \A u \in Userdata : Exists(u) =>
                 udata[u].index \in Indices /\ udata[u].obj \in Objects
           /\ Listed \subseteq Indices
           /\ sIdx[Main] \in Nat /\ Indices \subseteq Nat
<1>1. \A t \in Threads : call[t].at = "read" \/ Given(t) => call[t] \in Pushing
  BY Shapes DEF Given
<1>2. \A u \in Userdata : Exists(u) => udata[u] \in Existing
  BY Shapes DEF Exists
<1>3. \A t \in Threads : call[t].at = "walking" => call[t].left \subseteq Indices
  BY Shapes DEF Walking
<1>4. Listed \subseteq Indices
  BY <1>3 DEF Listed, TypeOK
<1>5. sIdx[Main] \in Nat /\ Indices \subseteq Nat
  BY DEF TypeOK, Indices
<1> QED
  BY <1>1, <1>2, <1>4, <1>5 DEF Pushing, Existing

\* A step that leaves the indices, the maps, the pushes and the userdata alone and
\* lists nothing keeps them apart.
LEMMA KeepsApart ==
    ASSUME Apart, UNCHANGED <<sIdx, javaObjectMap, udata, raced>>,
           \A t \in Threads : /\ Given(t) \/ Given(t)' => call'[t] = call[t]
                              /\ call'[t].at = "read" => call'[t] = call[t],
           Listed' \subseteq Listed
    PROVE  Apart'
<1>1. ReadInv'
  BY DEF Apart, ReadInv
<1>2. FreshInv' /\ ListInv' /\ DistinctInv'
  BY DEF Apart, FreshInv, ListInv, DistinctInv, Exists
<1>3. GivenInv'
  BY DEF Apart, GivenInv, Given, Exists, Entry
<1>4. UdataInv'
  BY DEF Apart, UdataInv, Exists, Entry
<1> QED
  BY <1>1, <1>2, <1>3, <1>4 DEF Apart

LEMMA ReadIndexKeeps ==
    ASSUME Users = {Main}, IInv, TypeOK', NEW t \in Threads, NEW o \in Objects,
           ReadIndex(t, o)
    PROVE  IInv'
<1>1. /\ call[t] = Idle
      /\ call' = [call EXCEPT ![t] = [at |-> "read", home |-> Main,
                                      index |-> sIdx[Main], obj |-> o]]
      /\ overlapped' = overlapped \cup {s \in {Main} : \E w \in Threads :
                           call[w].at = "read" /\ call[w].home = s}
      /\ UNCHANGED <<owner, run, sIdx, javaObjectMap, javaObjectGcList, udata, raced>>
  BY DEF ReadIndex, Pushes
<1>2. /\ call'[t].at = "read" /\ call'[t].home = Main /\ call'[t].index = sIdx[Main]
      /\ call[t].at = "idle"
      /\ \A w \in Threads : w # t => call'[w] = call[w]
  BY <1>1 DEF IInv, TypeOK, Idle
<1>3. HomeInv'
  BY <1>2 DEF IInv, HomeInv, Given
<1>4. SUFFICES ASSUME Main \notin overlapped' PROVE Apart'
  BY <1>3 DEF IInv
<1>5. Apart /\ \A w \in Threads : call[w].at # "read"
  BY <1>1, <1>4 DEF IInv, HomeInv
<1>6. ReadInv'
  BY <1>1, <1>2, <1>5 DEF ReadInv
<1>7. \A w \in Threads : (Given(w) \/ Given(w)' => call'[w] = call[w])
  BY <1>2 DEF Given
<1>8. Listed' \subseteq Listed
  BY <1>1, <1>2 DEF Listed
<1>9. GivenInv'
  BY <1>1, <1>5, <1>7, <1>8 DEF Apart, GivenInv, Given, Exists, Entry
<1>10. FreshInv' /\ ListInv' /\ DistinctInv' /\ UdataInv'
  BY <1>1, <1>5, <1>8 DEF Apart, FreshInv, ListInv, DistinctInv, UdataInv, Exists, Entry
<1> QED
  BY <1>6, <1>9, <1>10 DEF Apart

LEMMA WriteIndexKeeps ==
    ASSUME IInv, TypeOK', NEW t \in Threads, WriteIndex(t)
    PROVE  IInv'
<1> DEFINE n == sIdx[Main]
<1>1. /\ call[t].at = "read" /\ call[t].home = Main /\ call[t] \in Pushing
      /\ call' = [call EXCEPT ![t].at = "put"]
      /\ sIdx' = [sIdx EXCEPT ![Main] = call[t].index + 1]
      /\ UNCHANGED <<owner, run, javaObjectMap, javaObjectGcList, udata, overlapped, raced>>
  BY Shapes DEF WriteIndex, IInv, HomeInv
<1>2. /\ call'[t].at = "put" /\ call'[t].home = Main /\ call'[t].index = call[t].index
      /\ \A w \in Threads : w # t => call'[w] = call[w]
  BY <1>1 DEF IInv, TypeOK, Pushing
<1>3. HomeInv'
  BY <1>2 DEF IInv, HomeInv, Given
<1>4. SUFFICES ASSUME Main \notin overlapped PROVE Apart'
  BY <1>1, <1>3 DEF IInv
<1>5. Apart
  BY <1>4 DEF IInv
<1>6. call[t].index = n /\ \A w \in Threads : call[w].at = "read" => w = t
  BY <1>1, <1>5 DEF Apart, ReadInv
<1>7. n \in Indices /\ n \in Nat /\ sIdx'[Main] = n + 1
  BY <1>1, <1>6, Ranges DEF IInv, TypeOK, Pushing
<1>8. Listed' \subseteq Listed
  BY <1>1, <1>2 DEF Listed
<1>9. \A i \in Indices : i < n => i < n + 1 /\ i # n
  BY <1>7 DEF Indices
<1>10. n \notin Listed /\ \A u \in Userdata : Exists(u) => udata[u].index # n
  BY <1>5, <1>7, <1>9, Ranges DEF IInv, Apart, ListInv, UdataInv
<1>11. \A w \in Threads : Given(w) => call[w].index \in Indices /\ call[w].index < n
  BY <1>5, Ranges DEF IInv, Apart, GivenInv
<1>12. ReadInv'
  BY <1>2, <1>6 DEF ReadInv
<1>13. FreshInv'
  BY <1>1, <1>5, <1>7 DEF Apart, FreshInv, Indices
<1>14. ListInv'
  BY <1>5, <1>7, <1>8, <1>9, Ranges DEF IInv, Apart, ListInv
<1>15. UdataInv'
  BY <1>1, <1>5, <1>7, <1>8, <1>9, Ranges DEF IInv, Apart, UdataInv, Exists, Entry
<1>16. DistinctInv'
  BY <1>1, <1>5 DEF Apart, DistinctInv, Exists
<1>17. GivenInv'
  <2>1. \A w \in Threads : w # t => (Given(w)' <=> Given(w))
    BY <1>2 DEF Given
  <2>2. ~Given(t)
    BY <1>1 DEF Given
  <2>3. \A w \in Threads : Given(w) => call[w].index # n
    BY <1>9, <1>11
  <2>4. /\ call'[t].index = n /\ n < n + 1 /\ n \notin Listed'
        /\ \A u \in Userdata : Exists(u)' => udata'[u].index # n
        /\ \A w \in Threads : Given(w)' /\ w # t => call'[w].index # n
        /\ javaObjectMap'[Main][n] = None
    <3>1. call'[t].index = n /\ n < n + 1 /\ n \notin Listed'
      BY <1>2, <1>6, <1>7, <1>8, <1>10
    <3>2. \A u \in Userdata : Exists(u)' => udata'[u].index # n
      BY <1>1, <1>10 DEF Exists
    <3>3. \A w \in Threads : Given(w)' /\ w # t => call'[w].index # n
      BY <1>2, <2>1, <2>3
    <3>4. javaObjectMap'[Main][n] = None
      BY <1>1, <1>5, <1>7 DEF Apart, FreshInv
    <3> QED
      BY <3>1, <3>2, <3>3, <3>4
  <2>5. ASSUME NEW s \in Threads, s # t, Given(s)'
        PROVE  /\ call'[s].index < sIdx'[Main] /\ call'[s].index \notin Listed'
               /\ \A u \in Userdata : Exists(u)' => udata'[u].index # call'[s].index
               /\ \A w \in Threads : Given(w)' /\ w # s => call'[w].index # call'[s].index
               /\ call'[s].at = "put" => javaObjectMap'[Main][call'[s].index] = None
               /\ call'[s].at = "new" => 
                     Entry(javaObjectMap'[Main][call'[s].index], call'[s].obj,
                           Main \notin raced')
    <3>1. call'[s] = call[s] /\ Given(s)
      BY <2>1, <2>5, <1>2
    <3>2. call[s].index < sIdx'[Main]
      BY <3>1, <1>7, <1>9, <1>11
    <3>3. call[s].index \notin Listed'
      BY <3>1, <1>5, <1>8 DEF Apart, GivenInv
    <3>4. \A u \in Userdata : Exists(u)' => udata'[u].index # call[s].index
      BY <3>1, <1>1, <1>5 DEF Apart, GivenInv, Exists
    <3>5. \A w \in Threads : Given(w)' /\ w # s => call'[w].index # call[s].index
      <4> SUFFICES ASSUME NEW w \in Threads, Given(w)', w # s
                   PROVE  call'[w].index # call[s].index
        OBVIOUS
      <4>1. CASE w = t
        BY <4>1, <3>1, <2>3, <2>4
      <4>2. CASE w # t
        <5>1. Given(w) /\ call'[w] = call[w]
          BY <4>2, <2>1, <1>2
        <5> QED
          BY <5>1, <3>1, <1>5 DEF Apart, GivenInv
      <4> QED
        BY <4>1, <4>2
    <3>6. /\ call[s].at = "put" => javaObjectMap'[Main][call[s].index] = None
          /\ call[s].at = "new" => 
                   Entry(javaObjectMap'[Main][call[s].index], call[s].obj,
                         Main \notin raced')
      BY <3>1, <1>1, <1>5 DEF Apart, GivenInv, Entry
    <3> QED
      BY <3>1, <3>2, <3>3, <3>4, <3>5, <3>6
  <2>6. call'[t].at = "put" /\ sIdx'[Main] = n + 1
    BY <1>2, <1>7
  <2> SUFFICES ASSUME NEW s \in Threads, Given(s)'
               PROVE  /\ call'[s].index < sIdx'[Main] /\ call'[s].index \notin Listed'
                      /\ \A u \in Userdata : Exists(u)' =>
                            udata'[u].index # call'[s].index
                      /\ \A w \in Threads : Given(w)' /\ w # s =>
                            call'[w].index # call'[s].index
                      /\ call'[s].at = "put" => javaObjectMap'[Main][call'[s].index] = None
                      /\ call'[s].at = "new" => 
                            Entry(javaObjectMap'[Main][call'[s].index], call'[s].obj,
                                  Main \notin raced')
    BY DEF GivenInv
  <2>7. CASE s = t
    BY <2>4, <2>6, <2>7
  <2>8. CASE s # t
    BY <2>5, <2>8
  <2> QED
    BY <2>7, <2>8
<1> QED
  BY <1>12, <1>13, <1>14, <1>15, <1>16, <1>17 DEF Apart

\* A write of the entry i, whatever it loses, leaves the other entries what they were
\* or none, and what they were if nobody raced.
LEMMA OtherEntries ==
    ASSUME TypeOK, NEW t \in Threads, NEW i \in Indices, NEW x \in Objects \cup {None},
           Write(t, Main, javaObjectMap[Main], [javaObjectMap[Main] EXCEPT ![i] = x])
    PROVE  /\ \A j \in Indices \ {i} :
                 /\ javaObjectMap'[Main][j] \in {javaObjectMap[Main][j], None}
                 /\ \A o : Entry(javaObjectMap[Main][j], o, Main \notin raced)
                           => Entry(javaObjectMap'[Main][j], o, Main \notin raced')
           /\ javaObjectMap'[Main][i] \in {javaObjectMap[Main][i], x, None}
           /\ Main \notin raced' => javaObjectMap'[Main][i] = x
<1> DEFINE new == [javaObjectMap[Main] EXCEPT ![i] = x]
<1>1. /\ new \in [Indices -> Objects \cup {None}] /\ new[i] = x
      /\ \A j \in Indices \ {i} : new[j] = javaObjectMap[Main][j]
  BY DEF TypeOK
<1>2. /\ raced \subseteq raced'
      /\ \A j \in Indices : javaObjectMap'[Main][j] \in {javaObjectMap[Main][j], new[j], None}
      /\ Main \notin raced' => javaObjectMap'[Main] = new
  BY <1>1, WriteEffect
<1> HIDE DEF new
<1> QED
  BY <1>1, <1>2 DEF Entry

\* Such a write keeps what is said of the fresh indices, the lists and the userdata,
\* if i was given out and no held userdata has it.
LEMMA WriteKeeps ==
    ASSUME TypeOK, Apart, NEW i \in Indices, i < sIdx[Main],
           \A u \in Userdata : udata[u].status = "held" => udata[u].index # i,
           \A j \in Indices \ {i} :
                 /\ javaObjectMap'[Main][j] \in {javaObjectMap[Main][j], None}
                 /\ \A o : Entry(javaObjectMap[Main][j], o, Main \notin raced)
                           => Entry(javaObjectMap'[Main][j], o, Main \notin raced'),
           Listed' \subseteq Listed, UNCHANGED <<sIdx, udata>>
    PROVE  FreshInv' /\ ListInv' /\ UdataInv' /\ DistinctInv'
<1>1. FreshInv'
  <2>1. \A j \in Indices : j >= sIdx[Main] => j # i /\ javaObjectMap[Main][j] = None
    BY Ranges DEF Apart, FreshInv
  <2> QED
    BY <2>1 DEF FreshInv
<1>2. ListInv' /\ DistinctInv'
  BY DEF Apart, ListInv, DistinctInv, Exists
<1>3. UdataInv'
  BY Ranges DEF Apart, UdataInv, Exists
<1> QED
  BY <1>1, <1>2, <1>3

LEMMA PutObjectKeeps ==
    ASSUME IInv, TypeOK', NEW t \in Threads, PutObject(t)
    PROVE  IInv'
<1>1. /\ call[t].at = "put" /\ call[t].home = Main /\ call[t] \in Pushing
      /\ Write(t, Main, javaObjectMap[Main],
               [javaObjectMap[Main] EXCEPT ![call[t].index] = call[t].obj])
      /\ call' = [call EXCEPT ![t].at = "new"]
      /\ UNCHANGED <<owner, run, sIdx, javaObjectGcList, udata, overlapped>>
  BY Shapes DEF PutObject, IInv, HomeInv, Given
<1>2. PICK i \in Indices, o \in Objects : call[t].index = i /\ call[t].obj = o
  BY <1>1 DEF Pushing
<1>3. /\ call'[t].at = "new" /\ call'[t].home = Main
      /\ call'[t].index = i /\ call'[t].obj = o
      /\ \A w \in Threads : w # t => call'[w] = call[w]
  BY <1>1, <1>2 DEF IInv, TypeOK, Pushing
<1>4. HomeInv'
  BY <1>3 DEF IInv, HomeInv, Given
<1>5. SUFFICES ASSUME Main \notin overlapped PROVE Apart'
  BY <1>1, <1>4 DEF IInv
<1>6. Apart
  BY <1>5 DEF IInv
<1>7. /\ Given(t) /\ i < sIdx[Main] /\ i \notin Listed
      /\ \A u \in Userdata : Exists(u) => udata[u].index # i
      /\ \A w \in Threads : Given(w) /\ w # t => call[w].index # i
      /\ javaObjectMap[Main][i] = None
  BY <1>1, <1>2, <1>6 DEF Apart, GivenInv, Given
<1>8. /\ \A j \in Indices \ {i} :
            /\ javaObjectMap'[Main][j] \in {javaObjectMap[Main][j], None}
            /\ \A x : Entry(javaObjectMap[Main][j], x, Main \notin raced)
                      => Entry(javaObjectMap'[Main][j], x, Main \notin raced')
      /\ Entry(javaObjectMap'[Main][i], o, Main \notin raced')
  <2>1. Write(t, Main, javaObjectMap[Main], [javaObjectMap[Main] EXCEPT ![i] = o])
    BY <1>1, <1>2
  <2>2. /\ \A j \in Indices \ {i} :
              /\ javaObjectMap'[Main][j] \in {javaObjectMap[Main][j], None}
              /\ \A x : Entry(javaObjectMap[Main][j], x, Main \notin raced)
                        => Entry(javaObjectMap'[Main][j], x, Main \notin raced')
        /\ javaObjectMap'[Main][i] \in {javaObjectMap[Main][i], o, None}
        /\ Main \notin raced' => javaObjectMap'[Main][i] = o
    BY <2>1, OtherEntries DEF IInv
  <2>3. Entry(javaObjectMap'[Main][i], o, Main \notin raced')
    BY <2>2, <1>7 DEF Entry
  <2> QED
    BY <2>2, <2>3
<1>9. Listed' \subseteq Listed
  BY <1>1, <1>3 DEF Listed
<1>10. \A w \in Threads : Given(w)' <=> Given(w)
  BY <1>3, <1>7 DEF Given
<1>11. ReadInv'
  BY <1>1, <1>3, <1>6 DEF Apart, ReadInv
<1>12. FreshInv' /\ ListInv' /\ UdataInv' /\ DistinctInv'
  BY <1>1, <1>6, <1>7, <1>8, <1>9, WriteKeeps DEF IInv, Exists
<1>13. GivenInv'
  <2> SUFFICES ASSUME NEW s \in Threads, Given(s)'
               PROVE  /\ call'[s].index < sIdx'[Main] /\ call'[s].index \notin Listed'
                      /\ \A u \in Userdata : Exists(u)' =>
                            udata'[u].index # call'[s].index
                      /\ \A w \in Threads : Given(w)' /\ w # s =>
                            call'[w].index # call'[s].index
                      /\ call'[s].at = "put" => javaObjectMap'[Main][call'[s].index] = None
                      /\ call'[s].at = "new" =>
                            Entry(javaObjectMap'[Main][call'[s].index], call'[s].obj,
                                  Main \notin raced')
    BY DEF GivenInv
  <2>1. \A w \in Threads : call'[w].index = call[w].index
    BY <1>2, <1>3
  <2>2. /\ call'[s].index < sIdx'[Main] /\ call'[s].index \notin Listed'
        /\ \A u \in Userdata : Exists(u)' => udata'[u].index # call'[s].index
        /\ \A w \in Threads : Given(w)' /\ w # s => call'[w].index # call'[s].index
    BY <2>1, <1>1, <1>6, <1>9, <1>10 DEF Apart, GivenInv, Exists
  <2>3. CASE s = t
    BY <2>2, <2>3, <1>3, <1>8
  <2>4. CASE s # t
    <3>1. /\ call'[s] = call[s] /\ Given(s) /\ call[s].index \in Indices \ {i}
          /\ call[s].at = "put" => javaObjectMap[Main][call[s].index] = None
          /\ call[s].at = "new" =>
                Entry(javaObjectMap[Main][call[s].index], call[s].obj, Main \notin raced)
      BY <2>4, <1>3, <1>6, <1>7, <1>10, Ranges DEF IInv, Apart, GivenInv
    <3> QED
      BY <2>2, <3>1, <1>8
  <2> QED
    BY <2>3, <2>4
<1> QED
  BY <1>11, <1>12, <1>13 DEF Apart

LEMMA NewUserdataKeeps ==
    ASSUME IInv, TypeOK', NEW t \in Threads, NEW u \in Userdata, NewUserdata(t, u)
    PROVE  IInv'
<1>1. /\ call[t].at = "new" /\ udata[u] = Free
      /\ udata' = [udata EXCEPT ![u] = [status |-> "held", index |-> call[t].index,
                                        obj |-> call[t].obj]]
      /\ call' = [call EXCEPT ![t] = Idle]
      /\ UNCHANGED <<owner, run, sIdx, javaObjectMap, javaObjectGcList, overlapped, raced>>
  BY DEF NewUserdata
<1>2. /\ call'[t].at = "idle" /\ \A w \in Threads : w # t => call'[w] = call[w]
      /\ udata'[u].status = "held" /\ udata'[u].index = call[t].index
      /\ udata'[u].obj = call[t].obj
      /\ \A v \in Userdata : v # u => udata'[v] = udata[v]
  BY <1>1 DEF IInv, TypeOK, Idle
<1>3. HomeInv'
  BY <1>2 DEF IInv, HomeInv, Given
<1>4. SUFFICES ASSUME Main \notin overlapped PROVE Apart'
  BY <1>1, <1>3 DEF IInv
<1>5. Apart /\ Given(t)
  BY <1>1, <1>4 DEF IInv, Given
<1>6. /\ call[t].index < sIdx[Main] /\ call[t].index \notin Listed
      /\ \A v \in Userdata : Exists(v) => udata[v].index # call[t].index
      /\ \A w \in Threads : Given(w) /\ w # t => call[w].index # call[t].index
      /\ Entry(javaObjectMap[Main][call[t].index], call[t].obj, Main \notin raced)
  BY <1>1, <1>5 DEF Apart, GivenInv
<1>7. Listed' \subseteq Listed
  BY <1>1, <1>2 DEF Listed
<1>8. \A w \in Threads : Given(w)' => w # t /\ Given(w) /\ call'[w] = call[w]
  BY <1>2 DEF Given
<1>9. ReadInv'
  BY <1>1, <1>2, <1>5 DEF Apart, ReadInv
<1>10. FreshInv' /\ ListInv'
  BY <1>1, <1>5, <1>7 DEF Apart, FreshInv, ListInv
<1>11. UdataInv' /\ DistinctInv'
  BY <1>1, <1>2, <1>5, <1>6, <1>7 DEF Apart, UdataInv, DistinctInv, Exists
<1>12. GivenInv'
  BY <1>1, <1>2, <1>5, <1>6, <1>7, <1>8 DEF Apart, GivenInv, Exists
<1> QED
  BY <1>9, <1>10, <1>11, <1>12 DEF Apart

LEMMA LoseKeeps ==
    ASSUME IInv, TypeOK', NEW u \in Userdata, Lose(u)
    PROVE  IInv'
<1>1. /\ Exists(u) /\ udata[u] \in Existing
      /\ udata' = [udata EXCEPT ![u] = [udata[u] EXCEPT !.status = "lost"]]
      /\ UNCHANGED <<owner, run, sIdx, javaObjectMap, javaObjectGcList, call,
                     overlapped, raced>>
  BY Shapes DEF Lose, Exists, IInv
<1>2. /\ udata'[u].status = "lost" /\ udata'[u].index = udata[u].index
      /\ \A v \in Userdata : v # u => udata'[v] = udata[v]
  BY <1>1 DEF IInv, TypeOK, Existing
<1>3. HomeInv' /\ Listed' = Listed
  BY <1>1 DEF IInv, HomeInv, Given, Listed
<1>4. SUFFICES ASSUME Main \notin overlapped PROVE Apart'
  BY <1>1, <1>3 DEF IInv
<1>5. Apart
  BY <1>4 DEF IInv
<1>6. ReadInv' /\ FreshInv' /\ ListInv'
  BY <1>1, <1>3, <1>5 DEF Apart, ReadInv, FreshInv, ListInv
<1>7. UdataInv' /\ DistinctInv'
  BY <1>1, <1>2, <1>3, <1>5 DEF Apart, UdataInv, DistinctInv, Exists
<1>8. GivenInv'
  BY <1>1, <1>2, <1>3, <1>5 DEF Apart, GivenInv, Given, Exists
<1> QED
  BY <1>6, <1>7, <1>8 DEF Apart

LEMMA ListKeeps ==
    ASSUME IInv, TypeOK', NEW u \in Userdata, Clear(u) \/ Finalize(u)
    PROVE  IInv'
<1>1. /\ Exists(u) /\ udata[u] \in Existing
      /\ javaObjectGcList'[Main] \subseteq javaObjectGcList[Main] \cup {udata[u].index}
      /\ call' \in {Modified, call}
      /\ UNCHANGED <<owner, run, sIdx, javaObjectMap, overlapped, raced>>
  BY Shapes DEF Clear, Finalize, List, Exists, IInv, TypeOK
<1>2. /\ udata'[u].status \in {"cleared", "free"}
      /\ udata'[u].status = "cleared" => udata'[u].index = udata[u].index
      /\ \A v \in Userdata : v # u => udata'[v] = udata[v]
  BY <1>1 DEF Clear, Finalize, IInv, TypeOK, Existing, Free
<1>3. \A t \in Threads :
         /\ call'[t].at = call[t].at
         /\ call[t].at # "walking" => call'[t] = call[t]
         /\ call[t].at = "walking" => call'[t].left = call[t].left
  BY <1>1, ModifiedTypes DEF IInv
<1>4. Listed' \subseteq Listed \cup {udata[u].index}
  BY <1>1, <1>3 DEF Listed
<1>5. HomeInv'
  BY <1>3 DEF IInv, HomeInv, Given
<1>6. SUFFICES ASSUME Main \notin overlapped PROVE Apart'
  BY <1>1, <1>5 DEF IInv
<1>7. Apart
  BY <1>6 DEF IInv
<1>8. ReadInv' /\ FreshInv'
  BY <1>1, <1>3, <1>7 DEF Apart, ReadInv, FreshInv
<1>9. ListInv'
  BY <1>1, <1>4, <1>7 DEF Apart, ListInv, UdataInv
<1>10. UdataInv'
  <2> SUFFICES ASSUME NEW v \in Userdata, Exists(v)'
               PROVE  /\ udata'[v].index < sIdx'[Main]
                      /\ udata'[v].status = "held" =>
                            /\ udata'[v].index \notin Listed'
                            /\ Entry(javaObjectMap'[Main][udata'[v].index],
                                     udata'[v].obj, Main \notin raced')
    BY DEF UdataInv
  <2>1. CASE v = u
    BY <2>1, <1>1, <1>2, <1>7 DEF Apart, UdataInv, Exists
  <2>2. CASE v # u
    <3>1. udata'[v] = udata[v] /\ Exists(v) /\ udata[v].index # udata[u].index
      BY <2>2, <1>1, <1>2, <1>7 DEF Apart, DistinctInv, Exists
    <3> QED
      BY <3>1, <1>1, <1>4, <1>7 DEF Apart, UdataInv
  <2> QED
    BY <2>1, <2>2
<1>11. DistinctInv'
  BY <1>1, <1>2, <1>7 DEF Apart, DistinctInv, Exists
<1>12. GivenInv'
  <2> SUFFICES ASSUME NEW s \in Threads, Given(s)'
               PROVE  /\ call'[s].index < sIdx'[Main] /\ call'[s].index \notin Listed'
                      /\ \A v \in Userdata : Exists(v)' =>
                            udata'[v].index # call'[s].index
                      /\ \A w \in Threads : Given(w)' /\ w # s =>
                            call'[w].index # call'[s].index
                      /\ call'[s].at = "put" => javaObjectMap'[Main][call'[s].index] = None
                      /\ call'[s].at = "new" =>
                            Entry(javaObjectMap'[Main][call'[s].index], call'[s].obj,
                                  Main \notin raced')
    BY DEF GivenInv
  <2>1. \A w \in Threads : Given(w)' => Given(w) /\ call'[w] = call[w]
    BY <1>3 DEF Given
  <2>2. call[s].index # udata[u].index
    BY <2>1, <1>1, <1>7 DEF Apart, GivenInv
  <2>3. \A v \in Userdata : Exists(v)' => udata'[v].index # call[s].index
    BY <2>1, <2>2, <1>2, <1>7 DEF Apart, GivenInv, Exists
  <2> QED
    BY <2>1, <2>2, <2>3, <1>1, <1>4, <1>7 DEF Apart, GivenInv
<1> QED
  BY <1>8, <1>9, <1>10, <1>11, <1>12 DEF Apart

LEMMA GcRemoveKeeps ==
    ASSUME IInv, TypeOK', NEW t \in Threads, GcRemove(t)
    PROVE  IInv'
<1>1. PICK i \in call[t].left :
         /\ Write(t, Main, javaObjectMap[Main], [javaObjectMap[Main] EXCEPT ![i] = None])
         /\ call' = [call EXCEPT ![t].left = @ \ {i}]
  BY DEF GcRemove
<1>2. /\ call[t].at = "walking" /\ call[t] \in Walking /\ i \in Indices
      /\ UNCHANGED <<owner, run, sIdx, javaObjectGcList, udata, overlapped>>
  BY <1>1, Shapes DEF GcRemove, IInv, Walking
<1>3. /\ call'[t].at = "walking" /\ call'[t].left \subseteq call[t].left
      /\ \A w \in Threads : w # t => call'[w] = call[w]
  BY <1>1, <1>2 DEF IInv, TypeOK, Walking
<1>4. i \in Listed /\ Listed' \subseteq Listed
  BY <1>1, <1>2, <1>3 DEF Listed
<1>5. \A w \in Threads : /\ Given(w) \/ Given(w)' => call'[w] = call[w] /\ Given(w)
                         /\ call'[w].at = "read" => call'[w] = call[w]
  BY <1>2, <1>3 DEF Given
<1>6. HomeInv'
  BY <1>5 DEF IInv, HomeInv
<1>7. SUFFICES ASSUME Main \notin overlapped PROVE Apart'
  BY <1>2, <1>6 DEF IInv
<1>8. Apart
  BY <1>7 DEF IInv
<1>9. /\ i < sIdx[Main]
      /\ \A u \in Userdata : udata[u].status = "held" => udata[u].index # i
      /\ \A w \in Threads : Given(w) => call[w].index \in Indices \ {i}
  BY <1>4, <1>8, Ranges DEF IInv, Apart, ListInv, UdataInv, GivenInv, Exists
<1>10. \A j \in Indices \ {i} :
          /\ javaObjectMap'[Main][j] \in {javaObjectMap[Main][j], None}
          /\ \A o : Entry(javaObjectMap[Main][j], o, Main \notin raced)
                    => Entry(javaObjectMap'[Main][j], o, Main \notin raced')
  BY <1>1, <1>2, OtherEntries DEF IInv
<1>11. FreshInv' /\ ListInv' /\ UdataInv' /\ DistinctInv'
  BY <1>2, <1>4, <1>8, <1>9, <1>10, WriteKeeps DEF IInv
<1>12. ReadInv'
  BY <1>2, <1>5, <1>8 DEF Apart, ReadInv
<1>13. GivenInv'
  BY <1>2, <1>4, <1>5, <1>8, <1>9, <1>10 DEF Apart, GivenInv, Exists
<1> QED
  BY <1>11, <1>12, <1>13 DEF Apart

LEMMA StepIInv ==
    ASSUME Users = {Main}, IInv, [Next]_vars
    PROVE  IInv'
<1>t. TypeOK'
  BY StepTypes DEF IInv
<1>1. ASSUME NEW t \in Threads, WriteIndex(t) PROVE IInv'
  BY <1>t, <1>1, WriteIndexKeeps
<1>2. ASSUME NEW t \in Threads, PutObject(t) PROVE IInv'
  BY <1>t, <1>2, PutObjectKeeps
<1>3. ASSUME NEW t \in Threads, GcRemove(t) PROVE IInv'
  BY <1>t, <1>3, GcRemoveKeeps
<1>4. ASSUME NEW t \in Threads, NEW o \in Objects, ReadIndex(t, o) PROVE IInv'
  BY <1>t, <1>4, ReadIndexKeeps
<1>5. ASSUME NEW t \in Threads, NEW u \in Userdata, NewUserdata(t, u) PROVE IInv'
  BY <1>t, <1>5, NewUserdataKeeps
<1>6. ASSUME NEW u \in Userdata, Lose(u) \/ Clear(u) \/ Finalize(u) PROVE IInv'
  BY <1>t, <1>6, LoseKeeps, ListKeeps
<1>7. ASSUME NEW t \in Threads, GcBegin(t) \/ GcWalked(t) \/ GcClear(t) PROVE IInv'
  <2>1. /\ UNCHANGED <<owner, run, sIdx, javaObjectMap, udata, overlapped, raced>>
        /\ javaObjectGcList'[Main] \subseteq javaObjectGcList[Main]
    BY <1>7 DEF GcBegin, GcWalked, GcClear, IInv, TypeOK
  <2>2. \A w \in Threads : w # t =>
           /\ call'[w].at = call[w].at
           /\ call[w].at # "walking" => call'[w] = call[w]
           /\ call[w].at = "walking" => call'[w].left = call[w].left
    BY <1>7, ModifiedTypes DEF GcBegin, GcWalked, GcClear, IInv, TypeOK
  <2>3. /\ call[t].at \in {"idle", "walking", "walked"}
        /\ call'[t].at \in {"idle", "walking", "walked"}
        /\ call'[t].at = "walking" => call'[t].left = javaObjectGcList[Main]
    BY <1>7, ModifiedTypes DEF GcBegin, GcWalked, GcClear, IInv, TypeOK, Idle, Walked
  <2>4. Listed' \subseteq Listed
    BY <2>1, <2>2, <2>3 DEF Listed
  <2>5. \A w \in Threads : /\ Given(w) \/ Given(w)' => call'[w] = call[w]
                           /\ call'[w].at = "read" => call'[w] = call[w]
    BY <2>2, <2>3 DEF Given
  <2>6. HomeInv'
    BY <2>5 DEF IInv, HomeInv, Given
  <2> QED
    BY <1>t, <2>1, <2>4, <2>5, <2>6, KeepsApart DEF IInv
<1>8. ASSUME \/ \E t \in Threads : Enter(t) \/ Leave(t)
             \/ \E s \in States : Switch(s)
             \/ UNCHANGED vars
      PROVE  IInv'
  <2>1. UNCHANGED <<sIdx, javaObjectMap, javaObjectGcList, udata, call, overlapped, raced>>
    BY <1>8 DEF Enter, Leave, Switch, vars
  <2>2. HomeInv' /\ Listed' = Listed
    BY <2>1 DEF IInv, HomeInv, Given, Listed
  <2> QED
    BY <1>t, <2>1, <2>2, KeepsApart DEF IInv
<1> QED
  BY <1>1, <1>2, <1>3, <1>4, <1>5, <1>6, <1>7, <1>8 DEF Next

\* Code in the main lua_State gets the object it pushed or none, never another one,
\* whichever threads push and call gc() outside the monitor and whichever lua_State
\* runs the finalizers, as long as no two pushes took an index together; and it
\* gets the object unless two threads wrote the map at once.
THEOREM MainGetsRightObject ==
    ASSUME Users = {Main}
    PROVE  Spec => []RightUnlessRaced
<1>1. IInv => RightUnlessRaced
  <2> SUFFICES ASSUME IInv, run = Main, Main \notin overlapped,
                      NEW u \in Userdata, udata[u].status = "held"
               PROVE  /\ Found(u) \in {udata[u].obj, None}
                      /\ Found(u) = udata[u].obj \/ run \in raced
    BY DEF RightUnlessRaced
  <2>1. Entry(javaObjectMap[Main][udata[u].index], udata[u].obj, Main \notin raced)
    BY DEF IInv, Apart, UdataInv, Exists
  <2> QED
    BY <2>1 DEF Entry, Found
<1>2. IInv /\ [Next]_vars => IInv'
  BY StepIInv
<1> QED
  BY <1>1, <1>2, InitIInv, PTL DEF Spec
-------------------------------------------------------------------------------
(* When overlapped stays empty: everybody pushes in the monitor.             *)

InMonitor ==
    /\ TypeOK /\ overlapped = {}
    /\ \A t \in Threads : call[t].at \in {"read", "put", "new"} => owner = t

LEMMA StepInMonitor ==
    ASSUME Outside = {}, InMonitor, [Next]_vars
    PROVE  InMonitor'
<1> USE DEF InMonitor
<1>t. TypeOK'
  BY StepTypes
<1>1. ASSUME NEW t \in Threads, NEW o \in Objects, ReadIndex(t, o) PROVE InMonitor'
  <2>1. owner = t /\ call[t] = Idle
    BY <1>1 DEF ReadIndex, Pushes
  <2>2. \A w \in Threads : call[w].at # "read"
    BY <2>1 DEF Idle
  <2>3. overlapped' = {} /\ owner' = owner
    BY <1>1, <2>2 DEF ReadIndex
  <2>4. \A w \in Threads : w # t => call'[w] = call[w]
    BY <1>1 DEF ReadIndex, TypeOK
  <2> QED
    BY <1>t, <2>1, <2>3, <2>4
<1>2. ASSUME NEW t \in Threads, Enter(t) \/ Leave(t) PROVE InMonitor'
  <2>1. /\ call[t] = Idle /\ (owner = None \/ owner = t)
        /\ UNCHANGED <<call, overlapped>>
    BY <1>2 DEF Enter, Leave
  <2>2. \A w \in Threads : call[w].at \notin {"read", "put", "new"}
    BY <2>1 DEF Idle
  <2> QED
    BY <1>t, <2>1, <2>2
<1>3. ASSUME NEW t \in Threads, \/ WriteIndex(t) \/ PutObject(t)
                                \/ \E u \in Userdata : NewUserdata(t, u)
      PROVE  InMonitor'
  <2>1. /\ UNCHANGED <<owner, overlapped>> /\ call[t].at \in {"read", "put", "new"}
        /\ \A w \in Threads : w # t => call'[w] = call[w]
    BY <1>3 DEF WriteIndex, PutObject, NewUserdata, TypeOK
  <2> QED
    BY <1>t, <2>1
<1>4. ASSUME NEW t \in Threads, GcBegin(t) \/ GcRemove(t) \/ GcWalked(t) \/ GcClear(t)
      PROVE  InMonitor'
  <2>1. /\ UNCHANGED <<owner, overlapped>>
        /\ \A w \in Threads : w # t => call'[w].at = call[w].at
    BY <1>4, ModifiedTypes DEF GcBegin, GcRemove, GcWalked, GcClear, TypeOK
  <2>2. call'[t].at \notin {"read", "put", "new"}
    <3>1. CASE GcRemove(t)
      <4>1. call[t].at = "walking" /\ call[t] \in Walking
        BY <3>1, Shapes DEF GcRemove
      <4> QED
        BY <3>1, <4>1 DEF GcRemove, TypeOK, Walking
    <3>2. CASE ~GcRemove(t)
      BY <1>4, <3>2, ModifiedTypes DEF GcBegin, GcWalked, GcClear, TypeOK, Idle, Walked
    <3> QED
      BY <3>1, <3>2
  <2> QED
    BY <1>t, <2>1, <2>2
<1>5. ASSUME \/ \E u \in Userdata : Lose(u) \/ Clear(u) \/ Finalize(u)
             \/ \E s \in States : Switch(s)
             \/ UNCHANGED vars
      PROVE  InMonitor'
  <2>1. /\ UNCHANGED <<owner, overlapped>>
        /\ \A t \in Threads : call'[t].at = call[t].at
    BY <1>5, ModifiedTypes DEF Lose, Clear, Finalize, List, Switch, vars
  <2> QED
    BY <1>t, <2>1
<1> QED
  BY <1>1, <1>2, <1>3, <1>4, <1>5 DEF Next

\* If nobody pushes outside the monitor, no two pushes ever take an index together:
\* the escape of RightUnlessRaced is that of setField, setI, doFile, doAsset and
\* doString only.
THEOREM InMonitorNeverOverlaps ==
    ASSUME Outside = {}
    PROVE  Spec => [](overlapped = {})
<1>1. Init => InMonitor
  BY InitTypes DEF Init, InMonitor, Idle
<1>2. InMonitor /\ [Next]_vars => InMonitor'
  BY StepInMonitor
<1>3. InMonitor => overlapped = {}
  BY DEF InMonitor
<1> QED
  BY <1>1, <1>2, <1>3, PTL DEF Spec
===============================================================================
