--------------------------- MODULE LuaObject_proofs --------------------------
(***************************************************************************)
(* Theorems about LuaObject, for any threads, objects and values: the      *)
(* types, and, when all objects belong to one LuaState, that an object     *)
(* represents its value.  The hypothesis is needed: with two LuaStates on  *)
(* one registry TLC refutes Represents.                                    *)
(*                                                                         *)
(* The free list is described without following it: a free slot holds the  *)
(* number of another free slot or 0, no two of them hold the same one, and *)
(* none holds the first.                                                   *)
(***************************************************************************)
EXTENDS LuaObject, SequenceTheorems, TLAPS

OneState == \A s1, s2 \in States : s1 = s2

LEMMA ExceptProperties ==
    ASSUME NEW S, NEW s \in Seq(S), NEW x \in S, NEW n
    PROVE  /\ [s EXCEPT ![n] = x] \in Seq(S)
           /\ Len([s EXCEPT ![n] = x]) = Len(s)
           /\ n \in 1..Len(s) => [s EXCEPT ![n] = x][n] = x
           /\ \A i \in 1..Len(s) : i # n => [s EXCEPT ![n] = x][i] = s[i]
<1> DEFINE u == [s EXCEPT ![n] = x]
<1>1. Len(s) \in Nat /\ s \in [1..Len(s) -> S]
  OBVIOUS
<1>2. u \in [1..Len(s) -> S]
  BY <1>1
<1>3. u \in Seq(S) /\ Len(u) = Len(s)
  <2> HIDE DEF u
  <2> QED BY <1>1, <1>2
<1> QED BY <1>1, <1>3

LEMMA PutProperties ==
    ASSUME NEW S, NEW s \in Seq(S), NEW x \in S, NEW n \in Nat
    PROVE  /\ Put(s, n, x) \in Seq(S)
           /\ n \in 1..(Len(s) + 1) =>
                /\ Len(Put(s, n, x)) \in {Len(s), Len(s) + 1}
                /\ n \in 1..Len(Put(s, n, x))
                /\ Put(s, n, x)[n] = x
                /\ \A i \in 1..Len(Put(s, n, x)) :
                      i # n => i \in 1..Len(s) /\ Put(s, n, x)[i] = s[i]
<1>1. CASE n = Len(s) + 1
  BY <1>1 DEF Put
<1>2. CASE n # Len(s) + 1
  <2>1. Put(s, n, x) = [s EXCEPT ![n] = x]
    BY <1>2 DEF Put
  <2>2. Len(s) \in Nat
    OBVIOUS
  <2> QED BY <1>2, <2>1, <2>2, ExceptProperties
<1> QED BY <1>1, <1>2

LEMMA LinkProperties ==
    ASSUME NEW x
    PROVE  Link(x) \in Nat
BY DEF Link

(***************************************************************************)
(* Types, for any number of LuaStates.                                     *)
(***************************************************************************)

\* The finalizer works on an object of its own, and never on one that stands
\* for nil: luaL_unref would make -1 the first free slot.
Freeing == pc[Finalizer] # "idle" => /\ ref[works[Finalizer]] \in Nat
                                     /\ life[works[Finalizer]] = "freeing"

TInv == TypeOK /\ Freeing

LEMMA InitTInv == Init => TInv
<1>1. <<>> \in Seq(Values \cup Nat)
  BY EmptySeq
<1> SUFFICES ASSUME Init PROVE TInv
  OBVIOUS
<1>2. Freeing
  BY DEF Init, Freeing, Workers
<1>3. registry \in Seq(Values \cup Nat) /\ head \in Nat
  BY <1>1 DEF Init
<1>4. slot \in [Workers -> Nat] /\ ref \in [Objects -> Nat \cup {-1}]
  BY DEF Init
<1>5. (CHOOSE o \in Objects : TRUE) \in Objects
  BY ObjectAssumption
<1>6. works \in [Workers -> Objects]
  BY <1>5 DEF Init
<1> QED BY <1>2, <1>3, <1>4, <1>6 DEF Init, TInv, TypeOK

LEMMA StepTInv == TInv /\ [Next]_vars => TInv'
<1> SUFFICES ASSUME TInv, [Next]_vars PROVE TInv'
  OBVIOUS
<1> USE ObjectAssumption DEF TInv, TypeOK, Freeing, Goto, Enter, Leave, Becomes, lua, thread, object, Workers
<1>1. ASSUME NEW t \in Threads, NEW o \in Objects, Construct(t, o) PROVE TInv'
  BY <1>1 DEF Construct
<1>2. ASSUME NEW t \in Threads, TakeFirst(t) PROVE TInv'
  BY <1>2 DEF TakeFirst
<1>3. ASSUME NEW t \in Threads, Unlink(t) PROVE TInv'
  BY <1>3, LinkProperties DEF Unlink
<1>4. ASSUME NEW t \in Threads, Store(t) PROVE TInv'
  <2>1. registry' \in Seq(Values \cup Nat)
    <3>1. made[works[t]] \in Values \cup Nat /\ slot[t] \in Nat
      OBVIOUS
    <3> QED BY <1>4, <3>1, PutProperties DEF Store
  <2> QED BY <1>4, <2>1 DEF Store
<1>5. ASSUME NEW o \in Objects, ConstructNil(o) PROVE TInv'
  BY <1>5 DEF ConstructNil
<1>6. ASSUME NEW o \in Objects, ConstructFails(o) PROVE TInv'
  BY <1>6 DEF ConstructFails
<1>7. ASSUME NEW o \in Objects, Drop(o) PROVE TInv'
  BY <1>7 DEF Drop
<1>8. ASSUME NEW o \in Objects, Finalize(o) PROVE TInv'
  BY <1>8 DEF Finalize
<1>9. ASSUME NEW o \in Objects, FinalizeNil(o) PROVE TInv'
  BY <1>9 DEF FinalizeNil
<1>10. CASE ReadFirst BY <1>10 DEF ReadFirst
<1>11. CASE LinkSlot
  <2>1. registry' \in Seq(Values \cup Nat)
    <3>1. slot[Finalizer] \in Values \cup Nat
      OBVIOUS
    <3> QED BY <1>11, <3>1, ExceptProperties DEF LinkSlot
  <2> QED BY <1>11, <2>1 DEF LinkSlot
<1>12. CASE LeadList
  <2>1. emptied' \in BOOLEAN
    BY <1>12 DEF LeadList
  <2> QED BY <1>12, <2>1 DEF LeadList
<1>13. CASE UNCHANGED vars BY <1>13 DEF vars
<1> QED BY <1>1, <1>2, <1>3, <1>4, <1>5, <1>6, <1>7, <1>8, <1>9, <1>10, <1>11, <1>12, <1>13
     DEF Next, Making, Finalizing

\* Every variable keeps its type, however many LuaStates share the registry.
\* In particular a reference is never below LUA_REFNIL, which LuaObject.push
\* would take for another key of the registry.
THEOREM TypeCorrect == Spec => []TypeOK
<1> QED BY InitTInv, StepTInv, PTL DEF Spec, TInv

(***************************************************************************)
(* One LuaState: an object represents its value.                           *)
(***************************************************************************)

Busy(t) == pc[t] # "idle"

\* Who works has the monitor, and is alone.
Mutex == /\ \A t \in Workers : Busy(t) => owner[L[works[t]]] = t
         /\ \A t, u \in Workers : Busy(t) /\ Busy(u) => t = u

\* A thread makes an object that nobody has yet, and its local variable is the
\* slot that it is going to use.
Makes == \A t \in Threads : Busy(t) =>
    /\ life[works[t]] = "making"
    /\ pc[t] \in {"take", "unlink", "store"}
    /\ pc[t] = "unlink" => slot[t] = head
    /\ pc[t] = "store" => \/ slot[t] = Len(registry) + 1
                          \/ slot[t] \in 1..Len(registry) /\ registry[slot[t]] \in Nat

Frees == Busy(Finalizer) =>
    /\ pc[Finalizer] \in {"read", "link", "lead"}
    /\ pc[Finalizer] = "link" => slot[Finalizer] = head
    /\ pc[Finalizer] = "lead" /\ ref[works[Finalizer]] # 0 =>
          registry[ref[works[Finalizer]]] = head

\* The field of a Java object begins as 0.
Unborn == \A o \in Objects : life[o] = "none" => ref[o] = 0

\* The value of an object is gone only when its finalizer has linked the slot.
Linked(o) == pc[Finalizer] = "lead" /\ works[Finalizer] = o

Holds == /\ \A o \in Objects : HasSlot(o) =>
                /\ ref[o] \in 1..Len(registry)
                /\ ~ Linked(o) => registry[ref[o]] = made[o]
         /\ \A o, p \in Objects : HasSlot(o) /\ HasSlot(p) /\ o # p => ref[o] # ref[p]

\* The slot that is being taken from the free list or put on it.
InHand(n) == \/ \E t \in Threads : pc[t] = "store" /\ slot[t] = n
             \/ pc[Finalizer] = "lead" /\ ref[works[Finalizer]] = n

Free(n) == n \in 1..Len(registry) /\ registry[n] \in Nat /\ ~ InHand(n)

FreeList == /\ head # 0 => Free(head)
            /\ \A n \in Nat : Free(n) /\ registry[n] # 0 => Free(registry[n])
            /\ \A n \in Nat : Free(n) /\ registry[n] # 0 => registry[n] # head
            /\ \A m, n \in Nat :
                  Free(m) /\ Free(n) /\ registry[m] = registry[n] /\ registry[m] # 0
                  => m = n

IInv == TInv /\ Mutex /\ Makes /\ Frees /\ Unborn /\ Holds /\ FreeList

LEMMA InitIInv == Init => IInv
<1> SUFFICES ASSUME Init PROVE IInv
  OBVIOUS
<1>1. TInv
  BY InitTInv
<1>2. Mutex /\ Makes /\ Frees
  BY DEF Init, Mutex, Makes, Frees, Busy, Workers
<1>3. Holds /\ Unborn
  BY DEF Init, Holds, HasSlot, Unborn
<1>4. FreeList
  <2>1. Len(registry) = 0 /\ head = 0
    BY EmptySeq DEF Init
  <2> QED BY <2>1 DEF FreeList, Free
<1> QED BY <1>1, <1>2, <1>3, <1>4 DEF IInv

\* A step that leaves the free slots alone.
LEMMA SameFreeList ==
    ASSUME TypeOK, FreeList, head' = head,
           \A n \in Nat : Free(n)' <=> Free(n),
           \A n \in Nat : Free(n) => registry'[n] = registry[n]
    PROVE  FreeList'
<1>1. \A n \in Nat : Free(n) => registry[n] \in Nat
  BY DEF Free
<1>2. head \in Nat
  BY DEF TypeOK
<1> QED BY <1>1, <1>2 DEF FreeList

\* A step that leaves the registry and the slots in hand alone.
LEMMA SameRegistry ==
    ASSUME TypeOK, FreeList, UNCHANGED lua, \A n \in Nat : InHand(n)' <=> InHand(n)
    PROVE  FreeList'
<1>1. \A n \in Nat : Free(n)' <=> Free(n)
  BY DEF Free, lua
<1>2. registry' = registry /\ head' = head
  BY DEF lua
<1> QED BY <1>1, <1>2, SameFreeList

\* Nobody works while the monitor is free, and one worker at a time otherwise.
LEMMA Alone ==
    ASSUME OneState, TypeOK, Mutex
    PROVE  /\ \A o \in Objects : owner[L[o]] = Nobody => \A t \in Workers : ~ Busy(t)
           /\ \A t, u \in Workers : Busy(t) /\ u # t => ~ Busy(u)
<1>1. ASSUME NEW o \in Objects, owner[L[o]] = Nobody, NEW t \in Workers, Busy(t)
      PROVE  FALSE
  <2>1. works[t] \in Objects
    BY DEF TypeOK
  <2>2. L[works[t]] = L[o]
    BY <2>1 DEF OneState, TypeOK
  <2> QED BY <1>1, <2>2, ObjectAssumption DEF Mutex
<1> QED BY <1>1 DEF Mutex

LEMMA ConstructIInv ==
    ASSUME OneState, IInv, TInv', NEW t \in Threads, NEW o \in Objects, Construct(t, o)
    PROVE  IInv'
<1> USE ObjectAssumption DEF IInv, TInv, TypeOK, Workers, Busy, Goto, Becomes
<1>1. /\ \A u \in Workers : ~ Busy(u)
      /\ \A u \in Workers : u # t => ~ Busy(u)'
      /\ t \in Workers /\ t # Finalizer
  BY Alone DEF Construct, Enter
<1>2. Mutex'
  BY <1>1 DEF Construct, Mutex, Enter
<1>3. Makes'
  BY <1>1 DEF Construct, Makes
<1>4. Frees'
  BY <1>1 DEF Construct, Frees
<1>5. Holds'
  <2>1. \A p \in Objects : HasSlot(p)' <=> HasSlot(p)
    BY DEF Construct, HasSlot
  <2>2. UNCHANGED <<lua, ref, made>> /\ pc[Finalizer] = "idle"
    BY <1>1 DEF Construct
  <2> QED BY <2>1, <2>2 DEF Holds, Linked, lua
<1>6. FreeList'
  <2>1. \A n \in Nat : ~ InHand(n) /\ ~ InHand(n)'
    BY <1>1 DEF InHand, Construct
  <2> QED BY <2>1, SameRegistry DEF Construct
<1>7. Unborn'
  BY DEF Construct, Unborn
<1> QED BY <1>2, <1>3, <1>4, <1>5, <1>6, <1>7

\* The steps that take no monitor for long.
Short(o) == ConstructNil(o) \/ ConstructFails(o) \/ Drop(o) \/ FinalizeNil(o)

LEMMA ShortIInv ==
    ASSUME IInv, TInv', NEW o \in Objects, Short(o)
    PROVE  IInv'
<1> USE ObjectAssumption DEF IInv, TInv, TypeOK, Workers, Busy, Becomes
<1> USE DEF Short, ConstructNil, ConstructFails, Drop, FinalizeNil, lua, thread
<1>1. UNCHANGED <<lua, owner, thread, L, made, emptied>>
  OBVIOUS
<1>2. /\ life[o] \in {"none", "live", "dropped"}
      /\ \A p \in Objects : p # o => life'[p] = life[p] /\ ref'[p] = ref[p]
  OBVIOUS
<1>3. \A t \in Workers : Busy(t) => works[t] # o
  BY <1>2 DEF Makes, Freeing
<1>4. HasSlot(o)' => HasSlot(o) /\ ref'[o] = ref[o]
  BY DEF HasSlot, Unborn
<1>5. Mutex'
  BY <1>1 DEF Mutex
<1>6. Makes'
  BY <1>1, <1>2, <1>3 DEF Makes
<1>7. Frees'
  BY <1>1, <1>2, <1>3 DEF Frees
<1>8. Holds'
  <2>1. \A p \in Objects : HasSlot(p)' => HasSlot(p) /\ ref'[p] = ref[p]
    BY <1>2, <1>4 DEF HasSlot
  <2> QED BY <1>1, <2>1 DEF Holds, Linked
<1>9. FreeList'
  <2>1. \A n \in Nat : InHand(n)' <=> InHand(n)
    BY <1>1, <1>2, <1>3 DEF InHand
  <2> QED BY <1>1, <2>1, SameRegistry
<1>10. Unborn'
  BY DEF Unborn
<1> QED BY <1>5, <1>6, <1>7, <1>8, <1>9, <1>10

LEMMA TakeFirstIInv ==
    ASSUME OneState, IInv, TInv', NEW t \in Threads, TakeFirst(t)
    PROVE  IInv'
<1> USE ObjectAssumption DEF IInv, TInv, TypeOK, Workers, Busy, Goto, TakeFirst, lua, object
<1>1. /\ Busy(t)
      /\ \A u \in Workers : u # t => ~ Busy(u) /\ ~ Busy(u)'
      /\ t \in Workers /\ t # Finalizer
  BY Alone
<1>2. Mutex'
  BY <1>1 DEF Mutex
<1>3. Makes'
  BY <1>1 DEF Makes
<1>4. Frees'
  BY <1>1 DEF Frees
<1>5. Holds'
  BY <1>1 DEF Holds, HasSlot, Linked
<1>6. FreeList'
  <2>1. \A n \in Nat : ~ InHand(n) /\ ~ InHand(n)'
    BY <1>1 DEF InHand
  <2> QED BY <2>1, SameRegistry
<1>7. Unborn'
  BY DEF Unborn
<1> QED BY <1>2, <1>3, <1>4, <1>5, <1>6, <1>7

LEMMA UnlinkIInv ==
    ASSUME OneState, IInv, TInv', NEW t \in Threads, Unlink(t)
    PROVE  IInv'
<1> USE ObjectAssumption DEF IInv, TInv, TypeOK, Workers, Busy, Goto, Unlink, object
<1>1. /\ Busy(t)
      /\ \A u \in Workers : u # t => ~ Busy(u) /\ ~ Busy(u)'
      /\ t \in Workers /\ t # Finalizer
  BY Alone
<1>2. Mutex'
  BY <1>1 DEF Mutex
<1>3. slot[t] = head
  BY DEF Makes
<1>4. Frees'
  BY <1>1 DEF Frees
<1>5. Holds'
  BY <1>1 DEF Holds, HasSlot, Linked
<1>6. Unborn'
  BY DEF Unborn
<1>7. \A n \in Nat : /\ ~ InHand(n)
                     /\ InHand(n)' <=> slot'[t] = n
  BY <1>1 DEF InHand
<1>8. CASE head = 0
  <2>1. slot'[t] = Len(registry) + 1 /\ UNCHANGED lua
    BY <1>3, <1>8 DEF lua
  <2>2. Makes'
    BY <1>1, <2>1 DEF Makes, lua
  <2>3. FreeList'
    <3>1. \A n \in Nat : Free(n)' <=> Free(n)
      BY <1>7, <2>1 DEF Free, lua
    <3> QED BY <2>1, <3>1, SameFreeList DEF lua
  <2> QED BY <1>2, <1>4, <1>5, <1>6, <2>2, <2>3
<1>9. CASE head # 0
  <2>1. /\ Free(head)
        /\ head' = registry[head] /\ head' \in Nat
        /\ UNCHANGED <<registry, slot>>
    BY <1>3, <1>9 DEF FreeList, Free, Link
  <2>2. Makes'
    BY <1>1, <1>3, <2>1 DEF Makes, Free
  <2>3. \A n \in Nat : Free(n)' <=> Free(n) /\ n # head
    BY <1>3, <1>7, <2>1 DEF Free
  <2>4. FreeList'
    <3>1. \A n \in Nat : Free(n) => registry[n] \in Nat
      BY DEF Free
    <3>2. ASSUME NEW h \in Nat, h = head', h # 0 PROVE Free(h)'
      BY <2>1, <2>3, <3>2 DEF FreeList
    <3> QED BY <2>1, <2>3, <3>1, <3>2 DEF FreeList
  <2> QED BY <1>2, <1>4, <1>5, <1>6, <2>2, <2>4
<1> QED BY <1>8, <1>9

LEMMA StoreIInv ==
    ASSUME OneState, IInv, TInv', NEW t \in Threads, Store(t)
    PROVE  IInv'
<1> USE ObjectAssumption DEF IInv, TInv, TypeOK, Workers, Busy, Goto, Becomes, Leave
<1> DEFINE o == works[t]
           k == slot[t]
<1>1. /\ Busy(t)
      /\ \A u \in Workers : u # t => ~ Busy(u)
      /\ \A u \in Workers : ~ Busy(u)'
      /\ t \in Workers /\ t # Finalizer
  BY Alone DEF Store
<1>2. Mutex' /\ Makes' /\ Frees'
  BY <1>1 DEF Mutex, Makes, Frees
<1>3. /\ k \in 1..(Len(registry) + 1)
      /\ k \in 1..Len(registry) => registry[k] \in Nat
  BY DEF Makes, Store
<1>4. /\ Len(registry') \in Nat /\ Len(registry) <= Len(registry')
      /\ k \in 1..Len(registry') /\ registry'[k] = made[o]
      /\ \A i \in 1..Len(registry') :
            i # k => i \in 1..Len(registry) /\ registry'[i] = registry[i]
  <2>1. made[o] \in Values \cup Nat /\ k \in Nat
    OBVIOUS
  <2>2. registry' = Put(registry, k, made[o])
    BY DEF Store
  <2> DEFINE v == made[o]
             S == Values \cup Nat
  <2>3. registry \in Seq(S) /\ v \in S
    BY <2>1
  <2> HIDE DEF o, k, v, S
  <2>4. /\ Put(registry, k, v) \in Seq(S)
        /\ Len(Put(registry, k, v)) \in {Len(registry), Len(registry) + 1}
        /\ k \in 1..Len(Put(registry, k, v))
        /\ Put(registry, k, v)[k] = v
        /\ \A i \in 1..Len(Put(registry, k, v)) :
              i # k => i \in 1..Len(registry) /\ Put(registry, k, v)[i] = registry[i]
    BY <1>3, <2>1, <2>3, PutProperties
  <2>5. Len(registry) \in Nat
    BY <2>3
  <2> QED BY <2>2, <2>4, <2>5 DEF v
<1>5. made[o] \notin Nat /\ o \in Objects
  OBVIOUS
<1>6. Unborn'
  BY DEF Unborn, Store
<1>7. Holds'
  <2>1. \A p \in Objects : p # o => ref'[p] = ref[p] /\ (HasSlot(p)' <=> HasSlot(p))
    BY DEF Store, HasSlot
  <2>2. ref'[o] = k /\ made' = made
    BY DEF Store
  <2>3. \A p \in Objects : HasSlot(p) =>
            ref[p] \in 1..Len(registry) /\ registry[ref[p]] = made[p] /\ ref[p] # k
    BY <1>1, <1>3 DEF Holds, Linked
  <2>4. ASSUME NEW p \in Objects, HasSlot(p)'
        PROVE  /\ ref'[p] \in 1..Len(registry')
               /\ registry'[ref'[p]] = made'[p]
               /\ p # o => HasSlot(p) /\ ref'[p] = ref[p] /\ ref[p] # k
    <3>1. CASE p = o
      <4> HIDE DEF o, k
      <4> QED BY <1>4, <2>2, <3>1
    <3>2. CASE p # o
      <4>1. HasSlot(p) /\ ref'[p] = ref[p]
        BY <2>1, <2>4, <3>2
      <4>2. ref[p] \in 1..Len(registry) /\ registry[ref[p]] = made[p] /\ ref[p] # k
        BY <2>3, <4>1
      <4>3. Len(registry) \in Nat
        OBVIOUS
      <4> HIDE DEF o, k
      <4> QED BY <1>4, <2>2, <4>1, <4>2, <4>3
    <3> QED BY <3>1, <3>2
  <2>5. ASSUME NEW p \in Objects, NEW q \in Objects, HasSlot(p)', HasSlot(q)', p # q
        PROVE  ref'[p] # ref'[q]
    <3>1. CASE p = o
      BY <2>2, <2>4, <2>5, <3>1
    <3>2. CASE q = o
      BY <2>2, <2>4, <2>5, <3>2
    <3>3. CASE p # o /\ q # o
      <4>1. HasSlot(p) /\ HasSlot(q) /\ ref'[p] = ref[p] /\ ref'[q] = ref[q]
        BY <2>4, <2>5, <3>3
      <4> QED BY <2>5, <4>1 DEF Holds
    <3> QED BY <3>1, <3>2, <3>3
  <2> QED BY <2>4, <2>5 DEF Holds
<1>8. FreeList'
  <2>1. \A n \in Nat : /\ InHand(n) <=> n = k
                       /\ ~ InHand(n)'
    BY <1>1 DEF InHand, Store
  <2>2. ASSUME NEW n \in Nat PROVE Free(n)' <=> Free(n)
    BY <1>3, <1>4, <1>5, <2>1 DEF Free
  <2>3. \A n \in Nat : Free(n) => /\ registry[n] \in Nat
                                  /\ registry'[n] = registry[n]
    <3> HIDE DEF o, k
    <3> QED BY <1>4, <2>1, <2>2 DEF Free
  <2>4. head' = head
    BY DEF Store
  <2> QED BY <2>2, <2>3, <2>4, SameFreeList
<1> QED BY <1>2, <1>6, <1>7, <1>8

LEMMA FinalizeIInv ==
    ASSUME OneState, IInv, TInv', NEW o \in Objects, Finalize(o)
    PROVE  IInv'
<1> USE ObjectAssumption DEF IInv, TInv, TypeOK, Workers, Busy, Goto, Becomes, Finalize
<1>1. /\ \A u \in Workers : ~ Busy(u)
      /\ \A u \in Workers : u # Finalizer => ~ Busy(u)'
  BY Alone DEF Enter
<1>2. Mutex'
  BY <1>1 DEF Mutex, Enter
<1>3. Makes'
  BY <1>1 DEF Makes
<1>4. Frees'
  BY <1>1 DEF Frees
<1>5. Holds'
  <2>1. \A p \in Objects : HasSlot(p)' <=> HasSlot(p)
    BY DEF HasSlot
  <2>2. UNCHANGED <<lua, ref, made>> /\ pc[Finalizer] = "idle" /\ pc'[Finalizer] = "read"
    OBVIOUS
  <2> QED BY <2>1, <2>2 DEF Holds, Linked, lua
<1>6. FreeList'
  <2>1. \A n \in Nat : ~ InHand(n) /\ ~ InHand(n)'
    BY <1>1 DEF InHand
  <2> QED BY <2>1, SameRegistry
<1>7. Unborn'
  BY DEF Unborn
<1> QED BY <1>2, <1>3, <1>4, <1>5, <1>6, <1>7

LEMMA ReadFirstIInv ==
    ASSUME OneState, IInv, TInv', ReadFirst
    PROVE  IInv'
<1> USE ObjectAssumption DEF IInv, TInv, TypeOK, Workers, Busy, Goto, ReadFirst, lua, object
<1>1. /\ Busy(Finalizer)
      /\ \A u \in Workers : u # Finalizer => ~ Busy(u) /\ ~ Busy(u)'
  BY Alone
<1>2. Mutex'
  BY <1>1 DEF Mutex
<1>3. Makes'
  BY <1>1 DEF Makes
<1>4. Frees'
  BY <1>1 DEF Frees
<1>5. Holds'
  BY <1>1 DEF Holds, HasSlot, Linked
<1>6. FreeList'
  <2>1. \A n \in Nat : ~ InHand(n) /\ ~ InHand(n)'
    BY <1>1 DEF InHand
  <2> QED BY <2>1, SameRegistry
<1>7. Unborn'
  BY DEF Unborn
<1> QED BY <1>2, <1>3, <1>4, <1>5, <1>6, <1>7

\* What the finalizer does to the registry.
LEMMA LinkSlotEffect ==
    ASSUME TInv, Holds, LinkSlot, NEW r, r = ref[works[Finalizer]]
    PROVE  /\ r \in Nat /\ r # 0 => r \in 1..Len(registry)
           /\ Len(registry') = Len(registry)
           /\ r # 0 => registry'[r] = slot[Finalizer]
           /\ \A i \in 1..Len(registry) : i # r => registry'[i] = registry[i]
<1> USE DEF TInv, TypeOK, Workers
<1>1. works[Finalizer] \in Objects /\ r \in Nat /\ life[works[Finalizer]] = "freeing"
  BY DEF LinkSlot, Goto, Freeing
<1>2. CASE r = 0
  BY <1>2, <1>1 DEF LinkSlot
<1>3. CASE r # 0
  <2>1. HasSlot(works[Finalizer])
    BY <1>1, <1>3 DEF HasSlot
  <2>2. r \in 1..Len(registry)
    BY <1>1, <2>1 DEF Holds
  <2>3. registry' = [registry EXCEPT ![r] = slot[Finalizer]]
    BY <1>1, <1>3 DEF LinkSlot
  <2>4. slot[Finalizer] \in Values \cup Nat /\ registry \in Seq(Values \cup Nat)
    OBVIOUS
  <2> QED BY <1>1, <2>2, <2>3, <2>4, ExceptProperties
<1> QED BY <1>2, <1>3

LEMMA LinkSlotIInv ==
    ASSUME OneState, IInv, TInv', LinkSlot
    PROVE  IInv'
<1> USE ObjectAssumption DEF IInv, TInv, TypeOK, Workers, Busy, Goto, object
<1> DEFINE o == works[Finalizer]
           r == ref[works[Finalizer]]
<1>1. /\ Busy(Finalizer)
      /\ \A u \in Workers : u # Finalizer => ~ Busy(u) /\ ~ Busy(u)'
      /\ pc[Finalizer] = "link" /\ pc'[Finalizer] = "lead"
      /\ UNCHANGED <<head, owner, works, slot, object, made, emptied>>
  BY Alone DEF LinkSlot
<1>2. /\ r \in Nat /\ r # 0 => r \in 1..Len(registry)
      /\ Len(registry') = Len(registry)
      /\ r # 0 => registry'[r] = slot[Finalizer]
      /\ \A i \in 1..Len(registry) : i # r => registry'[i] = registry[i]
  BY LinkSlotEffect DEF LinkSlot
<1>3. /\ o \in Objects /\ life[o] = "freeing" /\ r \in Nat
      /\ slot[Finalizer] = head
  BY <1>1 DEF Frees, Freeing
<1>4. Mutex'
  BY <1>1 DEF Mutex
<1>5. Makes'
  BY <1>1 DEF Makes
<1>6. Frees'
  BY <1>1, <1>2, <1>3 DEF Frees
<1>7. Holds'
  <2>1. \A p \in Objects : /\ HasSlot(p)' <=> HasSlot(p)
                           /\ Linked(p)' <=> p = o
                           /\ ~ Linked(p)
    BY <1>1 DEF HasSlot, Linked
  <2>2. ASSUME NEW p \in Objects, HasSlot(p)
        PROVE  /\ ref[p] \in 1..Len(registry)
               /\ p # o => ref[p] # r /\ registry'[ref[p]] = made[p]
    <3>1. ref[p] \in 1..Len(registry) /\ registry[ref[p]] = made[p]
      BY <2>1, <2>2 DEF Holds
    <3>2. ASSUME p # o PROVE ref[p] # r
      <4>1. CASE r = 0
        BY <3>1, <4>1
      <4>2. CASE r # 0
        BY <1>3, <2>2, <3>2, <4>2 DEF Holds, HasSlot
      <4> QED BY <4>1, <4>2
    <3> QED BY <1>2, <3>1, <3>2
  <2>3. \A p, q \in Objects : HasSlot(p) /\ HasSlot(q) /\ p # q => ref[p] # ref[q]
    BY DEF Holds
  <2>4. ref' = ref /\ made' = made
    BY <1>1
  <2> HIDE DEF o, r
  <2> QED BY <1>2, <2>1, <2>2, <2>3, <2>4 DEF Holds
<1>8. FreeList'
  <2>1. \A n \in Nat : ~ InHand(n) /\ (InHand(n)' <=> n = r)
    BY <1>1, <1>3 DEF InHand
  <2>2. r # 0 => registry[r] \notin Nat
    BY <1>1, <1>3 DEF Holds, HasSlot, Linked
  <2>3. ASSUME NEW n \in Nat PROVE Free(n)' <=> Free(n)
    BY <1>2, <1>3, <2>1, <2>2 DEF Free
  <2>4. \A n \in Nat : Free(n) => /\ registry[n] \in Nat
                                  /\ registry'[n] = registry[n]
    <3> HIDE DEF r
    <3> QED BY <1>2, <2>2, <2>3 DEF Free
  <2>5. head' = head
    BY <1>1
  <2> QED BY <2>3, <2>4, <2>5, SameFreeList
<1>9. Unborn'
  BY <1>1 DEF Unborn
<1> QED BY <1>4, <1>5, <1>6, <1>7, <1>8, <1>9

LEMMA LeadListIInv ==
    ASSUME OneState, IInv, TInv', LeadList
    PROVE  IInv'
<1> USE ObjectAssumption DEF IInv, TInv, TypeOK, Workers, Busy, Goto, Becomes
<1> DEFINE o == works[Finalizer]
           r == ref[works[Finalizer]]
<1>1. /\ Busy(Finalizer)
      /\ \A u \in Workers : u # Finalizer => ~ Busy(u)
      /\ \A u \in Workers : ~ Busy(u)'
      /\ pc[Finalizer] = "lead" /\ pc'[Finalizer] = "idle"
      /\ UNCHANGED <<registry, works, slot, L, ref, made>>
      /\ head' = r
  BY Alone DEF LeadList
<1>2. /\ o \in Objects /\ life[o] = "freeing" /\ r \in Nat
      /\ life' = [life EXCEPT ![o] = "gone"]
      /\ r # 0 => registry[r] = head
  BY <1>1 DEF Frees, Freeing, LeadList
<1>3. Mutex' /\ Makes' /\ Frees'
  BY <1>1 DEF Mutex, Makes, Frees
<1>4. Unborn'
  BY <1>1, <1>2 DEF Unborn
<1>5. Holds'
  <2>1. \A p \in Objects : HasSlot(p)' => HasSlot(p) /\ p # o
    BY <1>1, <1>2 DEF HasSlot
  <2>2. \A p \in Objects : p # o => ~ Linked(p)
    BY DEF Linked
  <2> QED BY <1>1, <2>1, <2>2 DEF Holds
<1>6. FreeList'
  <2>1. \A n \in Nat : /\ InHand(n) <=> n = r
                       /\ ~ InHand(n)'
    BY <1>1, <1>2 DEF InHand
  <2>2. r # 0 => r \in 1..Len(registry) /\ registry[r] = head /\ ~ Free(r)
    BY <1>2, <2>1 DEF Holds, HasSlot, Free
  <2>3. ASSUME NEW n \in Nat PROVE Free(n)' <=> Free(n) \/ (n = r /\ r # 0)
    BY <1>1, <1>2, <2>1, <2>2 DEF Free
  <2>4. \A n \in Nat : Free(n) => registry[n] \in Nat /\ n # 0
    BY DEF Free
  <2>5. registry' = registry /\ head' = r /\ r \in Nat /\ head \in Nat
    BY <1>1, <1>2
  <2>6. (head # 0 => Free(head))'
    BY <2>3, <2>5
  <2>7. ASSUME NEW n \in Nat, Free(n)', registry[n] # 0
        PROVE  Free(registry[n])' /\ registry[n] # r /\ registry[n] \in Nat
    <3>1. CASE Free(n)
      <4>1. registry[n] \in Nat /\ Free(registry[n])
        BY <2>4, <2>7, <3>1 DEF FreeList
      <4>2. registry[n] # r
        BY <2>2, <2>7, <4>1
      <4>3. ASSUME NEW h \in Nat, h = registry[n] PROVE Free(h)'
        BY <2>3, <4>1, <4>3
      <4> QED BY <2>5, <4>1, <4>2, <4>3
    <3>2. CASE n = r /\ r # 0
      BY <2>2, <2>3, <2>5, <2>7, <3>2 DEF FreeList
    <3> QED BY <2>3, <2>7, <3>1, <3>2
  <2>8. ASSUME NEW m \in Nat, NEW n \in Nat, Free(m)', Free(n)',
               registry[m] = registry[n], registry[m] # 0
        PROVE  m = n
    <3> HIDE DEF r
    <3> QED BY <2>2, <2>3, <2>4, <2>8 DEF FreeList
  <2> QED BY <2>5, <2>6, <2>7, <2>8 DEF FreeList
<1> QED BY <1>3, <1>4, <1>5, <1>6

LEMMA StepIInv == ASSUME OneState PROVE IInv /\ [Next]_vars => IInv'
<1> SUFFICES ASSUME IInv, [Next]_vars PROVE IInv'
  OBVIOUS
<1>1. TInv'
  BY StepTInv DEF IInv
<1>2. CASE \E t \in Threads : Making(t) \/ \E o \in Objects : Construct(t, o)
  BY <1>1, <1>2, ConstructIInv, TakeFirstIInv, UnlinkIInv, StoreIInv DEF Making
<1>3. CASE \E o \in Objects : Short(o) \/ Finalize(o)
  BY <1>1, <1>3, ShortIInv, FinalizeIInv
<1>4. CASE Finalizing
  BY <1>1, <1>4, ReadFirstIInv, LinkSlotIInv, LeadListIInv DEF Finalizing
<1>5. CASE UNCHANGED vars
  <2>1. UNCHANGED lua
    BY <1>5 DEF vars
  <2>2. \A n \in Nat : InHand(n)' <=> InHand(n)
    BY <1>5 DEF vars, InHand, thread, object
  <2>3. FreeList'
    BY <2>1, <2>2, SameRegistry DEF IInv, TInv
  <2>4. Mutex' /\ Makes' /\ Frees' /\ Unborn' /\ Holds'
    BY <1>5 DEF IInv, vars, lua, thread, object, Busy, Mutex, Makes, Frees, Unborn,
                Holds, HasSlot, Linked
  <2> QED BY <1>1, <2>3, <2>4 DEF IInv
<1> QED BY <1>2, <1>3, <1>4, <1>5 DEF Next, Short

\* A LuaObject represents the value it was made for and no other object has its
\* slot, as long as all objects belong to one LuaState: the monitor of that
\* LuaState (LuaObject.registerValue, finalize) then guards the whole registry.
THEOREM RepresentsItsValue == ASSUME OneState PROVE Spec => []Represents
<1>1. Init => IInv
  BY InitIInv
<1>2. IInv /\ [Next]_vars => IInv'
  BY StepIInv
<1>3. IInv => Represents
  <2>1. ASSUME IInv, NEW o \in Objects, life[o] = "live" PROVE ~ Linked(o)
    BY <2>1 DEF IInv, TInv, Freeing, Linked
  <2> QED BY <2>1 DEF IInv, Holds, Represents
<1> QED BY <1>1, <1>2, <1>3, PTL DEF Spec

\* The free list never reaches a slot that is in use, and never runs through a
\* slot twice: it begins and goes on in free slots, each of which has at most
\* one predecessor, the first none.
THEOREM FreeListSound == ASSUME OneState PROVE Spec => []FreeList
<1>1. Init => IInv
  BY InitIInv
<1>2. IInv /\ [Next]_vars => IInv'
  BY StepIInv
<1>3. IInv => FreeList
  BY DEF IInv
<1> QED BY <1>1, <1>2, <1>3, PTL DEF Spec
(***************************************************************************)
(* No slot is lost: from the first free slot the free list leads to every  *)
(* slot that no object has and no constructor is about to store into.  The *)
(* lists before and after a step are compared by sets that the links of    *)
(* the old one do not leave.                                               *)
(***************************************************************************)

\* The free list of a registry r with the first free slot h.
OnList(r, h) ==
    Reach({h} \cap DOMAIN r, [n \in DOMAIN r |-> {Link(r[n])} \cap DOMAIN r])

\* It contains the first free slot, and with a slot the next one.
LEMMA OnListClosed ==
    ASSUME NEW r, NEW h
    PROVE  /\ OnList(r, h) \subseteq DOMAIN r
           /\ h \in DOMAIN r => h \in OnList(r, h)
           /\ \A n \in OnList(r, h) : Link(r[n]) \in DOMAIN r => Link(r[n]) \in OnList(r, h)
<1> DEFINE S == {h} \cap DOMAIN r
           e == [n \in DOMAIN r |-> {Link(r[n])} \cap DOMAIN r]
<1>1. DOMAIN e = DOMAIN r /\ \A n \in DOMAIN r : e[n] = {Link(r[n])} \cap DOMAIN r
  OBVIOUS
<1>2. S \subseteq DOMAIN r /\ (h \in DOMAIN r => h \in S) /\ OnList(r, h) = Reach(S, e)
  BY DEF OnList
<1> HIDE DEF S, e
<1>3. \A T \in ClosedSets(S, e) : S \subseteq T /\ \A n \in T : e[n] \subseteq T
  BY DEF ClosedSets
<1>4. S \subseteq Reach(S, e)
  BY <1>1, <1>2, <1>3 DEF Reach
<1>5. ASSUME NEW n \in Reach(S, e) PROVE e[n] \subseteq Reach(S, e)
  <2>1. \A T \in ClosedSets(S, e) : n \in T
    BY DEF Reach
  <2>2. e[n] \subseteq DOMAIN e
    BY <1>1 DEF Reach
  <2> QED BY <1>3, <2>1, <2>2 DEF Reach
<1>6. Reach(S, e) \subseteq DOMAIN r
  BY <1>1 DEF Reach
<1>7. ASSUME NEW n \in Reach(S, e), Link(r[n]) \in DOMAIN r PROVE Link(r[n]) \in Reach(S, e)
  <2>1. Link(r[n]) \in e[n]
    BY <1>1, <1>6, <1>7
  <2> QED BY <1>5, <2>1
<1> QED BY <1>2, <1>4, <1>6, <1>7

\* It is the least set of that kind.
LEMMA OnListLeast ==
    ASSUME NEW r, NEW h, NEW T \in SUBSET DOMAIN r,
           h \in DOMAIN r => h \in T,
           \A n \in T : Link(r[n]) \in DOMAIN r => Link(r[n]) \in T
    PROVE  OnList(r, h) \subseteq T
<1> DEFINE S == {h} \cap DOMAIN r
           e == [n \in DOMAIN r |-> {Link(r[n])} \cap DOMAIN r]
<1>1. /\ DOMAIN e = DOMAIN r /\ S \subseteq T
      /\ \A n \in T : e[n] \subseteq T
      /\ OnList(r, h) = Reach(S, e)
  BY DEF OnList
<1> HIDE DEF S, e
<1>2. T = S \cup (T \ S) /\ T \ S \in SUBSET (DOMAIN e \ S)
  BY <1>1
<1>3. T \in ClosedSets(S, e)
  BY <1>1, <1>2 DEF ClosedSets
<1> QED BY <1>1, <1>3 DEF Reach

\* What is on the list is free.
LEMMA OnListFree ==
    ASSUME TypeOK, FreeList
    PROVE  \A n \in OnList(registry, head) :
              n \in 1..Len(registry) /\ Free(n) /\ Link(registry[n]) = registry[n]
<1> DEFINE T == {n \in DOMAIN registry : Free(n)}
<1>1. DOMAIN registry = 1..Len(registry) /\ Len(registry) \in Nat
  BY DEF TypeOK
<1>2. head \in DOMAIN registry => head \in T
  BY <1>1 DEF FreeList
<1>3. ASSUME NEW n \in T
      PROVE  /\ Link(registry[n]) = registry[n]
             /\ Link(registry[n]) \in DOMAIN registry => Link(registry[n]) \in T
  <2>1. n \in Nat /\ Free(n) /\ Link(registry[n]) = registry[n]
    BY <1>1 DEF Free, Link
  <2> QED BY <1>1, <2>1 DEF FreeList
<1>4. T \in SUBSET DOMAIN registry
  OBVIOUS
<1>5. OnList(registry, head) \subseteq T
  <2> HIDE DEF T
  <2> QED BY <1>2, <1>3, <1>4, OnListLeast
<1> QED BY <1>1, <1>3, <1>5

\* The slots that an object has or that a constructor is about to store into.
Taken == {ref[o] : o \in {p \in Objects : HasSlot(p)}} \cup
         {slot[t] : t \in {u \in Threads : pc[u] = "store"}}

LEMMA LostByList ==
    /\ NoSlotLost <=> emptied \/ 1..Len(registry) \subseteq Taken \cup OnList(registry, head)
    /\ NoSlotLost' <=> emptied' \/ 1..Len(registry') \subseteq Taken' \cup OnList(registry', head')
BY DEF NoSlotLost, FreedFormList, Taken, OnFreeList, NextFree, OnList

\* A list whose free slots keep their links keeps its slots.
LEMMA ListKept ==
    ASSUME TypeOK, FreeList, head' = head, DOMAIN registry \subseteq DOMAIN registry',
           \A n \in Nat : Free(n) => registry'[n] = registry[n]
    PROVE  OnList(registry, head) \subseteq OnList(registry', head')
<1> DEFINE A == OnList(registry, head)
           B == OnList(registry', head')
           T == A \cap B
<1>1. \A n \in A : /\ n \in Nat /\ Free(n) /\ Link(registry[n]) = registry[n]
                   /\ Link(registry'[n]) = Link(registry[n])
  BY OnListFree
<1>2. /\ A \subseteq DOMAIN registry
      /\ head \in DOMAIN registry => head \in A /\ head \in B
      /\ \A n \in A : Link(registry[n]) \in DOMAIN registry => Link(registry[n]) \in A
      /\ \A n \in B : Link(registry'[n]) \in DOMAIN registry' => Link(registry'[n]) \in B
  BY OnListClosed
<1> HIDE DEF A, B
<1>3. T \in SUBSET DOMAIN registry /\ (head \in DOMAIN registry => head \in T)
  BY <1>2
<1>4. \A n \in T : Link(registry[n]) \in DOMAIN registry => Link(registry[n]) \in T
  BY <1>1, <1>2
<1> HIDE DEF T
<1>5. OnList(registry, head) \subseteq T
  BY <1>3, <1>4, OnListLeast
<1> QED BY <1>5 DEF T, B

\* A step that gives nothing away and writes to no free slot.
LEMMA NothingLost ==
    ASSUME TypeOK, FreeList, NoSlotLost, head' = head, emptied' = emptied,
           DOMAIN registry \subseteq DOMAIN registry',
           1..Len(registry') \subseteq 1..Len(registry) \cup Taken',
           Taken \subseteq Taken',
           \A n \in Nat : Free(n) => registry'[n] = registry[n]
    PROVE  NoSlotLost'
<1>1. OnList(registry, head) \subseteq OnList(registry', head')
  BY ListKept
<1>2. 1..Len(registry) \subseteq Taken \cup OnList(registry, head)
      => 1..Len(registry') \subseteq Taken' \cup OnList(registry', head')
  BY <1>1
<1> QED BY <1>2, LostByList

LEMMA UnlinkKeeps ==
    ASSUME OneState, IInv, NoSlotLost, NEW t \in Threads, Unlink(t)
    PROVE  NoSlotLost'
<1> USE ObjectAssumption DEF IInv, TInv, TypeOK, Workers, Busy, Goto, object
<1>1. /\ Busy(t) /\ t \in Workers
      /\ \A u \in Threads : u # t => pc[u] = "idle" /\ pc'[u] = "idle"
      /\ pc[t] = "unlink" /\ pc'[t] = "store" /\ slot[t] = head
      /\ UNCHANGED <<registry, life, ref, emptied>>
  BY Alone DEF Unlink, Makes
<1>2. Taken' = Taken \cup {slot'[t]}
  <2>1. /\ \A u \in Threads : pc[u] # "store" /\ (pc'[u] = "store" <=> u = t)
        /\ {u \in Threads : pc[u] = "store"} = {} /\ {u \in Threads : pc'[u] = "store"} = {t}
    <3>1. \A u \in Threads : pc[u] # "store" /\ (pc'[u] = "store" <=> u = t)
      BY <1>1
    <3> QED BY <3>1
  <2>2. {p \in Objects : HasSlot(p)}' = {p \in Objects : HasSlot(p)}
    BY <1>1 DEF HasSlot
  <2> QED BY <1>1, <2>1, <2>2 DEF Taken
<1>3. CASE head = 0
  <2>1. head' = head
    BY <1>1, <1>3 DEF Unlink
  <2> QED BY <1>1, <1>2, <2>1, NothingLost
<1>4. CASE head # 0
  <2>1. Free(head) /\ head' = Link(registry[head]) /\ slot'[t] = head
    BY <1>1, <1>4 DEF FreeList, Unlink
  <2> DEFINE T == ({head} \cup OnList(registry', head')) \cap DOMAIN registry
  <2>2. head \in DOMAIN registry => head \in T
    OBVIOUS
  <2>3. \A n \in T : Link(registry[n]) \in DOMAIN registry => Link(registry[n]) \in T
    BY <1>1, <2>1, OnListClosed
  <2>4. OnList(registry, head) \subseteq T
    <3>1. T \in SUBSET DOMAIN registry
      OBVIOUS
    <3> HIDE DEF T
    <3> QED BY <2>2, <2>3, <3>1, OnListLeast
  <2> QED BY <1>1, <1>2, <2>1, <2>4, LostByList
<1> QED BY <1>3, <1>4

LEMMA StoreKeeps ==
    ASSUME OneState, IInv, NoSlotLost, NEW t \in Threads, Store(t)
    PROVE  NoSlotLost'
<1> USE ObjectAssumption DEF IInv, TInv, TypeOK, Workers, Busy, Goto, Becomes
<1> SUFFICES ASSUME NEW o, NEW k, o = works[t], k = slot[t] PROVE NoSlotLost'
  OBVIOUS
<1>1. /\ t \in Workers /\ Busy(t) /\ o \in Objects
      /\ \A u \in Threads : u # t => pc[u] = "idle"
      /\ pc[t] = "store" /\ life[o] = "making" /\ life'[o] = "live" /\ ref'[o] = k
      /\ \A p \in Objects : p # o => life'[p] = life[p] /\ ref'[p] = ref[p]
      /\ UNCHANGED <<head, emptied>>
  BY Alone DEF Store
<1>2. /\ k \in Nat /\ k \in 1..(Len(registry) + 1)
      /\ Len(registry) \in Nat
      /\ registry \in Seq(Values \cup Nat) /\ made[o] \in Values \cup Nat
      /\ registry' = Put(registry, k, made[o])
  BY <1>1 DEF Makes, Store
<1>3. /\ registry' \in Seq(Values \cup Nat)
      /\ Len(registry') \in {Len(registry), Len(registry) + 1}
      /\ k \in 1..Len(registry')
      /\ \A i \in 1..Len(registry') :
            i # k => i \in 1..Len(registry) /\ registry'[i] = registry[i]
  <2>1. ASSUME NEW S, NEW v \in S, registry \in Seq(S), registry' = Put(registry, k, v)
        PROVE  /\ registry' \in Seq(S)
               /\ Len(registry') \in {Len(registry), Len(registry) + 1}
               /\ k \in 1..Len(registry')
               /\ \A i \in 1..Len(registry') :
                     i # k => i \in 1..Len(registry) /\ registry'[i] = registry[i]
    BY <1>2, <2>1, PutProperties
  <2> QED BY <1>2, <2>1
<1>4. DOMAIN registry \subseteq DOMAIN registry'
  BY <1>2, <1>3
<1>5. Taken \subseteq Taken' /\ k \in Taken'
  <2>1. \A p \in Objects : HasSlot(p) => p # o /\ HasSlot(p)' /\ ref'[p] = ref[p]
    BY <1>1 DEF HasSlot
  <2>2. HasSlot(o)' /\ ref'[o] = k
    BY <1>1, <1>2 DEF HasSlot
  <2>3. Taken' = {ref'[p] : p \in {q \in Objects : HasSlot(q)'}} \cup
                 {slot'[u] : u \in {v \in Threads : pc'[v] = "store"}}
    BY DEF Taken
  <2>4. \A u \in Threads : pc[u] = "store" => slot[u] = k
    BY <1>1
  <2>5. k \in Taken'
    BY <1>1, <2>2, <2>3
  <2>6. \A p \in Objects : HasSlot(p) => ref[p] \in Taken'
    BY <2>1, <2>3
  <2>7. ASSUME NEW W, k \in W, \A p \in Objects : HasSlot(p) => ref[p] \in W
        PROVE  Taken \subseteq W
    BY <2>4, <2>7 DEF Taken
  <2> QED BY <2>5, <2>6, <2>7
<1>6. \A n \in Nat : Free(n) => registry'[n] = registry[n]
  <2>1. InHand(k)
    BY <1>1 DEF InHand
  <2> QED BY <1>2, <1>3, <2>1 DEF Free
<1>7. 1..Len(registry') \subseteq 1..Len(registry) \cup Taken'
  BY <1>3, <1>5
<1> QED BY <1>1, <1>4, <1>5, <1>6, <1>7, NothingLost

LEMMA LinkSlotKeeps ==
    ASSUME OneState, IInv, NoSlotLost, LinkSlot
    PROVE  NoSlotLost'
<1> USE ObjectAssumption DEF IInv, TInv, TypeOK, Workers, Goto, object
<1> DEFINE r == ref[works[Finalizer]]
<1>1. /\ r \in Nat /\ r # 0 => r \in 1..Len(registry)
      /\ Len(registry') = Len(registry)
      /\ \A i \in 1..Len(registry) : i # r => registry'[i] = registry[i]
  BY LinkSlotEffect
<1>2. /\ r \in Nat /\ works[Finalizer] \in Objects
      /\ life[works[Finalizer]] = "freeing" /\ pc[Finalizer] = "link"
      /\ UNCHANGED <<head, emptied, life, ref, slot>>
      /\ \A u \in Threads : pc'[u] = pc[u]
  BY DEF LinkSlot, Freeing
<1>3. Taken' = Taken
  BY <1>2 DEF Taken, HasSlot
<1>4. r # 0 => registry[r] \notin Nat
  BY <1>2 DEF Holds, HasSlot, Linked
<1>5. DOMAIN registry' = DOMAIN registry
  BY DEF LinkSlot
<1>6. \A n \in Nat : Free(n) => registry'[n] = registry[n]
  BY <1>1, <1>4 DEF Free
<1> QED BY <1>1, <1>2, <1>3, <1>5, <1>6, NothingLost

LEMMA LeadListKeeps ==
    ASSUME OneState, IInv, NoSlotLost, LeadList
    PROVE  NoSlotLost'
<1> USE ObjectAssumption DEF IInv, TInv, TypeOK, Workers, Busy, Goto, Becomes
<1> SUFFICES ASSUME NEW o, NEW r, o = works[Finalizer], r = ref[o] PROVE NoSlotLost'
  OBVIOUS
<1>1. /\ o \in Objects /\ life[o] = "freeing" /\ r \in Nat /\ head \in Nat
      /\ \A p \in Objects : p # o => life'[p] = life[p]
      /\ UNCHANGED <<registry, slot, ref>> /\ head' = r
      /\ emptied' <=> emptied \/ r = 0
      /\ r # 0 => registry[r] = head
      /\ \A u \in Threads : pc'[u] = pc[u]
  BY DEF LeadList, Freeing, Frees
<1>2. CASE r = 0
  BY <1>1, <1>2, LostByList
<1>3. CASE r # 0
  <2>1. r \in 1..Len(registry) /\ 1..Len(registry) = DOMAIN registry
    BY <1>1, <1>3 DEF Holds, HasSlot
  <2>2. Taken \subseteq Taken' \cup {r}
    <3>1. \A p \in Objects : HasSlot(p) => p = o \/ HasSlot(p)'
      BY <1>1 DEF HasSlot
    <3>2. \A p \in Objects : HasSlot(p) => ref[p] \in Taken' \cup {r}
      BY <1>1, <3>1 DEF Taken
    <3>3. \A u \in Threads : pc[u] = "store" => slot[u] \in Taken'
      BY <1>1 DEF Taken
    <3> QED BY <3>2, <3>3 DEF Taken
  <2> DEFINE T == OnList(registry', head')
  <2>3. /\ T \in SUBSET DOMAIN registry /\ r \in T
        /\ \A n \in T : Link(registry[n]) \in DOMAIN registry => Link(registry[n]) \in T
    BY <1>1, <2>1, OnListClosed
  <2>4. head \in DOMAIN registry => head \in T
    <3>1. Link(registry[r]) = head
      BY <1>1, <1>3 DEF Link
    <3> QED BY <2>3, <3>1
  <2>5. OnList(registry, head) \subseteq T
    <3> HIDE DEF T
    <3> QED BY <2>3, <2>4, OnListLeast
  <2> QED BY <1>1, <1>3, <2>2, <2>3, <2>5, LostByList
<1> QED BY <1>2, <1>3

\* The steps that touch neither the registry nor the slots that are taken.
LEMMA ElseKeeps ==
    ASSUME OneState, IInv, NoSlotLost,
           UNCHANGED <<lua, emptied>>, Taken \subseteq Taken'
    PROVE  NoSlotLost'
<1>1. head' = head /\ registry' = registry /\ emptied' = emptied
  BY DEF lua
<1> QED BY <1>1, NothingLost DEF IInv, TInv

LEMMA StepKeeps == ASSUME OneState PROVE IInv /\ NoSlotLost /\ [Next]_vars => NoSlotLost'
<1> SUFFICES ASSUME IInv, NoSlotLost, [Next]_vars PROVE NoSlotLost'
  OBVIOUS
<1> USE ObjectAssumption DEF Workers, Goto, Becomes, lua, thread, object
<1>a. TypeOK
  BY DEF IInv, TInv
<1>b. ASSUME \A o \in Objects : HasSlot(o) => HasSlot(o)' /\ ref'[o] = ref[o],
             \A t \in Threads : pc[t] = "store" => pc'[t] = "store" /\ slot'[t] = slot[t]
      PROVE  Taken \subseteq Taken'
  BY <1>b DEF Taken
<1>1. ASSUME NEW t \in Threads, NEW o \in Objects, Construct(t, o) PROVE NoSlotLost'
  BY <1>1, <1>a, <1>b, ElseKeeps DEF Construct, HasSlot, TypeOK
<1>2. ASSUME NEW t \in Threads, TakeFirst(t) PROVE NoSlotLost'
  BY <1>2, <1>a, <1>b, ElseKeeps DEF TakeFirst, HasSlot, TypeOK
<1>3. ASSUME NEW o \in Objects, Short(o) PROVE NoSlotLost'
  BY <1>3, <1>a, <1>b, ElseKeeps
     DEF Short, ConstructNil, ConstructFails, Drop, FinalizeNil, HasSlot, TypeOK
<1>4. ASSUME NEW o \in Objects, Finalize(o) PROVE NoSlotLost'
  BY <1>4, <1>a, <1>b, ElseKeeps DEF Finalize, HasSlot, TypeOK
<1>5. CASE ReadFirst
  BY <1>5, <1>a, <1>b, ElseKeeps DEF ReadFirst, HasSlot, TypeOK
<1>6. CASE UNCHANGED vars
  BY <1>6, <1>b, ElseKeeps DEF vars, HasSlot
<1> QED BY <1>1, <1>2, <1>3, <1>4, <1>5, <1>6, UnlinkKeeps, StoreKeeps, LinkSlotKeeps,
           LeadListKeeps DEF Next, Making, Finalizing, Short

\* Slots do not leak: as long as every constructor succeeded, each slot of the
\* registry belongs to an object, is about to, or can be reached on the free
\* list that luaL_ref takes from (lauxlib.c:660), whatever the sizes, when all
\* objects belong to one LuaState.
THEOREM NoSlotIsLost == ASSUME OneState PROVE Spec => []NoSlotLost
<1>1. Init => IInv /\ NoSlotLost
  <2>1. Init => 1..Len(registry) = {}
    BY EmptySeq DEF Init
  <2> QED BY <2>1, InitIInv DEF NoSlotLost, FreedFormList
<1>2. IInv /\ [Next]_vars => IInv'
  BY StepIInv
<1>3. IInv /\ NoSlotLost /\ [Next]_vars => NoSlotLost'
  BY StepKeeps
<1> QED BY <1>1, <1>2, <1>3, PTL DEF Spec
=============================================================================
