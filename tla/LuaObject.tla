------------------------------- MODULE LuaObject -----------------------------
(***************************************************************************)
(* com.luajava.LuaObject: a Java object stands for a Lua value by a slot   *)
(* of the registry of the Lua state, taken with luaL_ref and given back    *)
(* with luaL_unref by the finalizer.  The free slots are a list that runs  *)
(* through the registry itself.  The registry belongs to the state and all *)
(* its coroutines; the monitor that guards a step belongs to the LuaState, *)
(* and every coroutine that calls Java has a LuaState of its own.          *)
(*                                                                         *)
(* Slots are numbered from 1, after those that Lua keeps for itself.       *)
(*                                                                         *)
(* The definitions named Bug... are faulty variants of the ones they stand *)
(* before: they show what each property would find.                        *)
(***************************************************************************)
EXTENDS Integers, Sequences, FiniteSets, Reachability

CONSTANTS Threads,   \* the threads that make LuaObjects
          Finalizer, \* the thread that runs finalize()
          Nobody,    \* the owner of a free monitor
          States,    \* the LuaStates that share the registry
          Objects,   \* the LuaObjects
          Values     \* the Lua values they stand for

Workers == Threads \cup {Finalizer}

ASSUME ObjectAssumption == /\ Finalizer \notin Threads
                           /\ Nobody \notin Workers
                           /\ Objects # {}
                           /\ Values \cap Nat = {}

VARIABLES
    registry, \* the slots: a value, or for a free slot the next one
    head,     \* the first free slot, 0 when there is none
    owner,    \* who has the monitor of each LuaState
    pc,       \* where each thread is
    works,    \* the object it works on
    slot,     \* its local variable: a slot read from the registry
    life,     \* of each object
    L, ref,   \* the fields of each object
    made,     \* history: the value the object was made for
    emptied   \* history: a slot 0 was given back

lua    == <<registry, head>>
thread == <<pc, works, slot>>
object == <<life, L, ref>>
vars   == <<lua, owner, thread, object, made, emptied>>

TypeOK == /\ registry \in Seq(Values \cup Nat)
          /\ head \in Nat
          /\ owner \in [States -> Workers \cup {Nobody}]
          /\ pc \in [Workers -> {"idle", "take", "unlink", "store", "read", "link", "lead"}]
          /\ works \in [Workers -> Objects]
          /\ slot \in [Workers -> Nat]
          /\ life \in [Objects -> {"none", "making", "live", "dropped", "freeing", "gone"}]
          /\ L \in [Objects -> States]
          /\ ref \in [Objects -> Nat \cup {-1}]
          /\ made \in [Objects -> Values]
          /\ emptied \in BOOLEAN

Init == /\ registry = <<>> /\ head = 0
        /\ owner = [s \in States |-> Nobody]
        /\ pc = [t \in Workers |-> "idle"]
        /\ works = [t \in Workers |-> CHOOSE o \in Objects : TRUE]
        /\ slot = [t \in Workers |-> 0]
        /\ life = [o \in Objects |-> "none"]
        /\ L \in [Objects -> States]
        /\ ref = [o \in Objects |-> 0]
        /\ made \in [Objects -> Values]
        /\ emptied = FALSE

Goto(t, from, to) == pc[t] = from /\ pc' = [pc EXCEPT ![t] = to]

Enter(t, s) == owner[s] = Nobody /\ owner' = [owner EXCEPT ![s] = t]
Leave(t, s) == owner' = [owner EXCEPT ![s] = Nobody]

Becomes(o, from, to) == life[o] = from /\ life' = [life EXCEPT ![o] = to]

(***************************************************************************)
(* A constructor: registerValue, with the steps of luaL_ref.               *)
(***************************************************************************)

Construct(t, o) == /\ Becomes(o, "none", "making")
                   /\ Goto(t, "idle", "take")
                   /\ Enter(t, L[o])
                   /\ works' = [works EXCEPT ![t] = o]
                   /\ UNCHANGED <<lua, slot, L, ref, made, emptied>>

\* An object that stands for nil needs no slot: luaL_ref returns LUA_REFNIL.
ConstructNil(o) == /\ Becomes(o, "none", "live")
                   /\ owner[L[o]] = Nobody
                   /\ ref' = [ref EXCEPT ![o] = -1]
                   /\ UNCHANGED <<lua, owner, thread, L, made, emptied>>

\* The parent is neither a table nor a userdata: the constructor throws, and
\* leaves an object that has never had a slot to its finalizer.
ConstructFails(o) == /\ Becomes(o, "none", "dropped")
                     /\ owner[L[o]] = Nobody
                     /\ UNCHANGED <<lua, owner, thread, L, ref, made, emptied>>

\* ref = t[freelist]
TakeFirst(t) == /\ Goto(t, "take", "unlink")
                /\ slot' = [slot EXCEPT ![t] = head]
                /\ UNCHANGED <<lua, owner, works, object, made, emptied>>

\* What lua_tointeger makes of a slot.
Link(x) == IF x \in Nat THEN x ELSE 0

\* The list keeps the slot it has given away.
BugUnlink(t) == /\ Goto(t, "unlink", "store")
                /\ IF slot[t] # 0
                   THEN UNCHANGED <<head, slot>>
                   ELSE /\ slot' = [slot EXCEPT ![t] = Len(registry) + 1]
                        /\ UNCHANGED head
                /\ UNCHANGED <<registry, owner, works, object, made, emptied>>

\* t[freelist] = t[ref], or a new slot when the list is empty.
Unlink(t) == /\ Goto(t, "unlink", "store")
             /\ IF slot[t] # 0
                THEN /\ head' = Link(registry[slot[t]])
                     /\ UNCHANGED slot
                ELSE /\ slot' = [slot EXCEPT ![t] = Len(registry) + 1]
                     /\ UNCHANGED head
             /\ UNCHANGED <<registry, owner, works, object, made, emptied>>

Put(s, n, x) == IF n = Len(s) + 1 THEN Append(s, x) ELSE [s EXCEPT ![n] = x]

\* A constructor that does not leave its monitor.
BugStore(t) == LET o == works[t] IN
               /\ Goto(t, "store", "idle")
               /\ Becomes(o, "making", "live")
               /\ registry' = Put(registry, slot[t], made[o])
               /\ ref' = [ref EXCEPT ![o] = slot[t]]
               /\ UNCHANGED <<head, owner, works, slot, L, made, emptied>>

\* t[ref] = v
Store(t) == LET o == works[t] IN
            /\ Goto(t, "store", "idle")
            /\ Becomes(o, "making", "live")
            /\ registry' = Put(registry, slot[t], made[o])
            /\ ref' = [ref EXCEPT ![o] = slot[t]]
            /\ Leave(t, L[o])
            /\ UNCHANGED <<head, works, slot, L, made, emptied>>

\* The garbage collector finds that nobody refers to the object.
Drop(o) == /\ Becomes(o, "live", "dropped")
           /\ UNCHANGED <<lua, owner, thread, L, ref, made, emptied>>

(***************************************************************************)
(* finalize, with the steps of luaL_unref.                                 *)
(***************************************************************************)

Finalize(o) == /\ Becomes(o, "dropped", "freeing")
               /\ ref[o] >= 0
               /\ Goto(Finalizer, "idle", "read")
               /\ Enter(Finalizer, L[o])
               /\ works' = [works EXCEPT ![Finalizer] = o]
               /\ UNCHANGED <<lua, slot, L, ref, made, emptied>>

\* luaL_unref leaves a negative reference alone.
FinalizeNil(o) == /\ Becomes(o, "dropped", "gone")
                  /\ ref[o] < 0
                  /\ pc[Finalizer] = "idle" /\ owner[L[o]] = Nobody
                  /\ UNCHANGED <<lua, owner, thread, L, ref, made, emptied>>

ReadFirst == /\ Goto(Finalizer, "read", "link")
             /\ slot' = [slot EXCEPT ![Finalizer] = head]
             /\ UNCHANGED <<lua, owner, works, object, made, emptied>>

\* A list that is begun anew with each slot given back.
BugLinkSlot == LET o == works[Finalizer] IN
               /\ Goto(Finalizer, "link", "lead")
               /\ registry' = IF ref[o] > 0
                                THEN [registry EXCEPT ![ref[o]] = 0]
                                ELSE registry
               /\ UNCHANGED <<head, owner, works, slot, object, made, emptied>>

\* t[ref] = t[freelist]; slot 0 is none of the slots of registry.
LinkSlot == LET o == works[Finalizer] IN
            /\ Goto(Finalizer, "link", "lead")
            /\ registry' = IF ref[o] > 0
                             THEN [registry EXCEPT ![ref[o]] = slot[Finalizer]]
                             ELSE registry
            /\ UNCHANGED <<head, owner, works, slot, object, made, emptied>>

\* t[freelist] = ref: a reference 0 empties the list.
LeadList == LET o == works[Finalizer] IN
            /\ Goto(Finalizer, "lead", "idle")
            /\ Becomes(o, "freeing", "gone")
            /\ head' = ref[o]
            /\ emptied' = (emptied \/ ref[o] = 0)
            /\ Leave(Finalizer, L[o])
            /\ UNCHANGED <<registry, works, slot, L, ref, made>>

Making(t)  == TakeFirst(t) \/ Unlink(t) \/ Store(t)
Finalizing == ReadFirst \/ LinkSlot \/ LeadList

Next == \/ \E t \in Threads : Making(t) \/ \E o \in Objects : Construct(t, o)
        \/ \E o \in Objects : \/ ConstructNil(o) \/ ConstructFails(o)
                              \/ Drop(o) \/ Finalize(o) \/ FinalizeNil(o)
        \/ Finalizing

Spec == Init /\ [][Next]_vars

\* What was begun is ended, and the finalizer gets every monitor that is free
\* again and again.  Nobody has to make an object or to give one up.
FairSpec == /\ Spec
            /\ \A t \in Threads : WF_vars(Making(t))
            /\ WF_vars(Finalizing)
            /\ \A o \in Objects : SF_vars(Finalize(o) \/ FinalizeNil(o))

(***************************************************************************)
(* Properties.                                                             *)
(***************************************************************************)

HasSlot(o) == ref[o] > 0 /\ life[o] \in {"live", "dropped", "freeing"}

\* "The LuaObject will represent only the object itself" (LuaObject.java:47):
\* its slot holds the value it was made for as long as anybody can use it, and
\* nobody else has the slot.
Represents ==
    /\ \A o \in Objects : HasSlot(o) /\ life[o] = "live" => registry[ref[o]] = made[o]
    /\ \A o, p \in Objects : HasSlot(o) /\ HasSlot(p) /\ o # p => ref[o] # ref[p]

\* The slots that can be reached on the free list.
NextFree == [n \in DOMAIN registry |-> {Link(registry[n])} \cap DOMAIN registry]
OnFreeList == Reach({head} \cap DOMAIN registry, NextFree)

\* "The previously freed references form a linked list" (lauxlib.c:660): a slot
\* belongs to an object, is about to, or is on the free list.  The finalizer of
\* an object whose constructor threw breaks the list off.
FreedFormList ==
    1..Len(registry) \subseteq
        {ref[o] : o \in {p \in Objects : HasSlot(p)}} \cup
        {slot[t] : t \in {u \in Threads : pc[u] = "store"}} \cup
        OnFreeList

\* Slots do not leak as long as every constructor succeeds.
NoSlotLost == emptied \/ FreedFormList

\* An object that is given up gives its slot back: the finalizer never waits
\* for ever for a monitor.
DroppedIsFreed == \A o \in Objects : life[o] = "dropped" ~> life[o] = "gone"
=============================================================================
