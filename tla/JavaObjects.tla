----------------------------- MODULE JavaObjects -----------------------------
(***************************************************************************)
(* Java objects in Lua (com.luajava.LuaState, LuaStateFactory, LuaJavaAPI, *)
(* jni/luajava/luajava.c). A userdata holds no reference to its object,    *)
(* only an index; the object is in javaObjectMap of a LuaState. There is   *)
(* one LuaState object for each lua_State, so one for each coroutine that  *)
(* calls Java, and all of them belong to one Lua state with one collector. *)
(* The finalizer of a userdata puts the index on a list, and LuaState.gc   *)
(* takes what is listed out of the map.                                    *)
(*                                                                         *)
(* javaObjectMap is a plain HashMap and sIdx++ a read and a write, and not *)
(* everybody who uses them is in the monitor of the LuaState: gc() is not  *)
(* (LuaActivity.onDestroy), nor are setField, setI, doFile, doAsset and    *)
(* doString. The history variables overlapped and raced say which          *)
(* LuaStates such threads have met in.                                     *)
(*                                                                         *)
(* Left out: JavaFunction userdata, the caches of luajava.c, a put that    *)
(* loops for ever in a map that was raced on, and reads of a field that    *)
(* return what another thread has overwritten since.                       *)
(* The definition named Bug... is a faulty variant of the one it stands    *)
(* above; no specification uses it.                                        *)
(***************************************************************************)
EXTENDS Naturals

CONSTANTS
    Threads,    \* Java threads
    States,     \* the lua_States: the main thread and coroutines
    Main,       \* the main thread: the LuaState of the activity
    Users,      \* the lua_States whose code uses Java objects
    Outside,    \* the Java threads that also push outside the monitor (setField)
    Objects,    \* Java objects
    Userdata,   \* bound: the userdata that exist at a time
    MaxIdx      \* bound: the pushes through one LuaState

ASSUME JavaObjectsAssumption ==
    /\ Main \in States
    /\ Users \subseteq States /\ Outside \subseteq Threads
    /\ MaxIdx \in Nat

None == "none"
ASSUME NoneAssumption == None \notin Threads /\ None \notin Objects

VARIABLES
    owner,              \* the thread that runs Lua, in the monitor, or None
    run,                \* the lua_State whose code it runs
    sIdx,               \* of each LuaState, the next index
    javaObjectMap,      \* of each LuaState, the object of each index, or None
    javaObjectGcList,   \* of each LuaState, the indices of finalized userdata
    udata,              \* the userdata: index, object, and whether Lua holds it
    call,               \* of each thread, how far it is in a push or in gc()
    overlapped,         \* history: the LuaStates where two pushes were between the
                        \* read and the write of sIdx at once
    raced               \* history: those where two threads wrote the map at once

vars == <<owner, run, sIdx, javaObjectMap, javaObjectGcList, udata, call,
          overlapped, raced>>

Indices == 0..(MaxIdx - 1)
Idle == [at |-> "idle"]
Walked == [at |-> "walked"]
Pushing == [at : {"read", "put", "new"}, home : States, index : Indices, obj : Objects]
Walking == [at : {"walking"}, left : SUBSET Indices, modified : BOOLEAN]
Free == [status |-> "free"]
Existing == [status : {"held", "lost", "cleared"}, index : Indices, obj : Objects]

TypeOK ==
    /\ owner \in Threads \cup {None}
    /\ run \in States
    /\ sIdx \in [States -> 0..MaxIdx]
    /\ javaObjectMap \in [States -> [Indices -> Objects \cup {None}]]
    /\ javaObjectGcList \in [States -> SUBSET Indices]
    /\ udata \in [Userdata -> Existing \cup {Free}]
    /\ call \in [Threads -> Pushing \cup Walking \cup {Idle, Walked}]
    /\ overlapped \subseteq States /\ raced \subseteq States

Init ==
    /\ owner = None /\ run = Main
    /\ sIdx = [s \in States |-> 0]
    /\ javaObjectMap = [s \in States |-> [i \in Indices |-> None]]
    /\ javaObjectGcList = [s \in States |-> {}]
    /\ udata = [u \in Userdata |-> Free]
    /\ call = [t \in Threads |-> Idle]
    /\ overlapped = {} /\ raced = {}
------------------------------------------------------------------------------
(* Lua runs in the monitor of the LuaState it was entered by.               *)

\* synchronized (L), and pcall.
Enter(t) ==
    /\ owner = None /\ call[t] = Idle
    /\ owner' = t
    /\ UNCHANGED <<run, sIdx, javaObjectMap, javaObjectGcList, udata, call,
                   overlapped, raced>>

Leave(t) ==
    /\ owner = t /\ call[t] = Idle /\ run = Main
    /\ owner' = None
    /\ UNCHANGED <<run, sIdx, javaObjectMap, javaObjectGcList, udata, call,
                   overlapped, raced>>

\* A coroutine is resumed, or it yields or ends.
Switch(s) ==
    /\ owner # None /\ call[owner] = Idle
    /\ s # run /\ (run = Main \/ s = Main)
    /\ run' = s
    /\ UNCHANGED <<owner, sIdx, javaObjectMap, javaObjectGcList, udata, call,
                   overlapped, raced>>
------------------------------------------------------------------------------
(* javaObjectMap, a HashMap without a lock.                                 *)

\* t puts into the map of s, or has entries of it to remove in gc().
Puts(t, s) == call[t].at = "put" /\ call[t].home = s
Removes(t, s) == call[t].at = "walking" /\ call[t].left # {} /\ s = Main

\* A thread ends the write that turns the map of s from old into new. Once another
\* wrote at the same time, entries may get lost and the write itself may; an entry
\* never comes under another key.
Write(t, s, old, new) ==
    /\ raced' = raced \cup {x \in {s} : \E w \in Threads \ {t} : Puts(w, s) \/ Removes(w, s)}
    /\ IF s \in raced'
       THEN \E m \in {old, new} : \E lost \in SUBSET Indices :
                javaObjectMap' = [javaObjectMap EXCEPT ![s] =
                    [i \in Indices |-> IF i \in lost THEN None ELSE m[i]]]
       ELSE javaObjectMap' = [javaObjectMap EXCEPT ![s] = new]
------------------------------------------------------------------------------
(* pushJavaObject.                                                          *)

\* Who pushes, and through which LuaState: code in Lua through that of its
\* lua_State (getExistingState), code outside through that of the activity.
Pushes(t, home) ==
    /\ call[t] = Idle
    /\ \/ owner = t /\ run \in Users /\ home = run
       \/ owner # t /\ t \in Outside /\ home = Main

\* The indices of objects that are gone are used again.
BugReadIndex(t, o) ==
    \E home \in States :
        /\ Pushes(t, home) /\ sIdx[home] < MaxIdx
        /\ \E i \in javaObjectGcList[home] \cup {sIdx[home]} :
               call' = [call EXCEPT ![t] =
                   [at |-> "read", home |-> home, index |-> i, obj |-> o]]
        /\ overlapped' = overlapped \cup
               {s \in {home} : \E w \in Threads : call[w].at = "read" /\ call[w].home = s}
        /\ UNCHANGED <<owner, run, sIdx, javaObjectMap, javaObjectGcList, udata, raced>>

\* sIdx++ reads the index ...
ReadIndex(t, o) ==
    \E home \in States :
        /\ Pushes(t, home) /\ sIdx[home] < MaxIdx
        /\ call' = [call EXCEPT ![t] =
               [at |-> "read", home |-> home, index |-> sIdx[home], obj |-> o]]
        /\ overlapped' = overlapped \cup
               {s \in {home} : \E w \in Threads : call[w].at = "read" /\ call[w].home = s}
        /\ UNCHANGED <<owner, run, sIdx, javaObjectMap, javaObjectGcList, udata, raced>>

\* ... and writes the next one.
WriteIndex(t) ==
    /\ call[t].at = "read"
    /\ sIdx' = [sIdx EXCEPT ![call[t].home] = call[t].index + 1]
    /\ call' = [call EXCEPT ![t].at = "put"]
    /\ UNCHANGED <<owner, run, javaObjectMap, javaObjectGcList, udata, overlapped, raced>>

\* The put of the object ends.
PutObject(t) ==
    /\ call[t].at = "put"
    /\ LET c == call[t]
           old == javaObjectMap[c.home] IN
       Write(t, c.home, old, [old EXCEPT ![c.index] = c.obj])
    /\ call' = [call EXCEPT ![t].at = "new"]
    /\ UNCHANGED <<owner, run, sIdx, javaObjectGcList, udata, overlapped>>

\* _pushJavaObject, in the monitor.
NewUserdata(t, u) ==
    /\ call[t].at = "new" /\ owner \in {None, t}
    /\ udata[u] = Free
    /\ LET c == call[t] IN
       udata' = [udata EXCEPT ![u] =
                     [status |-> "held", index |-> c.index, obj |-> c.obj]]
    /\ call' = [call EXCEPT ![t] = Idle]
    /\ UNCHANGED <<owner, run, sIdx, javaObjectMap, javaObjectGcList, overlapped, raced>>
------------------------------------------------------------------------------
(* Userdata are lost and finalized.                                         *)

\* The last reference to u is overwritten.
Lose(u) ==
    /\ owner # None
    /\ udata[u].status \in {"held", "cleared"}
    /\ udata' = [udata EXCEPT ![u].status = "lost"]
    /\ UNCHANGED <<owner, run, sIdx, javaObjectMap, javaObjectGcList, call,
                   overlapped, raced>>

\* A list that changes under a walk: the iterator will notice.
Modified ==
    [t \in Threads |-> IF call[t].at = "walking"
                       THEN [call[t] EXCEPT !.modified = TRUE] ELSE call[t]]

\* javaGc: the LuaState of the lua_State that runs lists the index.
List(u) ==
    /\ javaObjectGcList' = [javaObjectGcList EXCEPT ![run] = @ \cup {udata[u].index}]
    /\ call' = IF run = Main THEN Modified ELSE call

\* luajava.clear(u), called by a program that does not use u any more.
Clear(u) ==
    /\ owner # None /\ run \in Users
    /\ udata[u].status = "held"
    /\ List(u)
    /\ udata' = [udata EXCEPT ![u].status = "cleared"]
    /\ UNCHANGED <<owner, run, sIdx, javaObjectMap, overlapped, raced>>

\* __gc, called by the collector when Lua or any native call takes memory.
Finalize(u) ==
    /\ udata[u].status = "lost"
    /\ List(u)
    /\ udata' = [udata EXCEPT ![u] = Free]
    /\ UNCHANGED <<owner, run, sIdx, javaObjectMap, overlapped, raced>>
------------------------------------------------------------------------------
(* LuaState.gc of the activity, outside the monitor.                        *)

GcBegin(t) ==
    /\ call[t] = Idle
    /\ call' = [call EXCEPT ![t] = [at |-> "walking", left |-> javaObjectGcList[Main],
                                    modified |-> FALSE]]
    /\ UNCHANGED <<owner, run, sIdx, javaObjectMap, javaObjectGcList, udata,
                   overlapped, raced>>

\* A listed index leaves the map.
GcRemove(t) ==
    /\ call[t].at = "walking"
    /\ \E i \in call[t].left :
        /\ LET old == javaObjectMap[Main] IN
           Write(t, Main, old, [old EXCEPT ![i] = None])
        /\ call' = [call EXCEPT ![t].left = @ \ {i}]
    /\ UNCHANGED <<owner, run, sIdx, javaObjectGcList, udata, overlapped>>

\* The walk is over. One that noticed a change may be over early: it throws, and the
\* list is not emptied, or it saw an empty list.
GcWalked(t) ==
    /\ call[t].at = "walking"
    /\ \E next \in {Walked, Idle} :
        /\ call[t].modified \/ (call[t].left = {} /\ next = Walked)
        /\ call' = [call EXCEPT ![t] = next]
    /\ UNCHANGED <<owner, run, sIdx, javaObjectMap, javaObjectGcList, udata,
                   overlapped, raced>>

\* The list is emptied; what was listed since the walk is forgotten.
GcClear(t) ==
    /\ call[t] = Walked
    /\ javaObjectGcList' = [javaObjectGcList EXCEPT ![Main] = {}]
    /\ call' = [Modified EXCEPT ![t] = Idle]
    /\ UNCHANGED <<owner, run, sIdx, javaObjectMap, udata, overlapped, raced>>

Next ==
    \/ \E t \in Threads :
          \/ Enter(t) \/ Leave(t) \/ WriteIndex(t) \/ PutObject(t)
          \/ GcBegin(t) \/ GcRemove(t) \/ GcWalked(t) \/ GcClear(t)
          \/ \E o \in Objects : ReadIndex(t, o)
          \/ \E u \in Userdata : NewUserdata(t, u)
    \/ \E s \in States : Switch(s)
    \/ \E u \in Userdata : Lose(u) \/ Clear(u) \/ Finalize(u)

Spec == Init /\ [][Next]_vars
------------------------------------------------------------------------------
\* What code finds that uses the userdata u.
Found(u) == javaObjectMap[run][udata[u].index]

\* "used to find the right LuaState when lua calls a Java Function"
\* (LuaStateFactory.java:36-37): code that uses a userdata gets the object that
\* was pushed, whatever was finalized where.
RightObject ==
    owner # None /\ run \in Users =>
        \A u \in Userdata : udata[u].status = "held" => Found(u) = udata[u].obj

\* As long as no two pushes were given an index at once, code that uses a userdata
\* (getJavaObject) gets the object that was pushed or none, never another one,
\* whatever gc() and the finalizers remove from the map and list meanwhile. It gets
\* none only after two threads wrote the map at once, or while another one puts.
RightUnlessRaced ==
    owner # None /\ run \in Users \ overlapped =>
        \A u \in Userdata : udata[u].status = "held" =>
            /\ Found(u) \in {udata[u].obj, None}
            /\ \/ Found(u) = udata[u].obj
               \/ run \in raced
               \/ \E t \in Threads \ {owner} : Puts(t, run)
==============================================================================
