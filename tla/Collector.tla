------------------------------ MODULE Collector ------------------------------
(***************************************************************************)
(* The garbage collector of the Lua interpreter (jni/lua/lgc.c), in its    *)
(* incremental mode, between the steps of the program that runs in the     *)
(* state: the three colours, the lists of gray objects, the barriers of    *)
(* every store, the atomic step with its weak tables and the resurrection  *)
(* of objects with finalizers, the sweep of the three lists, the full      *)
(* collection asked for from Java (LuaState.gc), and the closing of the    *)
(* state.                                                                  *)
(*                                                                         *)
(* "white" is the current white and "other" the other one, so the flip of  *)
(* currentwhite exchanges them. Lists are sets: the order of a list only   *)
(* decides which of its objects is next. The kinds of objects that are     *)
(* marked without a list (strings, userdata without user values) are not   *)
(* told apart from the others.                                             *)
(* The definitions named Bug... are faulty variants of the ones they stand *)
(* above; no specification uses them.                                      *)
(***************************************************************************)
EXTENDS FiniteSets, Naturals, Reachability

CONSTANTS
    Objects,    \* the objects the program may make (all kinds but strings)
    Threads,    \* lua_States: the main thread and the coroutines
    Weak,       \* tables with weak values
    Closures,   \* closures: their upvalues are stored with a forward barrier
    Main,       \* g->mainthread
    Registry,   \* g->l_registry
    MayHold,    \* bound: of each object, the objects the program stores in it
    SweepMax,   \* GCSWEEPMAX
    Finalizable \* bound: the tables and userdata that are given a __gc

ASSUME CollectorAssumption ==
    /\ Threads \subseteq Objects /\ Weak \subseteq Objects
    /\ Threads \cap Weak = {}
    /\ Main \in Threads
    /\ Registry \in Objects \ (Threads \cup Weak)
    /\ Finalizable \subseteq Objects \ {Main, Registry}
    /\ SweepMax \in Nat \ {0}
    /\ MayHold \in [Objects -> SUBSET (Objects \ {Main, Registry})]

None == "none"
ASSUME NoneAssumption == None \notin Objects

VARIABLES
    alloc,      \* the objects that exist
    refs,       \* what each object holds
    run,        \* L: the thread whose code runs
    mark,       \* marked: the colour
    gray,       \* g->gray
    grayagain,  \* g->grayagain, and the weak list outside the atomic step
    finobj,     \* g->finobj: objects with a finalizer
    tobefnz,    \* g->tobefnz: objects whose finalizer is to be called
    gcstate,    \* g->gcstate
    sweeping,   \* g->sweepgc is not NULL
    ahead,      \* what is still to sweep of the list sweepgc is in
    fnz,        \* the object whose finalizer runs (g->gcstp has GCSTPGC), or None
    full,       \* luaC_fullgc: "no", or how far fullinc has got
    closing     \* lua_close: "no", "yes" (GCSTPCLS), "done"

heap == <<alloc, refs, run>>
lists == <<gray, grayagain, finobj, tobefnz>>
sweep == <<gcstate, sweeping, ahead>>
calls == <<fnz, full, closing>>
vars == <<heap, mark, lists, sweep, calls>>

GCStates == {"pause", "propagate", "enteratomic", "swpallgc", "swpfinobj",
             "swptobefnz", "swpend", "callfin"}
Colours == {"white", "other", "gray", "black"}

TypeOK ==
    /\ alloc \subseteq Objects
    /\ refs \in [Objects -> SUBSET Objects]
    /\ run \in Threads
    /\ mark \in [Objects -> Colours]
    /\ gray \subseteq Objects /\ grayagain \subseteq Objects
    /\ finobj \subseteq Objects /\ tobefnz \subseteq Objects
    /\ gcstate \in GCStates
    /\ sweeping \in BOOLEAN /\ ahead \subseteq Objects
    /\ fnz \in Objects \cup {None}
    /\ full \in {"no", "flush", "cycle"}
    /\ closing \in {"no", "yes", "done"}

Heap == INSTANCE LuaHeap WITH
            finalizer <- [o \in Objects |-> IF o \in finobj THEN "set"
                                            ELSE IF o \in tobefnz THEN "due"
                                            ELSE "none"]
\* What each object keeps alive, and what the program can get at.
Strong == [o \in Objects |-> IF o \in Weak THEN {} ELSE refs[o]]
Roots == {Main, Registry, run}
Accessible == Reach(Roots, refs)

\* What the program holds, and what it or a finalizer still to come holds.
Held == Reach(Roots, Strong)
Needed == Reach(Roots \cup finobj \cup tobefnz, Strong)

allgc == alloc \ (finobj \cup tobefnz)
Whites == {o \in alloc : mark[o] \in {"white", "other"}}
keepinvariant == gcstate \in {"propagate", "enteratomic"}
issweepphase == gcstate \in {"swpallgc", "swpfinobj", "swptobefnz", "swpend"}
------------------------------------------------------------------------------
Init ==
    /\ alloc = {Main, Registry}
    /\ refs = [o \in Objects |-> {}]
    /\ run = Main
    /\ mark = [o \in Objects |-> "white"]
    /\ gray = {} /\ grayagain = {} /\ finobj = {} /\ tobefnz = {}
    /\ gcstate = "pause"
    /\ sweeping = FALSE /\ ahead = {}
    /\ fnz = None /\ full = "no" /\ closing = "no"
------------------------------------------------------------------------------
(* The program. It runs in `run`, also inside a finalizer, and waits while  *)
(* a full collection or the closing is under way.                           *)

\* luaC_newobjdt, and the new object is put on the stack.
New(o) ==
    /\ o \in MayHold[run] \ alloc
    /\ alloc' = alloc \cup {o}
    /\ refs' = [refs EXCEPT ![o] = {}, ![run] = @ \cup {o}]
    /\ mark' = [mark EXCEPT ![o] = "white"]
    /\ UNCHANGED <<run, lists, sweep, calls>>

\* reallymarkobject
Mark(v) ==
    /\ mark' = [mark EXCEPT ![v] = "gray"]
    /\ gray' = gray \cup {v}
    /\ UNCHANGED grayagain

\* luaC_barrier_: the stored value is marked, or the holder is swept.
ForwardBarrier(o, v) ==
    \/ keepinvariant /\ Mark(v)
    \/ /\ ~keepinvariant
       /\ mark' = [mark EXCEPT ![o] = "white"]
       /\ UNCHANGED <<gray, grayagain>>

\* The holder turns gray but is not linked.
BugBackBarrier(o) == /\ mark' = [mark EXCEPT ![o] = "gray"]
                     /\ UNCHANGED <<gray, grayagain>>

\* luaC_barrierback_: the holder is to be visited again.
BackBarrier(o) ==
    /\ mark' = [mark EXCEPT ![o] = "gray"]
    /\ grayagain' = grayagain \cup {o}
    /\ UNCHANGED gray

\* A reference is stored in a field, an upvalue or a stack; stacks have no
\* barrier. References to the roots are left out: they keep nothing more alive. So are
\* metatables, whose store has the forward barrier also in tables (lua_setmetatable).
Store(o, v) ==
    /\ v \in MayHold[o] \ refs[o]
    /\ refs' = [refs EXCEPT ![o] = @ \cup {v}]
    /\ IF mark[o] = "black" /\ v \in Whites /\ o \notin Threads
       THEN IF o \in Closures THEN ForwardBarrier(o, v) ELSE BackBarrier(o)
       ELSE UNCHANGED <<mark, gray, grayagain>>
    /\ UNCHANGED <<alloc, run, finobj, tobefnz, sweep, calls>>

Erase(o, v) ==
    /\ v \in refs[o]
    /\ refs' = [refs EXCEPT ![o] = @ \ {v}]
    /\ UNCHANGED <<alloc, run, mark, lists, sweep, calls>>

\* lua_resume of a coroutine by the main thread, and its yield or end.
Resume(t) ==
    /\ fnz = None
    /\ run = Main /\ t # Main
    /\ run' = t
    /\ UNCHANGED <<alloc, refs, mark, lists, sweep, calls>>

Yield ==
    /\ fnz = None
    /\ run # Main /\ run' = Main
    /\ UNCHANGED <<alloc, refs, mark, lists, sweep, calls>>

\* The objects of `part` are swept, given the colours and the fields they have:
\* the dead ones are freed, the live ones turn white.
Sweep(part, marks, fields) ==
    LET dead == {o \in part : marks[o] = "other"} IN
    /\ alloc' = alloc \ dead
    /\ refs' = [o \in Objects |-> IF o \in dead THEN {} ELSE fields[o]]
    /\ mark' = [o \in Objects |-> IF o \in part THEN "white" ELSE marks[o]]

\* sweeptolive: a list is swept up to its first live object, or to its end.
\* In a full collection no program runs before all the list is swept, and the
\* steps that sweep it are taken together.
SweepToLive(list, marks, fields) ==
    \E part \in SUBSET list :
        LET live == {o \in part : marks[o] # "other"} IN
        /\ \/ full = "no" /\ \E o \in part : live = {o}
           \/ full = "no" /\ live = {} /\ part = list
           \/ full # "no" /\ part = list
        /\ Sweep(part, marks, fields)
        /\ ahead' = list \ part
        /\ sweeping' = (ahead' # {})

\* luaC_checkfinalizer: o moves from allgc to finobj, at its head. While the
\* list of o is swept, o may be the object that holds sweepgc, which then moves on.
SetFinalizer(o) ==
    /\ closing = "no"
    /\ o \in Finalizable \ (finobj \cup tobefnz)
    /\ finobj' = finobj \cup {o}
    /\ LET swept == [mark EXCEPT ![o] = "white"]
           atHeader == gcstate = "swpfinobj" /\ sweeping /\ ahead = finobj
       IN  \/ /\ mark' = IF issweepphase THEN swept ELSE mark
              /\ ahead' = IF atHeader THEN ahead \cup {o} ELSE ahead \ {o}
              /\ UNCHANGED <<alloc, refs, sweeping>>
           \/ /\ gcstate = "swpallgc" /\ sweeping /\ o \notin ahead
              /\ SweepToLive(ahead, swept, refs)
    /\ UNCHANGED <<run, gray, grayagain, tobefnz, gcstate, calls>>
------------------------------------------------------------------------------
(* The collector: singlestep, run by luaC_step whenever memory is taken      *)
(* (not inside a finalizer and not while closing), and by fullinc.           *)

Collecting == fnz = None /\ closing = "no"

\* What has a finalizer is never seen to be lost.
BugRestart == /\ Collecting /\ gcstate = "pause"
              /\ gray' = {Main, Registry} \cup tobefnz \cup finobj
              /\ grayagain' = {}
              /\ mark' = [o \in Objects |-> IF o \in gray' THEN "gray" ELSE mark[o]]
              /\ gcstate' = IF full = "flush" THEN "enteratomic" ELSE "propagate"
              /\ full' = IF full = "flush" THEN "cycle" ELSE full
              /\ UNCHANGED <<heap, finobj, tobefnz, sweeping, ahead, fnz, closing>>

\* restartcollection. A full collection goes straight on to the atomic step.
Restart ==
    /\ Collecting /\ gcstate = "pause"
    /\ gray' = {Main, Registry} \cup tobefnz
    /\ grayagain' = {}
    /\ mark' = [o \in Objects |-> IF o \in gray' THEN "gray" ELSE mark[o]]
    /\ gcstate' = IF full = "flush" THEN "enteratomic" ELSE "propagate"
    /\ full' = IF full = "flush" THEN "cycle" ELSE full
    /\ UNCHANGED <<heap, finobj, tobefnz, sweeping, ahead, fnz, closing>>

\* propagatemark: one gray object is visited. Threads and weak tables are to
\* be visited again in the atomic step.
PropagateMark(o) ==
    /\ Collecting /\ gcstate = "propagate" /\ o \in gray
    /\ LET found == Strong[o] \cap Whites
           again == o \in Threads \cup Weak
       IN  /\ gray' = (gray \ {o}) \cup found
           /\ grayagain' = IF again THEN grayagain \cup {o} ELSE grayagain
           /\ mark' = [p \in Objects |->
                          IF p \in found THEN "gray"
                          ELSE IF p = o /\ ~again THEN "black" ELSE mark[p]]
    /\ UNCHANGED <<heap, finobj, tobefnz, sweep, calls>>

EnterAtomic ==
    /\ Collecting /\ gcstate = "propagate" /\ gray = {}
    /\ gcstate' = "enteratomic"
    /\ UNCHANGED <<heap, mark, lists, sweeping, ahead, calls>>

\* Weak tables are visited like any other.
BugMarkedFrom(start, blank) ==
    Reach(start, [o \in Objects |-> IF o \in start \cup blank THEN refs[o] ELSE {}])

\* Everything marked from `start` on: the objects visited are those of `start`
\* and the unmarked ones (`blank`) met on the way; a black object is not
\* visited again.
MarkedFrom(start, blank) ==
    Reach(start, [o \in Objects |-> IF o \in start \cup blank THEN Strong[o] ELSE {}])

\* The running thread is not marked again.
BugMarked ==
    LET start == gray \cup grayagain \cup ({Registry} \cap Whites)
    IN  (alloc \ Whites) \cup MarkedFrom(start, Whites)

\* Strongly marked when the atomic step has emptied its lists; the running
\* thread and the registry may have changed since they were marked.
Marked ==
    LET start == gray \cup grayagain \cup ({run, Registry} \cap Whites)
    IN  (alloc \ Whites) \cup MarkedFrom(start, Whites)

\* All finalizers are due, as when the state closes.
BugSeparated == tobefnz \cup finobj

\* separatetobefnz: the finalizers of unmarked objects are due ...
Separated == tobefnz \cup (finobj \ Marked)

\* ... and what these objects hold is marked as well.
Resurrected == Marked \cup MarkedFrom(Separated \ Marked, Whites \ Marked)

\* clearbyvalues, before the resurrection and for the tables it has marked.
Cleared == [o \in Objects |->
               IF o \in Weak \cap Marked THEN refs[o] \cap Marked
               ELSE IF o \in Weak \cap Resurrected THEN refs[o] \cap Resurrected
               ELSE refs[o]]

\* The colours once the current white is the other one.
Flipped == [o \in Objects |->
               IF o \notin alloc THEN "white"
               ELSE IF o \notin Resurrected THEN "other"
               ELSE IF o \in Weak THEN "gray" ELSE "black"]

\* atomic, and entersweep.
Atomic ==
    /\ Collecting /\ gcstate = "enteratomic"
    /\ tobefnz' = Separated
    /\ finobj' = finobj \ Separated
    /\ gray' = {} /\ grayagain' = {}
    /\ gcstate' = "swpallgc"
    /\ SweepToLive(allgc, Flipped, Cleared)
    /\ UNCHANGED <<run, calls>>

\* sweepstep: the next GCSWEEPMAX objects of the list are swept ...
SweepList ==
    /\ Collecting /\ issweepphase /\ sweeping
    /\ \E part \in SUBSET ahead :
        /\ \/ part = ahead /\ (full # "no" \/ Cardinality(part) < SweepMax)
           \/ full = "no" /\ Cardinality(part) = SweepMax
        /\ Sweep(part, mark, refs)
        /\ ahead' = ahead \ part
        /\ sweeping' = (ahead' # {})
    /\ UNCHANGED <<run, lists, gcstate, calls>>

\* ... or it is finished and the next one begins.
NextList ==
    /\ Collecting /\ issweepphase /\ ~sweeping
    /\ gcstate' = CASE gcstate = "swpallgc" -> "swpfinobj"
                    [] gcstate = "swpfinobj" -> "swptobefnz"
                    [] gcstate = "swptobefnz" -> "swpend"
                    [] gcstate = "swpend" -> "callfin"
    /\ ahead' = CASE gcstate = "swpallgc" -> finobj
                  [] gcstate = "swpfinobj" -> tobefnz
                  [] OTHER -> {}
    /\ sweeping' = (gcstate \in {"swpallgc", "swpfinobj"})
    /\ UNCHANGED <<heap, mark, lists, calls>>

EndCycle ==
    /\ Collecting /\ gcstate = "callfin" /\ tobefnz = {}
    /\ gcstate' = "pause"
    /\ full' = IF full = "cycle" THEN "no" ELSE full
    /\ UNCHANGED <<heap, mark, lists, sweeping, ahead, fnz, closing>>

\* GCTM: the finalizer of o is called, in callfin or when the state closes. That its
\* metatable has lost its __gc since is not told apart.
CallFinalizer(o) ==
    /\ fnz = None /\ closing # "done"
    /\ gcstate = "callfin" \/ closing = "yes"
    /\ o \in tobefnz /\ fnz' = o
    /\ tobefnz' = tobefnz \ {o}
    /\ refs' = [refs EXCEPT ![run] = @ \cup {o}]
    /\ mark' = IF issweepphase THEN [mark EXCEPT ![o] = "white"] ELSE mark
    /\ UNCHANGED <<alloc, run, gray, grayagain, finobj, sweep, full, closing>>

\* The finalizer returns, or fails, and o is popped: another slot may hold it.
EndFinalizer ==
    /\ fnz # None /\ fnz' = None
    /\ \E stack \in {refs[run], refs[run] \ {fnz}} : refs' = [refs EXCEPT ![run] = stack]
    /\ UNCHANGED <<alloc, run, mark, lists, sweep, full, closing>>

\* lua_gc(LUA_GCCOLLECT), from Lua or LuaState.gc: fullinc. What is marked
\* so far is swept first; the sweep goes on, then comes a whole cycle.
FullGc ==
    /\ Collecting /\ full = "no"
    /\ full' = "flush"
    /\ IF keepinvariant
       THEN /\ gcstate' = "swpallgc" /\ Sweep(allgc, mark, refs)
            /\ ahead' = {} /\ sweeping' = FALSE
       ELSE UNCHANGED <<alloc, refs, mark, sweep>>
    /\ UNCHANGED <<run, lists, fnz, closing>>

\* lua_close: the stack of the main thread is emptied, every finalizer is due.
StartClose ==
    /\ Collecting /\ full = "no"
    /\ closing' = "yes"
    /\ run' = Main /\ refs' = [refs EXCEPT ![Main] = {}]
    /\ tobefnz' = tobefnz \cup finobj /\ finobj' = {}
    /\ UNCHANGED <<alloc, mark, gray, grayagain, sweep, fnz, full>>

\* luaC_freeallobjects after the finalizers, and the end of close_state.
EndClose ==
    /\ closing = "yes" /\ fnz = None /\ tobefnz = {}
    /\ closing' = "done"
    /\ alloc' = {} /\ refs' = [o \in Objects |-> {}]
    /\ UNCHANGED <<run, mark, lists, sweep, fnz, full>>
------------------------------------------------------------------------------
\* The program uses what it can get at.
Program ==
    /\ fnz # None \/ (full = "no" /\ closing = "no")
    /\ \/ \E o \in Objects : New(o)
       \/ \E o, v \in Accessible : Store(o, v) \/ Erase(o, v)
       \/ \E o \in Accessible : SetFinalizer(o)
       \/ \E t \in Threads \cap Accessible : Resume(t)
       \/ Yield \/ FullGc \/ StartClose

Steps ==
    \/ Restart \/ (\E o \in Objects : PropagateMark(o)) \/ EnterAtomic \/ Atomic
    \/ SweepList \/ NextList \/ EndCycle
    \/ (\E o \in Objects : CallFinalizer(o)) \/ EndFinalizer \/ EndClose

Next == Program \/ Steps

Spec == Init /\ [][Next]_vars

\* The program keeps taking memory and finalizers return, so the collector
\* keeps stepping until the state is closed (a step is always possible: this
\* is weak fairness of Steps).
FairSpec == Spec /\ ([]<>(closing = "done") \/ []<><<Steps>>_vars)
------------------------------------------------------------------------------
\* No code ever meets an object that is gone: all that the program can get at,
\* and all that the finalizers still to come can, exists.
NoDangling ==
    closing # "done" =>
        Reach(Roots \cup finobj \cup tobefnz, refs) \subseteq alloc

\* The invariant of lgc.h while marking: a black object does not point to a
\* white one, and every gray object is in a list that brings it up again.
TriColour ==
    keepinvariant =>
        \A o \in alloc :
            /\ mark[o] = "black" => o \notin Threads /\ refs[o] \cap Whites = {}
            /\ mark[o] = "gray" => o \in gray \cup grayagain

\* The collector does what it promises to the program.
ImplementsLuaHeap == Heap!Spec

\* What no code needs any more is freed, unless the program takes it back
\* out of a weak table in time.
GarbageFreed ==
    \A o \in Objects : (o \in alloc \ Needed) ~> (o \notin alloc \/ o \in Needed)

\* The finalizer of an object the program has lost is called, unless the
\* finalizer of another one brings the object back.
FinalizerCalled ==
    \A o \in Objects :
        (o \in tobefnz \/ (o \in finobj /\ o \notin Held))
            ~> (fnz = o \/ (o \notin tobefnz /\ o \in Held))
==============================================================================
