------------------------------- MODULE LuaHeap -------------------------------
(***************************************************************************)
(* What the garbage collector of the Lua interpreter promises to the       *)
(* program that runs in it (the abstract specification of Collector): an   *)
(* object is taken away only when no code can reach it any more, not even  *)
(* the finalizers (__gc) that are still to run; an entry of a weak table   *)
(* goes only when nothing else holds its value; a finalizer becomes due    *)
(* only for an object the program has lost, or because the state closes,   *)
(* and runs once each time it was asked for.                               *)
(***************************************************************************)
EXTENDS Reachability

CONSTANTS
    Objects,    \* everything luaC_newobj can make
    Threads,    \* the lua_States among them: the main thread and the coroutines
    Weak,       \* tables with weak values (__mode = "v")
    Main,       \* the main thread
    Registry    \* the registry table

VARIABLES
    alloc,      \* the objects that exist
    refs,       \* what each object holds: fields, upvalues, or a thread's stack
    run,        \* the thread whose code runs (L)
    finalizer   \* of each object: "none", "set" (has a __gc), "due" (to be called)

vars == <<alloc, refs, run, finalizer>>

\* What each object keeps alive: a table with weak values keeps nothing.
Strong == [o \in Objects |-> IF o \in Weak THEN {} ELSE refs[o]]

Roots == {Main, Registry, run}

\* What the program can get at, also through weak tables.
Accessible == Reach(Roots, refs)

\* What the program holds, and what it or a finalizer still to come holds.
Held == Reach(Roots, Strong)
Pending == {o \in alloc : finalizer[o] # "none"}
Needed == Reach(Roots \cup Pending, Strong)
------------------------------------------------------------------------------
Init ==
    /\ alloc = {Main, Registry}
    /\ refs = [o \in Objects |-> {}]
    /\ run = Main
    /\ finalizer = [o \in Objects |-> "none"]

\* A new object is on the stack of the thread that makes it.
New(o) ==
    /\ o \in Objects \ alloc
    /\ alloc' = alloc \cup {o}
    /\ refs' = [refs EXCEPT ![o] = {}, ![run] = @ \cup {o}]
    /\ UNCHANGED <<run, finalizer>>

Store(o, v) ==
    /\ refs' = [refs EXCEPT ![o] = @ \cup {v}]
    /\ UNCHANGED <<alloc, run, finalizer>>

Erase(o, v) ==
    /\ refs' = [refs EXCEPT ![o] = @ \ {v}]
    /\ UNCHANGED <<alloc, run, finalizer>>

Switch(t) ==
    /\ run' = t
    /\ UNCHANGED <<alloc, refs, finalizer>>

\* Lost objects may go, and then what they held.
LoseGarbage ==
    /\ alloc' \subseteq alloc
    /\ alloc' = alloc \/ alloc \cap Needed \subseteq alloc'

\* A __gc is set; on this occasion, too, the collector may free lost objects.
SetFinalizer(o) ==
    /\ finalizer[o] = "none"
    /\ finalizer' = [finalizer EXCEPT ![o] = "set"]
    /\ LoseGarbage
    /\ refs' = [p \in Objects |-> IF p \in alloc \ alloc' THEN {} ELSE refs[p]]
    /\ UNCHANGED run

\* The finalizer of o is called, with o on the stack.
Finalize(o) ==
    /\ o \in alloc /\ finalizer[o] = "due"
    /\ finalizer' = [finalizer EXCEPT ![o] = "none"]
    /\ refs' = [refs EXCEPT ![run] = @ \cup {o}]
    /\ UNCHANGED <<alloc, run>>

\* The collector's own steps: lost objects are freed, weak tables lose values
\* that nothing holds, and the finalizers of lost objects become due.
Collect ==
    /\ LoseGarbage
    /\ \A o \in Objects :
          \/ finalizer'[o] = finalizer[o]
          \/ finalizer[o] = "set" /\ finalizer'[o] = "due" /\ o \notin Held
    /\ \A o \in Objects :
          /\ refs'[o] \subseteq refs[o]
          /\ \/ refs'[o] = refs[o]
             \/ o \notin Accessible \cap alloc'
             \/ o \in Weak /\ (refs[o] \ refs'[o]) \cap Held = {}
    /\ UNCHANGED run

\* lua_close makes every finalizer due and, when they have run, frees all.
StartClose ==
    /\ run' = Main
    /\ refs' = [refs EXCEPT ![Main] = {}]
    /\ finalizer' = [o \in Objects |->
                        IF finalizer[o] = "set" THEN "due" ELSE finalizer[o]]
    /\ UNCHANGED alloc

EndClose ==
    /\ Pending = {}
    /\ alloc' = {} /\ refs' = [o \in Objects |-> {}]
    /\ UNCHANGED <<run, finalizer>>

Next ==
    \/ \E o \in Objects : New(o) \/ Finalize(o)
    \/ \E o, v \in Accessible : Store(o, v) \/ Erase(o, v)
    \/ \E o \in Accessible : SetFinalizer(o)
    \/ \E t \in Threads \cap Accessible : Switch(t)
    \/ Collect \/ StartClose \/ EndClose

Spec == Init /\ [][Next]_vars
==============================================================================
