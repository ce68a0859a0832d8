-------------------------- MODULE Collector_proofs --------------------------
(***************************************************************************)
(* Proofs about Collector, for every set of objects and kinds: the colours *)
(* and lists always allow the collector to tell what may be freed          *)
(* (TriColour), nothing that code can still meet is ever freed             *)
(* (NoDangling), and the collector implements LuaHeap.                     *)
(***************************************************************************)
EXTENDS Collector, TLAPS

(* The inductive invariant. A dead object is one of the other white.         *)
Live == {o \in alloc : mark[o] # "other"}

\* The lists and the stacks hold live objects, and these hold live objects.
HeapInv ==
    closing # "done" =>
        /\ Roots \cup finobj \cup tobefnz \subseteq Live
        /\ \A o \in Live : refs[o] \subseteq Live

\* While marking, the lists hold the gray objects, each once.
GrayInv ==
    keepinvariant /\ closing # "done" =>
        /\ mark[Main] \in {"gray", "black"}
        /\ gray \cup grayagain \subseteq alloc
        /\ \A o \in gray \cup grayagain : mark[o] = "gray"
        /\ gray \cap grayagain = {}

\* What the sweep has still to visit.
Unswept ==
    IF gcstate = "swpallgc" THEN ahead \cup finobj \cup tobefnz
    ELSE IF gcstate = "swpfinobj" THEN ahead \cup tobefnz
    ELSE IF gcstate = "swptobefnz" THEN ahead ELSE {}

\* Dead objects are ahead of the sweep of allgc; what it has passed is white.
SweepInv ==
    /\ ~sweeping => ahead = {}
    /\ \A o \in alloc : mark[o] = "other" =>
          gcstate = "swpallgc" /\ o \in ahead \ (finobj \cup tobefnz)
    /\ ~keepinvariant => \A o \in alloc \ Unswept : mark[o] = "white"

ListInv ==
    /\ finobj \cap tobefnz = {}
    /\ closing # "no" => finobj = {}
    /\ closing = "done" => tobefnz = {} /\ fnz = None

IInv == TypeOK /\ HeapInv /\ GrayInv /\ TriColour /\ SweepInv /\ ListInv
------------------------------------------------------------------------------
\* Reach(S, e) contains S, is closed, and is within every closed set.
LEMMA ReachLeast ==
    ASSUME NEW e, NEW S, NEW T, S \subseteq T, T \subseteq DOMAIN e,
           \A n \in T : e[n] \subseteq T
    PROVE  Reach(S, e) \subseteq T
<1>1. T = S \cup (T \ S) /\ T \ S \in SUBSET (DOMAIN e \ S)
  OBVIOUS
<1>2. T \in ClosedSets(S, e)
  BY <1>1 DEF ClosedSets
<1>. QED
  BY <1>2 DEF Reach

LEMMA ReachContains ==
    ASSUME NEW e, NEW S, S \subseteq DOMAIN e
    PROVE  S \subseteq Reach(S, e)
<1>1. \A T \in ClosedSets(S, e) : S \subseteq T
  BY DEF ClosedSets
<1>. QED
  BY <1>1 DEF Reach

LEMMA ReachClosed ==
    ASSUME NEW e, NEW S, NEW n \in Reach(S, e), e[n] \subseteq DOMAIN e
    PROVE  e[n] \subseteq Reach(S, e)
<1>1. \A T \in ClosedSets(S, e) : n \in T
  BY DEF Reach
<1>2. \A T \in ClosedSets(S, e) : e[n] \subseteq T
  BY <1>1 DEF ClosedSets
<1>. QED
  BY <1>2 DEF Reach

LEMMA ReachNodes == \A S, e : Reach(S, e) \subseteq DOMAIN e
  BY DEF Reach
------------------------------------------------------------------------------
\* Code meets live objects only.
LEMMA AccessibleLive ==
    ASSUME TypeOK, HeapInv, closing # "done"
    PROVE  /\ Reach(Roots \cup finobj \cup tobefnz, refs) \subseteq Live
           /\ Accessible \subseteq Live
<1>1. Live \subseteq DOMAIN refs
  BY DEF TypeOK, Live
<1>2. \A n \in Live : refs[n] \subseteq Live
  BY DEF HeapInv
<1>3. Roots \cup finobj \cup tobefnz \subseteq Live
  BY DEF HeapInv
<1>4. Reach(Roots \cup finobj \cup tobefnz, refs) \subseteq Live
  BY <1>1, <1>2, <1>3, ReachLeast
<1>5. Roots \subseteq Live
  BY <1>3
<1>6. Reach(Roots, refs) \subseteq Live
  BY <1>1, <1>2, <1>5, ReachLeast
<1>. QED
  BY <1>4, <1>6 DEF Accessible

\* What is needed is live.
LEMMA NeededLive ==
    ASSUME TypeOK, HeapInv, closing # "done"
    PROVE  Needed \subseteq Live /\ Held \subseteq Live
<1>1. Live \subseteq DOMAIN Strong
  BY DEF TypeOK, Live, Strong
<1>2. \A n \in Live : Strong[n] \subseteq Live
  BY DEF HeapInv, Strong, Live, TypeOK
<1>3. Roots \cup finobj \cup tobefnz \subseteq Live
  BY DEF HeapInv
<1>4. Reach(Roots \cup finobj \cup tobefnz, Strong) \subseteq Live
  BY <1>1, <1>2, <1>3, ReachLeast
<1>5. Roots \subseteq Live
  BY <1>3
<1>6. Reach(Roots, Strong) \subseteq Live
  BY <1>1, <1>2, <1>5, ReachLeast
<1>. QED
  BY <1>4, <1>6 DEF Needed, Held

\* A sweep frees nothing but the dead ...
LEMMA SweepTypes ==
    ASSUME alloc \subseteq Objects,
           NEW part \in SUBSET Objects,
           NEW marks \in [Objects -> Colours],
           NEW fields \in [Objects -> SUBSET Objects],
           Sweep(part, marks, fields)
    PROVE  /\ alloc' \subseteq alloc
           /\ refs' \in [Objects -> SUBSET Objects]
           /\ mark' \in [Objects -> Colours]
BY DEF Sweep, Colours

LEMMA SweepFrees ==
    ASSUME alloc \subseteq Objects,
           NEW part \in SUBSET Objects,
           NEW marks \in [Objects -> Colours],
           NEW fields \in [Objects -> SUBSET Objects],
           Sweep(part, marks, fields)
    PROVE  \A o : o \in alloc' <=> o \in alloc /\ ~(o \in part /\ marks[o] = "other")
BY DEF Sweep

\* ... whitens what it passes, ...
LEMMA SweepMarks ==
    ASSUME alloc \subseteq Objects,
           NEW part \in SUBSET Objects,
           NEW marks \in [Objects -> Colours],
           NEW fields \in [Objects -> SUBSET Objects],
           Sweep(part, marks, fields)
    PROVE  \A o \in Objects : mark'[o] = IF o \in part THEN "white" ELSE marks[o]
BY DEF Sweep

\* ... and leaves the live objects as they are.
LEMMA SweepRefs ==
    ASSUME alloc \subseteq Objects,
           NEW part \in SUBSET Objects,
           NEW marks \in [Objects -> Colours],
           NEW fields \in [Objects -> SUBSET Objects],
           Sweep(part, marks, fields)
    PROVE  \A o \in alloc' : refs'[o] = fields[o]
BY DEF Sweep

LEMMA SweepFreed ==
    ASSUME alloc \subseteq Objects,
           NEW part \in SUBSET Objects,
           NEW marks \in [Objects -> Colours],
           NEW fields \in [Objects -> SUBSET Objects],
           Sweep(part, marks, fields)
    PROVE  \A o \in alloc \ alloc' : marks[o] = "other" /\ refs'[o] = {}
BY DEF Sweep

LEMMA SweepShrinks ==
    ASSUME alloc \subseteq Objects,
           NEW part \in SUBSET Objects,
           NEW marks \in [Objects -> Colours],
           NEW fields \in [Objects -> SUBSET Objects],
           Sweep(part, marks, fields)
    PROVE  \A o \in Objects : refs'[o] \subseteq fields[o]
BY DEF Sweep

LEMMA SweepLive ==
    ASSUME alloc \subseteq Objects,
           NEW part \in SUBSET Objects,
           NEW marks \in [Objects -> Colours],
           NEW fields \in [Objects -> SUBSET Objects],
           Sweep(part, marks, fields)
    PROVE  \A o : o \in Live' <=> o \in alloc /\ marks[o] # "other"
<1>1. \A o \in alloc' : mark'[o] = IF o \in part THEN "white" ELSE marks[o]
  BY SweepMarks, SweepTypes
<1>. QED
  BY <1>1, SweepFrees DEF Live
------------------------------------------------------------------------------
USE CollectorAssumption, NoneAssumption

LEMMA InitIInv == Init => IInv
<1>. SUFFICES ASSUME Init PROVE IInv
  OBVIOUS
<1>1. TypeOK
  BY DEF Init, TypeOK, Colours, GCStates
<1>2. Live = {Main, Registry}
  BY DEF Init, Live
<1>3. HeapInv
  BY <1>2 DEF Init, HeapInv, Roots
<1>4. GrayInv /\ TriColour
  BY DEF Init, GrayInv, TriColour, keepinvariant
<1>5. SweepInv /\ ListInv
  BY DEF Init, SweepInv, ListInv, Unswept, keepinvariant
<1>. QED
  BY <1>1, <1>3, <1>4, <1>5 DEF IInv

LEMMA NewStep ==
    ASSUME IInv, closing # "done", NEW o \in Objects, New(o)
    PROVE  IInv'
<1>. USE DEF IInv
<1>1. /\ o \in Objects \ alloc /\ run \in Live
      /\ run # o /\ run \in Objects
  BY DEF New, TypeOK, HeapInv, Roots, Live
<1>2. /\ refs' \in [Objects -> SUBSET Objects]
      /\ \A p \in Objects : refs'[p] = IF p = run THEN refs[run] \cup {o}
                                       ELSE IF p = o THEN {} ELSE refs[p]
  BY <1>1 DEF New, TypeOK
<1>3. /\ mark' \in [Objects -> Colours]
      /\ \A p \in Objects : mark'[p] = IF p = o THEN "white" ELSE mark[p]
  BY <1>1 DEF New, TypeOK, Colours
<1>4. TypeOK'
  BY <1>1, <1>2, <1>3 DEF New, TypeOK, lists, sweep, calls
<1>5. Live' = Live \cup {o}
  BY <1>1, <1>3 DEF Live, New, TypeOK
<1>6. HeapInv'
  BY <1>1, <1>2, <1>5 DEF HeapInv, New, Roots, lists, calls, Live, TypeOK
<1>7. GrayInv'
  BY <1>1, <1>3 DEF GrayInv, New, keepinvariant, lists, sweep, calls, TypeOK
<1>8. TriColour'
  <2>. SUFFICES ASSUME keepinvariant', NEW p \in alloc'
                PROVE  /\ mark'[p] = "black" => p \notin Threads /\ refs'[p] \cap Whites' = {}
                       /\ mark'[p] = "gray" => p \in (gray \cup grayagain)'
    BY DEF TriColour
  <2>1. keepinvariant /\ alloc' = alloc \cup {o} /\ alloc \subseteq Objects
    BY DEF New, keepinvariant, sweep, TypeOK
  <2>2. CASE p = o
    BY <2>2, <1>3
  <2>3. CASE p # o
    <3>1. p \in alloc /\ mark'[p] = mark[p]
      BY <2>1, <2>3, <1>3
    <3>2. mark[p] = "black" => p \in Live /\ p # run /\ refs'[p] = refs[p]
      BY <3>1, <2>1, <2>3, <1>2 DEF TriColour, Live, TypeOK
    <3>3. mark[p] = "black" => refs[p] \subseteq alloc /\ refs[p] \cap Whites = {}
      BY <3>1, <3>2, <2>1 DEF TriColour, HeapInv, Live
    <3>4. Whites' = Whites \cup {o}
      BY <2>1, <1>1, <1>3 DEF Whites
    <3>5. gray' = gray /\ grayagain' = grayagain
      BY DEF New, lists
    <3>. QED
      BY <3>1, <3>2, <3>3, <3>4, <3>5, <2>1, <1>1 DEF TriColour
  <2>. QED
    BY <2>2, <2>3
<1>9. SweepInv'
  BY <1>1, <1>3 DEF SweepInv, New, Unswept, keepinvariant, lists, sweep, TypeOK
<1>10. ListInv'
  BY DEF ListInv, New, lists, calls
<1>. QED
  BY <1>4, <1>6, <1>7, <1>8, <1>9, <1>10

LEMMA StoreStep ==
    ASSUME IInv, closing # "done", NEW o \in Accessible, NEW v \in Accessible, Store(o, v)
    PROVE  IInv'
<1>. USE DEF IInv
<1>1. o \in Live /\ v \in Live /\ o \in Objects /\ v \in Objects
  BY AccessibleLive DEF Live, TypeOK
<1>2. /\ refs' \in [Objects -> SUBSET Objects]
      /\ \A p \in Objects : refs'[p] = IF p = o THEN refs[o] \cup {v} ELSE refs[p]
  BY <1>1 DEF Store, TypeOK
<1>. DEFINE barrier == mark[o] = "black" /\ v \in Whites /\ o \notin Threads
<1>3. CASE barrier /\ o \in Closures /\ keepinvariant
  <2>1. /\ gray' = gray \cup {v} /\ grayagain' = grayagain
        /\ mark' = [mark EXCEPT ![v] = "gray"]
    BY <1>3 DEF Store, ForwardBarrier, Mark
  <2>2. /\ mark' \in [Objects -> Colours] /\ v \in alloc /\ mark[v] = "white"
        /\ \A p \in Objects : mark'[p] = IF p = v THEN "gray" ELSE mark[p]
    BY <2>1, <1>1, <1>3 DEF TypeOK, Colours, Whites, Live
  <2>3. TypeOK'
    BY <1>1, <1>2, <2>1, <2>2 DEF Store, TypeOK, sweep, calls
  <2>4. Live' = Live
    BY <2>2 DEF Live, Store, TypeOK
  <2>5. HeapInv'
    BY <1>1, <1>2, <2>4 DEF HeapInv, Store, Roots, calls, Live, TypeOK
  <2>6. GrayInv'
    BY <1>1, <1>3, <2>1, <2>2 DEF GrayInv, Store, keepinvariant, sweep, calls, TypeOK
  <2>7. Whites' = Whites \ {v}
    BY <2>2 DEF Whites, Store, TypeOK
  <2>8. TriColour'
    BY <1>2, <1>3, <2>1, <2>2, <2>7 DEF TriColour, Store, keepinvariant, sweep, TypeOK
  <2>9. SweepInv'
    BY <1>3, <2>2 DEF SweepInv, Store, Unswept, keepinvariant, sweep, TypeOK
  <2>10. ListInv'
    BY DEF ListInv, Store, calls
  <2>. QED
    BY <2>3, <2>5, <2>6, <2>8, <2>9, <2>10
<1>4. CASE barrier /\ o \in Closures /\ ~keepinvariant
  <2>1. /\ gray' = gray /\ grayagain' = grayagain
        /\ mark' = [mark EXCEPT ![o] = "white"]
    BY <1>4 DEF Store, ForwardBarrier
  <2>2. /\ mark' \in [Objects -> Colours] /\ o \in alloc /\ mark[o] = "black"
        /\ \A p \in Objects : mark'[p] = IF p = o THEN "white" ELSE mark[p]
    BY <2>1, <1>1, <1>4 DEF TypeOK, Colours, Live
  <2>3. TypeOK'
    BY <1>1, <1>2, <2>1, <2>2 DEF Store, TypeOK, sweep, calls
  <2>4. Live' = Live
    BY <2>2 DEF Live, Store, TypeOK
  <2>5. HeapInv'
    BY <1>1, <1>2, <2>4 DEF HeapInv, Store, Roots, calls, Live, TypeOK
  <2>6. GrayInv' /\ TriColour'
    BY <1>4 DEF GrayInv, TriColour, Store, keepinvariant, sweep
  <2>7. SweepInv'
    BY <1>4, <2>2 DEF SweepInv, Store, Unswept, keepinvariant, sweep, TypeOK
  <2>8. ListInv'
    BY DEF ListInv, Store, calls
  <2>. QED
    BY <2>3, <2>5, <2>6, <2>7, <2>8
<1>5. CASE barrier /\ o \notin Closures
  <2>1. /\ gray' = gray /\ grayagain' = grayagain \cup {o}
        /\ mark' = [mark EXCEPT ![o] = "gray"]
    BY <1>5 DEF Store, BackBarrier
  <2>2. /\ mark' \in [Objects -> Colours] /\ o \in alloc /\ mark[o] = "black"
        /\ \A p \in Objects : mark'[p] = IF p = o THEN "gray" ELSE mark[p]
    BY <2>1, <1>1, <1>5 DEF TypeOK, Colours, Live
  <2>3. TypeOK'
    BY <1>1, <1>2, <2>1, <2>2 DEF Store, TypeOK, sweep, calls
  <2>4. Live' = Live
    BY <2>2 DEF Live, Store, TypeOK
  <2>5. HeapInv'
    BY <1>1, <1>2, <2>4 DEF HeapInv, Store, Roots, calls, Live, TypeOK
  <2>6. GrayInv'
    BY <1>1, <1>5, <2>1, <2>2 DEF GrayInv, Store, keepinvariant, sweep, calls, TypeOK
  <2>7. Whites' = Whites
    BY <2>2 DEF Whites, Store, TypeOK
  <2>8. TriColour'
    BY <1>2, <1>5, <2>1, <2>2, <2>7 DEF TriColour, Store, keepinvariant, sweep, TypeOK
  <2>9. SweepInv'
    BY <1>5, <2>2 DEF SweepInv, Store, Unswept, keepinvariant, sweep, TypeOK
  <2>10. ListInv'
    BY DEF ListInv, Store, calls
  <2>. QED
    BY <2>3, <2>5, <2>6, <2>8, <2>9, <2>10
<1>6. CASE ~barrier
  <2>1. gray' = gray /\ grayagain' = grayagain /\ mark' = mark
    BY <1>6 DEF Store
  <2>2. TypeOK'
    BY <1>1, <1>2, <2>1 DEF Store, TypeOK, sweep, calls
  <2>3. Live' = Live /\ Whites' = Whites
    BY <2>1 DEF Live, Whites, Store
  <2>4. HeapInv'
    BY <1>1, <1>2, <2>3 DEF HeapInv, Store, Roots, calls, Live, TypeOK
  <2>5. GrayInv'
    BY <2>1 DEF GrayInv, Store, keepinvariant, sweep, calls
  <2>6. TriColour'
    <3>. SUFFICES ASSUME keepinvariant', NEW p \in alloc'
                  PROVE  /\ mark'[p] = "black" => p \notin Threads /\ refs'[p] \cap Whites' = {}
                         /\ mark'[p] = "gray" => p \in (gray \cup grayagain)'
      BY DEF TriColour
    <3>1. keepinvariant /\ p \in alloc /\ p \in Objects
      BY DEF Store, keepinvariant, sweep, TypeOK
    <3>2. mark[p] = "black" => p \notin Threads /\ refs[p] \cap Whites = {}
      BY <3>1 DEF TriColour
    <3>3. mark[p] = "black" /\ p = o => v \notin Whites
      BY <1>6, <3>2
    <3>. QED
      BY <1>2, <2>1, <2>3, <3>1, <3>2, <3>3 DEF TriColour
  <2>7. SweepInv'
    BY <2>1 DEF SweepInv, Store, Unswept, keepinvariant, sweep
  <2>8. ListInv'
    BY DEF ListInv, Store, calls
  <2>. QED
    BY <2>2, <2>4, <2>5, <2>6, <2>7, <2>8
<1>. QED
  BY <1>3, <1>4, <1>5, <1>6

\* A step that only makes the fields of some objects smaller keeps the invariant.
LEMMA FewerRefs ==
    ASSUME IInv, closing # "done",
           refs' \in [Objects -> SUBSET Objects],
           \A p \in Objects : refs'[p] \subseteq refs[p],
           fnz' \in Objects \cup {None},
           UNCHANGED <<alloc, run, mark, lists, sweep, full, closing>>
    PROVE  IInv'
<1>. USE DEF IInv, lists, sweep
<1>1. TypeOK'
  BY DEF TypeOK
<1>2. Live' = Live /\ Whites' = Whites
  BY DEF Live, Whites
<1>3. HeapInv'
  BY <1>2 DEF HeapInv, Roots, Live, TypeOK
<1>4. GrayInv'
  BY DEF GrayInv, keepinvariant
<1>5. TriColour'
  BY <1>2 DEF TriColour, keepinvariant, TypeOK
<1>6. SweepInv'
  BY DEF SweepInv, Unswept, keepinvariant
<1>7. ListInv'
  BY DEF ListInv
<1>. QED
  BY <1>1, <1>3, <1>4, <1>5, <1>6, <1>7

LEMMA EraseStep ==
    ASSUME IInv, closing # "done", NEW o \in Accessible, NEW v, Erase(o, v)
    PROVE  IInv'
<1>1. o \in Objects
  BY ReachNodes DEF Accessible, IInv, TypeOK
<1>2. refs' \in [Objects -> SUBSET Objects] /\ \A p \in Objects : refs'[p] \subseteq refs[p]
  BY <1>1 DEF Erase, IInv, TypeOK
<1>. QED
  BY <1>2, FewerRefs DEF Erase, calls, IInv, TypeOK

LEMMA EndFinalizerStep ==
    ASSUME IInv, closing # "done", EndFinalizer
    PROVE  IInv'
<1>1. run \in Objects
  BY DEF IInv, TypeOK
<1>2. refs' \in [Objects -> SUBSET Objects] /\ \A p \in Objects : refs'[p] \subseteq refs[p]
  BY <1>1 DEF EndFinalizer, IInv, TypeOK
<1>. QED
  BY <1>2, FewerRefs DEF EndFinalizer

\* The running thread changes: the other one is live as well.
LEMMA SwitchStep ==
    ASSUME IInv, closing # "done", run' \in Threads \cap Live,
           UNCHANGED <<alloc, refs, mark, lists, sweep, calls>>
    PROVE  IInv'
<1>. USE DEF IInv, lists, sweep, calls
<1>1. TypeOK'
  BY DEF TypeOK
<1>2. Live' = Live /\ Whites' = Whites
  BY DEF Live, Whites
<1>3. HeapInv'
  BY <1>2 DEF HeapInv, Roots
<1>4. GrayInv' /\ TriColour'
  BY <1>2 DEF GrayInv, TriColour, keepinvariant
<1>5. SweepInv' /\ ListInv'
  BY DEF SweepInv, ListInv, Unswept, keepinvariant
<1>. QED
  BY <1>1, <1>3, <1>4, <1>5

\* What a sweep of `list` leaves, when all that is dead is in `list`.
LEMMA SweepToLiveFacts ==
    ASSUME alloc \subseteq Objects,
           NEW list \in SUBSET Objects,
           NEW marks \in [Objects -> Colours],
           NEW fields \in [Objects -> SUBSET Objects],
           SweepToLive(list, marks, fields)
    PROVE  \E part \in SUBSET list :
              /\ Sweep(part, marks, fields)
              /\ ahead' = list \ part
              /\ sweeping' \in BOOLEAN
              /\ ~sweeping' => ahead' = {}
BY DEF SweepToLive

LEMMA SetFinalizerStep ==
    ASSUME IInv, closing # "done", NEW o \in Accessible, SetFinalizer(o)
    PROVE  IInv'
<1>. USE DEF IInv
<1>1. o \in Live /\ o \in Objects /\ o \in alloc
  BY AccessibleLive DEF Live, TypeOK
<1>. DEFINE swept == [mark EXCEPT ![o] = "white"]
<1>2. /\ swept \in [Objects -> Colours]
      /\ \A p \in Objects : swept[p] = IF p = o THEN "white" ELSE mark[p]
  BY <1>1 DEF TypeOK, Colours
<1>3. /\ finobj' = finobj \cup {o} /\ o \notin finobj \cup tobefnz
      /\ UNCHANGED <<run, gray, grayagain, tobefnz, gcstate, calls>>
      /\ closing = "no"
  BY DEF SetFinalizer
<1>4. CASE /\ mark' = IF issweepphase THEN swept ELSE mark
           /\ ahead' \in {ahead \cup {o}, ahead \ {o}}
           /\ (gcstate = "swpfinobj" /\ sweeping) \/ ahead' = ahead \ {o}
           /\ UNCHANGED <<alloc, refs, sweeping>>
  <2>1. /\ mark' \in [Objects -> Colours]
        /\ \A p \in Objects : mark'[p] = IF issweepphase /\ p = o THEN "white" ELSE mark[p]
    BY <1>2, <1>4 DEF TypeOK
  <2>2. TypeOK'
    BY <1>1, <1>3, <1>4, <2>1 DEF TypeOK, calls
  <2>3. Live' = Live
    BY <1>1, <1>4, <2>1 DEF Live, TypeOK
  <2>4. HeapInv'
    BY <1>1, <1>3, <1>4, <2>3 DEF HeapInv, Roots, calls
  <2>5. GrayInv' /\ TriColour'
    <3>. SUFFICES ASSUME keepinvariant' PROVE GrayInv' /\ TriColour'
      BY DEF GrayInv, TriColour
    <3>1. keepinvariant /\ ~issweepphase
      BY <1>3 DEF keepinvariant, issweepphase
    <3>2. mark' = mark /\ alloc' = alloc /\ refs' = refs
      BY <1>4, <3>1
    <3>. QED
      BY <1>3, <3>1, <3>2 DEF GrayInv, TriColour, keepinvariant, Whites, calls
  <2>6. SweepInv'
    <3>1. ~sweeping' => ahead' = {}
      BY <1>4 DEF SweepInv
    <3>2. \A p \in alloc' : mark'[p] = "other" =>
              gcstate' = "swpallgc" /\ p \in ahead' \ (finobj' \cup tobefnz')
      BY <1>1, <1>3, <1>4, <2>1 DEF SweepInv, Live, TypeOK
    <3>3. \A p \in alloc' : p # o /\ p \notin Unswept' => p \notin Unswept
      BY <1>3, <1>4 DEF Unswept
    <3>4. o \notin Unswept' /\ ~keepinvariant => mark'[o] = "white"
      BY <1>1, <1>3, <2>1 DEF SweepInv, keepinvariant, issweepphase, Unswept, TypeOK, GCStates
    <3>5. ~keepinvariant' => \A p \in alloc' \ Unswept' : mark'[p] = "white"
      BY <1>1, <1>3, <1>4, <2>1, <3>3, <3>4 DEF SweepInv, keepinvariant, TypeOK
    <3>. QED
      BY <3>1, <3>2, <3>5 DEF SweepInv
  <2>7. ListInv'
    BY <1>3 DEF ListInv, calls
  <2>. QED
    BY <2>2, <2>4, <2>5, <2>6, <2>7
<1>5. CASE gcstate = "swpallgc" /\ sweeping /\ o \notin ahead /\ SweepToLive(ahead, swept, refs)
  <2>. HIDE DEF swept
  <2>1. PICK part \in SUBSET ahead :
            /\ Sweep(part, swept, refs)
            /\ ahead' = ahead \ part
            /\ sweeping' \in BOOLEAN
            /\ ~sweeping' => ahead' = {}
    BY <1>2, <1>5, SweepToLiveFacts DEF TypeOK
  <2>2. /\ alloc' \subseteq alloc
        /\ refs' \in [Objects -> SUBSET Objects]
        /\ mark' \in [Objects -> Colours]
        /\ \A p : p \in Live' <=> p \in alloc /\ swept[p] # "other"
        /\ \A p \in Live' : refs'[p] = refs[p]
        /\ \A p \in Objects : mark'[p] = IF p \in part THEN "white" ELSE swept[p]
        /\ \A p \in alloc' : mark'[p] = "other" => swept[p] = "other" /\ p \notin part
    <3>1. /\ alloc \subseteq Objects /\ refs \in [Objects -> SUBSET Objects]
          /\ part \in SUBSET Objects
      BY DEF TypeOK
    <3>2. /\ alloc' \subseteq alloc
          /\ refs' \in [Objects -> SUBSET Objects]
          /\ mark' \in [Objects -> Colours]
      BY <1>2, <2>1, <3>1, SweepTypes
    <3>3. \A p : p \in Live' <=> p \in alloc /\ swept[p] # "other"
      BY <1>2, <2>1, <3>1, SweepLive
    <3>4. \A p \in alloc' : refs'[p] = refs[p]
      BY <1>2, <2>1, <3>1, SweepRefs
    <3>5. \A p \in Objects : mark'[p] = IF p \in part THEN "white" ELSE swept[p]
      BY <1>2, <2>1, <3>1, SweepMarks
    <3>. QED
      BY <3>1, <3>2, <3>3, <3>4, <3>5 DEF Live
  <2>3. Live' = Live
    BY <1>1, <1>2, <2>2 DEF Live, TypeOK
  <2>4. TypeOK'
    BY <1>1, <1>3, <2>1, <2>2 DEF TypeOK, calls
  <2>5. HeapInv'
    BY <1>1, <1>3, <2>2, <2>3 DEF HeapInv, Roots, calls
  <2>6. GrayInv' /\ TriColour'
    BY <1>3, <1>5 DEF GrayInv, TriColour, keepinvariant
  <2>7. SweepInv'
    <3>1. \A p \in alloc' : mark'[p] = "other" =>
              gcstate' = "swpallgc" /\ p \in ahead' \ (finobj' \cup tobefnz')
      BY <1>1, <1>2, <1>3, <1>5, <2>1, <2>2 DEF SweepInv, TypeOK
    <3>2. Unswept' = ahead' \cup finobj' \cup tobefnz' /\ Unswept = ahead \cup finobj \cup tobefnz
      BY <1>3, <1>5 DEF Unswept
    <3>3. ~keepinvariant
      BY <1>5 DEF keepinvariant
    <3>4. \A p \in alloc' \ Unswept' : mark'[p] = "white"
      BY <1>1, <1>2, <1>3, <2>1, <2>2, <3>2, <3>3 DEF SweepInv, TypeOK
    <3>. QED
      BY <2>1, <3>1, <3>4 DEF SweepInv
  <2>8. ListInv'
    BY <1>3 DEF ListInv, calls
  <2>. QED
    BY <2>4, <2>5, <2>6, <2>7, <2>8
<1>. QED
  BY <1>4, <1>5 DEF SetFinalizer

LEMMA FullGcStep ==
    ASSUME IInv, FullGc
    PROVE  IInv'
<1>. USE DEF IInv
<1>1. full' \in {"no", "flush", "cycle"} /\ closing = "no"
      /\ UNCHANGED <<run, gray, grayagain, finobj, tobefnz, fnz, closing>>
  BY DEF FullGc, Collecting, lists
<1>2. CASE keepinvariant
  <2>1. /\ Sweep(allgc, mark, refs) /\ ahead' = {} /\ sweeping' = FALSE
        /\ gcstate' = "swpallgc"
    BY <1>2 DEF FullGc
  <2>2. allgc \in SUBSET Objects
    BY DEF allgc, TypeOK
  <2>3. /\ alloc' \subseteq alloc
        /\ refs' \in [Objects -> SUBSET Objects]
        /\ mark' \in [Objects -> Colours]
        /\ \A p : p \in Live' <=> p \in alloc /\ mark[p] # "other"
        /\ \A p \in Live' : refs'[p] = refs[p]
        /\ \A p \in Objects : mark'[p] = IF p \in allgc THEN "white" ELSE mark[p]
        /\ \A p \in alloc' : mark'[p] = "other" => mark[p] = "other" /\ p \notin allgc
    <3>1. /\ alloc \subseteq Objects /\ refs \in [Objects -> SUBSET Objects]
          /\ mark \in [Objects -> Colours]
      BY DEF TypeOK
    <3>2. /\ alloc' \subseteq alloc
          /\ refs' \in [Objects -> SUBSET Objects]
          /\ mark' \in [Objects -> Colours]
      BY <2>1, <2>2, <3>1, SweepTypes
    <3>3. \A p : p \in Live' <=> p \in alloc /\ mark[p] # "other"
      BY <2>1, <2>2, <3>1, SweepLive
    <3>4. \A p \in alloc' : refs'[p] = refs[p]
      BY <2>1, <2>2, <3>1, SweepRefs
    <3>5. \A p \in Objects : mark'[p] = IF p \in allgc THEN "white" ELSE mark[p]
      BY <2>1, <2>2, <3>1, SweepMarks
    <3>. QED
      BY <3>1, <3>2, <3>3, <3>4, <3>5 DEF Live
  <2>4. Live' = Live
    BY <2>3 DEF Live
  <2>5. TypeOK'
    BY <1>1, <2>1, <2>3 DEF TypeOK, GCStates
  <2>6. HeapInv'
    BY <1>1, <2>3, <2>4 DEF HeapInv, Roots
  <2>7. GrayInv' /\ TriColour'
    BY <2>1 DEF GrayInv, TriColour, keepinvariant
  <2>8. SweepInv'
    <3>1. \A p \in alloc' : mark'[p] # "other"
      BY <1>2, <2>3 DEF SweepInv, keepinvariant
    <3>2. Unswept' = finobj \cup tobefnz
      BY <1>1, <2>1 DEF Unswept
    <3>3. \A p \in alloc' \ Unswept' : mark'[p] = "white"
      BY <2>3, <3>2 DEF allgc, TypeOK
    <3>. QED
      BY <2>1, <3>1, <3>3 DEF SweepInv
  <2>9. ListInv'
    BY <1>1 DEF ListInv
  <2>. QED
    BY <2>5, <2>6, <2>7, <2>8, <2>9
<1>3. CASE ~keepinvariant
  <2>1. UNCHANGED <<alloc, refs, mark, gcstate, sweeping, ahead>>
    BY <1>3 DEF FullGc, sweep
  <2>2. TypeOK'
    BY <1>1, <2>1 DEF TypeOK
  <2>3. HeapInv' /\ GrayInv' /\ TriColour'
    BY <1>1, <2>1 DEF HeapInv, GrayInv, TriColour, Live, Roots, Whites, keepinvariant
  <2>4. SweepInv' /\ ListInv'
    BY <1>1, <2>1 DEF SweepInv, ListInv, Unswept, keepinvariant
  <2>. QED
    BY <2>2, <2>3, <2>4
<1>. QED
  BY <1>2, <1>3

LEMMA StartCloseStep ==
    ASSUME IInv, StartClose
    PROVE  IInv'
<1>. USE DEF IInv
<1>1. /\ closing = "no" /\ closing' = "yes" /\ run' = Main
      /\ tobefnz' = tobefnz \cup finobj /\ finobj' = {}
      /\ UNCHANGED <<alloc, mark, gray, grayagain, gcstate, sweeping, ahead, fnz, full>>
  BY DEF StartClose, Collecting, sweep
<1>2. /\ refs' \in [Objects -> SUBSET Objects]
      /\ \A p \in Objects : refs'[p] \subseteq refs[p]
  BY DEF StartClose, TypeOK
<1>3. TypeOK'
  BY <1>1, <1>2 DEF TypeOK
<1>4. Live' = Live /\ Whites' = Whites
  BY <1>1 DEF Live, Whites
<1>5. HeapInv'
  BY <1>1, <1>2, <1>4 DEF HeapInv, Roots, Live, TypeOK
<1>6. GrayInv' /\ TriColour'
  BY <1>1, <1>2, <1>4 DEF GrayInv, TriColour, keepinvariant, TypeOK
<1>7. SweepInv'
  BY <1>1 DEF SweepInv, Unswept, keepinvariant
<1>8. ListInv'
  BY <1>1 DEF ListInv
<1>. QED
  BY <1>3, <1>5, <1>6, <1>7, <1>8

LEMMA RestartStep ==
    ASSUME IInv, Restart
    PROVE  IInv'
<1>. USE DEF IInv
<1>1. /\ gcstate = "pause" /\ closing = "no"
      /\ gray' = {Main, Registry} \cup tobefnz /\ grayagain' = {}
      /\ gcstate' \in {"propagate", "enteratomic"}
      /\ full' \in {"no", "flush", "cycle"}
      /\ UNCHANGED <<alloc, refs, run, finobj, tobefnz, sweeping, ahead, fnz, closing>>
  BY DEF Restart, Collecting, heap, TypeOK
<1>2. /\ mark' \in [Objects -> Colours]
      /\ \A o \in Objects : mark'[o] = IF o \in gray' THEN "gray" ELSE mark[o]
  BY DEF Restart, TypeOK, Colours
<1>3. alloc \subseteq Objects /\ Live = alloc
  BY <1>1 DEF Live, SweepInv, TypeOK
<1>4. gray' \subseteq alloc
  BY <1>1, <1>3 DEF HeapInv, Roots
<1>5. TypeOK'
  BY <1>1, <1>2, <1>3, <1>4 DEF TypeOK, GCStates
<1>6. Live' = Live
  BY <1>1, <1>2, <1>3 DEF Live
<1>7. HeapInv'
  BY <1>1, <1>6 DEF HeapInv, Roots
<1>8. \A o \in alloc \ gray' : mark'[o] = "white"
  BY <1>1, <1>2, <1>3 DEF SweepInv, Unswept, keepinvariant
<1>9. GrayInv'
  BY <1>1, <1>2, <1>3, <1>4 DEF GrayInv
<1>10. TriColour'
  BY <1>1, <1>2, <1>3, <1>8 DEF TriColour
<1>11. SweepInv'
  BY <1>1, <1>2, <1>3, <1>8 DEF SweepInv, keepinvariant
<1>12. ListInv'
  BY <1>1 DEF ListInv
<1>. QED
  BY <1>5, <1>7, <1>9, <1>10, <1>11, <1>12

LEMMA PropagateMarkStep ==
    ASSUME IInv, NEW o \in Objects, PropagateMark(o)
    PROVE  IInv'
<1>. USE DEF IInv
<1>. DEFINE found == Strong[o] \cap Whites
            again == o \in Threads \cup Weak
<1>1. /\ closing = "no" /\ gcstate = "propagate" /\ o \in gray
      /\ gray' = (gray \ {o}) \cup found
      /\ grayagain' = IF again THEN grayagain \cup {o} ELSE grayagain
      /\ UNCHANGED <<alloc, refs, run, finobj, tobefnz, gcstate, sweeping, ahead,
                     fnz, full, closing>>
  BY DEF PropagateMark, Collecting, heap, sweep, calls
<1>2. keepinvariant /\ keepinvariant' /\ issweepphase = FALSE
  BY <1>1 DEF keepinvariant, issweepphase
<1>3. /\ mark' \in [Objects -> Colours]
      /\ \A p \in Objects : mark'[p] = IF p \in found THEN "gray"
                                       ELSE IF p = o /\ ~again THEN "black" ELSE mark[p]
  BY DEF PropagateMark, TypeOK, Colours
<1>4. /\ alloc \subseteq Objects /\ Live = alloc /\ o \in alloc
      /\ mark[o] = "gray" /\ o \notin grayagain
  BY <1>1, <1>2 DEF Live, SweepInv, TypeOK, GrayInv
<1>5. found \subseteq Whites /\ Whites \subseteq alloc
  BY DEF Whites
<1>6. \A p \in found : mark[p] \notin {"gray", "black"}
  BY <1>5 DEF Whites
<1>. HIDE DEF found, again
<1>7. o \notin found /\ found \cap (gray \cup grayagain) = {}
  BY <1>1, <1>2, <1>4, <1>6 DEF GrayInv
<1>8. TypeOK'
  BY <1>1, <1>3, <1>4, <1>5 DEF TypeOK
<1>9. Live' = Live
  BY <1>1, <1>3, <1>4 DEF Live
<1>10. HeapInv'
  BY <1>1, <1>9 DEF HeapInv, Roots
<1>11. GrayInv'
  <2>1. mark'[Main] \in {"gray", "black"}
    BY <1>1, <1>2, <1>3 DEF GrayInv, TypeOK
  <2>2. gray' \cup grayagain' \subseteq alloc'
    BY <1>1, <1>2, <1>4, <1>5 DEF GrayInv
  <2>3. \A p \in gray' : mark'[p] = "gray"
    BY <1>1, <1>2, <1>3, <1>4, <1>5 DEF GrayInv
  <2>4. \A p \in grayagain' : mark'[p] = "gray"
    BY <1>1, <1>2, <1>3, <1>4 DEF GrayInv
  <2>5. gray' \cap grayagain' = {}
    BY <1>1, <1>2, <1>7 DEF GrayInv
  <2>. QED
    BY <2>1, <2>2, <2>3, <2>4, <2>5 DEF GrayInv
<1>12. Whites' = Whites \ found
  BY <1>1, <1>3, <1>4, <1>5 DEF Whites
<1>13. TriColour'
  <2>. SUFFICES ASSUME NEW p \in alloc
                PROVE  /\ mark'[p] = "black" => p \notin Threads /\ refs[p] \cap Whites' = {}
                       /\ mark'[p] = "gray" => p \in gray' \cup grayagain'
    BY <1>1 DEF TriColour
  <2>1. /\ mark[p] = "black" => p \notin Threads /\ refs[p] \cap Whites = {}
        /\ mark[p] = "gray" => p \in gray \cup grayagain
    BY <1>2 DEF TriColour
  <2>2. ~again => o \notin Threads /\ refs[o] \cap Whites = found
    BY <1>4 DEF Strong, again, found
  <2>3. mark'[p] = "black" => p \notin Threads /\ refs[p] \cap Whites' = {}
    BY <1>3, <1>4, <1>12, <2>1, <2>2
  <2>4. mark'[p] = "gray" => p \in gray' \cup grayagain'
    BY <1>1, <1>3, <1>4, <2>1
  <2>. QED
    BY <2>3, <2>4
<1>14. SweepInv'
  BY <1>1, <1>2, <1>3, <1>4 DEF SweepInv
<1>15. ListInv'
  BY <1>1 DEF ListInv
<1>. QED
  BY <1>8, <1>10, <1>11, <1>13, <1>14, <1>15

LEMMA EnterAtomicStep ==
    ASSUME IInv, EnterAtomic
    PROVE  IInv'
<1>. USE DEF IInv
<1>1. /\ gcstate = "propagate" /\ gcstate' = "enteratomic" /\ closing = "no"
      /\ UNCHANGED <<alloc, refs, run, mark, gray, grayagain, finobj, tobefnz, sweeping,
                     ahead, fnz, full, closing>>
  BY DEF EnterAtomic, Collecting, heap, lists, calls
<1>2. keepinvariant /\ keepinvariant' /\ Live' = Live /\ Whites' = Whites
  BY <1>1 DEF keepinvariant, Live, Whites
<1>3. TypeOK'
  BY <1>1 DEF TypeOK, GCStates
<1>4. HeapInv' /\ GrayInv' /\ TriColour'
  BY <1>1, <1>2 DEF HeapInv, GrayInv, TriColour, Roots
<1>5. SweepInv' /\ ListInv'
  BY <1>1, <1>2 DEF SweepInv, ListInv
<1>. QED
  BY <1>3, <1>4, <1>5

LEMMA NextListStep ==
    ASSUME IInv, NextList
    PROVE  IInv'
<1>. USE DEF IInv
<1>1. /\ issweepphase /\ ~sweeping /\ closing = "no"
      /\ UNCHANGED <<alloc, refs, run, mark, gray, grayagain, finobj, tobefnz, fnz, full, closing>>
  BY DEF NextList, Collecting, heap, lists, calls
<1>2. /\ gcstate' \in GCStates /\ ahead' \subseteq Objects /\ sweeping' \in BOOLEAN
      /\ ~keepinvariant /\ ~keepinvariant'
      /\ gcstate' # "swpallgc"
  BY <1>1 DEF NextList, GCStates, keepinvariant, issweepphase, TypeOK
<1>3. ~sweeping' => ahead' = {}
  BY <1>1 DEF NextList, issweepphase
<1>4. TypeOK'
  BY <1>1, <1>2 DEF TypeOK
<1>5. HeapInv' /\ GrayInv' /\ TriColour'
  BY <1>1, <1>2 DEF HeapInv, GrayInv, TriColour, Live, Roots
<1>6. ahead = {} /\ Unswept = Unswept'
  BY <1>1 DEF SweepInv, Unswept, NextList, issweepphase
<1>7. SweepInv'
  BY <1>1, <1>2, <1>3, <1>6 DEF SweepInv
<1>8. ListInv'
  BY <1>1 DEF ListInv
<1>. QED
  BY <1>4, <1>5, <1>7, <1>8

LEMMA EndCycleStep ==
    ASSUME IInv, EndCycle
    PROVE  IInv'
<1>. USE DEF IInv
<1>1. /\ gcstate = "callfin" /\ gcstate' = "pause" /\ closing = "no"
      /\ full' \in {"no", "flush", "cycle"}
      /\ UNCHANGED <<alloc, refs, run, mark, gray, grayagain, finobj, tobefnz, sweeping,
                     ahead, fnz, closing>>
  BY DEF EndCycle, Collecting, heap, lists, TypeOK
<1>2. TypeOK'
  BY <1>1 DEF TypeOK, GCStates
<1>3. HeapInv' /\ GrayInv' /\ TriColour'
  BY <1>1 DEF HeapInv, GrayInv, TriColour, Live, Roots, keepinvariant
<1>4. SweepInv' /\ ListInv'
  BY <1>1 DEF SweepInv, ListInv, Unswept, keepinvariant
<1>. QED
  BY <1>2, <1>3, <1>4

LEMMA CallFinalizerStep ==
    ASSUME IInv, NEW o \in Objects, CallFinalizer(o)
    PROVE  IInv'
<1>. USE DEF IInv
<1>1. /\ closing # "done" /\ o \in tobefnz /\ o \in Live /\ run \in Live
      /\ tobefnz' = tobefnz \ {o} /\ fnz' = o
      /\ gcstate = "callfin" \/ closing = "yes"
      /\ UNCHANGED <<alloc, run, gray, grayagain, finobj, gcstate, sweeping, ahead, full, closing>>
  BY DEF CallFinalizer, sweep, HeapInv, Roots
<1>2. /\ refs' \in [Objects -> SUBSET Objects]
      /\ \A p \in Objects : refs'[p] = IF p = run THEN refs[run] \cup {o} ELSE refs[p]
  BY <1>1 DEF CallFinalizer, TypeOK, Live
<1>3. /\ mark' \in [Objects -> Colours]
      /\ \A p \in Objects : mark'[p] = IF issweepphase /\ p = o THEN "white" ELSE mark[p]
  BY <1>1 DEF CallFinalizer, TypeOK, Colours
<1>4. TypeOK'
  BY <1>1, <1>2, <1>3 DEF TypeOK
<1>5. Live' = Live
  BY <1>1, <1>3 DEF Live, TypeOK
<1>6. HeapInv'
  <2>1. (Roots \cup finobj \cup tobefnz)' \subseteq Live'
    BY <1>1, <1>5 DEF HeapInv, Roots
  <2>2. \A p \in Live' : refs'[p] \subseteq Live'
    BY <1>1, <1>2, <1>5 DEF HeapInv, Live, TypeOK
  <2>. QED
    BY <2>1, <2>2 DEF HeapInv
<1>7. keepinvariant' => keepinvariant /\ mark' = mark /\ Whites' = Whites
  <2>1. keepinvariant' => keepinvariant /\ ~issweepphase
    BY <1>1 DEF keepinvariant, issweepphase
  <2>2. ~issweepphase => mark' = mark
    BY DEF CallFinalizer
  <2>. QED
    BY <1>1, <2>1, <2>2 DEF Whites
<1>8. GrayInv'
  BY <1>1, <1>7 DEF GrayInv
<1>9. TriColour'
  <2>. SUFFICES ASSUME keepinvariant', NEW p \in alloc
                PROVE  /\ mark[p] = "black" => p \notin Threads /\ refs'[p] \cap Whites = {}
                       /\ mark[p] = "gray" => p \in gray \cup grayagain
    BY <1>1, <1>7 DEF TriColour
  <2>1. /\ mark[p] = "black" => p \notin Threads /\ refs[p] \cap Whites = {}
        /\ mark[p] = "gray" => p \in gray \cup grayagain
    BY <1>7 DEF TriColour
  <2>. QED
    BY <1>2, <2>1 DEF TypeOK
<1>10. SweepInv'
  <2>1. \A p \in alloc' : mark'[p] = "other" =>
            gcstate' = "swpallgc" /\ p \in ahead' \ (finobj' \cup tobefnz')
    BY <1>1, <1>3 DEF SweepInv, TypeOK
  <2>2. \A p \in Objects : p \notin Unswept' /\ p # o => p \notin Unswept
    BY <1>1 DEF Unswept
  <2>3. ~keepinvariant /\ o \notin Unswept => mark[o] = "white"
    BY <1>1 DEF SweepInv, Live
  <2>4. Unswept # {} => issweepphase
    BY DEF Unswept, issweepphase
  <2>5. ~keepinvariant' => \A p \in alloc' \ Unswept' : mark'[p] = "white"
    BY <1>1, <1>3, <2>2, <2>3, <2>4 DEF SweepInv, keepinvariant, TypeOK
  <2>. QED
    BY <1>1, <2>1, <2>5 DEF SweepInv
<1>11. ListInv'
  BY <1>1 DEF ListInv
<1>. QED
  BY <1>4, <1>6, <1>8, <1>9, <1>10, <1>11

LEMMA EndCloseStep ==
    ASSUME IInv, EndClose
    PROVE  IInv'
<1>. USE DEF IInv
<1>1. /\ closing = "yes" /\ closing' = "done" /\ alloc' = {} /\ tobefnz = {} /\ fnz = None
      /\ refs' = [o \in Objects |-> {}]
      /\ UNCHANGED <<run, mark, gray, grayagain, finobj, tobefnz, gcstate, sweeping, ahead, fnz, full>>
  BY DEF EndClose, lists, sweep
<1>2. TypeOK'
  BY <1>1 DEF TypeOK
<1>3. HeapInv' /\ GrayInv' /\ TriColour'
  BY <1>1 DEF HeapInv, GrayInv, TriColour
<1>4. SweepInv' /\ ListInv'
  BY <1>1 DEF SweepInv, ListInv
<1>. QED
  BY <1>2, <1>3, <1>4

\* What is ahead of a sweep is exactly the rest of its list.
LEMMA SweepListStep ==
    ASSUME IInv, SweepList
    PROVE  IInv'
<1>. USE DEF IInv
<1>1. /\ issweepphase /\ sweeping /\ closing = "no" /\ ~keepinvariant /\ ~keepinvariant'
      /\ UNCHANGED <<run, gray, grayagain, finobj, tobefnz, gcstate, fnz, full, closing>>
  BY DEF SweepList, Collecting, lists, calls, issweepphase, keepinvariant
<1>2. PICK part \in SUBSET ahead :
         /\ Sweep(part, mark, refs)
         /\ ahead' = ahead \ part
         /\ sweeping' \in BOOLEAN /\ (~sweeping' => ahead' = {})
  BY DEF SweepList
<1>3. /\ alloc \subseteq Objects /\ refs \in [Objects -> SUBSET Objects]
      /\ mark \in [Objects -> Colours] /\ part \in SUBSET Objects
  BY DEF TypeOK
<1>4. /\ alloc' \subseteq alloc
      /\ refs' \in [Objects -> SUBSET Objects]
      /\ mark' \in [Objects -> Colours]
  BY <1>2, <1>3, SweepTypes
<1>5. \A p : p \in Live' <=> p \in alloc /\ mark[p] # "other"
  BY <1>2, <1>3, SweepLive
<1>6. \A p \in alloc' : refs'[p] = refs[p]
  BY <1>2, <1>3, SweepRefs
<1>7. \A p \in Objects : mark'[p] = IF p \in part THEN "white" ELSE mark[p]
  BY <1>2, <1>3, SweepMarks
<1>8. Live' = Live /\ Live' \subseteq alloc'
  BY <1>5 DEF Live
<1>9. TypeOK'
  BY <1>1, <1>2, <1>4 DEF TypeOK
<1>10. HeapInv'
  BY <1>1, <1>6, <1>8 DEF HeapInv, Roots
<1>11. GrayInv' /\ TriColour'
  BY <1>1 DEF GrayInv, TriColour
<1>12. SweepInv'
  <2>1. \A p \in alloc' : mark'[p] = "other" =>
            gcstate' = "swpallgc" /\ p \in ahead' \ (finobj' \cup tobefnz')
    BY <1>1, <1>2, <1>3, <1>4, <1>7 DEF SweepInv
  <2>2. \A p \in Objects : p \notin Unswept' => p \in part \/ p \notin Unswept
    BY <1>1, <1>2 DEF Unswept
  <2>3. \A p \in alloc' \ Unswept' : mark'[p] = "white"
    BY <1>1, <1>3, <1>4, <1>7, <2>2 DEF SweepInv
  <2>. QED
    BY <1>2, <2>1, <2>3 DEF SweepInv
<1>13. ListInv'
  BY <1>1 DEF ListInv
<1>. QED
  BY <1>9, <1>10, <1>11, <1>12, <1>13

------------------------------------------------------------------------------
(* The atomic step.                                                         *)

\* What is marked from live objects is live, and closed where it is visited.
LEMMA MarkedFromFacts ==
    ASSUME TypeOK, \A o \in alloc : refs[o] \subseteq alloc,
           NEW start, start \subseteq alloc, NEW blank
    PROVE  /\ start \subseteq MarkedFrom(start, blank)
           /\ MarkedFrom(start, blank) \subseteq alloc
           /\ \A o \in MarkedFrom(start, blank) :
                 o \in start \cup blank => Strong[o] \subseteq MarkedFrom(start, blank)
<1>. DEFINE e == [o \in Objects |-> IF o \in start \cup blank THEN Strong[o] ELSE {}]
            m == Reach(start, e)
<1>1. MarkedFrom(start, blank) = m
  BY DEF MarkedFrom
<1>2. DOMAIN e = Objects /\ alloc \subseteq Objects
  BY DEF TypeOK
<1>3. \A o \in Objects : o \in start \cup blank => e[o] = Strong[o]
  OBVIOUS
<1>4. \A o \in Objects : e[o] \subseteq refs[o]
  BY DEF Strong
<1>. HIDE DEF e
<1>5. start \subseteq m
  BY <1>2, ReachContains
<1>6. \A o \in alloc : e[o] \subseteq alloc
  BY <1>2, <1>4
<1>7. m \subseteq alloc
  BY <1>2, <1>6, ReachLeast
<1>8. ASSUME NEW o \in m, o \in start \cup blank
      PROVE  Strong[o] \subseteq m
  <2>1. o \in Objects /\ e[o] \subseteq DOMAIN e
    BY <1>2, <1>6, <1>7
  <2>2. e[o] \subseteq m
    BY <2>1, ReachClosed
  <2>. QED
    BY <1>3, <1>8, <2>1, <2>2
<1>. QED
  BY <1>1, <1>5, <1>7, <1>8

\* What the atomic step finds marked: the roots, all they hold, nothing dead.
LEMMA MarkedFacts ==
    ASSUME IInv, keepinvariant, closing # "done"
    PROVE  /\ Live = alloc
           /\ \A o \in alloc : refs[o] \subseteq alloc
           /\ Marked \subseteq alloc
           /\ alloc \ Whites \subseteq Marked
           /\ Roots \subseteq Marked
           /\ \A o \in Marked : Strong[o] \subseteq Marked
<1>. USE DEF IInv
<1>. DEFINE start == gray \cup grayagain \cup ({run, Registry} \cap Whites)
            m == MarkedFrom(start, Whites)
<1>1. Live = alloc
  BY DEF Live, SweepInv, keepinvariant
<1>2. \A o \in alloc : refs[o] \subseteq alloc
  BY <1>1 DEF HeapInv
<1>3. start \subseteq alloc
  BY DEF GrayInv, Whites
<1>4. Marked = (alloc \ Whites) \cup m
  BY DEF Marked
<1>. HIDE DEF start
<1>5. /\ start \subseteq m /\ m \subseteq alloc
      /\ \A o \in m : o \in start \cup Whites => Strong[o] \subseteq m
  BY <1>2, <1>3, MarkedFromFacts
<1>. HIDE DEF m
<1>6. Roots \subseteq Marked
  <2>1. {Main, Registry, run} \subseteq alloc
    BY <1>1 DEF HeapInv, Roots
  <2>2. Main \notin Whites
    BY DEF GrayInv, Whites
  <2>3. {run, Registry} \cap Whites \subseteq m
    BY <1>5 DEF start
  <2>. QED
    BY <1>4, <2>1, <2>2, <2>3 DEF Roots
<1>7. ASSUME NEW o \in Marked
      PROVE  Strong[o] \subseteq Marked
  <2>1. o \in alloc /\ o \in Objects /\ Strong[o] \subseteq refs[o]
    BY <1>4, <1>5 DEF TypeOK, Strong
  <2>2. CASE o \in Whites
    BY <1>4, <1>5, <1>7, <2>2
  <2>3. CASE o \notin Whites
    <3>1. mark[o] \in {"gray", "black"}
      BY <2>1, <2>3 DEF Whites, TypeOK, Colours
    <3>2. mark[o] = "gray" => o \in start
      BY <2>1 DEF TriColour, start
    <3>3. mark[o] = "black" => refs[o] \subseteq alloc \ Whites
      BY <1>2, <2>1 DEF TriColour
    <3>. QED
      BY <1>4, <1>5, <2>1, <3>1, <3>2, <3>3
  <2>. QED
    BY <2>2, <2>3
<1>. QED
  BY <1>1, <1>2, <1>4, <1>5, <1>6, <1>7

\* What it leaves marked: that, the objects with finalizers, all they hold.
LEMMA ResurrectedFacts ==
    ASSUME IInv, keepinvariant, closing # "done"
    PROVE  /\ Resurrected \subseteq alloc
           /\ Marked \subseteq Resurrected
           /\ Roots \cup finobj \cup tobefnz \subseteq Resurrected
           /\ Separated \subseteq Resurrected /\ finobj \subseteq Marked \cup Separated
           /\ \A o \in Resurrected : Strong[o] \subseteq Resurrected
<1>. USE DEF IInv
<1>. DEFINE start == Separated \ Marked
            blank == Whites \ Marked
            m == MarkedFrom(start, blank)
<1>1. /\ Live = alloc /\ Marked \subseteq alloc /\ alloc \ Whites \subseteq Marked
      /\ Roots \subseteq Marked
      /\ \A o \in alloc : refs[o] \subseteq alloc
      /\ \A o \in Marked : Strong[o] \subseteq Marked
  BY MarkedFacts
<1>2. Separated \subseteq alloc
  BY <1>1 DEF Separated, HeapInv
<1>3. Resurrected = Marked \cup m
  BY DEF Resurrected
<1>4. start \subseteq alloc
  BY <1>2
<1>5. Separated \subseteq Marked \cup start /\ alloc \subseteq Marked \cup blank
  BY <1>1
<1>. HIDE DEF start, blank
<1>6. /\ start \subseteq m /\ m \subseteq alloc
      /\ \A o \in m : o \in start \cup blank => Strong[o] \subseteq m
  BY <1>1, <1>4, MarkedFromFacts
<1>. HIDE DEF m
<1>7. Separated \subseteq Resurrected /\ Marked \subseteq Resurrected /\ Resurrected \subseteq alloc
  BY <1>1, <1>3, <1>5, <1>6
<1>8. finobj \subseteq Marked \cup Separated /\ tobefnz \subseteq Separated
  BY DEF Separated
<1>9. \A o \in Resurrected : Strong[o] \subseteq Resurrected
  BY <1>1, <1>3, <1>5, <1>6
<1>. QED
  BY <1>1, <1>7, <1>8, <1>9

\* The fields that are left, and the colours.
LEMMA ClearedFacts ==
    ASSUME IInv, keepinvariant, closing # "done"
    PROVE  /\ Cleared \in [Objects -> SUBSET Objects]
           /\ Flipped \in [Objects -> Colours]
           /\ \A o \in alloc : Flipped[o] # "other" <=> o \in Resurrected
           /\ \A o \in Objects : Cleared[o] \subseteq refs[o]
           /\ \A o \in Resurrected : Cleared[o] \subseteq Resurrected
           /\ \A o \in Objects \ Weak : Cleared[o] = refs[o]
           /\ \A o \in Weak : (refs[o] \ Cleared[o]) \cap Marked = {}
<1>1. /\ Resurrected \subseteq alloc /\ Marked \subseteq Resurrected
      /\ \A o \in Resurrected : Strong[o] \subseteq Resurrected
      /\ alloc \subseteq Objects /\ refs \in [Objects -> SUBSET Objects]
  BY ResurrectedFacts DEF IInv, TypeOK
<1>2. \A o \in Objects : Cleared[o] =
         IF o \in Weak \cap Marked THEN refs[o] \cap Marked
         ELSE IF o \in Weak \cap Resurrected THEN refs[o] \cap Resurrected
         ELSE refs[o]
  BY DEF Cleared
<1>3. /\ Flipped \in [Objects -> Colours]
      /\ \A o \in alloc : Flipped[o] # "other" <=> o \in Resurrected
  BY <1>1 DEF Flipped, Colours
<1>4. Cleared \in [Objects -> SUBSET Objects]
  BY <1>1 DEF Cleared
<1>5. ASSUME NEW o \in Resurrected
      PROVE  Cleared[o] \subseteq Resurrected
  <2>1. o \in Objects
    BY <1>1
  <2>2. CASE o \in Weak
    <3>1. Cleared[o] = refs[o] \cap Marked \/ Cleared[o] = refs[o] \cap Resurrected
      BY <1>2, <2>1, <2>2
    <3>. QED
      BY <1>1, <3>1
  <2>3. CASE o \notin Weak
    <3>1. Strong[o] = refs[o]
      BY <2>1, <2>3 DEF Strong
    <3>. QED
      BY <1>1, <1>2, <2>1, <2>3, <3>1
  <2>. QED
    BY <2>2, <2>3
<1>6. /\ \A o \in Objects : Cleared[o] \subseteq refs[o]
      /\ \A o \in Objects \ Weak : Cleared[o] = refs[o]
      /\ \A o \in Weak : (refs[o] \ Cleared[o]) \cap Marked = {}
  BY <1>1, <1>2
<1>. QED
  BY <1>3, <1>4, <1>5, <1>6

\* What the step does to the heap.
LEMMA AtomicFacts ==
    ASSUME IInv, Atomic
    PROVE  /\ keepinvariant /\ closing = "no"
           /\ tobefnz' = Separated /\ finobj' = finobj \ Separated
           /\ gcstate' = "swpallgc" /\ gray' = {} /\ grayagain' = {}
           /\ UNCHANGED <<run, fnz, full, closing>>
           /\ sweeping' \in BOOLEAN /\ (~sweeping' => ahead' = {})
           /\ ahead' \subseteq allgc
           /\ alloc' \subseteq alloc
           /\ refs' \in [Objects -> SUBSET Objects]
           /\ mark' \in [Objects -> Colours]
           /\ \A o \in alloc \ alloc' : o \notin Resurrected /\ refs'[o] = {}
           /\ \A o \in alloc' : refs'[o] = Cleared[o]
           /\ \A o \in Objects : refs'[o] \subseteq Cleared[o]
           /\ \A o : o \in Live' <=> o \in Resurrected
           /\ \A o \in alloc' : mark'[o] = "other" => o \in ahead' \/ o \notin allgc
           /\ \A o \in allgc \ ahead' : o \in alloc' => mark'[o] = "white"
<1>1. /\ keepinvariant /\ closing = "no"
      /\ tobefnz' = Separated /\ finobj' = finobj \ Separated
      /\ gcstate' = "swpallgc" /\ gray' = {} /\ grayagain' = {}
      /\ UNCHANGED <<run, fnz, full, closing>>
  BY DEF Atomic, keepinvariant, Collecting, calls
<1>2. /\ Cleared \in [Objects -> SUBSET Objects]
      /\ Flipped \in [Objects -> Colours]
      /\ \A o \in alloc : Flipped[o] # "other" <=> o \in Resurrected
  BY <1>1, ClearedFacts
<1>3. alloc \subseteq Objects /\ allgc \in SUBSET Objects /\ Resurrected \subseteq alloc
  BY <1>1, ResurrectedFacts DEF allgc, IInv, TypeOK
<1>4. SweepToLive(allgc, Flipped, Cleared)
  BY DEF Atomic
<1>5. PICK part \in SUBSET allgc :
         /\ Sweep(part, Flipped, Cleared)
         /\ ahead' = allgc \ part
         /\ sweeping' \in BOOLEAN /\ (~sweeping' => ahead' = {})
  BY <1>2, <1>3, <1>4, SweepToLiveFacts
<1>6. part \in SUBSET Objects
  BY <1>3
<1>7. /\ alloc' \subseteq alloc
      /\ refs' \in [Objects -> SUBSET Objects]
      /\ mark' \in [Objects -> Colours]
  BY <1>2, <1>3, <1>5, <1>6, SweepTypes
<1>8. \A o : o \in Live' <=> o \in alloc /\ Flipped[o] # "other"
  BY <1>2, <1>3, <1>5, <1>6, SweepLive
<1>9. \A o \in alloc' : refs'[o] = Cleared[o]
  BY <1>2, <1>3, <1>5, <1>6, SweepRefs
<1>10. \A o \in Objects : mark'[o] = IF o \in part THEN "white" ELSE Flipped[o]
  BY <1>2, <1>3, <1>5, <1>6, SweepMarks
<1>11. \A o \in alloc \ alloc' : Flipped[o] = "other" /\ refs'[o] = {}
  BY <1>2, <1>3, <1>5, <1>6, SweepFreed
<1>12. /\ \A o \in alloc' : mark'[o] = "other" => o \in ahead' \/ o \notin allgc
       /\ \A o \in allgc \ ahead' : o \in alloc' => mark'[o] = "white"
  BY <1>3, <1>5, <1>7, <1>10
<1>13. \A o : o \in Live' <=> o \in Resurrected
  BY <1>2, <1>3, <1>8
<1>14. \A o \in alloc \ alloc' : o \notin Resurrected /\ refs'[o] = {}
  BY <1>2, <1>11
<1>15. \A o \in Objects : refs'[o] \subseteq Cleared[o]
  BY <1>2, <1>3, <1>5, <1>6, SweepShrinks
<1>. QED
  BY <1>1, <1>5, <1>7, <1>9, <1>12, <1>13, <1>14, <1>15

LEMMA AtomicStep ==
    ASSUME IInv, Atomic
    PROVE  IInv'
<1>. USE DEF IInv
<1>1. /\ keepinvariant /\ closing = "no" /\ gcstate' = "swpallgc"
      /\ tobefnz' = Separated /\ finobj' = finobj \ Separated
      /\ gray' = {} /\ grayagain' = {}
      /\ UNCHANGED <<run, fnz, full, closing>>
      /\ sweeping' \in BOOLEAN /\ (~sweeping' => ahead' = {})
      /\ ahead' \subseteq allgc
  BY AtomicFacts
<1>2. /\ alloc' \subseteq alloc
      /\ refs' \in [Objects -> SUBSET Objects]
      /\ mark' \in [Objects -> Colours]
      /\ \A o \in alloc' : refs'[o] = Cleared[o]
      /\ \A o : o \in Live' <=> o \in Resurrected
      /\ \A o \in alloc' : mark'[o] = "other" => o \in ahead' \/ o \notin allgc
      /\ \A o \in allgc \ ahead' : o \in alloc' => mark'[o] = "white"
  BY AtomicFacts
<1>3. /\ Roots \cup finobj \cup tobefnz \subseteq Resurrected
      /\ Separated \subseteq Resurrected
      /\ Resurrected \subseteq alloc
  BY <1>1, ResurrectedFacts
<1>4. \A o \in Resurrected : Cleared[o] \subseteq Resurrected
  BY <1>1, ClearedFacts
<1>5. alloc \subseteq Objects /\ allgc = alloc \ (finobj \cup tobefnz)
  BY DEF TypeOK, allgc
<1>6. finobj' \cup tobefnz' = finobj \cup tobefnz /\ finobj' \cap tobefnz' = {}
  BY <1>1 DEF Separated
<1>7. TypeOK'
  BY <1>1, <1>2, <1>3, <1>5 DEF TypeOK, GCStates
<1>8. HeapInv'
  <2>1. (Roots \cup finobj \cup tobefnz)' \subseteq Live'
    BY <1>1, <1>2, <1>3 DEF Roots
  <2>2. Live' \subseteq alloc'
    BY DEF Live
  <2>3. \A o \in Live' : refs'[o] \subseteq Live'
    BY <1>2, <1>4, <2>2
  <2>. QED
    BY <2>1, <2>3 DEF HeapInv
<1>9. GrayInv' /\ TriColour'
  BY <1>1 DEF GrayInv, TriColour, keepinvariant
<1>10. SweepInv'
  <2>1. ASSUME NEW o \in alloc', mark'[o] = "other"
        PROVE  o \in ahead' \ (finobj' \cup tobefnz')
    <3>1. o \notin Live' /\ o \in alloc
      BY <1>2, <2>1 DEF Live
    <3>2. o \in allgc
      BY <1>2, <1>3, <1>5, <3>1
    <3>. QED
      BY <1>2, <1>5, <1>6, <2>1, <3>2
  <2>2. Unswept' = ahead' \cup finobj' \cup tobefnz'
    BY <1>1 DEF Unswept
  <2>3. \A o \in alloc' \ Unswept' : mark'[o] = "white"
    BY <1>2, <1>5, <1>6, <2>2
  <2>. QED
    BY <1>1, <2>1, <2>3 DEF SweepInv
<1>11. ListInv'
  BY <1>1, <1>6 DEF ListInv
<1>. QED
  BY <1>7, <1>8, <1>9, <1>10, <1>11
------------------------------------------------------------------------------
LEMMA ProgramStep ==
    ASSUME IInv, Program
    PROVE  IInv'
<1>1. closing # "done"
  BY DEF Program, IInv, ListInv
<1>2. Accessible \subseteq Live
  BY <1>1, AccessibleLive DEF IInv
<1>3. CASE \E o \in Objects : New(o)
  BY <1>1, <1>3, NewStep
<1>4. CASE \E o, v \in Accessible : Store(o, v) \/ Erase(o, v)
  BY <1>1, <1>4, StoreStep, EraseStep
<1>5. CASE \E o \in Accessible : SetFinalizer(o)
  BY <1>1, <1>5, SetFinalizerStep
<1>6. CASE \E t \in Threads \cap Accessible : Resume(t)
  BY <1>1, <1>2, <1>6, SwitchStep DEF Resume
<1>7. CASE Yield
  <2>1. Main \in Threads \cap Live
    BY <1>1 DEF IInv, HeapInv, Roots
  <2>. QED
    BY <1>1, <1>7, <2>1, SwitchStep DEF Yield
<1>8. CASE FullGc
  BY <1>8, FullGcStep
<1>9. CASE StartClose
  BY <1>9, StartCloseStep
<1>. QED
  BY <1>3, <1>4, <1>5, <1>6, <1>7, <1>8, <1>9 DEF Program

LEMMA CollectorSteps ==
    ASSUME IInv, Steps
    PROVE  IInv'
<1>1. CASE EndFinalizer
  <2>1. closing # "done"
    BY <1>1 DEF EndFinalizer, IInv, ListInv
  <2>. QED
    BY <1>1, <2>1, EndFinalizerStep
<1>2. CASE Restart \/ EnterAtomic \/ Atomic
  BY <1>2, RestartStep, EnterAtomicStep, AtomicStep
<1>3. CASE \E o \in Objects : PropagateMark(o)
  BY <1>3, PropagateMarkStep
<1>4. CASE SweepList \/ NextList \/ EndCycle
  BY <1>4, SweepListStep, NextListStep, EndCycleStep
<1>5. CASE \E o \in Objects : CallFinalizer(o)
  BY <1>5, CallFinalizerStep
<1>6. CASE EndClose
  BY <1>6, EndCloseStep
<1>. QED
  BY <1>1, <1>2, <1>3, <1>4, <1>5, <1>6 DEF Steps

LEMMA NextIInv == IInv /\ [Next]_vars => IInv'
<1>1. ASSUME IInv, UNCHANGED vars PROVE IInv'
  <2>. USE <1>1 DEF vars, heap, lists, sweep, calls
  <2>1. TypeOK' /\ Live' = Live /\ Whites' = Whites
    BY DEF IInv, TypeOK, Live, Whites
  <2>2. HeapInv' /\ GrayInv' /\ TriColour'
    BY <2>1 DEF IInv, HeapInv, GrayInv, TriColour, Roots, keepinvariant
  <2>3. SweepInv' /\ ListInv'
    BY DEF IInv, SweepInv, ListInv, Unswept, keepinvariant
  <2>. QED
    BY <2>1, <2>2, <2>3 DEF IInv
<1>. QED
  BY <1>1, ProgramStep, CollectorSteps DEF Next

\* The variables keep their types, and the collector's books are right.
THEOREM TypeCorrect == Spec => []TypeOK
<1>1. IInv => TypeOK
  BY DEF IInv
<1>. QED
  BY <1>1, InitIInv, NextIInv, PTL DEF Spec

\* luaC_barrier_, luaC_barrierback_ and propagatemark keep the invariant of
\* lgc.h: while marking, a black object points to no white one, and a gray one
\* is in a list (lgc.c 208-244, 660-673).
THEOREM BarriersKeepColours == Spec => []TriColour
<1>1. IInv => TriColour
  BY DEF IInv
<1>. QED
  BY <1>1, InitIInv, NextIInv, PTL DEF Spec

\* Nothing that code can get at, not even a finalizer still to come, has been
\* freed (sweeplist, lgc.c 824-845), until lua_close frees all.
THEOREM NothingDangles == Spec => []NoDangling
<1>1. IInv => NoDangling
  BY AccessibleLive DEF IInv, NoDangling, Live
<1>. QED
  BY <1>1, InitIInv, NextIInv, PTL DEF Spec

------------------------------------------------------------------------------
(* The refinement. fin is what Collector makes of the finalizers of LuaHeap. *)
fin == [o \in Objects |-> IF o \in finobj THEN "set"
                          ELSE IF o \in tobefnz THEN "due" ELSE "none"]

LEMMA SameReach == \A S, e : Heap!Reach(S, e) = Reach(S, e)
  BY DEF Heap!Reach, Heap!ClosedSets, Reach, ClosedSets

LEMMA HeapViews ==
    /\ Heap!Accessible = Accessible
    /\ Heap!Held = Held
    /\ IInv => Heap!Needed = Needed
<1>1. Heap!Roots = Roots /\ Heap!Strong = Strong
  BY DEF Heap!Roots, Roots, Heap!Strong, Strong
<1>2. Heap!Accessible = Accessible /\ Heap!Held = Held
  BY <1>1, SameReach DEF Heap!Accessible, Accessible, Heap!Held, Held
<1>3. ASSUME IInv PROVE Heap!Pending = finobj \cup tobefnz
  <2>1. finobj \cup tobefnz \subseteq alloc /\ alloc \subseteq Objects
    BY <1>3 DEF IInv, HeapInv, ListInv, Live, TypeOK
  <2>2. \A o \in Objects : fin[o] # "none" <=> o \in finobj \cup tobefnz
    BY DEF fin
  <2>3. Heap!Pending = {o \in alloc : fin[o] # "none"}
    BY DEF Heap!Pending, fin
  <2>. QED
    BY <2>1, <2>2, <2>3
<1>4. ASSUME IInv PROVE Heap!Needed = Needed
  <2>1. Heap!Roots \cup Heap!Pending = Roots \cup finobj \cup tobefnz
    BY <1>1, <1>3, <1>4
  <2>. QED
    BY <1>1, <2>1, SameReach DEF Heap!Needed, Needed
<1>. QED
  BY <1>2, <1>4

LEMMA FinSame == UNCHANGED <<finobj, tobefnz>> => fin' = fin
  BY DEF fin

\* What a sweep has still to visit exists.
AheadInv == closing # "done" => ahead \subseteq alloc

LEMMA AheadStep == IInv /\ AheadInv /\ [Next]_vars => AheadInv'
<1>. SUFFICES ASSUME IInv, AheadInv, [Next]_vars, closing' # "done"
              PROVE  ahead' \subseteq alloc'
  BY DEF AheadInv
<1>1. CASE UNCHANGED vars
  BY <1>1 DEF AheadInv, vars, heap, sweep, calls
<1>2. CASE Program
  <2>1. closing # "done" /\ Accessible \subseteq alloc
    BY <1>2, AccessibleLive DEF Program, IInv, ListInv, Live
  <2>2. CASE \E o \in Objects : New(o)
    BY <2>1, <2>2 DEF New, AheadInv, sweep
  <2>3. CASE \E o, v \in Accessible : Store(o, v) \/ Erase(o, v)
    BY <2>1, <2>3 DEF Store, Erase, AheadInv, sweep
  <2>4. ASSUME NEW o \in Accessible, SetFinalizer(o)
        PROVE  ahead' \subseteq alloc'
    <3>. DEFINE swept == [mark EXCEPT ![o] = "white"]
    <3>1. CASE ahead' \subseteq ahead \cup {o} /\ alloc' = alloc
      BY <2>1, <2>4, <3>1 DEF AheadInv
    <3>2. CASE SweepToLive(ahead, swept, refs)
      BY <2>1, <3>2 DEF SweepToLive, Sweep, AheadInv
    <3>. QED
      BY <2>4, <3>1, <3>2 DEF SetFinalizer
  <2>5. CASE (\E t \in Threads \cap Accessible : Resume(t)) \/ Yield
    BY <2>1, <2>5 DEF Resume, Yield, AheadInv, sweep
  <2>6. CASE FullGc
    BY <2>1, <2>6 DEF FullGc, AheadInv, sweep
  <2>7. CASE StartClose
    BY <2>1, <2>7 DEF StartClose, AheadInv, sweep
  <2>. QED
    BY <1>2, <2>2, <2>3, <2>4, <2>5, <2>6, <2>7 DEF Program
<1>3. CASE Steps
  <2>1. CASE Restart \/ EnterAtomic \/ EndCycle \/ EndFinalizer
    BY <2>1 DEF Restart, EnterAtomic, EndCycle, EndFinalizer, AheadInv, heap, sweep, calls, Collecting
  <2>2. CASE \E o \in Objects : PropagateMark(o) \/ CallFinalizer(o)
    BY <2>2 DEF PropagateMark, CallFinalizer, AheadInv, heap, sweep, Collecting
  <2>3. CASE Atomic
    BY <2>3 DEF Atomic, SweepToLive, Sweep, allgc
  <2>4. CASE SweepList
    BY <2>4 DEF SweepList, Sweep, AheadInv, Collecting
  <2>5. CASE NextList
    <3>1. ahead' \subseteq finobj \cup tobefnz /\ alloc' = alloc /\ closing = "no"
      BY <2>5 DEF NextList, issweepphase, heap, Collecting
    <3>. QED
      BY <3>1 DEF IInv, HeapInv, Live
  <2>6. CASE EndClose
    BY <2>6 DEF EndClose
  <2>. QED
    BY <1>3, <2>1, <2>2, <2>3, <2>4, <2>5, <2>6 DEF Steps
<1>. QED
  BY <1>1, <1>2, <1>3 DEF Next

LEMMA InitRefines == Init => Heap!Init
<1>. SUFFICES ASSUME Init PROVE Heap!Init
  OBVIOUS
<1>1. fin = [o \in Objects |-> "none"]
  BY DEF fin, Init
<1>. QED
  BY <1>1 DEF fin, Init, Heap!Init

\* SetFinalizer, in its two ways.
LEMMA SetFinalizerRefines ==
    ASSUME IInv, AheadInv, NEW o \in Accessible, SetFinalizer(o)
    PROVE  Heap!SetFinalizer(o)
<1>. DEFINE swept == [mark EXCEPT ![o] = "white"]
<1>1. closing = "no" /\ o \notin finobj \cup tobefnz /\ run' = run
      /\ finobj' = finobj \cup {o} /\ tobefnz' = tobefnz
  BY DEF SetFinalizer
<1>2. o \in Objects /\ o \in Live
  BY <1>1, AccessibleLive DEF IInv, TypeOK, Live
<1>3. fin[o] = "none" /\ fin' = [fin EXCEPT ![o] = "set"]
  BY <1>1, <1>2 DEF fin
<1>4. /\ alloc \subseteq Objects /\ refs \in [Objects -> SUBSET Objects]
      /\ mark \in [Objects -> Colours] /\ ahead \subseteq alloc
  BY <1>1 DEF IInv, TypeOK, AheadInv
<1>5. /\ alloc' \subseteq alloc /\ Needed \subseteq alloc'
      /\ refs' = [p \in Objects |-> IF p \in alloc \ alloc' THEN {} ELSE refs[p]]
  <2>1. CASE UNCHANGED <<alloc, refs>>
    <3>1. Needed \subseteq alloc
      BY <1>1, NeededLive DEF IInv, Live
    <3>. QED
      BY <1>4, <2>1, <3>1
  <2>2. CASE SweepToLive(ahead, swept, refs)
    <3>1. swept \in [Objects -> Colours] /\ \A p \in Objects : p # o => swept[p] = mark[p]
      BY <1>2, <1>4 DEF Colours
    <3>2. swept[o] = "white"
      BY <1>2, <1>4
    <3>. HIDE DEF swept
    <3>3. PICK part \in SUBSET ahead : Sweep(part, swept, refs)
      BY <2>2 DEF SweepToLive
    <3>4. /\ alloc' = alloc \ {p \in part : swept[p] = "other"}
          /\ refs' = [p \in Objects |-> IF p \in {q \in part : swept[q] = "other"} THEN {} ELSE refs[p]]
      BY <3>3 DEF Sweep
    <3>5. {p \in part : swept[p] = "other"} = alloc \ alloc'
      BY <1>4, <3>4
    <3>6. Live \subseteq alloc'
      BY <1>4, <3>1, <3>2, <3>4 DEF Live
    <3>. QED
      BY <1>1, <3>4, <3>5, <3>6, NeededLive DEF IInv
  <2>. QED
    BY <2>1, <2>2 DEF SetFinalizer
<1>6. Heap!LoseGarbage
  BY <1>5, HeapViews DEF Heap!LoseGarbage
<1>. QED
  BY <1>1, <1>3, <1>5, <1>6 DEF Heap!SetFinalizer, fin

\* A step that frees dead objects and leaves the rest of the heap alone.
LEMMA SweepRefines ==
    ASSUME IInv, closing # "done",
           NEW part \in SUBSET Objects, Sweep(part, mark, refs),
           UNCHANGED <<run, finobj, tobefnz>>
    PROVE  Heap!Collect
<1>1. /\ alloc \subseteq Objects /\ refs \in [Objects -> SUBSET Objects]
      /\ mark \in [Objects -> Colours]
  BY DEF IInv, TypeOK
<1>2. alloc' \subseteq alloc
  BY <1>1, SweepTypes
<1>3. \A p \in alloc' : refs'[p] = refs[p]
  BY <1>1, SweepRefs
<1>4. \A p \in Objects : refs'[p] \subseteq refs[p]
  BY <1>1, SweepShrinks
<1>5. Live \subseteq alloc'
  BY <1>1, SweepFrees DEF Live
<1>6. Heap!LoseGarbage
  BY <1>2, <1>5, HeapViews, NeededLive DEF Heap!LoseGarbage, IInv
<1>7. fin' = fin
  BY FinSame
<1>. QED
  BY <1>3, <1>4, <1>6, <1>7 DEF Heap!Collect, fin

LEMMA AtomicRefines ==
    ASSUME IInv, Atomic
    PROVE  Heap!Collect
<1>1. /\ keepinvariant /\ closing = "no" /\ run' = run
      /\ tobefnz' = Separated /\ finobj' = finobj \ Separated
      /\ alloc' \subseteq alloc
      /\ \A o \in alloc \ alloc' : o \notin Resurrected
      /\ \A o \in alloc' : refs'[o] = Cleared[o]
      /\ \A o \in Objects : refs'[o] \subseteq Cleared[o]
  BY AtomicFacts
<1>2. /\ Roots \subseteq Marked /\ Marked \subseteq alloc
      /\ \A o \in Marked : Strong[o] \subseteq Marked
  BY <1>1, MarkedFacts
<1>3. /\ Roots \cup finobj \cup tobefnz \subseteq Resurrected
      /\ Resurrected \subseteq alloc
      /\ \A o \in Resurrected : Strong[o] \subseteq Resurrected
  BY <1>1, ResurrectedFacts
<1>4. alloc \subseteq DOMAIN Strong
  BY DEF Strong, IInv, TypeOK
<1>5. Held \subseteq Marked
  <2>1. Marked \subseteq DOMAIN Strong
    BY <1>2, <1>4
  <2>. QED
    BY <1>2, <2>1, ReachLeast DEF Held
<1>6. Needed \subseteq Resurrected
  <2>1. Resurrected \subseteq DOMAIN Strong
    BY <1>3, <1>4
  <2>. QED
    BY <1>3, <2>1, ReachLeast DEF Needed
<1>7. Heap!LoseGarbage
  BY <1>1, <1>3, <1>6, HeapViews DEF Heap!LoseGarbage
<1>8. ASSUME NEW o \in Objects
      PROVE  fin'[o] = fin[o] \/ (fin[o] = "set" /\ fin'[o] = "due" /\ o \notin Held)
  <2>1. o \in Separated => o \in tobefnz \/ (o \in finobj /\ o \notin Held)
    BY <1>5 DEF Separated
  <2>2. o \in tobefnz => o \notin finobj /\ o \in Separated
    BY DEF IInv, ListInv, Separated
  <2>. QED
    BY <1>1, <2>1, <2>2 DEF fin
<1>9. ASSUME NEW o \in Objects
      PROVE  /\ refs'[o] \subseteq refs[o]
             /\ \/ refs'[o] = refs[o]
                \/ o \notin Accessible \cap alloc'
                \/ o \in Weak /\ (refs[o] \ refs'[o]) \cap Held = {}
  <2>1. /\ Cleared[o] \subseteq refs[o]
        /\ o \notin Weak => Cleared[o] = refs[o]
        /\ o \in Weak => (refs[o] \ Cleared[o]) \cap Marked = {}
    BY <1>1, ClearedFacts
  <2>. QED
    BY <1>1, <1>5, <2>1
<1>. QED
  BY <1>1, <1>7, <1>8, <1>9, HeapViews DEF Heap!Collect, fin

LEMMA ProgramRefines ==
    ASSUME IInv, AheadInv, Program
    PROVE  Heap!Next \/ UNCHANGED Heap!vars
<1>1. closing # "done"
  BY DEF Program, IInv, ListInv
<1>2. /\ Heap!Accessible = Accessible /\ Accessible \subseteq Live
      /\ Accessible \subseteq Objects /\ Main \in Accessible
  <2>1. Roots \subseteq DOMAIN refs
    BY DEF IInv, TypeOK, Roots
  <2>. QED
    BY <1>1, <2>1, HeapViews, AccessibleLive, ReachContains, ReachNodes
       DEF Accessible, IInv, TypeOK, Roots
<1>3. ASSUME NEW o \in Objects, New(o) PROVE Heap!Next
  <2>1. o \in Objects \ alloc /\ fin' = fin
    BY <1>3, FinSame DEF New, lists
  <2>2. Heap!New(o)
    BY <1>3, <2>1 DEF New, Heap!New, fin
  <2>. QED
    BY <2>2 DEF Heap!Next
<1>4. ASSUME NEW o \in Accessible, NEW v \in Accessible, Store(o, v) \/ Erase(o, v)
      PROVE  Heap!Next
  <2>1. fin' = fin
    BY <1>4, FinSame DEF Store, Erase, lists
  <2>2. Heap!Store(o, v) \/ Heap!Erase(o, v)
    BY <1>4, <2>1 DEF Store, Erase, Heap!Store, Heap!Erase, fin
  <2>. QED
    BY <1>2, <2>2 DEF Heap!Next
<1>5. ASSUME NEW o \in Accessible, SetFinalizer(o) PROVE Heap!Next
  <2>1. Heap!SetFinalizer(o)
    BY <1>5, SetFinalizerRefines
  <2>. QED
    BY <1>2, <2>1 DEF Heap!Next
<1>6. ASSUME NEW t \in Threads \cap Accessible, Resume(t) \/ (t = Main /\ Yield)
      PROVE  Heap!Next
  <2>1. fin' = fin
    BY <1>6, FinSame DEF Resume, Yield, lists
  <2>2. Heap!Switch(t)
    BY <1>6, <2>1 DEF Resume, Yield, Heap!Switch, fin
  <2>. QED
    BY <1>2, <2>2 DEF Heap!Next
<1>7. ASSUME FullGc PROVE Heap!Next \/ UNCHANGED Heap!vars
  <2>1. UNCHANGED <<run, finobj, tobefnz>> /\ fin' = fin
    BY <1>7, FinSame DEF FullGc, lists
  <2>2. CASE keepinvariant
    <3>1. allgc \in SUBSET Objects /\ Sweep(allgc, mark, refs)
      BY <1>7, <2>2 DEF FullGc, allgc, IInv, TypeOK
    <3>2. Heap!Collect
      BY <1>1, <2>1, <3>1, SweepRefines
    <3>. QED
      BY <3>2 DEF Heap!Next
  <2>3. CASE ~keepinvariant
    BY <1>7, <2>1, <2>3 DEF FullGc, Heap!vars, fin
  <2>. QED
    BY <2>2, <2>3
<1>8. ASSUME StartClose PROVE Heap!Next
  <2>1. /\ run' = Main /\ refs' = [refs EXCEPT ![Main] = {}] /\ alloc' = alloc
        /\ tobefnz' = tobefnz \cup finobj /\ finobj' = {}
    BY <1>8 DEF StartClose
  <2>2. fin' = [o \in Objects |-> IF fin[o] = "set" THEN "due" ELSE fin[o]]
    BY <2>1 DEF fin
  <2>3. Heap!StartClose
    BY <2>1, <2>2 DEF Heap!StartClose, fin
  <2>. QED
    BY <2>3 DEF Heap!Next
<1>9. CASE Yield
  <2>1. Main \in Threads \cap Accessible
    BY <1>2
  <2>. QED
    BY <1>6, <1>9, <2>1
<1>. QED
  BY <1>3, <1>4, <1>5, <1>6, <1>7, <1>8, <1>9 DEF Program

LEMMA CollectorRefines ==
    ASSUME IInv, Steps
    PROVE  Heap!Next \/ UNCHANGED Heap!vars
<1>1. CASE Restart \/ EnterAtomic \/ NextList \/ EndCycle
  <2>1. UNCHANGED <<alloc, refs, run, finobj, tobefnz>>
    BY <1>1 DEF Restart, EnterAtomic, NextList, EndCycle, heap, lists
  <2>. QED
    BY <2>1, FinSame DEF Heap!vars, fin
<1>2. CASE \E o \in Objects : PropagateMark(o)
  <2>1. UNCHANGED <<alloc, refs, run, finobj, tobefnz>>
    BY <1>2 DEF PropagateMark, heap
  <2>. QED
    BY <2>1, FinSame DEF Heap!vars, fin
<1>3. CASE Atomic
  BY <1>3, AtomicRefines DEF Heap!Next
<1>4. CASE SweepList
  <2>1. PICK part \in SUBSET ahead : Sweep(part, mark, refs)
    BY <1>4 DEF SweepList
  <2>2. /\ part \in SUBSET Objects /\ closing # "done"
        /\ UNCHANGED <<run, finobj, tobefnz>>
    BY <1>4 DEF SweepList, Collecting, lists, IInv, TypeOK
  <2>3. Heap!Collect
    BY <2>1, <2>2, SweepRefines
  <2>. QED
    BY <2>3 DEF Heap!Next
<1>5. ASSUME NEW o \in Objects, CallFinalizer(o) PROVE Heap!Next
  <2>1. /\ o \in tobefnz /\ tobefnz' = tobefnz \ {o} /\ finobj' = finobj
        /\ o \in alloc /\ o \notin finobj
        /\ refs' = [refs EXCEPT ![run] = @ \cup {o}] /\ UNCHANGED <<alloc, run>>
    BY <1>5 DEF CallFinalizer, IInv, HeapInv, ListInv, Live
  <2>2. fin[o] = "due" /\ fin' = [fin EXCEPT ![o] = "none"]
    BY <2>1 DEF fin
  <2>3. Heap!Finalize(o)
    BY <2>1, <2>2 DEF Heap!Finalize, fin
  <2>. QED
    BY <2>3 DEF Heap!Next
<1>6. ASSUME EndFinalizer PROVE Heap!Next \/ UNCHANGED Heap!vars
  <2>1. /\ fnz \in Objects /\ UNCHANGED <<alloc, run, finobj, tobefnz>>
        /\ \/ refs' = [refs EXCEPT ![run] = refs[run]]
           \/ refs' = [refs EXCEPT ![run] = refs[run] \ {fnz}]
    BY <1>6 DEF EndFinalizer, lists, IInv, TypeOK
  <2>2. fin' = fin /\ refs \in [Objects -> SUBSET Objects] /\ run \in Objects
    BY <2>1, FinSame DEF IInv, TypeOK
  <2>3. CASE refs' = refs
    BY <2>1, <2>2, <2>3 DEF Heap!vars, fin
  <2>4. CASE refs' # refs
    <3>1. fnz \in refs[run] /\ refs' = [refs EXCEPT ![run] = @ \ {fnz}]
      <4>1. [refs EXCEPT ![run] = refs[run]] = refs
        BY <2>2
      <4>2. refs' = [refs EXCEPT ![run] = refs[run] \ {fnz}]
        BY <2>1, <2>4, <4>1
      <4>3. fnz \notin refs[run] => refs[run] \ {fnz} = refs[run]
        OBVIOUS
      <4>. QED
        BY <2>4, <4>1, <4>2, <4>3
    <3>2. run \in Accessible
      BY <2>2, ReachContains DEF Accessible, Roots
    <3>3. refs[run] \subseteq Accessible
      BY <2>2, <3>2, ReachClosed DEF Accessible
    <3>4. Heap!Erase(run, fnz)
      BY <2>1, <2>2, <3>1 DEF Heap!Erase, fin
    <3>. QED
      BY <3>1, <3>2, <3>3, <3>4, HeapViews DEF Heap!Next
  <2>. QED
    BY <2>3, <2>4
<1>7. ASSUME EndClose PROVE Heap!Next
  <2>1. /\ finobj = {} /\ tobefnz = {} /\ fin' = fin /\ run' = run
        /\ alloc' = {} /\ refs' = [o \in Objects |-> {}]
    BY <1>7, FinSame DEF EndClose, lists, IInv, ListInv
  <2>2. Heap!Pending = {}
    <3>1. alloc \subseteq Objects /\ \A o \in Objects : fin[o] = "none"
      BY <2>1 DEF fin, IInv, TypeOK
    <3>. QED
      BY <3>1 DEF Heap!Pending, fin
  <2>3. Heap!EndClose
    BY <2>1, <2>2 DEF Heap!EndClose, fin
  <2>. QED
    BY <2>3 DEF Heap!Next
<1>. QED
  BY <1>1, <1>2, <1>3, <1>4, <1>5, <1>6, <1>7 DEF Steps

LEMMA StepRefines == IInv /\ AheadInv /\ [Next]_vars => [Heap!Next]_Heap!vars
<1>1. ASSUME UNCHANGED vars PROVE UNCHANGED Heap!vars
  <2>1. UNCHANGED <<alloc, refs, run, finobj, tobefnz>>
    BY <1>1 DEF vars, heap, lists
  <2>. QED
    BY <2>1, FinSame DEF Heap!vars, fin
<1>. QED
  BY <1>1, ProgramRefines, CollectorRefines DEF Next

\* The collector gives the program what LuaHeap promises: what goes is lost to
\* every code, finalizers included; a weak entry goes only when nothing holds
\* its value; a finalizer is due only for a lost object or at the close, and
\* runs once each time it was asked for.
THEOREM CollectorImplementsLuaHeap == Spec => ImplementsLuaHeap
<1>1. Init => AheadInv
  BY DEF Init, AheadInv
<1>. QED
  BY <1>1, InitIInv, NextIInv, AheadStep, InitRefines, StepRefines, PTL
     DEF Spec, ImplementsLuaHeap, Heap!Spec
==============================================================================
