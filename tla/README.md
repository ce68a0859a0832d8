# Verification of the LuaIDE runtime

TLA+ models of the concurrent runtime of the Android Lua IDE (`com.yan.luaide`, `com.luajava`):
its timer, its asynchronous tasks, the threads that run Lua scripts, the serial executor, the
references that Java and Lua keep to each other's objects, and, of the Lua interpreter below them,
the garbage collector and the tables. The modules are checked with TLC on small instances, and
their safety properties are proved with TLAPS for every value of the constants; section 4 says
what is not.

Paths are shortened: `TimerX.java` is
`src/app/src/main/java/com/yan/luaide/util/TimerX.java`, and so on. `PROJECT.json` gives for every
definition the file and the lines it models.

## 1. The system

The application is an editor and a runtime. The runtime runs Lua scripts inside Android
activities. Scripts start timers, background tasks and threads, and hand Java objects to Lua and
Lua values to Java. The interesting state is spread over many threads: the main thread with its
Looper, one thread per timer, the threads of one pool, one thread per `LuaThread`, and the
finalizer thread of the virtual machine.

| Component | State | Operations | Hard behaviour | What makes it correct |
|---|---|---|---|---|
| **Timer** (`TimerX`, `TimerTaskX`, `LuaTimer`, `LuaTimerTask`) | heap of tasks, `cancelled`, `finished`; per task `when`, `period`, `cancelled`, `scheduledTime` | schedule, cancel (timer and task), purge, setPeriod, setEnabled, finalize, the run loop | three locks and some fields under none; a loop that gives its lock up; notifications; a thread that outlives its timer | nothing is lost, fired early, fired after cancel, or scheduled twice; runs keep their distance; threads end |
| **AsyncTask** (`AsyncTaskX`, `LuaAsyncTask`) | `mStatus`, `mCancelled`, `mTaskInvoked`, the future, messages to the main Looper | execute, cancel, publishProgress, gc, the pool thread, the handler | cancel() against a future that begins or ends; two places that post the result; a pool that rejects | one callback at most, after the body and its progress; after gc no result and nothing newly published; accepted tasks finish |
| **SerialExecutor** (inner class of `AsyncTaskX`) | `mTasks`, `mActive` | execute, scheduleNext | the end of one task against the submission of the next; a pool shared with other work | one at a time, in order, none forgotten |
| **LuaThread** (also `LuaRunnable`) | `isRun`, `thandler`, the queue of its Looper | run, push, quit, gc | unsynchronised fields; a Looper that quits under the feet of a sender | messages served in order; quit ends the thread |
| **LuaObject references** (`com.luajava.LuaObject`, `luaL_ref`, `luaL_unref`) | slots and free list of the registry, the monitor of each `LuaState` | constructors, finalize | the finalizer thread against the threads that make objects; several monitors over one registry | a slot has one owner and holds its value; no slot is lost |
| **Java objects in Lua** (`LuaState`, `LuaStateFactory`, `LuaJavaAPI`, `luajava.c`) | for each `LuaState` a counter, the map from index to object, the list of indices to remove | pushJavaObject, the finalizer of a userdata, luajava.clear, LuaState.gc | a userdata holds an index, and whoever runs decides in which map it is looked up and on which list it is put; pushes and gc() outside the monitor over a plain `HashMap` | a userdata stands for the object it was made for, never for another |
| **Garbage collector** (`lgc.c`) | colours, gray lists, lists of objects with finalizers, phase of the cycle | the barriers, the steps of a cycle, finalizers, full collection, closing | the program stores between any two steps; weak tables and resurrection; objects move between lists under the sweep | nothing reachable is freed; garbage is; finalizers run once, for lost objects |
| **Tables** (`ltable.c`) | array with `alimit`, nodes with chains, `lastfree` | get, set, `#`, next, rehash | collisions that move keys, an array size that is only a hint, keys that die during a traversal | a map; `#t` is a border; next meets every key once |
| **Lua stack** (`LuaState`, `luajava.c`) | the stack of a state, its monitor | setField, call, getLuaObject, doString, close | sequences of native calls without a lock around them; states that call each other | not modelled |
| **Activity** (`LuaActivity`, `LuaService`) | registry of what has to be stopped, map of activities | regGc, onDestroy, sendMsg | registration while the registry is walked | not modelled, in the plan |
| **Ticker**, **LuaServer/LuaClient**, **ThreadManager** | polling thread; accept loop; handler threads of the editor | start, stop, setEnabled | fields without locks; stop against start | not modelled, in the plan |

How they interact: `LuaTimer`, `LuaAsyncTask` and `LuaThread` register with the activity
(`regGc`), which calls `gc()` on each in `onDestroy` on the main thread. `LuaTimer.gc()` cancels the
task of the timer and not the timer (`LuaTimer.java:12-16, 57-60`): `TaskCancel` of TimerX. The
others are `Gc` of AsyncTaskX and `QuitBegins(c, "gc")` of LuaThread; all are allowed at any
moment. Not everything registers: the constructors of `LuaThread` and `LuaRunnable` that take a
`LuaObject` function never call `regGc`. `AsyncTaskX` and `Ticker` call
back by messages to the main Looper. Timer tasks and threads have a Lua state each, made when they
are made. A `LuaObject` belongs to one `LuaState`; a coroutine gets a `LuaState` of its own over
the same registry (`LuaStateFactory.java:72-82`). The other way round, a Java object in Lua is a
userdata with an index; the collector finalizes the userdata (`CallFinalizer` of Collector, which
is `Finalize` of JavaObjects), and `LuaState.gc` empties the list of indices and starts a full
collection (`GcBegin` to `GcClear`; `FullGc`). The registry that LuaObject's references live in is a
Lua table, and the root of the collector.

**Not modelled, and why.** The repository has 460 000 lines of implementation, nearly all of them
vendored: sqlite, duktape, libuv, zip, yaml, the editors, `dx`, `cglib`, `luaj`, `rhino`. They are
somebody else's programs, with their own tests; a model of a share of them that could be measured
is out of proportion. Of the vendored code the project takes what the runtime's own correctness
rests on: the collector and the tables of Lua, `luaL_ref` and `luaL_unref`. The virtual machine,
the parser and the string library of Lua are sequential functions over data.

Of the application's own code: the editor screens, adapters, drawables and the layout conversion
run on the main thread only, over text or views. Lexers and the incremental analysis are
sequential functions. The parser's trees are too large a domain for TLC to say anything about.
Code loading, downloads, crash reports, unpacking and the memory tool are input and output. The
accessibility code hands gestures to the system; its blocking variants have no caller. The
sequences of native calls on the Lua stack (`setField`, `call_aux`, `doString`) are not atomic by
their look, and a model would restate just that.

## 2. The modules

Each component has a module with one action per step of the code that another thread can come
between. A method that holds its lock from its first to its last access is one action; where the
lock is given up, or where a field is read by code that does not take it, the method is cut. The
definitions `Bug...` are faulty variants of the definition that follows them; with each of them
in its place TLC finds a property violated, which shows that the property looks at that code.

**TimerX** models `TimerImpl.run`, its callers and the tasks. `pc` is the position of the timer
thread. `Examine` is the first section under `task.lock` (`TimerX.java:224-248`), `Fire` or
`FireCancelled` the second (249-263), `Reschedule` the rest of it (265-276): between the last two
`setPeriod`, which takes no lock, may change the period, so the code decides with one value and
computes with another. `MonitorFree` says when a caller can have the monitor of `TimerImpl`,
`TaskLockFree` when it can have `task.lock`. `wait()` also ends without a cause
(`SpuriousWakeup`). `Finalize` is the helper object whose finalizer ends the thread of a timer
that nobody refers to (335). Times are positive, as the clock is: a first time of 0, which
`scheduleImpl` accepts, is left out (see section 5). `purge` may miss a cancellation, since it reads `task.cancelled`
without its lock. The heap is abstracted to a set and to whether it is known to be in order.

**TimerHeap** models the array heap itself (`upHeap`, `downHeap`, `insert`, `delete`,
`deleteIfCancelled`) with recursive functions and is shown to implement **TimerQueue**, the bag
that TimerX assumes, in which order may be lost only by a purge of more than `SafeHeapSize`
entries. **TimerSpec** is what a timer promises a caller, without queue, thread or locks:
accepted, due, withdrawn, closed. TimerX implements it (`ImplementsTimerSpec`).

**AsyncTaskX** models a task from `executeOnExecutor` to `finish`: `status`, `cancelled`,
`invoked` and `future` are its fields; `worker` is the pool thread inside `FutureTask.run` and
`mWorker.call`; `canceller` is a call of `cancel(true)`, which sets a flag, ends the future and
runs `done()` in three steps; `looper` is the queue of the main Looper; `uiCall` is how far the
main thread is in `finish()`: it has chosen `onCancelled` or `onPostExecute` (`HandleResult`), and
`onPostExecute` has looked at `isCancelled()` once more (`OnPostExecute`) and not called Lua yet
(`Callback`). `publishProgress` is cut the same way between its test and its message (`Publish`,
`SendProgress`), and `HandleProgress` calls the function `update` whatever has become of the task.
`Gc` runs on the main thread and therefore not between these steps of it, but `Cancel` may come
from any thread.

**SerialExecutor** models `execute` and `scheduleNext` (synchronized, so a step each) with a pool
that makes threads, queues, rejects, lets idle threads end, and is shared with other work.
**LuaThread** models `run()`, with the stores to `thandler` and `isRun` visible to others in
either order, the Looper, and the callers of `push`, `quit` and `gc`, each cut between its test
of `isRun` and what it does next; a `NullPointerException` in `handleMessage` (417-475), which
would end the process, is left out. Both implement **Mailbox**: one at a time, in the order of
acceptance, nothing after it is closed. For the executor, what Mailbox has taken and finished is
what was started without *every* task that is running (`Running`), so that two at once would be no
state of Mailbox.

**LuaObject** models the constructors with `registerValue` and `finalize`. `luaL_ref` and
`luaL_unref` are three accesses to the free list each, and three actions; what keeps them together
is the monitor of the `LuaState` the object belongs to. A constructor that throws, one that
stands for `nil`, and the reference 0 that an unfinished object hands to `luaL_unref` are actions
or cases of their own. The table slots are a sequence, the key `freelist` is `head`.

**JavaObjects** models `pushJavaObject` (reading `sIdx`, writing it, the put into the map, then the
userdata in the monitor), the finalizer, `luajava.clear`, and `LuaState.gc` from any thread, which
removes one listed index after the other and then clears the list; what is listed meanwhile is
forgotten or makes the walk throw. `javaObjectMap` is a plain `HashMap`: where a put or a removal
ends while another thread is in one (`Write`), any entries may be lost, the removed one may stay and
the new one may be missing, from then on at every write of that map. A put that loops for ever in a
map so damaged is left out, and so are reads that return what another thread has overwritten since.
The history variables `overlapped` and `raced` tell in which LuaStates two pushes were between the
read and the write of `sIdx` at once, and in which two threads wrote the map at once. Every `lua_State` has a `LuaState` object with a
map and a counter of its own, found by `getExistingState`; `run` is the one whose code runs, and
with it the one that finalizers use. `Users` says in which of them code uses Java objects, and
`Outside` which Java threads push without the monitor, as `LuaObject.setField` and `setI`
(`LuaObject.java:394-420`) and `doFile`, `doAsset` and `doString` of `LuaActivity` do.

**Collector** models `lgc.c` in its incremental mode, with one action per `singlestep`, between any
two steps of the program: `Store` with the forward barrier of closures and the backward barrier of
tables and none for stacks, `New`, coroutines that run (`Resume`, `Yield`), `SetFinalizer` with
the repair of `sweepgc`, finalizers in the middle of everything, full collections and the closing
of the state. `Atomic` is one action, as it is one call: `Marked`, `Separated`, `Resurrected`,
`Cleared` and `Flipped` are its parts in their order. Lists are sets, and what is still to be swept
of the current list is `ahead`; a live object that comes first and dead ones before it are a choice
in `SweepToLive`. **Reachability** defines reachability as the intersection of closed sets, so that
it can be proved about. **LuaHeap** is what the collector promises: it knows no colour and no
phase. Left out: the generational mode, ephemerons and tables with weak keys, open upvalues,
emergency collections, strings and fixed objects, `collectgarbage("stop")`, coroutines resumed by
a finalizer or by another coroutine, metatables with the forward barrier that `lua_setmetatable`
has for tables and userdata as well (`lapi.c:951`), objects whose metatable has lost its `__gc` by
the time they are finalized (`lgc.c:914`), and references to the two roots.

**LuaTable** models `ltable.c` node by node: main positions, chains, `lastfree`, the node that
moves out of another key's main position, `rehash` with the sizes it computes, the array whose
`alimit` may be a hint, `luaH_getn` with its four ways to a border, dead keys and `luaH_next`.
Loops over chains, sizes and indices are recursive functions on an interval. The bit trick of
`luaH_getint` (a key beyond a hint and still in the array) is modelled by the range it stands for,
and MCLuaTable compares the two for all indices of five bits (`HiddenPartTrick`).
**LuaMap** is what a table promises: a map and a traversal. Left out: the cache of absent metamethods, overflow of sizes, the array that a
constructor enlarges. A rehash that finds no memory is one outcome (`SetFails`), whether the nodes
or the array could not be had (`ltable.c:560, 573`): the restoration in between (569-570) is
assumed, not modelled.

**TimerX_proofs, AsyncTaskX_proofs, LuaThread_proofs, SerialExecutor_proofs, LuaObject_proofs,
JavaObjects_proofs, Collector_proofs, LuaTable_proofs** hold the theorems. **MCTimerX**, **MCJavaObjects**,
**MCCollector** and **MCLuaTable** add the sets and functions TLC needs (negative periods, symmetry,
what can be told apart, who may hold what, hashes); the other modules
are checked as they are.

External code that is modelled from how this code uses it: `ThreadPoolExecutor` and `FutureTask`,
`Looper`, `Handler` and `MessageQueue`, the finalizer thread.

## 3. The runs

| Run | Checks | Shows |
|---|---|---|
| `timer_safety` | NoLostTask, DeadTimerIsClosed, FiresOnlyDue | with setPeriod able to end a repetition and setEnabled able to suspend a task at any moment, no interleaving loses a task, fires one that is cancelled or not due, or leaves a dead timer open |
| `timer_promise` | FixedPeriodSpacing, NeverReused, CancelAnswers, ImplementsTimerSpec, DueTaskLeaves, CancelEndsThread, FinishedEndsThread | the timer keeps its promises to callers, cancel() of a task answers true exactly if it was queued and the timer is open, and every notification reaches the thread |
| `heap_queue` | ImplementsTimerQueue | the array heap is the bag TimerX assumes; its order survives everything but a purge of six or more |
| `async` | SettledHasResult, CallbackOnce, ProgressBeforeCallback, CallbackAfterBody, NothingNewAfterGc, AcceptedFinishes | the Lua callback runs at most once, after the body, after its progress; after gc there is no result and nothing newly published, while progress from before may still arrive; accepted tasks finish |
| `luathread` | IsRunTells, NothingMissing, ImplementsMailbox, QuitEndsThread, PostedIsServed | no message is lost without a quit; a quit that meets a serving thread ends it |
| `serial` | NothingForgotten, SomebodyActive, ImplementsMailbox, SubmittedRuns | tasks run one at a time, every running task counted, in order, and each unless the pool has rejected one |
| `object` | Represents, NoSlotLost, DroppedIsFreed | within one LuaState an object keeps its value and its slot, and slots come back |
| `javaobjects` | RightUnlessRaced | Java objects used by the main `lua_State` only are never another one, as long as no two pushes took an index together, and missing only after two threads wrote the map at once; with a thread that pushes outside the monitor, gc() from any thread, and finalizers that list their indices with whatever LuaState runs |
| `javaobjects_coroutine` (violated) | RightObject | a coroutine that uses an object of the main state looks in another map |
| `collector` | NoDangling, TriColour, ImplementsLuaHeap | with every step of the collector between every two of the program, barriers, finalizers, weak values and full collections included, only lost objects go |
| `collector_live` | GarbageFreed, FinalizerCalled | garbage is freed and finalizers are called, whatever the program stores |
| `luatable` | SizeKnown, CollidingInMainPosition, LengthIsBorder, FindsWhatWasSet, ImplementsLuaMap | array, nodes, hint and dead keys together are a map whose length is a border and whose traversal meets every key once |

The type invariants (`TypeOK`) are proved for the modules that have one, and no run repeats them.

**Bounds.** Two tasks are enough for a timer: one thread serves them, and the races are between
the thread and one caller, or about which of two tasks comes first. The clock runs over two or
three ticks, so that a task can be early, due, late, and due again; times asked for are bounded
with it (`MaxTime`). The heap holds six entries, one more than keeps its order, with three distinct
times. AsyncTaskX has two tasks over one
thread without a queue, so that one runs, one is rejected or comes after it, and both share the
Looper; each publishes once. LuaThread has two callers and three messages, which is
the least for two concurrent calls, one message in hand and two whose order matters. The serial
executor has four tasks (active, next, and two behind it), a pool of two threads and one place, and two
other pieces of work, so that the pool is at times full. LuaObject has three objects and two
values, made by two threads and freed by the finalizer: enough for a free list of two slots
while a third is taken. JavaObjects has two objects and two userdata, so that one can take the
other's place, two threads, so that gc() meets a finalizer, a put and another gc(), one of which
also pushes outside the monitor, and three pushes, so that a userdata that takes no part can lose its
entry to two that race. The run does not go on from states where pushes have overlapped
(`NotOverlapped`), of which the property says nothing, and does not tell states apart by the list
and the map of the coroutine, which nobody reads in it (`MainOnly`). Collector has a
coroutine, a weak table with a finalizer and a closure besides the two roots: a table and a
closure that hold each other need both barriers, and the weak table that is finalized is cleared,
resurrected and moved under the sweep; `MayHold` bounds who holds whom. A sweep step takes two
objects, so that lists are swept in more steps than one. For the liveness properties the
coroutine is left out. LuaTable has four integer keys, a string and an object: enough for arrays of
0 to 4 (a hint can be 3 in an array of 4), nodes of 0 to 4, a collision that moves a node and a
third key that hits where it was moved. There is one value: the run tells keys apart by being
present, and values that change places are seen by the theorems only. `Created` adds a table made with sizes, which gives an array that is no power of two.
Symmetry is used in safety runs only.

`CHECK_DEADLOCK FALSE` is set in the runs of systems that may really stop: a timer or a thread
that has ended, a task that has finished, objects that are all gone, a closed Lua state.

**Fairness.** Callers owe nothing: nobody has to schedule, cancel, quit, make or drop.
- TimerX: weak fairness of the timer thread (it is scheduled and a body ends) and of the clock.
  Spurious wake-ups are allowed and not relied on.
- AsyncTaskX: weak fairness of the main Looper, of each pool thread and of a `cancel()` that has
  begun. A body that never ends would make every claim about the end of a task void.
- LuaThread: weak fairness of the thread once started and of each call that was begun.
- SerialExecutor: weak fairness of what runs, of the end of other work, and strong fairness of
  `Fetch`: the queue of the pool is first in, first out, so a task in it is passed over only
  finitely often.
- LuaObject: weak fairness of the steps inside a monitor, and strong fairness of entering it for
  the finalizer, whose monitor is free again and again: every holder leaves it. A script that
  runs for ever holds it for ever; that is an assumption here.
- Collector: until the state is closed the collector takes steps again and again: `luaC_step` runs
  whenever the program has taken enough memory, so this says that the program keeps allocating
  and that finalizers return. Nothing is assumed of which step or of what the program stores.

`DueTaskLeaves` is checked with non-negative periods only. With `setPeriod(-1)` between
the two reads of the period, again and again, one task is rescheduled before its own time for ever
and another waits behind it; nothing in the code forbids this, and no promise excludes it.

## 4. What is proved

| Module | Theorems | From |
|---|---|---|
| TimerX_proofs | TypeCorrect, NoTaskIsLost, DeadIsClosed, FireIsDue; for `NewPeriods \subseteq Nat` also CancelIsTruthful, FiredIsNeverReused, RunsAreSpaced and Refinement (TimerX implements TimerSpec) | TimerAssumption |
| AsyncTaskX_proofs | TypeCorrect, SettledTellsResult, CalledBackOnce, ProgressComesFirst, BodyComesFirst, GcCutsOff | AsyncAssumption |
| LuaThread_proofs | TypeCorrect, RunningIsTold, NoMessageMissing, ServesAsMailbox (LuaThread implements Mailbox) | nothing |
| SerialExecutor_proofs | TypeCorrect, NoTaskForgotten, NoLostWakeUp, OneAtATime (SerialExecutor implements Mailbox) | SerialAssumption |
| LuaObject_proofs | TypeCorrect; for one LuaState (`OneState`) RepresentsItsValue, FreeListSound and NoSlotIsLost | ObjectAssumption |
| JavaObjects_proofs | TypeCorrect; for `Users = {Main}`, with any `Outside`, MainGetsRightObject; for `Outside = {}`, with any `Users`, InMonitorNeverOverlaps | JavaObjectsAssumption |
| Collector_proofs | TypeCorrect, BarriersKeepColours, NothingDangles, CollectorImplementsLuaHeap (Collector implements LuaHeap) | CollectorAssumption |
| LuaTable_proofs | SizeIsKnown, CollidersAtHome, LookupFindsAssigned, LengthFindsBorder, TableImplementsMap (LuaTable implements LuaMap) | TableAssumption |

The inductive invariants:
- **TimerX**: `TypeOK /\ NoLostTask /\ DeadTimerIsClosed /\ Chosen`. `Chosen` carries what the
  loop has decided from one section of `task.lock` to the next: the chosen task is in the queue
  and due, and the timer is open as long as the monitor is held. Without it nothing connects
  `Examine` with `Fire`. The four theorems about promises add `Timely`, which relates `when` to
  the last firing, and says of a cancel() that was answered with true that the task stays cancelled.
- **AsyncTaskX**: `TypeOK /\ Pace /\ Posted /\ Told /\ Answered /\ Values`. `Pace` orders the positions of the worker,
  the future and the status; `Posted` says who still has to post a result, so that "nobody is
  working on it" implies "one was posted"; `Told` says that the result of a task that was not cancelled
  is its last message and that there is one, in the queue, in hand or delivered; `Answered` says that
  a task whose callback the main thread is about to call neither threw nor was met by `gc()`; `Values`
  bounds the values in progress messages, and those given to `update`, by what was published.
- **LuaThread**: `TypeOK /\ IsRunTells /\ NothingMissing /\ Closed /\ InHand`: what the queue
  holds is what was posted and not taken, until the Looper is closed; from then on it is empty.
- **SerialExecutor**: `TypeOK /\ OnlyActive /\ NothingForgotten /\ RunningStarted`: only
  `mActive` can be in the pool, there is always one while tasks wait, and what runs was started. That
  at most one task runs is a consequence (`AtMostOne`), and the refinement needs it.
- **LuaObject**: `TypeOK /\ Freeing /\ Mutex /\ Makes /\ Frees /\ Unborn /\ Holds /\ FreeList`.
  A slot on the free list has no owner and at most one predecessor, the head none; a slot in the
  hands of a thread is on neither side. For FreeListSound "on the list" is replaced by "its content
  is a number", which needs no induction along the list. NoSlotIsLost does speak of the list:
  there a slot is on it when it is in every set that holds the head and is closed under "next
  free" (`Reach`), and each step that changes a link is shown to keep every other slot there.
- **JavaObjects**: `TypeOK /\ HomeInv`, and `Apart` as long as no pushes overlapped: the index of a
  userdata, of a push past its read, and of what is on the list or still to be removed by some walk is
  below `sIdx`; no two userdata or pushes have the same; none that is pushed or held is listed, also
  not in a walk over a list that has been cleared since; the entry of each is its object or none, and
  its object if nobody raced; entries above `sIdx` are none. `WriteEffect` and `OtherEntries` say what
  a write of the map does, whatever it loses.
- **Collector**: `TypeOK`, HeapInv (roots, finalizers and what live objects hold are live, a dead
  object being one of the other white), GrayInv and TriColour while marking, and the parts about
  the sweep: what is dead is still to be swept, and only while sweeping is anything of the other
  white. The atomic step is the heart: from GrayInv and TriColour, `Marked` is closed under what
  objects hold strongly and contains the roots, so the objects that turn dead are outside `Held`,
  and with `Resurrected` outside `Needed`. The lemmas on `Reach` (it contains, is closed, is the
  least, is monotone) carry it, and the refinement proof compares what is reachable before and
  after each step.
- **LuaTable**: the types, FindsWhatWasSet, `TableOK` (of the table alone) and `Traversal` (of the
  table, `at` and `seen`). `TableOK` says that a hint lies in the upper half of the array, whose
  size is then a power of two; that an element is found on the chain of its main position (its
  main position leads to it, in the sense of closed sets), that a colliding element is in its own,
  and that a node without a key is on no chain; that the nodes above `lastfree` are taken; and
  that no key of the array is in a node. `Traversal` says that what has been met and is still
  present lies before the present key, which is still found, dead or not. Three steps carry the
  work. Insertion: each of its cases (a free main position, a key behind a colliding element, an
  element that moves away) keeps the chains. Resizing: an invariant over the reinsertions, with the
  nodes still to be used counted, so that none of them needs a rehash of its own. Rehash: the counts
  give the new sizes room for every key and for the new one. The loops are recursive functions on
  an interval; what they compute is proved by induction with a set in the place of a predicate
  (`NatSetInduction`, from the least element of a set of naturals).

The runs check on small instances what the theorems state for all, and TLC evaluates the
assumptions in them.

Only model-checked: all liveness properties (ENABLED and fairness are out of reach of the proof
system used), `ImplementsTimerQueue` (TimerHeap; see the plan), the bit trick, and the violation.

## 5. Findings

**An object is looked up in the wrong map** (`javaobjects_coroutine`, `LuaStateFactory.java:78`).
`LuaStateFactory` says of the index registered in Lua that "it is used to find the right LuaState
when lua calls a Java Function". A coroutine that calls Java gets a LuaState of its own, with an
empty map and a counter from 0; a userdata that the main `lua_State` made is looked up there, and
is nothing or another object. MainGetsRightObject says what is left for Java objects used by the
main `lua_State` only.

Observed while modelling, and visible in the models, without a run of their own:
- `TimerX.java:86`: `delete(pos)` moves the last entry to `pos` and only down. After a `purge()` in
  a heap of six or more it may have to move up. `TimerQueue.Purge` therefore promises order only up
  to `SafeHeapSize`.
- `AsyncTaskX.java:369`: a `cancel()` between `FutureTask.run` and `mWorker.call` makes both post a
  result, and `finish()` runs twice; both find the task cancelled, so that Lua is called at most once
  (`CalledBackOnce`).
- `LuaAsyncTask.java:201`: the second test of `isCancelled()` narrows the window after the one of
  `finish()` (`AsyncTaskX.java:699`) and does not close it: a `cancel()` from another thread after it
  still sees the callback called (`Callback`).
- `AsyncTaskX.java:721`: progress that was posted before a `cancel()` or `gc()` is delivered
  afterwards, since neither `handleMessage` nor `LuaAsyncTask.onProgressUpdate` looks at the flag. The
  comment at `AsyncTaskX.java:682` promises that it is not; `NothingNewAfterGc` says what holds.
- `TimerTaskX.java:103`: `cancel()` of a task answers true also after `TimerX.cancel()`, or after the
  body of some task threw, when nothing was left to prevent; the comment at `TimerTaskX.java:100-101`
  promises an answer that tells. `CancelAnswers` says what holds, while the timer is open.
- `TimerX.java:570`: a first time of 0 is accepted, and a task with `when` 0 counts as not scheduled
  (`TimerTaskX.java:85`): it can be scheduled once more and is then in the queue twice. Real callers
  ask for times after the present one; the model has no time 0.
- `LuaState.java:724`: `gc()` changes a plain `HashMap` outside the monitor, from
  `LuaActivity.onDestroy` (939) for instance, and can lose with a put on another thread an entry that
  neither of them was about; a userdata then stands for nothing.
- `LuaState.java:1030`: two pushes, one of them outside the monitor, can take one index together; the
  userdata of one then stands for the object of the other.
- `LuaObject.java:202`: two LuaStates over one registry have a monitor each, and `luaL_ref` and
  `luaL_unref` interleave. RepresentsItsValue is proved for one LuaState.
- `LuaObject.java:204`: an object whose constructor threw gives back slot 0, and the free list
  behind it is lost; NoSlotIsLost is proved for as long as no constructor throws.

## 6. Plan

Done: timer, tasks, executor, threads, references, Java objects, collector, tables. The project is
to stay small enough to be checked as a whole, so a new run replaces the least telling of the
present ones. Left, in this order:

1. **Activity**: `regGc`, `onDestroy` and the messages that come late, composed with what timers,
   tasks and threads promise (TimerSpec, Mailbox). Theorem: what was registered before the walk
   and does not throw is stopped.
2. The monitors of two Lua states that call each other: deadlock.
3. **Ticker** and **LuaServer**: unsynchronised stop and start; two threads each.
4. **ThreadManager** with the saving of files; **AutoIndent** as a pure operator against
   a reference definition.
5. More of the collector: ephemerons and the generational mode, under the same LuaHeap.
6. More proofs: OneState weakened to "states that share a monitor"; TimerHeap implements
   TimerQueue, which needs its sifting loops bounded, as those of LuaTable are.
