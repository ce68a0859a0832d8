---------------------------- MODULE MCJavaObjects ----------------------------
(* TLC instance of JavaObjects where only the main lua_State uses objects.  *)
EXTENDS JavaObjects, TLC

\* Objects, like userdata, differ in nothing but their identity.
ObjectSymmetry == Permutations(Objects) \cup Permutations(Userdata)

\* Of a LuaState where pushes overlapped nothing is claimed, now or later.
NotOverlapped == overlapped = {}

\* Nobody reads the list and the map of the coroutine: it pushes nothing, and
\* gc() is that of the activity.
MainOnly == <<owner, run, sIdx[Main], javaObjectMap[Main], javaObjectGcList[Main],
              udata, call, overlapped, raced>>
==============================================================================
