------------------------------- MODULE LuaMap --------------------------------
(***************************************************************************)
(* What a Lua table promises to the program: a map, and a traversal with   *)
(* next that meets every present key once while the program changes and    *)
(* clears existing fields. To give a value to an absent field leaves the   *)
(* traversal undefined. LuaTable shows that the array and the hash of the  *)
(* code implement it.                                                      *)
(***************************************************************************)
CONSTANTS Keys, Values, Nil, Off

VARIABLES
    map,    \* of each key its value or Nil
    at,     \* the key to give to next, Nil at first, Off without a traversal
    seen    \* the keys that the traversal met

vars == <<map, at, seen>>

Present == {k \in Keys : map[k] # Nil}

Init == map = [k \in Keys |-> Nil] /\ at = Off /\ seen = {}

Set(k, v) ==
    /\ map' = [map EXCEPT ![k] = v]
    /\ IF k \notin Present /\ v # Nil
       THEN at' = Off /\ seen' = {}
       ELSE UNCHANGED <<at, seen>>

Begin == at = Off /\ at' = Nil /\ seen' = {} /\ UNCHANGED map

Meet(k) ==
    /\ at # Off /\ k \in Present \ seen
    /\ at' = k /\ seen' = seen \cup {k}
    /\ UNCHANGED map

End ==
    /\ at # Off /\ Present \subseteq seen
    /\ at' = Off /\ seen' = {}
    /\ UNCHANGED map

Next ==
    \/ \E k \in Keys : Meet(k) \/ \E v \in Values \cup {Nil} : Set(k, v)
    \/ Begin \/ End

Spec == Init /\ [][Next]_vars
==============================================================================
