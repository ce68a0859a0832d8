---------------------------- MODULE Reachability ----------------------------
(* What can be reached in a graph whose edges are a function from each node *)
(* to the set of the nodes it points to.                                    *)

\* The sets that contain S and that no edge leaves.
ClosedSets(S, e) ==
    {T \in {S \cup U : U \in SUBSET (DOMAIN e \ S)} : \A n \in T : e[n] \subseteq T}

\* All that can be reached from S: what these sets have in common.
Reach(S, e) == DOMAIN e \ UNION {DOMAIN e \ T : T \in ClosedSets(S, e)}
==============================================================================
