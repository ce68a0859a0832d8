----------------------------- MODULE MCCollector -----------------------------
(* The instances of Collector that TLC checks: a coroutine t, a table w with *)
(* weak values and a finalizer, and a closure c that can hold each other.    *)
EXTENDS Collector

CONSTANTS main, reg, t, w, c

\* The table is in the registry as well; the coroutine makes the closure.
MCMayHold ==
    [o \in Objects |-> CASE o = main -> {t, w} [] o = reg -> {w} [] o = t -> {c}
                         [] o = w -> {c} [] o = c -> {w}]

\* Without the coroutine, for the liveness properties.
MCMayHoldLive ==
    [o \in Objects |-> CASE o = main -> {w, c} [] o = reg -> {w}
                         [] o = w -> {c} [] o = c -> {w}]
==============================================================================
