------------------------------ MODULE LuaTable -------------------------------
(***************************************************************************)
(* The tables of Lua (jni/lua/ltable.c): an array, whose alimit is its     *)
(* size or only a hint where #t may be, and a chained scatter table with   *)
(* Brent's variation. Positions count from 1, and the next of a node is a  *)
(* position, 0 for none. An empty hash part is the dummy node.             *)
(*                                                                         *)
(* Keys are positive integers, strings and objects; a float that is an     *)
(* integer is the integer. Left out: metamethods and their cache, the      *)
(* barrier (see Collector), the overflow of sizes, and the array that a    *)
(* constructor makes larger for its last values.                           *)
(* The definitions named Bug... are faulty variants of those they stand    *)
(* above; no specification uses them.                                      *)
(***************************************************************************)
EXTENDS Integers, Sequences, FiniteSetsExt

CONSTANTS
    MaxInt,     \* bound: the integer keys
    Strings,    \* keys hashed modulo a power of two
    Objects,    \* keys hashed modulo an odd number
    Hash,       \* of a string or an object
    Values,
    Nil,
    Off,        \* no traversal is in progress
    Invalid,    \* next has raised an error
    Created     \* bound: the sizes <<array, hash>> a table is created with

Ints == 1..MaxInt
Keys == Ints \cup Strings \cup Objects
IsInteger(k) == k \notin Strings \cup Objects

ASSUME TableAssumption ==
    /\ MaxInt \in Nat
    /\ (Strings \cup Objects) \cap Nat = {}
    /\ Nil \notin Values
    /\ {Nil, Off, Invalid} \cap Keys = {} /\ Off \notin {Nil, Invalid} /\ Nil # Invalid
    /\ Hash \in [Strings \cup Objects -> Nat]
    /\ Created \subseteq Nat \X Nat /\ <<0, 0>> \in Created

VARIABLES
    t,      \* the struct Table
    map,    \* history: of each key what was last assigned
    at,     \* of the traversal in progress, the key to give to next
    seen    \* and history: the keys it met

vars == <<t, map, at, seen>>

EmptyNode == [key |-> Nil, dead |-> FALSE, val |-> Nil, next |-> 0]
------------------------------------------------------------------------------
(* The array part.                                                          *)

twoto[e \in Nat] == IF e = 0 THEN 1 ELSE 2 * twoto[e - 1]

ispow2(n) == n = 0 \/ \E e \in 0..n : n = twoto[e]

luaO_ceillog2(n) == Min({e \in 0..n : n <= twoto[e]})

RoundUp(n) == twoto[luaO_ceillog2(n)]

limitequalsasize(tb) == tb.realsize \/ ispow2(tb.alimit)

luaH_realasize(tb) == IF limitequalsasize(tb) THEN tb.alimit ELSE RoundUp(tb.alimit)

ispow2realasize(tb) == ~tb.realsize \/ ispow2(tb.alimit)

setlimittosize(tb) == [tb EXCEPT !.alimit = luaH_realasize(tb), !.realsize = TRUE]

\* Is the key beyond the hint in the array? MCLuaTable has the bits by which the
\* code tells.
InHiddenPart(tb, k) == ~tb.realsize /\ tb.alimit < k /\ k <= luaH_realasize(tb)

InArray(tb, k) == IsInteger(k) /\ (k <= tb.alimit \/ InHiddenPart(tb, k))

\* luaH_getint moves the hint.
AfterGet(tb, k) ==
    IF IsInteger(k) /\ InHiddenPart(tb, k) THEN [tb EXCEPT !.alimit = k] ELSE tb
------------------------------------------------------------------------------
(* The hash part.                                                           *)

isdummy(tb) == tb.node = <<>>

MainPosition(nodes, k) ==
    LET h == IF IsInteger(k) THEN k ELSE Hash[k]
        n == Len(nodes)
    IN 1 + (h % (IF k \in Strings \/ n = 1 THEN n ELSE n - 1))

\* Where so many hops along the chain from p lead, 0 behind its end.
Hops(nodes, p) ==
    LET hop[i \in 0..Len(nodes)] ==
          IF i = 0 THEN p ELSE IF hop[i - 1] = 0 THEN 0 ELSE nodes[hop[i - 1]].next
    IN hop

Chain(nodes, p) == {Hops(nodes, p)[i] : i \in 0..(Len(nodes) - 1)} \ {0}

\* The node before p in the chain from q.
Previous(nodes, q, p) == CHOOSE e \in Chain(nodes, q) : nodes[e].next = p

\* A dead key is not found.
BugEqualKey(node, k, deadok) == node.key = k /\ ~node.dead

equalkey(node, k, deadok) == node.key = k /\ (deadok \/ ~node.dead)

\* The first node of k in its chain, or 0.
getgeneric(nodes, k, deadok) ==
    LET hop == Hops(nodes, MainPosition(nodes, k))
        found == {i \in 0..(Len(nodes) - 1) : hop[i] # 0 /\ equalkey(nodes[hop[i]], k, deadok)}
    IN IF found = {} THEN 0 ELSE hop[Min(found)]

luaH_get(tb, k) ==
    IF InArray(tb, k) THEN tb.array[k]
    ELSE LET p == getgeneric(tb.node, k, FALSE)
         IN IF p = 0 THEN Nil ELSE tb.node[p].val

\* The highest node below lastfree that never had a key, or 0.
getfreepos(tb) == Max({0} \cup {p \in 1..tb.lastfree : tb.node[p].key = Nil})

HasRoom(tb, k) ==
    /\ ~isdummy(tb)
    /\ tb.node[MainPosition(tb.node, k)].val = Nil \/ getfreepos(tb) # 0

\* The new key goes to the free node whoever is in its main position.
BugNewKey(tb, k, v) ==
    LET mp == MainPosition(tb.node, k)
        f == getfreepos(tb)
    IN IF tb.node[mp].val = Nil
       THEN [tb EXCEPT !.node[mp] = [@ EXCEPT !.key = k, !.dead = FALSE, !.val = v]]
       ELSE [tb EXCEPT !.lastfree = f - 1, !.node[mp].next = f,
                       !.node[f] = [key |-> k, dead |-> FALSE, val |-> v,
                                    next |-> tb.node[mp].next]]

\* luaH_newkey where there is room.
NewKey(tb, k, v) ==
    LET mp == MainPosition(tb.node, k)
        colliding == tb.node[mp]
        f == getfreepos(tb)
        New(next) == [key |-> k, dead |-> FALSE, val |-> v, next |-> next]
    IN IF colliding.val = Nil
       THEN [tb EXCEPT !.node[mp] = New(colliding.next)]
       ELSE LET othern == MainPosition(tb.node, colliding.key) IN
            IF othern = mp
            THEN [tb EXCEPT !.lastfree = f - 1, !.node[mp].next = f,
                            !.node[f] = New(colliding.next)]
            ELSE [tb EXCEPT !.lastfree = f - 1, !.node[Previous(tb.node, othern, mp)].next = f,
                            !.node[f] = colliding, !.node[mp] = New(0)]

\* luaH_set where there is room.
SetInPlace(tb, k, v) ==
    LET p == getgeneric(tb.node, k, FALSE) IN
    IF InArray(tb, k) THEN [tb EXCEPT !.array[k] = v]
    ELSE IF p # 0 THEN [tb EXCEPT !.node[p].val = v]
    ELSE IF v = Nil THEN tb
    ELSE NewKey(tb, k, v)
------------------------------------------------------------------------------
(* Rehash.                                                                  *)

\* The entries: first the slots of the array, then the nodes.
KeyAt(tb, i) ==
    IF i <= luaH_realasize(tb) THEN i ELSE tb.node[i - luaH_realasize(tb)].key

ValueAt(tb, i) ==
    IF i <= luaH_realasize(tb) THEN tb.array[i] ELSE tb.node[i - luaH_realasize(tb)].val

Entries(tb) == {i \in 1..(luaH_realasize(tb) + Len(tb.node)) : ValueAt(tb, i) # Nil}

\* The values of the array slots that vanish are forgotten.
BugMoves(tb, newasize, i) == i \in Entries(tb) /\ i > luaH_realasize(tb)

\* What is inserted again: the nodes, and the slots that vanish.
Moves(tb, newasize, i) ==
    i \in Entries(tb) /\ (i > newasize \/ i > luaH_realasize(tb))

luaH_resize(tb, newasize, nhsize) ==
    LET asize == luaH_realasize(tb)
        n == IF nhsize = 0 THEN 0 ELSE RoundUp(nhsize)
        empty == [array |-> [i \in 1..newasize |-> IF i <= asize THEN tb.array[i] ELSE Nil],
                  alimit |-> newasize, realsize |-> TRUE,
                  node |-> [i \in 1..n |-> EmptyNode], lastfree |-> n]
        after[i \in 0..(asize + Len(tb.node))] ==
            IF i = 0 THEN empty
            ELSE IF Moves(tb, newasize, i)
                 THEN SetInPlace(after[i - 1], KeyAt(tb, i), ValueAt(tb, i))
                 ELSE after[i - 1]
    IN after[asize + Len(tb.node)]

\* The largest size of which more than half is in use.
computesizes(ints) ==
    Max({0} \cup {n \in 1..(2 * Cardinality(ints)) :
                    ispow2(n) /\ 2 * Cardinality({i \in ints : i <= n}) > n})

rehash(tb, k) ==
    LET ints == {x \in {KeyAt(tb, i) : i \in Entries(tb)} \cup {k} : IsInteger(x)}
        asize == computesizes(ints)
        na == Cardinality({i \in ints : i <= asize})
    IN luaH_resize(tb, asize, Cardinality(Entries(tb)) + 1 - na)

\* The slot that k has already, or no value to insert.
NeedsNoNode(tb, k, v) ==
    InArray(tb, k) \/ getgeneric(tb.node, k, FALSE) # 0 \/ v = Nil

luaH_set(tb, k, v) ==
    LET found == AfterGet(tb, k) IN
    IF NeedsNoNode(tb, k, v) \/ HasRoom(tb, k) THEN SetInPlace(found, k, v)
    ELSE SetInPlace(rehash(tb, k), k, v)
------------------------------------------------------------------------------
(* The length, and the new hint.                                            *)

\* Halves the interval between i, present or 0, and j, absent, to one step.
binsearch(present, i, j) ==
    LET bounds[n \in 0..(j - i)] ==
          IF n = 0 THEN <<i, j>>
          ELSE LET b == bounds[n - 1]
                   m == (b[1] + b[2]) \div 2
               IN IF b[2] - b[1] <= 1 THEN b
                  ELSE IF m \in present THEN <<m, b[2]>> ELSE <<b[1], m>>
    IN bounds[j - i][1]

\* Doubles i as long as that is present.
Doubled(present, i) ==
    LET double[n \in 0..MaxInt] ==
          IF n = 0 THEN i
          ELSE LET d == double[n - 1] IN IF 2 * d \in present THEN 2 * d ELSE d
    IN double[MaxInt]

\* The last index that doubling met is taken for the border.
BugHashSearch(tb, limit) ==
    Doubled({i \in Ints : luaH_get(tb, i) # Nil}, IF limit = 0 THEN 1 ELSE limit)

hash_search(tb, limit) ==
    LET present == {i \in Ints : luaH_get(tb, i) # Nil}
        i == Doubled(present, IF limit = 0 THEN 1 ELSE limit)
    IN binsearch(present, i, 2 * i)

\* Any border in the array is taken for a hint.
BugMayBeLimit(tb, n) == ispow2realasize(tb)

\* Can n, a border in the array, be a hint that tells the size?
MayBeLimit(tb, n) == ispow2realasize(tb) /\ n > luaH_realasize(tb) \div 2

luaH_getn(tb) ==
    LET limit == tb.alimit
        size == luaH_realasize(tb)
        present == {i \in 1..size : tb.array[i] # Nil}
        found == limit = 0 \/ limit \in present
        Hint(n) == [n |-> n, tb |-> [tb EXCEPT !.alimit = n, !.realsize = FALSE]]
        Same(n) == [n |-> n, tb |-> tb]
    IN CASE ~found /\ limit - 1 \in present ->
                IF ispow2realasize(tb) /\ ~ispow2(limit - 1)
                THEN Hint(limit - 1) ELSE Same(limit - 1)
         [] ~found /\ limit - 1 \notin present ->
                LET n == binsearch(present, 0, limit)
                IN IF MayBeLimit(tb, n) THEN Hint(n) ELSE Same(n)
         [] found /\ ~limitequalsasize(tb) /\ limit + 1 \notin present -> Same(limit)
         [] found /\ ~limitequalsasize(tb) /\ limit + 1 \in present /\ size \notin present ->
                Hint(binsearch(present, limit, size))
         [] OTHER ->
                IF isdummy(tb) \/ luaH_get(tb, size + 1) = Nil
                THEN Same(size) ELSE Same(hash_search(tb, size))
------------------------------------------------------------------------------
Init ==
    /\ \E sizes \in Created :
          t = luaH_resize([array |-> <<>>, alimit |-> 0, realsize |-> TRUE,
                           node |-> <<>>, lastfree |-> 0], sizes[1], sizes[2])
    /\ map = [k \in Keys |-> Nil] /\ at = Off /\ seen = {}

\* A value for an absent field leaves the traversal undefined.
Set(k, v) ==
    /\ t' = luaH_set(t, k, v)
    /\ map' = [map EXCEPT ![k] = v]
    /\ IF map[k] = Nil /\ v # Nil
       THEN at' = Off /\ seen' = {}
       ELSE UNCHANGED <<at, seen>>

\* The rehash finds no memory, for the nodes or for the array, for which luaH_resize has
\* put the old hash part back by then. Either way the table is what it was.
SetFails(k, v) ==
    /\ ~NeedsNoNode(t, k, v) /\ ~HasRoom(t, k)
    /\ t' = setlimittosize(t)
    /\ UNCHANGED <<map, at, seen>>

Get(k) == t' = AfterGet(t, k) /\ UNCHANGED <<map, at, seen>>

Length == t' = luaH_getn(t).tb /\ UNCHANGED <<map, at, seen>>

\* The collector, in a traversal of the table: the keys of empty nodes die.
ClearKeys ==
    /\ t' = [t EXCEPT !.node = [p \in DOMAIN @ |->
                [@[p] EXCEPT !.dead = t.node[p].val = Nil
                                      /\ t.node[p].key \in Strings \cup Objects]]]
    /\ UNCHANGED <<map, at, seen>>

Begin == at = Off /\ at' = Nil /\ seen' = {} /\ UNCHANGED <<t, map>>

\* The index of a key in a traversal: first the array, then the nodes; 0 if there is none.
findindex(tb, k) ==
    LET asize == luaH_realasize(tb) IN
    IF IsInteger(k) /\ k <= asize THEN k
    ELSE LET p == getgeneric(tb.node, k, TRUE) IN IF p = 0 THEN 0 ELSE asize + p

\* luaH_next
Advance ==
    LET from == IF at = Nil THEN 0 ELSE findindex(t, at)
        rest == {i \in Entries(t) : i > from}
        met == KeyAt(t, Min(rest))
    IN /\ at # Off
       /\ CASE at # Nil /\ from = 0 -> at' = Invalid /\ UNCHANGED seen
            [] rest = {} -> at' = Off /\ seen' = {}
            [] OTHER -> at' = met /\ seen' = seen \cup {met}
       /\ UNCHANGED <<t, map>>

Next ==
    \/ \E k \in Keys : \/ Get(k)
                       \/ \E v \in Values \cup {Nil} : Set(k, v) \/ SetFails(k, v)
    \/ Length \/ ClearKeys \/ Begin \/ Advance

Spec == Init /\ [][Next]_vars
------------------------------------------------------------------------------
\* The array has the size that the code computes from the hint: an index that
\* luaH_realasize allows is in the array, and no slot is forgotten.
SizeKnown == luaH_realasize(t) = Len(t.array)

\* "if an element is not in its main position [...], then the colliding element is
\* in its own main position" (ltable.c:21-23).
CollidingInMainPosition ==
    \A p \in DOMAIN t.node : t.node[p].key # Nil =>
        LET mp == MainPosition(t.node, t.node[p].key) IN
        /\ t.node[mp].key # Nil
        /\ MainPosition(t.node, t.node[mp].key) = mp

\* #t is a border, whatever the hint: t[n] is present or n is 0, and t[n + 1] is absent.
LengthIsBorder ==
    LET n == luaH_getn(t).n
    IN (n = 0 \/ map[n] # Nil) /\ (n = MaxInt \/ map[n + 1] = Nil)

\* A lookup finds what was last assigned, through every collision, rehash, failed
\* allocation, collection and change of the hint.
FindsWhatWasSet == \A k \in Keys : luaH_get(t, k) = map[k]

\* next meets every present key once, while fields change and are cleared, keys
\* die and the hint moves.
Map == INSTANCE LuaMap
ImplementsLuaMap == Map!Spec
==============================================================================
