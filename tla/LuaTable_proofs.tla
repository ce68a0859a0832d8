--------------------------- MODULE LuaTable_proofs ---------------------------
(***************************************************************************)
(* Theorems about LuaTable, for any keys, values, hash function and sizes: *)
(* the array has the size that the code computes from the hint, a          *)
(* colliding element is in its own main position, a lookup finds what was  *)
(* last assigned, the length is a border, and the table implements LuaMap, *)
(* the map that next traverses.                                            *)
(*                                                                         *)
(* The loops of the code are recursive functions on an interval 0..N.      *)
(* TLAPS takes such a definition as a choice among the functions that      *)
(* satisfy the equation, so that each of them has a lemma by which there   *)
(* is one.                                                                 *)
(***************************************************************************)
EXTENDS LuaTable, FiniteSetTheorems, WellFoundedInduction, SequenceTheorems, TLAPS

(***************************************************************************)
(* Natural numbers.                                                        *)
(***************************************************************************)

LEMMA LeastNat ==
    ASSUME NEW S \in SUBSET Nat, S # {}
    PROVE  \E n \in S : \A m \in S : n <= m
<1>1. IsWellFoundedOn(OpToRel(<, Nat), Nat)
  BY NatLessThanWellFounded
<1>2. PICK n \in S : \A m \in S : ~ (<<m, n>> \in OpToRel(<, Nat))
  BY <1>1, WFMin
<1>3. \A m \in S : ~ (m < n)
  BY <1>2 DEF OpToRel
<1> QED BY <1>3

\* Induction, for a set in the place of a predicate.
LEMMA NatSetInduction ==
    ASSUME NEW S, 0 \in S, \A n \in Nat : n \in S => n + 1 \in S
    PROVE  \A n \in Nat : n \in S
<1> SUFFICES ASSUME NEW k \in Nat, k \notin S PROVE FALSE
  OBVIOUS
<1>1. PICK n \in Nat \ S : \A m \in Nat \ S : n <= m
  BY LeastNat
<1>2. n # 0 /\ n - 1 \in Nat /\ n - 1 \in S
  BY <1>1
<1>3. (n - 1) + 1 \in S
  BY <1>2
<1> QED BY <1>1, <1>3

LEMMA MinLeast ==
    ASSUME NEW S \in SUBSET Nat, S # {}
    PROVE  Min(S) \in S /\ \A m \in S : Min(S) <= m
BY LeastNat DEF Min

LEMMA MaxGreatest ==
    ASSUME NEW S \in SUBSET Nat, S # {}, NEW b \in Nat, \A n \in S : n <= b
    PROVE  Max(S) \in S /\ \A m \in S : m <= Max(S)
<1> DEFINE R == {d \in Nat : \E n \in S : d = b - n}
<1>1. /\ R \in SUBSET Nat /\ R # {}
      /\ \A n \in S : n \in Nat /\ b - n \in R
  <2>1. \A n \in S : n \in Nat /\ b - n \in Nat
    OBVIOUS
  <2>2. \A n \in S : b - n \in R
    BY <2>1
  <2> QED BY <2>1, <2>2
<1>2. \A d \in R : \E n \in S : d = b - n
  OBVIOUS
<1> HIDE DEF R
<1>3. PICK d \in R : \A m \in R : d <= m
  BY <1>1, LeastNat
<1>4. PICK n \in S : d = b - n
  BY <1>2
<1>5. ASSUME NEW m \in S PROVE m <= n
  <2>1. d <= b - m
    BY <1>1, <1>3
  <2> QED BY <1>1, <1>4, <2>1
<1>6. \E x \in S : \A y \in S : x >= y
  BY <1>1, <1>5
<1>7. Max(S) \in S /\ \A y \in S : Max(S) >= y
  BY <1>6 DEF Max
<1> QED BY <1>1, <1>7

\* A loop whose step is a function g of its state.
Loop(f, S, g, a, N) ==
    f \in [0..N -> S] /\ f[0] = a /\ \A i \in 1..N : f[i] = g[f[i - 1]]

LEMMA LoopExists ==
    ASSUME NEW S, NEW g \in [S -> S], NEW a \in S, NEW N \in Nat
    PROVE  \E f : Loop(f, S, g, a, N)
<1> DEFINE H == {n \in Nat : \E f : Loop(f, S, g, a, n)}
<1>1. 0 \in H
  <2>1. Loop([i \in 0..0 |-> a], S, g, a, 0)
    BY DEF Loop
  <2> QED BY <2>1
<1>2. ASSUME NEW n \in Nat, n \in H PROVE n + 1 \in H
  <2>1. PICK f : Loop(f, S, g, a, n)
    BY <1>2
  <2> DEFINE h == [i \in 0..(n + 1) |-> IF i <= n THEN f[i] ELSE g[f[n]]]
  <2>2. Loop(h, S, g, a, n + 1)
    BY <2>1 DEF Loop
  <2> QED BY <2>2
<1>3. \A n \in Nat : n \in H
  <2> HIDE DEF H
  <2> QED BY <1>1, <1>2, NatSetInduction
<1> QED BY <1>3

LEMMA LoopStep ==
    ASSUME NEW S, NEW g, NEW a, NEW N \in Nat, NEW f, Loop(f, S, g, a, N)
    PROVE  \A n \in Nat : n + 1 <= N => f[n] \in S /\ f[n + 1] = g[f[n]]
BY DEF Loop

\* A function that satisfies the equation of a loop is the loop.
LEMMA LoopFrom ==
    ASSUME NEW S, NEW g \in [S -> S], NEW a \in S, NEW N \in Nat,
           NEW h, h = [n \in 0..N |-> h[n]], h[0] = a,
           \A n \in 1..N : h[n - 1] \in S => h[n] = g[h[n - 1]]
    PROVE  Loop(h, S, g, a, N)
<1> DEFINE H == {n \in Nat : n <= N => h[n] \in S}
<1>1. 0 \in H
  OBVIOUS
<1>2. ASSUME NEW n \in Nat, n \in H PROVE n + 1 \in H
  <2> SUFFICES ASSUME n + 1 <= N PROVE h[n + 1] \in S
    OBVIOUS
  <2>1. n + 1 \in 1..N /\ (n + 1) - 1 = n /\ h[n] \in S
    BY <1>2
  <2>2. h[n + 1] = g[h[n]]
    BY <2>1
  <2> QED BY <2>1, <2>2
<1>3. \A n \in Nat : n \in H
  <2> HIDE DEF H
  <2> QED BY <1>1, <1>2, NatSetInduction
<1>4. \A n \in 0..N : h[n] \in S
  BY <1>3
<1>5. \A n \in 1..N : n - 1 \in 0..N
  OBVIOUS
<1> QED BY <1>4, <1>5 DEF Loop

\* What holds in the beginning and after each step holds at each step.
LEMMA LoopInvariant ==
    ASSUME NEW S, NEW g, NEW a, NEW N \in Nat, NEW f, Loop(f, S, g, a, N),
           NEW I, a \in I, \A x \in I \cap S : g[x] \in I
    PROVE  \A i \in 0..N : f[i] \in I
<1> DEFINE H == {n \in Nat : n <= N => f[n] \in I}
<1>1. 0 \in H
  BY DEF Loop
<1>2. ASSUME NEW n \in Nat, n \in H PROVE n + 1 \in H
  BY <1>2 DEF Loop
<1>3. \A n \in Nat : n \in H
  <2> HIDE DEF H
  <2> QED BY <1>1, <1>2, NatSetInduction
<1> QED BY <1>3

\* Two loops with the same step run alike.
LEMMA LoopUnique ==
    ASSUME NEW S, NEW g, NEW a, NEW M \in Nat, NEW N \in Nat, NEW e, NEW f,
           Loop(e, S, g, a, M), Loop(f, S, g, a, N)
    PROVE  \A i \in Nat : i <= M /\ i <= N => e[i] = f[i]
<1> DEFINE H == {n \in Nat : n <= M /\ n <= N => e[n] = f[n]}
<1>1. 0 \in H
  BY DEF Loop
<1>2. ASSUME NEW n \in Nat, n \in H PROVE n + 1 \in H
  BY <1>2 DEF Loop
<1>3. \A n \in Nat : n \in H
  <2> HIDE DEF H
  <2> QED BY <1>1, <1>2, NatSetInduction
<1> QED BY <1>3

(***************************************************************************)
(* Powers of two.                                                          *)
(***************************************************************************)

LEMMA PowersExist == \E p : p = [e \in Nat |-> IF e = 0 THEN 1 ELSE 2 * p[e - 1]]
<1> DEFINE g == [x \in Nat |-> 2 * x]
           f == [e \in Nat |-> CHOOSE h : Loop(h, Nat, g, 1, e)]
           p == [e \in Nat |-> f[e][e]]
<1>1. g \in [Nat -> Nat]
  OBVIOUS
<1>2. \A x \in Nat : g[x] = 2 * x
  OBVIOUS
<1> HIDE DEF g
<1>3. \A e \in Nat : \E h : Loop(h, Nat, g, 1, e)
  BY <1>1, LoopExists
<1>4. \A e \in Nat : Loop(f[e], Nat, g, 1, e)
  BY <1>3
<1> HIDE DEF f
<1>5. ASSUME NEW e \in Nat PROVE p[e] = IF e = 0 THEN 1 ELSE 2 * p[e - 1]
  <2>1. CASE e = 0
    BY <1>4, <2>1 DEF Loop
  <2>2. CASE e # 0
    <3>1. e - 1 \in Nat /\ e - 1 <= e /\ e \in 1..e /\ e - 1 \in 0..e
      BY <2>2
    <3>2. f[e][e] = g[f[e][e - 1]] /\ f[e][e - 1] \in Nat
      BY <1>4, <3>1 DEF Loop
    <3>3. f[e][e - 1] = f[e - 1][e - 1]
      <4>1. Loop(f[e], Nat, g, 1, e) /\ Loop(f[e - 1], Nat, g, 1, e - 1)
        BY <1>4, <3>1
      <4>2. ASSUME NEW M \in Nat, NEW N \in Nat, NEW h, NEW k,
                   Loop(h, Nat, g, 1, M), Loop(k, Nat, g, 1, N)
            PROVE  \A i \in Nat : i <= M /\ i <= N => h[i] = k[i]
        BY <4>2, LoopUnique
      <4> QED BY <3>1, <4>1, <4>2
    <3>4. g[f[e][e - 1]] = 2 * f[e][e - 1]
      BY <1>2, <3>2
    <3>5. p[e] = f[e][e] /\ p[e - 1] = f[e - 1][e - 1]
      BY <3>1
    <3> QED BY <2>2, <3>2, <3>3, <3>4, <3>5
  <2> QED BY <2>1, <2>2
<1>6. p = [e \in Nat |-> IF e = 0 THEN 1 ELSE 2 * p[e - 1]]
  BY <1>5
<1> QED BY <1>6

LEMMA TwoTo == twoto[0] = 1 /\ \A e \in Nat : twoto[e + 1] = 2 * twoto[e]
<1>1. twoto = [e \in Nat |-> IF e = 0 THEN 1 ELSE 2 * twoto[e - 1]]
  BY PowersExist DEF twoto
<1>2. \A e \in Nat : twoto[e] = IF e = 0 THEN 1 ELSE 2 * twoto[e - 1]
  BY <1>1
<1> QED BY <1>2

LEMMA TwoToType == \A e \in Nat : twoto[e] \in Nat /\ e < twoto[e]
<1> DEFINE H == {e \in Nat : twoto[e] \in Nat /\ e < twoto[e]}
<1>1. 0 \in H
  BY TwoTo
<1>2. ASSUME NEW e \in Nat, e \in H PROVE e + 1 \in H
  BY <1>2, TwoTo
<1>3. \A n \in Nat : n \in H
  <2> HIDE DEF H
  <2> QED BY <1>1, <1>2, NatSetInduction
<1> QED BY <1>3

LEMMA TwoToGrows == \A d, e \in Nat : d < e => 2 * twoto[d] <= twoto[e]
<1> SUFFICES ASSUME NEW d \in Nat PROVE \A e \in Nat : d < e => 2 * twoto[d] <= twoto[e]
  OBVIOUS
<1> DEFINE H == {e \in Nat : d < e => 2 * twoto[d] <= twoto[e]}
<1>1. 0 \in H
  OBVIOUS
<1>2. ASSUME NEW e \in Nat, e \in H PROVE e + 1 \in H
  BY <1>2, TwoTo, TwoToType
<1>3. \A n \in Nat : n \in H
  <2> HIDE DEF H
  <2> QED BY <1>1, <1>2, NatSetInduction
<1> QED BY <1>3

LEMMA IsPow2 == \A n \in Nat : ispow2(n) <=> n = 0 \/ \E e \in Nat : n = twoto[e]
BY TwoToType DEF ispow2

\* luaO_ceillog2 rounds up, and only as far as needed.
LEMMA RoundUpProperties ==
    ASSUME NEW n \in Nat
    PROVE  /\ RoundUp(n) \in Nat /\ n <= RoundUp(n) /\ 1 <= RoundUp(n)
           /\ \A e \in Nat : n <= twoto[e] /\ twoto[e] < 2 * n => RoundUp(n) = twoto[e]
<1> DEFINE S == {e \in 0..n : n <= twoto[e]}
           c == luaO_ceillog2(n)
<1>1. S \in SUBSET Nat /\ n \in S
  BY TwoToType
<1>2. c \in S /\ \A e \in S : c <= e
  <2> HIDE DEF S
  <2>1. Min(S) \in S /\ \A e \in S : Min(S) <= e
    BY <1>1, MinLeast
  <2> QED BY <2>1 DEF luaO_ceillog2, S
<1>3. RoundUp(n) = twoto[c] /\ c \in Nat /\ c <= n /\ n <= twoto[c]
  BY <1>2 DEF RoundUp
<1> HIDE DEF c
<1>4. ASSUME NEW e \in Nat, n <= twoto[e], twoto[e] < 2 * n PROVE c = e
  <2>1. CASE c < e
    BY <1>3, <1>4, <2>1, TwoToGrows, TwoToType
  <2>2. CASE e < c
    BY <1>2, <1>3, <1>4, <2>2
  <2> QED BY <1>3, <2>1, <2>2
<1> QED BY <1>3, <1>4, TwoToType

(***************************************************************************)
(* The inductive invariant.                                                *)
(***************************************************************************)

Node == [key : Keys \cup {Nil}, dead : BOOLEAN, val : Values \cup {Nil}, next : Nat]

Table == [array : Seq(Values \cup {Nil}), alimit : Nat, realsize : BOOLEAN,
          node : Seq(Node), lastfree : Nat]

\* alimit is the size, or a hint in the upper half of a power of two.
Sized(tb) ==
    IF tb.realsize THEN tb.alimit = Len(tb.array)
    ELSE \E e \in Nat : /\ Len(tb.array) = twoto[e]
                        /\ tb.alimit <= Len(tb.array) /\ Len(tb.array) < 2 * tb.alimit

Used(nodes) == {p \in DOMAIN nodes : nodes[p].key # Nil}

Home(nodes, p) == MainPosition(nodes, nodes[p].key)

\* The chain from q leads to p.
Leads(nodes, q, p) ==
    \A S \in SUBSET DOMAIN nodes :
        q \in S /\ (\A x \in S : nodes[x].next \in S \cup {0}) => p \in S

\* T has the nodes of the chain from q up to p, and none but p has its key.
Before(nodes, T, q, p) ==
    /\ T \in SUBSET DOMAIN nodes /\ q \in T
    /\ \A x \in T : x # p => nodes[x].next \in T /\ nodes[x].key # nodes[p].key

\* A node that was never used is alone.
UnusedAlone(nodes) ==
    /\ \A p \in DOMAIN nodes : /\ nodes[p].next \in Used(nodes) \cup {0}
                               /\ nodes[p].key = Nil => nodes[p] = EmptyNode
    /\ \A p, q \in DOMAIN nodes : nodes[p].next = nodes[q].next /\ nodes[p].next # 0 => p = q

\* A key has died with its value, and lives at most once.
Lives(nodes) ==
    /\ \A p \in DOMAIN nodes :
          nodes[p].dead => nodes[p].val = Nil /\ nodes[p].key \in Strings \cup Objects
    /\ \A p, q \in Used(nodes) :
          nodes[p].key = nodes[q].key /\ ~nodes[p].dead /\ ~nodes[q].dead => p = q

InMainPosition(nodes) ==
    \A p \in Used(nodes) : /\ Home(nodes, p) \in Used(nodes)
                           /\ Home(nodes, Home(nodes, p)) = Home(nodes, p)

\* Each key is found from its main position, a live one before the dead.
Found(nodes) ==
    /\ \A p \in Used(nodes) : Leads(nodes, Home(nodes, p), p)
    /\ \A p \in Used(nodes) :
          ~nodes[p].dead => \E T \in SUBSET DOMAIN nodes : Before(nodes, T, Home(nodes, p), p)

Chained(nodes) == UnusedAlone(nodes) /\ Lives(nodes) /\ InMainPosition(nodes) /\ Found(nodes)

Free(tb) ==
    /\ tb.lastfree \in 0..Len(tb.node)
    /\ \A p \in DOMAIN tb.node : p > tb.lastfree => p \in Used(tb.node)

\* Integers are in the array as far as it goes, and in the nodes beyond.
Divided(tb) ==
    /\ \A i \in DOMAIN tb.array : tb.array[i] # Nil => i \in Ints
    /\ \A p \in Used(tb.node) : tb.node[p].key \in Ints => tb.node[p].key > Len(tb.array)

TableOK(tb) == tb \in Table /\ Sized(tb) /\ Chained(tb.node) /\ Free(tb) /\ Divided(tb)

\* A traversal has met what comes up to the key it is at.
Traversal ==
    /\ at \in Keys \cup {Nil, Off}
    /\ at \in {Nil, Off} => seen = {}
    /\ at \in Keys =>
          /\ findindex(t, at) # 0
          /\ \A k \in Keys : map[k] # Nil =>
                (k \in seen <=> findindex(t, k) <= findindex(t, at))

IInv == TableOK(t) /\ map \in [Keys -> Values \cup {Nil}] /\ FindsWhatWasSet /\ Traversal

(***************************************************************************)
(* The array and its hint.                                                 *)
(***************************************************************************)

LEMMA SizedSize ==
    ASSUME NEW tb \in Table, Sized(tb)
    PROVE  luaH_realasize(tb) = Len(tb.array)
<1>1. tb.alimit \in Nat /\ Len(tb.array) \in Nat /\ tb.realsize \in BOOLEAN
  BY DEF Table
<1>2. CASE tb.realsize
  BY <1>2 DEF Sized, luaH_realasize, limitequalsasize
<1>3. CASE ~tb.realsize
  <2>1. PICK e \in Nat : /\ Len(tb.array) = twoto[e]
                         /\ tb.alimit <= Len(tb.array) /\ Len(tb.array) < 2 * tb.alimit
    BY <1>3 DEF Sized
  <2>2. CASE ispow2(tb.alimit)
    <3>1. tb.alimit = 0 \/ \E d \in Nat : tb.alimit = twoto[d]
      BY <1>1, <2>2, IsPow2
    <3>2. PICK d \in Nat : tb.alimit = twoto[d]
      BY <1>1, <2>1, <3>1
    <3>3. ~(d < e) /\ ~(e < d)
      BY <2>1, <3>2, TwoToGrows, TwoToType
    <3>4. d = e
      BY <3>3
    <3> QED BY <2>1, <2>2, <3>2, <3>4 DEF luaH_realasize, limitequalsasize
  <2>3. CASE ~ispow2(tb.alimit)
    <3>1. RoundUp(tb.alimit) = twoto[e]
      BY <1>1, <2>1, RoundUpProperties
    <3> QED BY <1>3, <2>1, <2>3, <3>1 DEF luaH_realasize, limitequalsasize
  <2> QED BY <2>2, <2>3
<1> QED BY <1>1, <1>2, <1>3

\* A hint in the upper half of an array whose size is a power of two.
LEMMA HintTellsSize ==
    ASSUME NEW tb \in Table, Sized(tb), ispow2realasize(tb), NEW n \in Nat,
           n <= Len(tb.array), Len(tb.array) < 2 * n
    PROVE  LET new == [tb EXCEPT !.alimit = n, !.realsize = FALSE]
           IN new \in Table /\ Sized(new)
<1>1. \E e \in Nat : Len(tb.array) = twoto[e]
  <2>1. CASE ~tb.realsize
    BY <2>1 DEF Sized
  <2>2. CASE tb.realsize
    <3>1. ispow2(tb.alimit) /\ tb.alimit \in Nat /\ tb.alimit = Len(tb.array)
      BY <2>2 DEF ispow2realasize, Table, Sized
    <3>2. Len(tb.array) # 0
      BY <3>1
    <3> QED BY <3>1, <3>2, IsPow2
  <2> QED BY <2>1, <2>2
<1> DEFINE new == [tb EXCEPT !.alimit = n, !.realsize = FALSE]
<1>2. new \in Table /\ new.array = tb.array /\ new.alimit = n /\ ~new.realsize
  BY DEF Table
<1>3. Sized(new)
  BY <1>1, <1>2 DEF Sized
<1> QED BY <1>2, <1>3

LEMMA GetMovesHint ==
    ASSUME NEW tb \in Table, Sized(tb), NEW k \in Keys
    PROVE  LET new == AfterGet(tb, k)
           IN /\ new \in Table /\ Sized(new)
              /\ new.array = tb.array /\ new.node = tb.node /\ new.lastfree = tb.lastfree
<1> DEFINE new == AfterGet(tb, k)
<1>1. CASE IsInteger(k) /\ InHiddenPart(tb, k)
  <2>1. k \in Nat
    BY <1>1 DEF Keys, Ints, IsInteger
  <2>2. k <= Len(tb.array) /\ tb.alimit < k /\ ~tb.realsize
    BY <1>1, SizedSize DEF InHiddenPart
  <2>3. Len(tb.array) < 2 * k
    <3>1. tb.alimit \in Nat /\ Len(tb.array) \in Nat /\ Len(tb.array) < 2 * tb.alimit
      BY <2>2 DEF Sized, Table
    <3> QED BY <2>1, <2>2, <3>1
  <2>4. new = [tb EXCEPT !.alimit = k, !.realsize = FALSE]
    BY <1>1, <2>2 DEF AfterGet, Table
  <2>5. ispow2realasize(tb)
    BY <2>2 DEF ispow2realasize
  <2>6. [tb EXCEPT !.alimit = k, !.realsize = FALSE] \in Table
        /\ Sized([tb EXCEPT !.alimit = k, !.realsize = FALSE])
    BY <2>1, <2>2, <2>3, <2>5, HintTellsSize
  <2> QED BY <2>4, <2>6 DEF Table
<1>2. CASE ~(IsInteger(k) /\ InHiddenPart(tb, k))
  BY <1>2 DEF AfterGet
<1> QED BY <1>1, <1>2

(***************************************************************************)
(* The search for a border.                                                *)
(***************************************************************************)

\* The step of binsearch.
Halve(present) == [b \in Nat \X Nat |->
    LET m == (b[1] + b[2]) \div 2
    IN IF b[2] - b[1] <= 1 THEN b ELSE IF m \in present THEN <<m, b[2]>> ELSE <<b[1], m>>]

\* The step of Doubled.
Double(present) == [d \in Nat |-> IF 2 * d \in present THEN 2 * d ELSE d]

LEMMA BinsearchRuns ==
    ASSUME NEW present, NEW i \in Nat, NEW j \in Nat, i <= j
    PROVE  \E f : /\ Loop(f, Nat \X Nat, Halve(present), <<i, j>>, j - i)
                  /\ binsearch(present, i, j) = f[j - i][1]
<1> DEFINE g == Halve(present)
           S == Nat \X Nat
           a == <<i, j>>
           Step(c) == LET m == (c[1] + c[2]) \div 2
                      IN IF c[2] - c[1] <= 1 THEN c
                         ELSE IF m \in present THEN <<m, c[2]>> ELSE <<c[1], m>>
           Equation(b) == b = [n \in 0..(j - i) |-> IF n = 0 THEN a ELSE Step(b[n - 1])]
           h == CHOOSE b : Equation(b)
<1>1. g \in [S -> S] /\ \A b \in S : g[b] = Step(b)
  <2>1. \A b \in S : g[b] = Step(b)
    BY DEF Halve
  <2>2. ASSUME NEW b \in S PROVE Step(b) \in S
    <3>1. b[1] \in Nat /\ b[2] \in Nat /\ (b[1] + b[2]) \div 2 \in Nat
      OBVIOUS
    <3> QED BY <3>1
  <2>3. g = [b \in S |-> Step(b)]
    BY DEF Halve
  <2> HIDE DEF g, S, Step
  <2> QED BY <2>1, <2>2, <2>3
<1>2. j - i \in Nat /\ a \in S
  OBVIOUS
<1>3. binsearch(present, i, j) = h[j - i][1]
  BY DEF binsearch
<1> HIDE DEF g, S, a, Step, h
<1>4. PICK N \in Nat : N = j - i
  BY <1>2
<1>5. PICK f : Loop(f, S, g, a, N)
  BY <1>1, <1>2, LoopExists
<1>6. Equation(f)
  <2>1. f = [n \in 0..N |-> f[n]] /\ f[0] = a
    BY <1>5 DEF Loop
  <2>2. ASSUME NEW n \in 0..N, n # 0 PROVE f[n] = Step(f[n - 1])
    <3>1. n \in 1..N /\ n - 1 \in 0..N
      BY <2>2
    <3> QED BY <1>1, <1>5, <3>1 DEF Loop
  <2> QED BY <1>4, <2>1, <2>2
<1>7. Equation(h)
  <2> HIDE DEF Equation
  <2> QED BY <1>6 DEF h
<1>8. /\ h = [n \in 0..N |-> h[n]] /\ h[0] = a
      /\ \A n \in 1..N : h[n - 1] \in S => h[n] = g[h[n - 1]]
  BY <1>1, <1>4, <1>7
<1>9. Loop(h, S, g, a, N)
  BY <1>1, <1>2, <1>8, LoopFrom
<1> QED BY <1>3, <1>4, <1>9 DEF g, S, a

LEMMA BinsearchBorder ==
    ASSUME NEW present, NEW i \in Nat, NEW j \in Nat, i < j, j \notin present
    PROVE  LET r == binsearch(present, i, j)
           IN /\ r \in Nat /\ i <= r /\ r < j
              /\ r = i \/ r \in present
              /\ r + 1 \notin present
<1>1. PICK f : /\ Loop(f, Nat \X Nat, Halve(present), <<i, j>>, j - i)
               /\ binsearch(present, i, j) = f[j - i][1]
  BY BinsearchRuns
<1> DEFINE Between(n, b) ==
              /\ b[1] \in Nat /\ b[2] \in Nat /\ i <= b[1] /\ b[1] < b[2]
              /\ b[2] <= j /\ (b[1] = i \/ b[1] \in present) /\ b[2] \notin present
              /\ b[2] - b[1] <= 1 \/ b[2] - b[1] <= (j - i) - n
           H == {n \in Nat : n <= j - i => Between(n, f[n])}
<1>2. 0 \in H
  BY <1>1 DEF Loop
<1>3. ASSUME NEW n \in Nat, n \in H PROVE n + 1 \in H
  <2> SUFFICES ASSUME n + 1 <= j - i PROVE Between(n + 1, f[n + 1])
    OBVIOUS
  <2>1. Between(n, f[n]) /\ n \in 0..(j - i) /\ n + 1 \in 1..(j - i)
    BY <1>3
  <2>2. f[n] \in Nat \X Nat /\ f[n + 1] = Halve(present)[f[n]]
    <3>1. PICK N \in Nat : N = j - i
      OBVIOUS
    <3> DEFINE S == Nat \X Nat
               a == <<i, j>>
               g == Halve(present)
    <3>2. Loop(f, S, g, a, N) /\ n + 1 <= N
      BY <1>1, <3>1
    <3> HIDE DEF S, a, g
    <3>3. f[n] \in S /\ f[n + 1] = g[f[n]]
      BY <3>2, LoopStep
    <3> QED BY <3>3 DEF S, g
  <2>3. ASSUME NEW b \in Nat \X Nat, Between(n, b) PROVE Between(n + 1, Halve(present)[b])
    <3> DEFINE m == (b[1] + b[2]) \div 2
    <3>1. CASE b[2] - b[1] <= 1
      BY <2>3, <3>1 DEF Halve
    <3>2. CASE ~(b[2] - b[1] <= 1)
      <4>1. m \in Nat /\ b[1] < m /\ m < b[2]
        BY <2>3, <3>2
      <4>2. CASE m \in present
        <5>1. Halve(present)[b] = <<m, b[2]>>
          BY <3>2, <4>2 DEF Halve
        <5> HIDE DEF m
        <5>2. Between(n + 1, <<m, b[2]>>)
          BY <2>3, <3>2, <4>1, <4>2
        <5> QED BY <5>1, <5>2
      <4>3. CASE m \notin present
        <5>1. Halve(present)[b] = <<b[1], m>>
          BY <3>2, <4>3 DEF Halve
        <5> HIDE DEF m
        <5>2. Between(n + 1, <<b[1], m>>)
          BY <2>3, <3>2, <4>1, <4>3
        <5> QED BY <5>1, <5>2
      <4> QED BY <4>2, <4>3
    <3> QED BY <3>1, <3>2
  <2> HIDE DEF Between
  <2> QED BY <2>1, <2>2, <2>3
<1>4. \A n \in Nat : n \in H
  <2> HIDE DEF H
  <2> QED BY <1>2, <1>3, NatSetInduction
<1>5. j - i \in Nat /\ Between(j - i, f[j - i])
  BY <1>4
<1>6. f[j - i][2] = f[j - i][1] + 1
  BY <1>5
<1> QED BY <1>1, <1>5, <1>6

LEMMA DoubledRuns ==
    ASSUME NEW present, NEW i \in Nat
    PROVE  \E f : /\ Loop(f, Nat, Double(present), i, MaxInt)
                  /\ Doubled(present, i) = f[MaxInt]
<1> DEFINE g == Double(present)
           Step(d) == IF 2 * d \in present THEN 2 * d ELSE d
           Equation(b) == b = [n \in 0..MaxInt |-> IF n = 0 THEN i ELSE Step(b[n - 1])]
           h == CHOOSE b : Equation(b)
<1>1. g \in [Nat -> Nat] /\ \A d \in Nat : g[d] = Step(d)
  BY DEF Double
<1>2. MaxInt \in Nat
  BY TableAssumption
<1>3. Doubled(present, i) = h[MaxInt]
  BY DEF Doubled
<1> HIDE DEF g, Step, h
<1>4. PICK f : Loop(f, Nat, g, i, MaxInt)
  BY <1>1, <1>2, LoopExists
<1>5. Equation(f)
  <2>1. f = [n \in 0..MaxInt |-> f[n]] /\ f[0] = i
    BY <1>2, <1>4 DEF Loop
  <2>2. ASSUME NEW n \in 0..MaxInt, n # 0 PROVE f[n] = Step(f[n - 1])
    <3>1. n \in 1..MaxInt /\ n - 1 \in 0..MaxInt
      BY <1>2, <2>2
    <3> QED BY <1>1, <1>4, <3>1 DEF Loop
  <2> QED BY <2>1, <2>2
<1>6. Equation(h)
  <2> HIDE DEF Equation
  <2> QED BY <1>5 DEF h
<1>7. /\ h = [n \in 0..MaxInt |-> h[n]] /\ h[0] = i
      /\ \A n \in 1..MaxInt : h[n - 1] \in Nat => h[n] = g[h[n - 1]]
  <2>1. \A n \in 1..MaxInt : n \in 0..MaxInt /\ n # 0
    BY <1>2
  <2>2. 0 \in 0..MaxInt
    BY <1>2
  <2>3. \A n \in 1..MaxInt : h[n] = Step(h[n - 1])
    BY <1>6, <2>1
  <2> QED BY <1>1, <1>6, <2>2, <2>3
<1>8. Loop(h, Nat, g, i, MaxInt)
  BY <1>1, <1>2, <1>7, LoopFrom
<1> QED BY <1>3, <1>8 DEF g

LEMMA DoubledBorder ==
    ASSUME NEW present \in SUBSET Ints, NEW i \in Nat, 1 <= i
    PROVE  LET d == Doubled(present, i)
           IN d \in Nat /\ i <= d /\ (d = i \/ d \in present) /\ 2 * d \notin present
<1>0. MaxInt \in Nat
  BY TableAssumption
<1>1. PICK f : Loop(f, Nat, Double(present), i, MaxInt) /\ Doubled(present, i) = f[MaxInt]
  BY DoubledRuns
<1> DEFINE Reached(n, d) == /\ d \in Nat /\ i <= d /\ (d = i \/ d \in present)
                            /\ 2 * d \notin present \/ n < d
           H == {n \in Nat : n <= MaxInt => Reached(n, f[n])}
<1>2. 0 \in H
  BY <1>0, <1>1 DEF Loop
<1>3. ASSUME NEW n \in Nat, n \in H PROVE n + 1 \in H
  <2> SUFFICES ASSUME n + 1 <= MaxInt PROVE Reached(n + 1, f[n + 1])
    OBVIOUS
  <2>1. Reached(n, f[n]) /\ n \in 0..MaxInt /\ n + 1 \in 1..MaxInt
    BY <1>0, <1>3
  <2>2. f[n] \in Nat /\ f[n + 1] = Double(present)[f[n]]
    BY <1>1, <2>1 DEF Loop
  <2> QED BY <2>1, <2>2 DEF Double
<1>4. \A n \in Nat : n \in H
  <2> HIDE DEF H
  <2> QED BY <1>2, <1>3, NatSetInduction
<1>5. Reached(MaxInt, f[MaxInt])
  BY <1>0, <1>4
<1> QED BY <1>0, <1>1, <1>5 DEF Ints

(***************************************************************************)
(* Chains and lookups.                                                     *)
(***************************************************************************)

Linked(nodes) ==
    nodes \in Seq(Node) /\ \A p \in DOMAIN nodes : nodes[p].next \in DOMAIN nodes \cup {0}

\* The step of Hops.
Follow(nodes) == [p \in DOMAIN nodes \cup {0} |-> IF p = 0 THEN 0 ELSE nodes[p].next]

LEMMA NodesDomain ==
    ASSUME NEW nodes \in Seq(Node)
    PROVE  /\ Len(nodes) \in Nat /\ DOMAIN nodes = 1..Len(nodes) /\ 0 \notin DOMAIN nodes
           /\ \A p \in DOMAIN nodes :
                 p \in Nat \ {0} /\ nodes[p] \in Node /\ nodes[p].next \in Nat
<1>1. Len(nodes) \in Nat /\ DOMAIN nodes = 1..Len(nodes)
  OBVIOUS
<1>2. \A p \in DOMAIN nodes : nodes[p] \in Node
  OBVIOUS
<1>3. \A x \in Node : x.next \in Nat
  BY DEF Node
<1> QED BY <1>1, <1>2, <1>3

LEMMA HopsRun ==
    ASSUME NEW nodes, Linked(nodes), NEW q \in DOMAIN nodes \cup {0}
    PROVE  Loop(Hops(nodes, q), DOMAIN nodes \cup {0}, Follow(nodes), q, Len(nodes))
<1> DEFINE S == DOMAIN nodes \cup {0}
           g == Follow(nodes)
           N == Len(nodes)
           Step(p) == IF p = 0 THEN 0 ELSE nodes[p].next
           Equation(b) == b = [n \in 0..N |-> IF n = 0 THEN q ELSE Step(b[n - 1])]
           h == CHOOSE b : Equation(b)
<1>1. g \in [S -> S] /\ \A p \in S : g[p] = Step(p)
  <2>1. \A p \in S : g[p] = Step(p) /\ Step(p) \in S
    BY DEF Follow, Linked
  <2>2. g = [p \in S |-> g[p]]
    BY DEF Follow
  <2> HIDE DEF g, S, Step
  <2> QED BY <2>1, <2>2
<1>2. N \in Nat
  BY NodesDomain DEF Linked
<1>3. Hops(nodes, q) = h
  BY DEF Hops
<1> HIDE DEF g, Step, h, N, S
<1>4. PICK f : Loop(f, S, g, q, N)
  BY <1>1, <1>2, LoopExists DEF S
<1>5. Equation(f)
  <2>1. f = [n \in 0..N |-> f[n]] /\ f[0] = q
    BY <1>2, <1>4 DEF Loop
  <2>2. ASSUME NEW n \in 0..N, n # 0 PROVE f[n] = Step(f[n - 1])
    <3>1. n \in 1..N /\ n - 1 \in 0..N
      BY <1>2, <2>2
    <3> QED BY <1>1, <1>4, <3>1 DEF Loop
  <2> QED BY <2>1, <2>2
<1>6. Equation(h)
  <2> HIDE DEF Equation
  <2> QED BY <1>5 DEF h
<1>7. /\ h = [n \in 0..N |-> h[n]] /\ h[0] = q
      /\ \A n \in 1..N : h[n - 1] \in S => h[n] = g[h[n - 1]]
  <2>1. \A n \in 1..N : n \in 0..N /\ n # 0
    BY <1>2
  <2>2. 0 \in 0..N
    BY <1>2
  <2>3. \A n \in 1..N : h[n] = Step(h[n - 1])
    BY <1>6, <2>1
  <2> QED BY <1>1, <1>6, <2>2, <2>3
<1>8. Loop(h, S, g, q, N)
  BY <1>1, <1>2, <1>7, LoopFrom DEF S
<1> QED BY <1>3, <1>8 DEF g, S, N

LEMMA HopsSteps ==
    ASSUME NEW nodes, Linked(nodes), NEW q \in DOMAIN nodes \cup {0}
    PROVE  LET h == Hops(nodes, q)
           IN /\ h[0] = q
              /\ \A n \in Nat : n <= Len(nodes) => h[n] \in DOMAIN nodes \cup {0}
              /\ \A n \in Nat : n + 1 <= Len(nodes) =>
                    h[n + 1] = IF h[n] = 0 THEN 0 ELSE nodes[h[n]].next
<1> DEFINE S == DOMAIN nodes \cup {0}
           h == Hops(nodes, q)
           N == Len(nodes)
           g == Follow(nodes)
<1>1. Loop(h, S, g, q, N) /\ N \in Nat
  BY HopsRun, NodesDomain DEF Linked
<1>2. \A p \in S : g[p] = IF p = 0 THEN 0 ELSE nodes[p].next
  BY DEF Follow
<1> HIDE DEF h, N, S, g
<1>3. h[0] = q /\ \A n \in Nat : n <= N => h[n] \in S
  BY <1>1 DEF Loop
<1>4. \A n \in Nat : n + 1 <= N => h[n] \in S /\ h[n + 1] = g[h[n]]
  BY <1>1, LoopStep
<1>5. \A n \in Nat : n + 1 <= N => h[n + 1] = IF h[n] = 0 THEN 0 ELSE nodes[h[n]].next
  BY <1>2, <1>4
<1> QED BY <1>3, <1>5 DEF h, S, N

\* A chain that has come to its end stays there, and one that comes back goes round.
LEMMA HopsRepeat ==
    ASSUME NEW nodes, Linked(nodes), NEW q \in DOMAIN nodes \cup {0},
           NEW i \in Nat, NEW j \in Nat, i <= j, j <= Len(nodes),
           Hops(nodes, q)[i] = Hops(nodes, q)[j]
    PROVE  \A n \in Nat : j + n <= Len(nodes) => Hops(nodes, q)[i + n] = Hops(nodes, q)[j + n]
<1> DEFINE h == Hops(nodes, q)
           N == Len(nodes)
           H == {n \in Nat : j + n <= N => h[i + n] = h[j + n]}
<1>1. \A n \in Nat : n + 1 <= N => h[n + 1] = IF h[n] = 0 THEN 0 ELSE nodes[h[n]].next
  BY HopsSteps
<1>2. N \in Nat
  BY NodesDomain DEF Linked
<1> HIDE DEF h, N
<1>3. 0 \in H
  <2>1. i + 0 = i /\ j + 0 = j
    OBVIOUS
  <2> QED BY <2>1 DEF h
<1>4. ASSUME NEW n \in Nat, n \in H PROVE n + 1 \in H
  <2> SUFFICES ASSUME j + (n + 1) <= N PROVE h[i + (n + 1)] = h[j + (n + 1)]
    OBVIOUS
  <2>1. h[i + n] = h[j + n]
    BY <1>2, <1>4
  <2>2. /\ i + n \in Nat /\ (i + n) + 1 <= N /\ i + (n + 1) = (i + n) + 1
        /\ j + n \in Nat /\ (j + n) + 1 <= N /\ j + (n + 1) = (j + n) + 1
    BY DEF N
  <2> QED BY <1>1, <2>1, <2>2
<1>5. \A n \in Nat : n \in H
  <2> HIDE DEF H
  <2> QED BY <1>3, <1>4, NatSetInduction
<1> QED BY <1>5 DEF h, N

\* The nodes of a chain come in fewer hops than there are nodes.
LEMMA LeadsHop ==
    ASSUME NEW nodes, Linked(nodes), NEW q \in DOMAIN nodes, NEW p, Leads(nodes, q, p)
    PROVE  \E i \in Nat : i < Len(nodes) /\ Hops(nodes, q)[i] = p
<1> DEFINE h == Hops(nodes, q)
           N == Len(nodes)
           R == {x \in DOMAIN nodes : \E i \in Nat : i < N /\ h[i] = x}
<1>1. /\ h[0] = q
      /\ \A n \in Nat : n <= N => h[n] \in DOMAIN nodes \cup {0}
      /\ \A n \in Nat : n + 1 <= N => h[n + 1] = IF h[n] = 0 THEN 0 ELSE nodes[h[n]].next
  BY HopsSteps
<1>2. N \in Nat /\ DOMAIN nodes = 1..N /\ 1 <= N /\ 0 \notin DOMAIN nodes
  BY NodesDomain DEF Linked
<1>3. \A i \in Nat, j \in Nat : i <= j /\ j <= N /\ h[i] = h[j] =>
        \A n \in Nat : j + n <= N => h[i + n] = h[j + n]
  BY HopsRepeat
<1> HIDE DEF h, N
<1>4. h[N] # 0 => \A i \in Nat : i <= N => h[i] \in DOMAIN nodes
  <2> SUFFICES ASSUME h[N] # 0, NEW i \in Nat, i <= N, h[i] = 0 PROVE FALSE
    BY <1>1
  <2>4. \A n \in Nat : i + n <= N => h[i + n] = 0
    <3> DEFINE H == {n \in Nat : i + n <= N => h[i + n] = 0}
    <3>1. 0 \in H
      <4>1. i + 0 = i
        OBVIOUS
      <4> QED BY <4>1
    <3>2. ASSUME NEW n \in Nat, n \in H PROVE n + 1 \in H
      <4> SUFFICES ASSUME i + (n + 1) <= N PROVE h[i + (n + 1)] = 0
        OBVIOUS
      <4>1. i + (n + 1) = (i + n) + 1 /\ i + n \in Nat /\ i + n <= N /\ h[i + n] = 0
        BY <1>2, <3>2
      <4> QED BY <1>1, <4>1
    <3>3. \A n \in Nat : n \in H
      <4> HIDE DEF H
      <4> QED BY <3>1, <3>2, NatSetInduction
    <3> QED BY <3>3
  <2>5. PICK n \in Nat : i + n = N
    <3>1. N - i \in Nat /\ i + (N - i) = N
      BY <1>2
    <3> QED BY <3>1
  <2>6. h[i + n] = 0
    <3>1. i + n <= N
      BY <1>2, <2>5
    <3> QED BY <2>4, <3>1
  <2> QED BY <2>5, <2>6
<1>5. h[N] # 0 => h[N] \in R
  <2> SUFFICES ASSUME h[N] # 0 PROVE h[N] \in R
    OBVIOUS
  <2> DEFINE f == [i \in 0..N |-> h[i]]
  <2>1. f \in [0..N -> 1..N]
    BY <1>2, <1>4
  <2>2. IsFiniteSet(0..N) /\ Cardinality(0..N) = N + 1 /\ IsFiniteSet(1..N) /\ Cardinality(1..N) = N
    BY <1>2, FS_Interval
  <2>3. \E x, y \in 0..N : x # y /\ f[x] = f[y]
    <3>1. Cardinality(1..N) < Cardinality(0..N)
      BY <1>2, <2>2
    <3> HIDE DEF f
    <3> QED BY <2>1, <2>2, <3>1, FS_PigeonHole
  <2>4. PICK i \in 0..N, j \in 0..N : i < j /\ h[i] = h[j]
    <3>1. PICK x \in 0..N, y \in 0..N : x # y /\ h[x] = h[y]
      BY <2>3
    <3>2. x \in Nat /\ y \in Nat
      OBVIOUS
    <3> QED BY <3>1, <3>2
  <2>5. PICK n \in Nat : j + n = N
    <3>1. N - j \in Nat /\ j + (N - j) = N
      BY <1>2
    <3> QED BY <3>1
  <2>6. /\ i \in Nat /\ j \in Nat /\ i <= j /\ j <= N /\ j + n <= N
        /\ i + n \in Nat /\ i + n < N
    BY <1>2, <2>4, <2>5
  <2>7. h[i + n] = h[j + n]
    BY <1>3, <2>4, <2>6
  <2>8. h[i + n] = h[N]
    BY <2>5, <2>7
  <2>9. h[N] \in DOMAIN nodes
    BY <1>2, <1>4
  <2> QED BY <2>6, <2>8, <2>9
<1>6. q \in R
  BY <1>1, <1>2
<1>7. ASSUME NEW x \in R PROVE nodes[x].next \in R \cup {0}
  <2>1. PICK i \in Nat : i < N /\ h[i] = x
    OBVIOUS
  <2>2. i + 1 \in Nat /\ i + 1 <= N /\ x # 0
    BY <1>2, <2>1
  <2>3. h[i + 1] = nodes[x].next
    BY <1>1, <2>1, <2>2
  <2>4. CASE i + 1 = N
    BY <1>5, <2>3, <2>4
  <2>5. CASE i + 1 < N
    BY <1>1, <2>2, <2>3, <2>5
  <2> QED BY <1>2, <2>2, <2>4, <2>5
<1>8. p \in R
  <2>1. R \in SUBSET DOMAIN nodes
    OBVIOUS
  <2> HIDE DEF R
  <2> QED BY <1>6, <1>7, <2>1 DEF Leads
<1> QED BY <1>8 DEF h, N

LEMMA MainPositionIn ==
    ASSUME NEW nodes \in Seq(Node), nodes # <<>>, NEW k \in Keys \cup Nat
    PROVE  MainPosition(nodes, k) \in DOMAIN nodes
<1> DEFINE h == IF IsInteger(k) THEN k ELSE Hash[k]
           d == IF k \in Strings \/ Len(nodes) = 1 THEN Len(nodes) ELSE Len(nodes) - 1
<1>1. Len(nodes) \in Nat /\ DOMAIN nodes = 1..Len(nodes) /\ Len(nodes) # 0
  <2>1. Len(nodes) \in Nat /\ DOMAIN nodes = 1..Len(nodes)
    BY NodesDomain
  <2>2. Len(nodes) # 0
    BY EmptySeq
  <2> QED BY <2>1, <2>2
<1>2. h \in Nat
  BY TableAssumption DEF Keys, Ints, IsInteger
<1>3. d \in Nat /\ 1 <= d /\ d <= Len(nodes)
  BY <1>1
<1>4. MainPosition(nodes, k) = 1 + (h % d)
  BY DEF MainPosition
<1> HIDE DEF h, d
<1>5. h % d \in Nat /\ h % d < d
  BY <1>2, <1>3
<1> QED BY <1>1, <1>3, <1>4, <1>5

LEMMA GetGeneric ==
    ASSUME NEW nodes, Linked(nodes), NEW k \in Keys \cup Nat, NEW deadok \in BOOLEAN
    PROVE  LET h == Hops(nodes, MainPosition(nodes, k))
               r == getgeneric(nodes, k, deadok)
           IN /\ r \in DOMAIN nodes \cup {0}
              /\ r # 0 => nodes[r].key = k /\ (deadok \/ ~nodes[r].dead)
              /\ r # 0 => \E m \in Nat :
                    /\ m < Len(nodes) /\ h[m] = r
                    /\ \A i \in Nat : i < m => ~ (h[i] # 0 /\ equalkey(nodes[h[i]], k, deadok))
              /\ r = 0 => \A i \in Nat :
                    i < Len(nodes) => ~ (h[i] # 0 /\ equalkey(nodes[h[i]], k, deadok))
<1> DEFINE h == Hops(nodes, MainPosition(nodes, k))
           r == getgeneric(nodes, k, deadok)
           N == Len(nodes)
           found == {i \in 0..(N - 1) : h[i] # 0 /\ equalkey(nodes[h[i]], k, deadok)}
<1>1. r = IF found = {} THEN 0 ELSE h[Min(found)]
  BY DEF getgeneric
<1>2. N \in Nat /\ 0 \notin DOMAIN nodes
  BY NodesDomain DEF Linked
<1>3. \A i \in Nat : i < N => h[i] \in DOMAIN nodes \cup {0}
  <2> SUFFICES ASSUME NEW i \in Nat, i < N PROVE h[i] \in DOMAIN nodes \cup {0}
    OBVIOUS
  <2>1. nodes # <<>>
    BY EmptySeq
  <2>2. MainPosition(nodes, k) \in DOMAIN nodes
    BY <2>1, MainPositionIn DEF Linked
  <2>3. \A n \in Nat : n <= Len(nodes) => h[n] \in DOMAIN nodes \cup {0}
    <3> DEFINE q == MainPosition(nodes, k)
    <3>1. q \in DOMAIN nodes \cup {0}
      BY <2>2
    <3> HIDE DEF q
    <3> QED BY <3>1, HopsSteps DEF q
  <2> QED BY <2>3, <1>2
<1>4. found \in SUBSET Nat
  OBVIOUS
<1> HIDE DEF h, r, N
<1>5. CASE found = {}
  <2>1. r = 0
    BY <1>1, <1>5
  <2>2. \A i \in Nat : i < N => ~ (h[i] # 0 /\ equalkey(nodes[h[i]], k, deadok))
    <3>1. \A i \in Nat : i < N => i \in 0..(N - 1)
      BY <1>2
    <3> QED BY <1>5, <3>1
  <2> QED BY <2>1, <2>2 DEF h, r, N
<1>6. CASE found # {}
  <2> DEFINE m == Min(found)
  <2>1. m \in found /\ \A i \in found : m <= i
    <3> HIDE DEF found
    <3> QED BY <1>4, <1>6, MinLeast
  <2>2. r = h[m]
    BY <1>1, <1>6
  <2> HIDE DEF m
  <2>3. m \in Nat /\ m < N /\ h[m] # 0 /\ equalkey(nodes[h[m]], k, deadok)
    BY <1>2, <2>1
  <2>4. r \in DOMAIN nodes /\ r # 0 /\ nodes[r].key = k /\ (deadok \/ ~nodes[r].dead)
    BY <1>3, <2>2, <2>3 DEF equalkey
  <2>5. \A i \in Nat : i < m => ~ (h[i] # 0 /\ equalkey(nodes[h[i]], k, deadok))
    <3>1. \A i \in Nat : i < m => i \in 0..(N - 1) /\ ~ (m <= i)
      BY <1>2, <2>3
    <3> QED BY <2>1, <3>1
  <2> QED BY <2>2, <2>3, <2>4, <2>5 DEF h, r, N
<1> QED BY <1>5, <1>6

\* A key that its chain leads to is found.
LEMMA LookupFinds ==
    ASSUME NEW nodes, Linked(nodes), NEW p \in DOMAIN nodes, NEW deadok \in BOOLEAN,
           nodes[p].key \in Keys, deadok \/ ~nodes[p].dead, Leads(nodes, Home(nodes, p), p)
    PROVE  getgeneric(nodes, nodes[p].key, deadok) # 0
<1> DEFINE k == nodes[p].key
           q == MainPosition(nodes, k)
<1>1. nodes # <<>> /\ 0 \notin DOMAIN nodes
  BY NodesDomain DEF Linked
<1>2. k \in Keys \cup Nat /\ q \in DOMAIN nodes
  BY <1>1, MainPositionIn DEF Linked
<1>3. Leads(nodes, q, p)
  BY DEF Home
<1> HIDE DEF q
<1>4. PICK i \in Nat : i < Len(nodes) /\ Hops(nodes, q)[i] = p
  BY <1>2, <1>3, LeadsHop
<1>5. Hops(nodes, q)[i] # 0 /\ equalkey(nodes[Hops(nodes, q)[i]], k, deadok)
  BY <1>1, <1>4 DEF equalkey
<1>6. getgeneric(nodes, k, deadok) = 0 =>
        \A j \in Nat : j < Len(nodes) => ~ (Hops(nodes, q)[j] # 0 /\ equalkey(nodes[Hops(nodes, q)[j]], k, deadok))
  <2> HIDE DEF k
  <2> QED BY <1>2, GetGeneric DEF q
<1> QED BY <1>4, <1>5, <1>6

\* A live key is found, wherever dead ones that look the same are.
LEMMA LookupLive ==
    ASSUME NEW nodes, Linked(nodes), NEW p \in DOMAIN nodes, NEW deadok \in BOOLEAN,
           nodes[p].key \in Keys, ~nodes[p].dead, Leads(nodes, Home(nodes, p), p),
           NEW T, Before(nodes, T, Home(nodes, p), p)
    PROVE  getgeneric(nodes, nodes[p].key, deadok) = p
<1> DEFINE k == nodes[p].key
           q == MainPosition(nodes, k)
           h == Hops(nodes, q)
           r == getgeneric(nodes, k, deadok)
           N == Len(nodes)
<1>1. nodes # <<>> /\ 0 \notin DOMAIN nodes /\ N \in Nat
  BY NodesDomain DEF Linked
<1>2. k \in Keys \cup Nat /\ q \in DOMAIN nodes /\ q = Home(nodes, p)
  BY <1>1, MainPositionIn DEF Linked, Home
<1>3. r # 0
  BY LookupFinds
<1>4. /\ nodes[r].key = k
      /\ \E m \in Nat :
            /\ m < N /\ h[m] = r
            /\ \A i \in Nat : i < m => ~ (h[i] # 0 /\ equalkey(nodes[h[i]], k, deadok))
  <2> HIDE DEF k
  <2> QED BY <1>2, <1>3, GetGeneric
<1>5. PICK m \in Nat :
            /\ m < N /\ h[m] = r
            /\ \A i \in Nat : i < m => ~ (h[i] # 0 /\ equalkey(nodes[h[i]], k, deadok))
  BY <1>4
<1>6. /\ h[0] = q
      /\ \A n \in Nat : n + 1 <= N => h[n + 1] = IF h[n] = 0 THEN 0 ELSE nodes[h[n]].next
  <2> HIDE DEF q
  <2> QED BY <1>2, HopsSteps
<1>7. /\ T \in SUBSET DOMAIN nodes /\ q \in T
      /\ \A x \in T : x # p => nodes[x].next \in T /\ nodes[x].key # k
  BY <1>2 DEF Before
<1> HIDE DEF h, r, N, q
<1>8. \A n \in Nat : n < m => h[n] # p
  BY <1>1, <1>5 DEF equalkey
<1> DEFINE H == {n \in Nat : n <= m => h[n] \in T}
<1>9. 0 \in H
  BY <1>6, <1>7
<1>10. ASSUME NEW n \in Nat, n \in H PROVE n + 1 \in H
  <2> SUFFICES ASSUME n + 1 <= m PROVE h[n + 1] \in T
    OBVIOUS
  <2>1. h[n] \in T /\ n < m /\ n + 1 <= N
    BY <1>1, <1>5, <1>10
  <2>2. h[n] # p /\ h[n] # 0
    BY <1>1, <1>7, <1>8, <2>1
  <2> QED BY <1>6, <1>7, <2>1, <2>2
<1>11. \A n \in Nat : n \in H
  <2> HIDE DEF H
  <2> QED BY <1>9, <1>10, NatSetInduction
<1>12. r \in T
  BY <1>5, <1>11
<1>13. r = p
  BY <1>4, <1>7, <1>12
<1> QED BY <1>13 DEF r

\* Whether a node is dead or has a value does not matter to a traversal.
LEMMA LookupSame ==
    ASSUME NEW a, Linked(a), NEW b, Linked(b), Len(a) = Len(b),
           \A p \in DOMAIN a : a[p].key = b[p].key /\ a[p].next = b[p].next,
           NEW k \in Keys \cup Nat
    PROVE  getgeneric(a, k, TRUE) = getgeneric(b, k, TRUE)
<1> DEFINE q == MainPosition(a, k)
           N == Len(a)
<1>1. N \in Nat /\ DOMAIN a = DOMAIN b /\ DOMAIN a = 1..N /\ q = MainPosition(b, k)
  BY NodesDomain DEF Linked, MainPosition
<1>2. CASE a = <<>>
  <2>1. 0..(N - 1) = {}
    BY <1>2
  <2>2. getgeneric(a, k, TRUE) = 0 /\ getgeneric(b, k, TRUE) = 0
    BY <2>1 DEF getgeneric
  <2> QED BY <2>2
<1>3. CASE a # <<>>
  <2>1. q \in DOMAIN a \cup {0} /\ q \in DOMAIN b \cup {0}
    BY <1>1, <1>3, MainPositionIn DEF Linked
  <2>2. Follow(a) = Follow(b)
    BY <1>1 DEF Follow
  <2> DEFINE S == DOMAIN a \cup {0}
             g == Follow(a)
             h == Hops(a, q)
             j == Hops(b, q)
  <2> HIDE DEF q
  <2>3. Loop(h, S, g, q, N) /\ Loop(j, S, g, q, N)
    BY <1>1, <2>1, <2>2, HopsRun
  <2> HIDE DEF S, g, h, j, N
  <2>4. \A i \in Nat : i <= N => h[i] = j[i]
    BY <1>1, <2>3, LoopUnique
  <2>5. h = j /\ \A i \in 0..N : h[i] \in S
    BY <1>1, <2>3, <2>4 DEF Loop
  <2>6. \A i \in 0..(N - 1) : h[i] # 0 =>
           (equalkey(a[h[i]], k, TRUE) <=> equalkey(b[j[i]], k, TRUE))
    <3>1. \A i \in 0..(N - 1) : i \in 0..N
      BY <1>1
    <3> QED BY <2>5, <3>1 DEF equalkey, S
  <2> DEFINE F == {i \in 0..(N - 1) : h[i] # 0 /\ equalkey(a[h[i]], k, TRUE)}
             G == {i \in 0..(N - 1) : j[i] # 0 /\ equalkey(b[j[i]], k, TRUE)}
  <2>7. F = G
    BY <2>5, <2>6
  <2> DEFINE x == getgeneric(a, k, TRUE)
             y == getgeneric(b, k, TRUE)
  <2>8. x = IF F = {} THEN 0 ELSE h[Min(F)]
    BY DEF getgeneric, q, h, N
  <2>9. y = IF G = {} THEN 0 ELSE j[Min(G)]
    BY <1>1 DEF getgeneric, q, j, N
  <2>10. h = j
    BY <2>5
  <2> HIDE DEF F, G, x, y
  <2>11. x = y
    BY <2>7, <2>8, <2>9, <2>10
  <2> QED BY <2>11 DEF x, y
<1> QED BY <1>2, <1>3

(***************************************************************************)
(* luaH_newkey.                                                            *)
(***************************************************************************)

\* No node has the key, but dead ones.
NoLive(nodes, k) == \A p \in DOMAIN nodes : nodes[p].key = k => nodes[p].dead

LEMMA KeysNotNil == Nil \notin Keys /\ Off \notin Keys /\ Nil \notin Values
BY TableAssumption

\* The main position m has no value: the key takes it, and stays in whatever chain.
Reused(a, b, k, v, m) ==
    /\ Len(b) = Len(a) /\ m \in DOMAIN a /\ m = MainPosition(a, k)
    /\ b[m] = [key |-> k, dead |-> FALSE, val |-> v, next |-> a[m].next]
    /\ \A p \in DOMAIN a : p # m => b[p] = a[p]

LEMMA ReuseMain ==
    ASSUME NEW a \in Seq(Node), Chained(a), NEW b \in Seq(Node),
           NEW k \in Keys, NEW v \in Values, NoLive(a, k), NEW m, Reused(a, b, k, v, m)
    PROVE  Chained(b) /\ Used(b) = Used(a) \cup {m}
<1> USE DEF Chained, Reused
<1>1. DOMAIN b = DOMAIN a /\ \A x : MainPosition(b, x) = MainPosition(a, x)
  BY NodesDomain DEF MainPosition
<1>2. /\ \A p \in DOMAIN a : b[p].next = a[p].next
      /\ \A p \in DOMAIN a : p # m => b[p].key = a[p].key /\ b[p].dead = a[p].dead /\ b[p].val = a[p].val
      /\ b[m].key = k /\ b[m].dead = FALSE /\ b[m].val = v /\ k # Nil
  BY KeysNotNil
<1>3. Used(b) = Used(a) \cup {m}
  BY <1>1, <1>2 DEF Used
<1>4. /\ \A p \in Used(a) : p # m => Home(b, p) = Home(a, p)
      /\ Home(b, m) = m
  BY <1>1, <1>2 DEF Home, Used
<1>5. UnusedAlone(b)
  <2>1. ASSUME NEW p \in DOMAIN b PROVE b[p].next \in Used(b) \cup {0}
    BY <1>1, <1>2, <1>3 DEF UnusedAlone
  <2>2. ASSUME NEW p \in DOMAIN b, b[p].key = Nil PROVE b[p] = EmptyNode
    BY <1>1, <1>2, <2>2 DEF UnusedAlone
  <2>3. \A p, q \in DOMAIN b : b[p].next = b[q].next /\ b[p].next # 0 => p = q
    BY <1>1, <1>2 DEF UnusedAlone
  <2> QED BY <2>1, <2>2, <2>3 DEF UnusedAlone
<1>6. Lives(b)
  <2>1. ASSUME NEW p \in DOMAIN b, b[p].dead PROVE b[p].val = Nil /\ b[p].key \in Strings \cup Objects
    BY <1>1, <1>2, <2>1 DEF Lives
  <2>2. ASSUME NEW p \in Used(b), NEW q \in Used(b), b[p].key = b[q].key, ~b[p].dead, ~b[q].dead
        PROVE  p = q
    <3>1. p \in DOMAIN a /\ q \in DOMAIN a
      BY <1>1 DEF Used
    <3>2. CASE p = m \/ q = m
      BY <1>2, <2>2, <3>1, <3>2 DEF NoLive
    <3>3. CASE p # m /\ q # m
      BY <1>2, <1>3, <2>2, <3>1, <3>3 DEF Lives
    <3> QED BY <3>2, <3>3
  <2> QED BY <2>1, <2>2 DEF Lives
<1>7. InMainPosition(b)
  <2> SUFFICES ASSUME NEW p \in Used(b)
               PROVE  Home(b, p) \in Used(b) /\ Home(b, Home(b, p)) = Home(b, p)
    BY DEF InMainPosition
  <2>1. CASE p = m
    BY <1>3, <1>4, <2>1
  <2>2. CASE p # m
    <3>1. p \in Used(a) /\ Home(b, p) = Home(a, p)
      BY <1>3, <1>4, <2>2
    <3>2. Home(a, p) \in Used(a) /\ Home(a, Home(a, p)) = Home(a, p)
      BY <3>1 DEF InMainPosition
    <3> QED BY <1>3, <1>4, <3>1, <3>2
  <2> QED BY <2>1, <2>2
<1>8. Found(b)
  <2>1. ASSUME NEW p \in Used(b) PROVE Leads(b, Home(b, p), p)
    <3>1. CASE p = m
      BY <1>4, <3>1 DEF Leads
    <3>2. CASE p # m
      <4>1. p \in Used(a) /\ Home(b, p) = Home(a, p) /\ Leads(a, Home(a, p), p)
        BY <1>3, <1>4, <3>2 DEF Found
      <4> QED BY <1>1, <1>2, <4>1 DEF Leads
    <3> QED BY <3>1, <3>2
  <2>2. ASSUME NEW p \in Used(b), ~b[p].dead
        PROVE  \E T \in SUBSET DOMAIN b : Before(b, T, Home(b, p), p)
    <3>1. CASE p = m
      <4>1. Before(b, {m}, Home(b, p), p)
        BY <1>1, <1>4, <3>1 DEF Before
      <4> QED BY <1>1, <4>1
    <3>2. CASE p # m
      <4>1. p \in Used(a) /\ p \in DOMAIN a /\ Home(b, p) = Home(a, p) /\ ~a[p].dead
        BY <1>2, <1>3, <1>4, <2>2, <3>2 DEF Used
      <4>2. PICK T \in SUBSET DOMAIN a : Before(a, T, Home(a, p), p)
        BY <4>1 DEF Found
      <4>3. a[p].key # k
        BY <4>1 DEF NoLive
      <4>4. Before(b, T, Home(b, p), p)
        BY <1>1, <1>2, <3>2, <4>1, <4>2, <4>3 DEF Before
      <4> QED BY <1>1, <4>4
    <3> QED BY <3>1, <3>2
  <2> QED BY <2>1, <2>2 DEF Found
<1> QED BY <1>3, <1>5, <1>6, <1>7, <1>8

\* The main position m belongs to its key: the new one comes behind it, in f.
PutBehind(a, b, k, v, m, f) ==
    /\ Len(b) = Len(a) /\ m \in DOMAIN a /\ m = MainPosition(a, k)
    /\ a[m].val # Nil /\ Home(a, m) = m
    /\ f \in DOMAIN a /\ a[f].key = Nil
    /\ b[m] = [a[m] EXCEPT !.next = f]
    /\ b[f] = [key |-> k, dead |-> FALSE, val |-> v, next |-> a[m].next]
    /\ \A p \in DOMAIN a : p # m /\ p # f => b[p] = a[p]

LEMMA PutBehindMain ==
    ASSUME NEW a \in Seq(Node), Chained(a), NEW b \in Seq(Node),
           NEW k \in Keys, NEW v \in Values, NoLive(a, k),
           NEW m, NEW f, PutBehind(a, b, k, v, m, f)
    PROVE  Chained(b) /\ Used(b) = Used(a) \cup {f}
<1> USE DEF Chained, PutBehind
<1>1. DOMAIN b = DOMAIN a /\ \A x : MainPosition(b, x) = MainPosition(a, x)
  BY NodesDomain DEF MainPosition
<1>2. a[f] = EmptyNode /\ a[f].next = 0 /\ m \in Used(a) /\ ~a[m].dead /\ m # f
  BY DEF UnusedAlone, EmptyNode, Used, Lives
<1>3. a[m] \in Node /\ f \in Nat /\ f # 0 /\ m # 0 /\ 0 \notin DOMAIN a
  BY NodesDomain
<1>4. /\ \A p \in DOMAIN a : p # m /\ p # f => b[p].next = a[p].next
      /\ b[m].next = f /\ b[f].next = a[m].next
      /\ \A p \in DOMAIN a : p # f => b[p].key = a[p].key /\ b[p].dead = a[p].dead /\ b[p].val = a[p].val
      /\ b[f].key = k /\ b[f].dead = FALSE /\ b[f].val = v /\ k # Nil
  <2>1. /\ b[m].next = f /\ b[m].key = a[m].key /\ b[m].dead = a[m].dead /\ b[m].val = a[m].val
    BY <1>3 DEF Node
  <2>2. b[f].next = a[m].next /\ b[f].key = k /\ b[f].dead = FALSE /\ b[f].val = v /\ k # Nil
    BY KeysNotNil
  <2> QED BY <2>1, <2>2
<1>5. Used(b) = Used(a) \cup {f} /\ f \notin Used(a)
  BY <1>1, <1>4 DEF Used
<1>6. /\ \A p \in Used(a) : Home(b, p) = Home(a, p)
      /\ Home(b, f) = m /\ Home(b, m) = m
  BY <1>1, <1>2, <1>4 DEF Home, Used
<1>7. \A p \in DOMAIN a : a[p].next \in Used(a) \cup {0} /\ a[p].next # f
  BY <1>3, <1>5 DEF UnusedAlone
<1>8. UnusedAlone(b)
  <2>1. ASSUME NEW p \in DOMAIN b PROVE b[p].next \in Used(b) \cup {0}
    BY <1>1, <1>4, <1>5, <1>7
  <2>2. ASSUME NEW p \in DOMAIN b, b[p].key = Nil PROVE b[p] = EmptyNode
    <3>1. p # f /\ p # m /\ p \in DOMAIN a
      BY <1>1, <1>2, <1>4, <2>2 DEF Used
    <3> QED BY <1>4, <2>2, <3>1 DEF UnusedAlone
  <2>3. ASSUME NEW p \in DOMAIN b, NEW q \in DOMAIN b, b[p].next = b[q].next, b[p].next # 0
        PROVE  p = q
    <3>1. \A x, y \in DOMAIN a : a[x].next = a[y].next /\ a[x].next # 0 => x = y
      BY DEF UnusedAlone
    <3>2. p \in DOMAIN a /\ q \in DOMAIN a
      BY <1>1
    <3>3. \A x \in DOMAIN a : x # m => b[x].next # f
      BY <1>4, <1>7
    <3>4. \A x \in DOMAIN a : x # m /\ x # f /\ a[x].next # 0 => b[x].next # a[m].next
      BY <1>4, <3>1
    <3>5. CASE p = m \/ q = m
      <4>1. b[p].next = f /\ b[q].next = f
        BY <1>4, <2>3, <3>5
      <4> QED BY <3>2, <3>3, <4>1
    <3>6. CASE (p = f \/ q = f) /\ p # m /\ q # m
      <4>1. ASSUME p = f, q # f PROVE FALSE
        <5>1. b[p].next = a[m].next /\ b[q].next = a[q].next
          BY <1>4, <3>2, <3>6, <4>1
        <5> QED BY <2>3, <3>2, <3>4, <3>6, <4>1, <5>1
      <4>2. ASSUME q = f, p # f PROVE FALSE
        <5>1. b[q].next = a[m].next /\ b[p].next = a[p].next
          BY <1>4, <3>2, <3>6, <4>2
        <5> QED BY <2>3, <3>2, <3>4, <3>6, <4>2, <5>1
      <4> QED BY <3>6, <4>1, <4>2
    <3>7. CASE p # f /\ q # f /\ p # m /\ q # m
      BY <1>4, <2>3, <3>1, <3>2, <3>7
    <3> QED BY <3>5, <3>6, <3>7
  <2> QED BY <2>1, <2>2, <2>3 DEF UnusedAlone
<1>9. Lives(b)
  <2>1. ASSUME NEW p \in DOMAIN b, b[p].dead PROVE b[p].val = Nil /\ b[p].key \in Strings \cup Objects
    BY <1>1, <1>4, <2>1 DEF Lives
  <2>2. ASSUME NEW p \in Used(b), NEW q \in Used(b), b[p].key = b[q].key, ~b[p].dead, ~b[q].dead
        PROVE  p = q
    <3>1. p \in DOMAIN a /\ q \in DOMAIN a
      BY <1>1 DEF Used
    <3>2. CASE p = f \/ q = f
      BY <1>4, <2>2, <3>1, <3>2 DEF NoLive
    <3>3. CASE p # f /\ q # f
      BY <1>4, <1>5, <2>2, <3>1, <3>3 DEF Lives
    <3> QED BY <3>2, <3>3
  <2> QED BY <2>1, <2>2 DEF Lives
<1>10. InMainPosition(b)
  <2> SUFFICES ASSUME NEW p \in Used(b)
               PROVE  Home(b, p) \in Used(b) /\ Home(b, Home(b, p)) = Home(b, p)
    BY DEF InMainPosition
  <2>1. CASE p = f
    BY <1>2, <1>5, <1>6, <2>1
  <2>2. CASE p # f
    <3>1. p \in Used(a) /\ Home(b, p) = Home(a, p)
      BY <1>5, <1>6, <2>2
    <3>2. Home(a, p) \in Used(a) /\ Home(a, Home(a, p)) = Home(a, p)
      BY <3>1 DEF InMainPosition
    <3> QED BY <1>5, <1>6, <3>1, <3>2
  <2> QED BY <2>1, <2>2
<1>11. ASSUME NEW p \in Used(b) PROVE Leads(b, Home(b, p), p)
  <2> SUFFICES ASSUME NEW S \in SUBSET DOMAIN b, Home(b, p) \in S,
                      \A x \in S : b[x].next \in S \cup {0}
               PROVE  p \in S
    BY DEF Leads
  <2>1. CASE p = f
    BY <1>3, <1>4, <1>6, <2>1
  <2>2. CASE p # f
    <3> DEFINE R == S \ {f}
    <3>1. p \in Used(a) /\ Home(b, p) = Home(a, p) /\ Home(a, p) \in Used(a) /\ Leads(a, Home(a, p), p)
      BY <1>5, <1>6, <2>2 DEF Found, InMainPosition
    <3>2. R \in SUBSET DOMAIN a /\ Home(a, p) \in R
      BY <1>1, <1>5, <3>1
    <3>3. ASSUME NEW x \in R PROVE a[x].next \in R \cup {0}
      <4>1. x \in DOMAIN a /\ x # f /\ a[x].next # f /\ b[x].next \in S \cup {0}
        BY <1>1, <1>7
      <4>2. CASE x = m
        <5>1. f \in S
          BY <1>3, <1>4, <4>1, <4>2
        <5>2. b[f].next \in S \cup {0}
          BY <5>1
        <5> QED BY <1>4, <4>1, <4>2, <5>2
      <4>3. CASE x # m
        BY <1>4, <4>1, <4>3
      <4> QED BY <4>2, <4>3
    <3>4. p \in R
      <4> HIDE DEF R
      <4> QED BY <3>1, <3>2, <3>3 DEF Leads
    <3> QED BY <3>4
  <2> QED BY <2>1, <2>2
<1>12. ASSUME NEW p \in Used(b), ~b[p].dead
       PROVE  \E T \in SUBSET DOMAIN b : Before(b, T, Home(b, p), p)
  <2>1. CASE p = f
    <3>1. a[m].key # k
      BY <1>2 DEF NoLive
    <3>2. Before(b, {m, f}, Home(b, p), p)
      BY <1>1, <1>2, <1>4, <1>6, <2>1, <3>1 DEF Before
    <3> QED BY <1>1, <3>2
  <2>2. CASE p # f
    <3>1. p \in Used(a) /\ p \in DOMAIN a /\ Home(b, p) = Home(a, p) /\ ~a[p].dead
      BY <1>4, <1>5, <1>6, <1>12, <2>2 DEF Used
    <3>2. PICK T \in SUBSET DOMAIN a : Before(a, T, Home(a, p), p)
      BY <3>1 DEF Found
    <3>3. a[p].key # k
      BY <3>1 DEF NoLive
    <3>4. f \notin T
      <4> SUFFICES ASSUME f \in T PROVE FALSE
        OBVIOUS
      <4>1. a[f].next \in T
        BY <2>2, <3>2 DEF Before
      <4> QED BY <1>2, <1>3, <4>1
    <3>5. /\ Home(a, p) \in T
          /\ \A x \in T : x # p => a[x].next \in T /\ a[x].key # a[p].key
      BY <3>2 DEF Before
    <3>6. CASE m \in T /\ m # p
      <4>1. ASSUME NEW x \in T \cup {f}, x # p
            PROVE  b[x].next \in T \cup {f} /\ b[x].key # b[p].key
        <5>1. CASE x = f
          BY <1>4, <2>2, <3>1, <3>3, <3>5, <3>6, <5>1
        <5>2. CASE x # f
          <6>1. x \in T /\ x \in DOMAIN a /\ a[x].next \in T /\ a[x].key # a[p].key
            BY <3>5, <4>1, <5>2
          <6>2. b[x].next = a[x].next \/ b[x].next = f
            BY <1>4, <5>2, <6>1
          <6>3. b[x].key = a[x].key /\ b[p].key = a[p].key
            BY <1>4, <2>2, <3>1, <5>2, <6>1
          <6> QED BY <6>1, <6>2, <6>3
        <5> QED BY <5>1, <5>2
      <4>2. Before(b, T \cup {f}, Home(b, p), p)
        BY <1>1, <3>1, <3>5, <4>1 DEF Before
      <4> QED BY <1>1, <4>2
    <3>7. CASE ~ (m \in T /\ m # p)
      <4>1. ASSUME NEW x \in T, x # p PROVE b[x].next \in T /\ b[x].key # b[p].key
        BY <1>4, <2>2, <3>1, <3>4, <3>5, <3>7, <4>1
      <4>2. Before(b, T, Home(b, p), p)
        BY <1>1, <3>1, <3>5, <4>1 DEF Before
      <4> QED BY <1>1, <4>2
    <3> QED BY <3>6, <3>7
  <2> QED BY <2>1, <2>2
<1> QED BY <1>5, <1>8, <1>9, <1>10, <1>11, <1>12 DEF Found

\* The main position m is taken by a key of another chain: that one moves to f, and
\* the node e before it follows.
Moved(a, b, k, v, m, f, e) ==
    /\ Len(b) = Len(a) /\ m \in DOMAIN a /\ m = MainPosition(a, k)
    /\ a[m].val # Nil /\ Home(a, m) # m
    /\ f \in DOMAIN a /\ a[f].key = Nil
    /\ e \in DOMAIN a /\ a[e].next = m /\ e # m
    /\ b[e] = [a[e] EXCEPT !.next = f]
    /\ b[f] = a[m]
    /\ b[m] = [key |-> k, dead |-> FALSE, val |-> v, next |-> 0]
    /\ \A p \in DOMAIN a : p # e /\ p # m /\ p # f => b[p] = a[p]

LEMMA MoveColliding ==
    ASSUME NEW a \in Seq(Node), Chained(a), NEW b \in Seq(Node),
           NEW k \in Keys, NEW v \in Values, NoLive(a, k),
           NEW m, NEW f, NEW e, Moved(a, b, k, v, m, f, e)
    PROVE  Chained(b) /\ Used(b) = Used(a) \cup {f}
<1> USE DEF Chained, Moved
<1>1. DOMAIN b = DOMAIN a /\ \A x : MainPosition(b, x) = MainPosition(a, x)
  BY NodesDomain DEF MainPosition
<1>2. a[f] = EmptyNode /\ a[f].next = 0 /\ m \in Used(a) /\ ~a[m].dead /\ m # f
  BY DEF UnusedAlone, EmptyNode, Used, Lives
<1>3. a[e] \in Node /\ f \in Nat /\ f # 0 /\ m # 0 /\ 0 \notin DOMAIN a /\ e # f
  BY <1>2, NodesDomain
<1>4. /\ \A p \in DOMAIN a : p # e /\ p # m /\ p # f => b[p].next = a[p].next
      /\ b[e].next = f /\ b[f].next = a[m].next /\ b[m].next = 0
      /\ \A p \in DOMAIN a : p # m /\ p # f => b[p].key = a[p].key /\ b[p].dead = a[p].dead /\ b[p].val = a[p].val
      /\ b[f].key = a[m].key /\ b[f].dead = a[m].dead /\ b[f].val = a[m].val
      /\ b[m].key = k /\ b[m].dead = FALSE /\ b[m].val = v /\ k # Nil
  <2>1. /\ b[e].next = f /\ b[e].key = a[e].key /\ b[e].dead = a[e].dead /\ b[e].val = a[e].val
    BY <1>3 DEF Node
  <2>2. b[m].next = 0 /\ b[m].key = k /\ b[m].dead = FALSE /\ b[m].val = v /\ k # Nil
    BY KeysNotNil
  <2> QED BY <2>1, <2>2
<1>5. Used(b) = Used(a) \cup {f} /\ f \notin Used(a)
  <2>1. m \in DOMAIN b /\ m \in Used(b) /\ f \in Used(b) /\ f \notin Used(a)
    BY <1>1, <1>2, <1>4 DEF Used
  <2>2. \A p \in DOMAIN a : p # m /\ p # f => (p \in Used(b) <=> p \in Used(a))
    BY <1>1, <1>4 DEF Used
  <2>3. Used(a) \in SUBSET DOMAIN a /\ Used(b) \in SUBSET DOMAIN a
    BY <1>1 DEF Used
  <2> QED BY <1>2, <2>1, <2>2, <2>3
<1>6. /\ \A p \in Used(a) : p # m => Home(b, p) = Home(a, p)
      /\ Home(b, f) = Home(a, m) /\ Home(b, m) = m
  <2>1. \A p \in Used(a) : p \in DOMAIN a /\ p # f
    BY <1>5 DEF Used
  <2> QED BY <1>1, <1>4, <2>1 DEF Home
<1>7. /\ \A p \in DOMAIN a : a[p].next \in Used(a) \cup {0} /\ a[p].next # f
      /\ \A p, q \in DOMAIN a : a[p].next = a[q].next /\ a[p].next # 0 => p = q
  BY <1>3, <1>5 DEF UnusedAlone
<1>8. \A p \in DOMAIN a : p # e => a[p].next # m
  BY <1>3, <1>7
<1>9. \A p \in Used(a) : /\ Home(a, p) \in Used(a) /\ Home(a, p) # m /\ Home(a, p) # f
                         /\ Home(a, Home(a, p)) = Home(a, p)
  BY <1>5 DEF InMainPosition
<1>10. UnusedAlone(b)
  <2>1. ASSUME NEW p \in DOMAIN b PROVE b[p].next \in Used(b) \cup {0}
    <3>1. b[p].next \in {a[p].next, f, a[m].next, 0}
      BY <1>1, <1>4
    <3> QED BY <1>1, <1>5, <1>7, <3>1
  <2>2. ASSUME NEW p \in DOMAIN b, b[p].key = Nil PROVE b[p] = EmptyNode
    <3>1. p # f /\ p # m /\ p \in DOMAIN a
      BY <1>1, <1>2, <1>4, <2>2 DEF Used
    <3>2. a[p] = EmptyNode
      BY <1>4, <2>2, <3>1 DEF UnusedAlone
    <3>3. p # e
      BY <1>3, <3>2 DEF EmptyNode
    <3> QED BY <3>1, <3>2, <3>3
  <2>3. ASSUME NEW p \in DOMAIN b, NEW q \in DOMAIN b, b[p].next = b[q].next, b[p].next # 0
        PROVE  p = q
    <3>1. p \in DOMAIN a /\ q \in DOMAIN a /\ p # m /\ q # m
      BY <1>1, <1>4, <2>3
    <3>2. \A x \in DOMAIN a : x # e /\ x # m => b[x].next # f
      BY <1>4, <1>7
    <3>3. \A x \in DOMAIN a : x # e /\ x # m /\ x # f /\ a[x].next # 0 => b[x].next # a[m].next
      BY <1>4, <1>7
    <3>4. CASE p = e \/ q = e
      <4>1. b[p].next = f /\ b[q].next = f
        BY <1>4, <2>3, <3>4
      <4> QED BY <3>1, <3>2, <4>1
    <3>5. CASE (p = f \/ q = f) /\ p # e /\ q # e
      <4>1. ASSUME p = f, q # f PROVE FALSE
        <5>1. b[p].next = a[m].next /\ b[q].next = a[q].next
          BY <1>4, <3>1, <3>5, <4>1
        <5> QED BY <2>3, <3>1, <3>3, <3>5, <4>1, <5>1
      <4>2. ASSUME q = f, p # f PROVE FALSE
        <5>1. b[q].next = a[m].next /\ b[p].next = a[p].next
          BY <1>4, <3>1, <3>5, <4>2
        <5> QED BY <2>3, <3>1, <3>3, <3>5, <4>2, <5>1
      <4> QED BY <3>5, <4>1, <4>2
    <3>6. CASE p # f /\ q # f /\ p # e /\ q # e
      BY <1>4, <1>7, <2>3, <3>1, <3>6
    <3> QED BY <3>4, <3>5, <3>6
  <2> QED BY <2>1, <2>2, <2>3 DEF UnusedAlone
<1>11. Lives(b)
  <2>1. ASSUME NEW p \in DOMAIN b, b[p].dead PROVE b[p].val = Nil /\ b[p].key \in Strings \cup Objects
    BY <1>1, <1>2, <1>4, <2>1 DEF Lives
  <2>2. ASSUME NEW p \in Used(b), NEW q \in Used(b), b[p].key = b[q].key, ~b[p].dead, ~b[q].dead
        PROVE  p = q
    <3>1. p \in DOMAIN a /\ q \in DOMAIN a
      BY <1>1 DEF Used
    <3>2. ASSUME NEW x \in Used(b), x # m PROVE b[x].key # k \/ b[x].dead
      <4>1. CASE x = f
        BY <1>2, <1>4, <4>1 DEF NoLive
      <4>2. CASE x # f
        BY <1>1, <1>4, <3>2, <4>2 DEF NoLive, Used
      <4> QED BY <4>1, <4>2
    <3>3. CASE p = m \/ q = m
      BY <1>4, <2>2, <3>2, <3>3
    <3>4. CASE p # m /\ q # m
      <4>1. \A x, y \in Used(a) : a[x].key = a[y].key /\ ~a[x].dead /\ ~a[y].dead => x = y
        BY DEF Lives
      <4>2. ASSUME NEW x \in Used(b), x # m, x # f, ~b[x].dead PROVE b[x].key # a[m].key
        <5>1. x \in Used(a) /\ b[x].key = a[x].key /\ ~a[x].dead
          BY <1>1, <1>4, <1>5, <4>2 DEF Used
        <5> QED BY <1>2, <4>1, <4>2, <5>1
      <4>3. CASE p = f \/ q = f
        BY <1>4, <2>2, <3>4, <4>2, <4>3
      <4>4. CASE p # f /\ q # f
        <5>1. /\ p \in Used(a) /\ b[p].key = a[p].key /\ ~a[p].dead
              /\ q \in Used(a) /\ b[q].key = a[q].key /\ ~a[q].dead
          BY <1>4, <1>5, <2>2, <3>1, <3>4, <4>4
        <5> QED BY <2>2, <4>1, <5>1
      <4> QED BY <4>3, <4>4
    <3> QED BY <3>3, <3>4
  <2> QED BY <2>1, <2>2 DEF Lives
<1>12. InMainPosition(b)
  <2> SUFFICES ASSUME NEW p \in Used(b)
               PROVE  Home(b, p) \in Used(b) /\ Home(b, Home(b, p)) = Home(b, p)
    BY DEF InMainPosition
  <2>1. CASE p = m
    BY <1>2, <1>5, <1>6, <2>1
  <2>2. CASE p = f
    BY <1>2, <1>5, <1>6, <1>9, <2>2
  <2>3. CASE p # m /\ p # f
    BY <1>5, <1>6, <1>9, <2>3
  <2> QED BY <2>1, <2>2, <2>3
\* What the chain from q led to it still leads to, to f in the place of m.
<1>13. ASSUME NEW q \in Used(a), q # m, NEW p \in Used(a), Leads(a, q, p)
       PROVE  Leads(b, q, IF p = m THEN f ELSE p)
  <2> SUFFICES ASSUME NEW S \in SUBSET DOMAIN b, q \in S,
                      \A x \in S : b[x].next \in S \cup {0}
               PROVE  (IF p = m THEN f ELSE p) \in S
    BY DEF Leads
  <2> DEFINE R == {x \in DOMAIN a : (x \in S /\ x # m /\ x # f) \/ (x = m /\ f \in S)}
  <2>1. R \in SUBSET DOMAIN a /\ q \in R
    BY <1>1, <1>5, <1>13 DEF Used
  <2>2. ASSUME NEW x \in R PROVE a[x].next \in R \cup {0}
    <3>1. x \in DOMAIN a /\ a[x].next # f /\ a[x].next \in DOMAIN a \cup {0}
      BY <1>7 DEF Used
    <3>2. CASE x = m
      <4>1. b[f].next \in S \cup {0} /\ a[m].next # m
        BY <1>8, <2>2, <3>2
      <4> QED BY <1>4, <3>1, <3>2, <4>1
    <3>3. CASE x = e
      BY <1>3, <1>4, <3>3
    <3>4. CASE x # m /\ x # e
      <4>1. x \in S /\ x # f /\ b[x].next \in S \cup {0} /\ a[x].next # m
        BY <1>8, <3>1, <3>4
      <4>2. b[x].next = a[x].next
        BY <1>4, <3>1, <3>4, <4>1
      <4> QED BY <3>1, <4>1, <4>2
    <3> QED BY <3>2, <3>3, <3>4
  <2>3. p \in R
    <3> HIDE DEF R
    <3> QED BY <1>13, <2>1, <2>2 DEF Leads
  <2> QED BY <2>3
<1>14. ASSUME NEW p \in Used(b) PROVE Leads(b, Home(b, p), p)
  <2>1. CASE p = m
    BY <1>6, <2>1 DEF Leads
  <2>2. CASE p = f
    BY <1>2, <1>6, <1>9, <1>13, <2>2 DEF Found
  <2>3. CASE p # m /\ p # f
    BY <1>5, <1>6, <1>9, <1>13, <2>3 DEF Found
  <2> QED BY <2>1, <2>2, <2>3
<1>15. ASSUME NEW p \in Used(a), ~a[p].dead, NEW o, o = (IF p = m THEN f ELSE p)
       PROVE  \E T \in SUBSET DOMAIN b : Before(b, T, Home(a, p), o)
  <2>1. PICK T \in SUBSET DOMAIN a : Before(a, T, Home(a, p), p)
    BY <1>15 DEF Found
  <2>2. /\ Home(a, p) \in T /\ Home(a, p) # m /\ Home(a, p) # f
        /\ \A x \in T : x # p => a[x].next \in T /\ a[x].key # a[p].key
    BY <1>9, <2>1 DEF Before
  <2>3. b[o].key = a[p].key
    BY <1>4, <1>5, <1>15 DEF Used
  <2> DEFINE R == {x \in DOMAIN a : (x \in T /\ x # m /\ x # f) \/ (x = f /\ m \in T)}
  <2>4. ASSUME NEW x \in R, x # o PROVE b[x].next \in R /\ b[x].key # b[o].key
    <3>1. CASE x = f
      <4>1. m \in T /\ m # p /\ a[m].next \in T /\ a[m].key # a[p].key
        BY <1>15, <2>2, <2>4, <3>1
      <4>2. a[m].next # m /\ a[m].next # f
        BY <1>7, <1>8
      <4> QED BY <1>4, <2>3, <3>1, <4>1, <4>2
    <3>2. CASE x # f
      <4>1. x \in T /\ x # m /\ x # p /\ x \in DOMAIN a
        BY <1>5, <1>15, <2>4, <3>2
      <4>2. a[x].next \in T /\ a[x].next # f /\ a[x].key # a[p].key /\ b[x].key = a[x].key
        BY <1>4, <1>7, <2>2, <3>2, <4>1
      <4>3. CASE x = e
        BY <1>4, <2>3, <4>2, <4>3
      <4>4. CASE x # e
        <5>1. b[x].next = a[x].next /\ a[x].next # m
          BY <1>4, <1>8, <3>2, <4>1, <4>4
        <5> QED BY <2>3, <4>2, <5>1
      <4> QED BY <4>3, <4>4
    <3> QED BY <3>1, <3>2
  <2>5. R \in SUBSET DOMAIN b /\ Home(a, p) \in R
    BY <1>1, <2>1, <2>2
  <2> HIDE DEF R
  <2>6. Before(b, R, Home(a, p), o)
    BY <2>4, <2>5 DEF Before
  <2> QED BY <2>5, <2>6
<1>16. ASSUME NEW p \in Used(b), ~b[p].dead
       PROVE  \E T \in SUBSET DOMAIN b : Before(b, T, Home(b, p), p)
  <2>1. CASE p = m
    <3>1. Before(b, {m}, Home(b, p), p)
      BY <1>1, <1>6, <2>1 DEF Before
    <3> QED BY <1>1, <3>1
  <2>2. CASE p = f
    BY <1>2, <1>6, <1>15, <2>2
  <2>3. CASE p # m /\ p # f
    <3>1. p \in Used(a) /\ ~a[p].dead /\ Home(b, p) = Home(a, p)
      BY <1>4, <1>5, <1>6, <1>16, <2>3 DEF Used
    <3> QED BY <1>15, <2>3, <3>1
  <2> QED BY <2>1, <2>2, <2>3
<1> QED BY <1>5, <1>10, <1>11, <1>12, <1>14, <1>16 DEF Found

\* What the hash part has for a key.
HashGet(nodes, k) ==
    LET p == getgeneric(nodes, k, FALSE) IN IF p = 0 THEN Nil ELSE nodes[p].val

Holds(nodes, k, v) == \E p \in DOMAIN nodes : nodes[p].key = k /\ nodes[p].val = v

LEMMA ChainedLinked ==
    ASSUME NEW nodes \in Seq(Node), Chained(nodes)
    PROVE  Linked(nodes)
BY DEF Chained, UnusedAlone, Used, Linked

LEMMA NodeGet ==
    ASSUME NEW nodes \in Seq(Node), Chained(nodes), NEW k \in Keys
    PROVE  LET r == getgeneric(nodes, k, FALSE)
           IN /\ r # 0 => r \in DOMAIN nodes /\ nodes[r].key = k /\ ~nodes[r].dead
              /\ \A p \in DOMAIN nodes : nodes[p].key = k /\ ~nodes[p].dead => r = p
              /\ r = 0 <=> NoLive(nodes, k)
<1> DEFINE r == getgeneric(nodes, k, FALSE)
<1>1. Linked(nodes) /\ k \in Keys \cup Nat /\ k # Nil /\ FALSE \in BOOLEAN
  BY ChainedLinked, KeysNotNil
<1>2. 0 \notin DOMAIN nodes
  BY NodesDomain
<1>3. r \in DOMAIN nodes \cup {0} /\ (r # 0 => nodes[r].key = k /\ ~nodes[r].dead)
  BY <1>1, GetGeneric
<1>4. ASSUME NEW p \in DOMAIN nodes, nodes[p].key = k, ~nodes[p].dead PROVE r = p
  <2>1. p \in Used(nodes)
    BY <1>1, <1>4 DEF Used
  <2>2. Leads(nodes, Home(nodes, p), p) /\ \E T \in SUBSET DOMAIN nodes : Before(nodes, T, Home(nodes, p), p)
    BY <1>4, <2>1 DEF Chained, Found
  <2>3. PICK T \in SUBSET DOMAIN nodes : Before(nodes, T, Home(nodes, p), p)
    BY <2>2
  <2>4. getgeneric(nodes, nodes[p].key, FALSE) = p
    BY <1>1, <1>4, <2>2, <2>3, LookupLive
  <2> QED BY <1>4, <2>4
<1> HIDE DEF r
<1>5. r = 0 <=> NoLive(nodes, k)
  BY <1>2, <1>3, <1>4 DEF NoLive
<1> QED BY <1>3, <1>4, <1>5 DEF r

LEMMA HashGetHolds ==
    ASSUME NEW nodes \in Seq(Node), Chained(nodes), NEW k \in Keys, NEW v, v # Nil
    PROVE  HashGet(nodes, k) = v <=> Holds(nodes, k, v)
<1> DEFINE r == getgeneric(nodes, k, FALSE)
<1>1. /\ r # 0 => r \in DOMAIN nodes /\ nodes[r].key = k /\ ~nodes[r].dead
      /\ \A p \in DOMAIN nodes : nodes[p].key = k /\ ~nodes[p].dead => r = p
  BY NodeGet
<1>2. HashGet(nodes, k) = IF r = 0 THEN Nil ELSE nodes[r].val
  BY DEF HashGet
<1>3. 0 \notin DOMAIN nodes
  BY NodesDomain
<1> HIDE DEF r
<1>4. ASSUME HashGet(nodes, k) = v PROVE Holds(nodes, k, v)
  BY <1>1, <1>2, <1>4 DEF Holds
<1>5. ASSUME Holds(nodes, k, v) PROVE HashGet(nodes, k) = v
  <2>1. PICK p \in DOMAIN nodes : nodes[p].key = k /\ nodes[p].val = v
    BY <1>5 DEF Holds
  <2>2. ~nodes[p].dead
    BY <2>1 DEF Chained, Lives
  <2> QED BY <1>1, <1>2, <1>3, <2>1, <2>2
<1> QED BY <1>4, <1>5

LEMMA FreePos ==
    ASSUME NEW tb \in Table, Free(tb)
    PROVE  LET f == getfreepos(tb)
           IN /\ f \in 0..tb.lastfree
              /\ f # 0 => f \in DOMAIN tb.node /\ tb.node[f].key = Nil
              /\ \A p \in DOMAIN tb.node : p > f => p \in Used(tb.node)
<1> DEFINE S == {0} \cup {p \in 1..tb.lastfree : tb.node[p].key = Nil}
           f == getfreepos(tb)
<1>1. tb.lastfree \in Nat /\ tb.node \in Seq(Node) /\ tb.lastfree <= Len(tb.node)
  BY DEF Table, Free
<1>2. S \in SUBSET Nat /\ S # {} /\ \A n \in S : n <= tb.lastfree
  BY <1>1
<1>3. f \in S /\ \A n \in S : n <= f
  <2>1. f = Max(S)
    BY DEF getfreepos
  <2> HIDE DEF S, f
  <2> QED BY <1>1, <1>2, <2>1, MaxGreatest
<1> HIDE DEF f
<1>4. f \in 0..tb.lastfree /\ (f # 0 => f \in DOMAIN tb.node /\ tb.node[f].key = Nil)
  BY <1>1, <1>3, NodesDomain
<1>5. ASSUME NEW p \in DOMAIN tb.node, p > f PROVE p \in Used(tb.node)
  <2>1. p \in Nat
    BY <1>1, NodesDomain
  <2>2. CASE p > tb.lastfree
    BY <2>2 DEF Free
  <2>3. CASE ~ (p > tb.lastfree)
    <3>1. p \notin S /\ p \in 1..tb.lastfree
      BY <1>1, <1>2, <1>3, <1>4, <1>5, <2>1, <2>3
    <3> QED BY <3>1 DEF Used
  <2> QED BY <2>2, <2>3
<1> QED BY <1>4, <1>5 DEF f

\* The node before one that is not in its main position.
LEMMA PreviousExists ==
    ASSUME NEW nodes \in Seq(Node), Chained(nodes), NEW m \in Used(nodes), Home(nodes, m) # m
    PROVE  /\ \E e \in Chain(nodes, Home(nodes, m)) : nodes[e].next = m
           /\ Chain(nodes, Home(nodes, m)) \in SUBSET DOMAIN nodes
           /\ \A e \in DOMAIN nodes : nodes[e].next = m => e # m
<1> DEFINE q == Home(nodes, m)
           h == Hops(nodes, q)
           N == Len(nodes)
           S == {i \in Nat : i < N /\ h[i] = m}
<1>1. Linked(nodes) /\ q \in DOMAIN nodes /\ Leads(nodes, q, m)
  BY ChainedLinked DEF Chained, InMainPosition, Used, Found
<1>2. N \in Nat /\ 0 \notin DOMAIN nodes /\ m \in DOMAIN nodes
  BY NodesDomain DEF Used
<1>3. /\ h[0] = q
      /\ \A n \in Nat : n <= N => h[n] \in DOMAIN nodes \cup {0}
      /\ \A n \in Nat : n + 1 <= N => h[n + 1] = IF h[n] = 0 THEN 0 ELSE nodes[h[n]].next
  <2> HIDE DEF q
  <2> QED BY <1>1, HopsSteps
<1>4. \E i \in Nat : i < N /\ h[i] = m
  <2> HIDE DEF q
  <2> QED BY <1>1, LeadsHop
<1>5. Chain(nodes, q) = {h[i] : i \in 0..(N - 1)} \ {0}
  BY DEF Chain
<1>6. Chain(nodes, q) \in SUBSET DOMAIN nodes
  <2> SUFFICES ASSUME NEW x \in Chain(nodes, q) PROVE x \in DOMAIN nodes
    OBVIOUS
  <2>1. PICK i \in 0..(N - 1) : x = h[i] /\ x # 0
    BY <1>5
  <2>2. i \in Nat /\ i <= N
    BY <1>2
  <2> QED BY <1>3, <2>1, <2>2
<1> HIDE DEF h, N
<1>7. PICK i \in S : \A j \in S : i <= j
  <2>1. S \in SUBSET Nat /\ S # {}
    BY <1>4
  <2> HIDE DEF S
  <2> QED BY <2>1, LeastNat
<1>8. i # 0 /\ i - 1 \in Nat /\ (i - 1) + 1 = i /\ i < N /\ h[i] = m
  BY <1>3, <1>7
<1> DEFINE e == h[i - 1]
<1>9. e # 0 /\ nodes[e].next = m
  <2>1. h[(i - 1) + 1] = IF h[i - 1] = 0 THEN 0 ELSE nodes[h[i - 1]].next
    BY <1>2, <1>3, <1>8
  <2> QED BY <1>2, <1>8, <2>1
<1>10. e # m
  <2>1. i - 1 < N /\ ~ (i <= i - 1)
    BY <1>2, <1>8
  <2> QED BY <1>7, <1>8, <2>1
<1>11. e \in Chain(nodes, q)
  <2>1. i - 1 \in 0..(N - 1)
    BY <1>2, <1>8
  <2> QED BY <1>5, <1>9, <2>1
<1>12. \A x \in DOMAIN nodes : nodes[x].next = m => x = e
  <2>1. \A x, y \in DOMAIN nodes : nodes[x].next = nodes[y].next /\ nodes[x].next # 0 => x = y
    BY DEF Chained, UnusedAlone
  <2> QED BY <1>2, <1>6, <1>9, <1>11, <2>1
<1> QED BY <1>6, <1>9, <1>10, <1>11, <1>12

LEMMA NodesExcept ==
    ASSUME NEW nodes \in Seq(Node), NEW p \in DOMAIN nodes, NEW x \in Node
    PROVE  LET new == [nodes EXCEPT ![p] = x]
           IN /\ new \in Seq(Node) /\ Len(new) = Len(nodes) /\ DOMAIN new = DOMAIN nodes
              /\ new[p] = x /\ \A q \in DOMAIN nodes : q # p => new[q] = nodes[q]
<1>1. p \in 1..Len(nodes) /\ DOMAIN nodes = 1..Len(nodes)
  BY NodesDomain
<1>2. [nodes EXCEPT ![p] = x] \in Seq(Node) /\ Len([nodes EXCEPT ![p] = x]) = Len(nodes)
  BY <1>1, ExceptSeq
<1> QED BY <1>2

\* The three cases of luaH_newkey.
\* What luaH_newkey makes of the nodes a, with f the node that was not used.
NewNodes(a, b, k, v, f) ==
    /\ Len(b) = Len(a) /\ Chained(b) /\ Used(b) = Used(a) \cup {f}
    /\ \A x, w : w # Nil => (Holds(b, x, w) <=> (x = k /\ w = v) \/ Holds(a, x, w))
    /\ \A p \in DOMAIN b : b[p].key = k \/ \E q \in DOMAIN b : b[p].key = a[q].key

\* The last free node is counted down to f if it is used.
NewTable(tb, new, b, f) ==
    \/ new = [tb EXCEPT !.node = b]
    \/ new = [tb EXCEPT !.lastfree = f - 1, !.node = b] /\ f = getfreepos(tb)

LEMMA NewKeyCases ==
    ASSUME NEW tb \in Table, NEW a, a = tb.node, Chained(a), Free(tb),
           NEW k \in Keys, NEW v \in Values, NoLive(a, k), HasRoom(tb, k)
    PROVE  \E b \in Seq(Node), f \in DOMAIN a :
             NewNodes(a, b, k, v, f) /\ NewTable(tb, NewKey(tb, k, v), b, f)
<1>1. PICK m : m = MainPosition(a, k)
  OBVIOUS
<1>2. PICK f : f = getfreepos(tb)
  OBVIOUS
<1>3. a \in Seq(Node) /\ a # <<>> /\ m \in DOMAIN a /\ tb.lastfree \in Nat
  <2>1. a \in Seq(Node) /\ a # <<>> /\ tb.lastfree \in Nat
    BY DEF Table, HasRoom, isdummy
  <2> QED BY <1>1, <2>1, MainPositionIn
<1>4. /\ \A x \in DOMAIN a : x \in Nat /\ a[x] \in Node /\ a[x].next \in Nat
      /\ \A x \in Node, y \in Nat : [x EXCEPT !.next = y] \in Node
      /\ \A y \in Nat : [key |-> k, dead |-> FALSE, val |-> v, next |-> y] \in Node
  <2>1. \A x \in Node, y \in Nat : [x EXCEPT !.next = y] \in Node
    BY DEF Node
  <2>2. \A y \in Nat : [key |-> k, dead |-> FALSE, val |-> v, next |-> y] \in Node
    BY DEF Node
  <2> QED BY <1>3, <2>1, <2>2, NodesDomain
<1>5. CASE a[m].val = Nil
  <2>1. PICK x : x = [key |-> k, dead |-> FALSE, val |-> v, next |-> a[m].next]
    OBVIOUS
  <2>2. PICK b : b = [a EXCEPT ![m] = x]
    OBVIOUS
  <2>3. NewKey(tb, k, v) = [tb EXCEPT !.node = b]
    BY <1>1, <1>5, <2>1, <2>2 DEF NewKey, Table
  <2>4. x \in Node
    BY <1>3, <1>4, <2>1
  <2>5. /\ b \in Seq(Node) /\ Len(b) = Len(a) /\ DOMAIN b = DOMAIN a
        /\ b[m] = x /\ \A q \in DOMAIN a : q # m => b[q] = a[q]
    BY <1>3, <2>2, <2>4, NodesExcept
  <2>6. Chained(b) /\ Used(b) = Used(a) \cup {m}
    <3>1. Reused(a, b, k, v, m)
      BY <1>1, <1>3, <2>1, <2>5 DEF Reused
    <3> QED BY <1>3, <2>5, <3>1, ReuseMain
  <2>7. b[m].key = k /\ b[m].val = v
    BY <2>1, <2>5
  <2>8. ASSUME NEW y, NEW w, w # Nil
        PROVE  Holds(b, y, w) <=> (y = k /\ w = v) \/ Holds(a, y, w)
    BY <1>3, <1>5, <2>5, <2>7, <2>8 DEF Holds
  <2>9. ASSUME NEW p \in DOMAIN b PROVE b[p].key = k \/ \E q \in DOMAIN b : b[p].key = a[q].key
    BY <2>5, <2>7
  <2>10. NewNodes(a, b, k, v, m)
    BY <2>5, <2>6, <2>8, <2>9 DEF NewNodes
  <2> QED BY <1>3, <2>3, <2>5, <2>10 DEF NewTable
<1>6. CASE a[m].val # Nil
  <2>1. f # 0 /\ f \in DOMAIN a /\ a[f].key = Nil /\ f \in Nat /\ a[f].val = Nil /\ a[f].next = 0
    <3>1. f # 0
      BY <1>1, <1>2, <1>6 DEF HasRoom
    <3>2. f \in DOMAIN a /\ a[f].key = Nil /\ f \in 0..tb.lastfree
      BY <1>2, <3>1, FreePos
    <3>3. a[f] = EmptyNode
      BY <3>2 DEF Chained, UnusedAlone
    <3> QED BY <1>3, <3>1, <3>2, <3>3 DEF EmptyNode
  <2>2. m \in Used(a) /\ m # f
    BY <1>3, <1>6, <2>1 DEF Chained, UnusedAlone, EmptyNode, Used
  <2>3. CASE Home(a, m) = m
    <3>1. PICK x : x = [a[m] EXCEPT !.next = f]
      OBVIOUS
    <3>2. PICK y : y = [key |-> k, dead |-> FALSE, val |-> v, next |-> a[m].next]
      OBVIOUS
    <3>3. PICK c : c = [a EXCEPT ![m] = x]
      OBVIOUS
    <3>4. PICK b : b = [c EXCEPT ![f] = y]
      OBVIOUS
    <3>5. NewKey(tb, k, v) = [tb EXCEPT !.lastfree = f - 1, !.node = b]
      BY <1>1, <1>2, <1>6, <2>3, <3>1, <3>2, <3>3, <3>4 DEF NewKey, Table, Home
    <3>6. x \in Node /\ y \in Node
      BY <1>3, <1>4, <2>1, <3>1, <3>2
    <3>7. /\ c \in Seq(Node) /\ Len(c) = Len(a) /\ DOMAIN c = DOMAIN a
          /\ c[m] = x /\ \A q \in DOMAIN a : q # m => c[q] = a[q]
      BY <1>3, <3>3, <3>6, NodesExcept
    <3>8. /\ b \in Seq(Node) /\ Len(b) = Len(a) /\ DOMAIN b = DOMAIN a
          /\ b[f] = y /\ \A q \in DOMAIN a : q # f => b[q] = c[q]
      BY <2>1, <3>4, <3>6, <3>7, NodesExcept
    <3>9. b[m] = x /\ \A q \in DOMAIN a : q # m /\ q # f => b[q] = a[q]
      BY <1>3, <2>2, <3>7, <3>8
    <3>10. Chained(b) /\ Used(b) = Used(a) \cup {f}
      <4>1. PutBehind(a, b, k, v, m, f)
        BY <1>1, <1>3, <1>6, <2>1, <2>3, <3>1, <3>2, <3>8, <3>9 DEF PutBehind
      <4> QED BY <1>3, <3>8, <4>1, PutBehindMain
    <3>11. b[m].key = a[m].key /\ b[m].val = a[m].val /\ b[f].key = k /\ b[f].val = v
      BY <1>3, <1>4, <3>1, <3>2, <3>8, <3>9 DEF Node
    <3>12. \A q \in DOMAIN a : q # f => b[q].key = a[q].key /\ b[q].val = a[q].val
      BY <3>9, <3>11
    <3>13. ASSUME NEW z, NEW w, w # Nil
           PROVE  Holds(b, z, w) <=> (z = k /\ w = v) \/ Holds(a, z, w)
      BY <2>1, <3>8, <3>11, <3>12, <3>13 DEF Holds
    <3>14. ASSUME NEW p \in DOMAIN b PROVE b[p].key = k \/ \E q \in DOMAIN b : b[p].key = a[q].key
      BY <3>8, <3>11, <3>12
    <3>15. NewNodes(a, b, k, v, f)
      BY <3>8, <3>10, <3>13, <3>14 DEF NewNodes
    <3> QED BY <1>2, <2>1, <3>5, <3>8, <3>15 DEF NewTable
  <2>4. CASE Home(a, m) # m
    <3>1. PICK e : e = Previous(a, Home(a, m), m)
      OBVIOUS
    <3>2. PICK x : x = [a[e] EXCEPT !.next = f]
      OBVIOUS
    <3>3. PICK y : y = [key |-> k, dead |-> FALSE, val |-> v, next |-> 0]
      OBVIOUS
    <3>4. PICK c : c = [a EXCEPT ![e] = x]
      OBVIOUS
    <3>5. PICK d : d = [c EXCEPT ![f] = a[m]]
      OBVIOUS
    <3>6. PICK b : b = [d EXCEPT ![m] = y]
      OBVIOUS
    <3>7. NewKey(tb, k, v) = [tb EXCEPT !.lastfree = f - 1, !.node = b]
      BY <1>1, <1>2, <1>6, <2>4, <3>1, <3>2, <3>3, <3>4, <3>5, <3>6 DEF NewKey, Table, Home
    <3>8. e \in DOMAIN a /\ a[e].next = m /\ e # m /\ e # f
      <4>1. /\ \E p \in Chain(a, Home(a, m)) : a[p].next = m
            /\ Chain(a, Home(a, m)) \in SUBSET DOMAIN a
            /\ \A p \in DOMAIN a : a[p].next = m => p # m
        BY <1>3, <2>2, <2>4, PreviousExists
      <4>2. e \in DOMAIN a /\ a[e].next = m /\ e # m
        BY <3>1, <4>1 DEF Previous
      <4> QED BY <1>3, <2>1, <4>2, NodesDomain
    <3>9. x \in Node /\ y \in Node /\ a[m] \in Node
      BY <1>3, <1>4, <2>1, <3>2, <3>3, <3>8
    <3>10. /\ c \in Seq(Node) /\ Len(c) = Len(a) /\ DOMAIN c = DOMAIN a
           /\ c[e] = x /\ \A q \in DOMAIN a : q # e => c[q] = a[q]
      BY <1>3, <3>4, <3>8, <3>9, NodesExcept
    <3>11. /\ d \in Seq(Node) /\ Len(d) = Len(a) /\ DOMAIN d = DOMAIN a
           /\ d[f] = a[m] /\ \A q \in DOMAIN a : q # f => d[q] = c[q]
      BY <2>1, <3>5, <3>9, <3>10, NodesExcept
    <3>12. /\ b \in Seq(Node) /\ Len(b) = Len(a) /\ DOMAIN b = DOMAIN a
           /\ b[m] = y /\ \A q \in DOMAIN a : q # m => b[q] = d[q]
      BY <1>3, <3>6, <3>9, <3>11, NodesExcept
    <3>13. /\ b[e] = x /\ b[f] = a[m]
           /\ \A q \in DOMAIN a : q # e /\ q # m /\ q # f => b[q] = a[q]
      BY <2>1, <2>2, <3>8, <3>10, <3>11, <3>12
    <3>14. Chained(b) /\ Used(b) = Used(a) \cup {f}
      <4>1. Moved(a, b, k, v, m, f, e)
        BY <1>1, <1>3, <1>6, <2>1, <2>4, <3>2, <3>3, <3>8, <3>12, <3>13 DEF Moved
      <4> QED BY <1>3, <3>12, <4>1, MoveColliding
    <3>15. b[e].key = a[e].key /\ b[e].val = a[e].val /\ b[m].key = k /\ b[m].val = v
      BY <1>4, <3>2, <3>3, <3>8, <3>12, <3>13 DEF Node
    <3>16. \A q \in DOMAIN a : q # m /\ q # f => b[q].key = a[q].key /\ b[q].val = a[q].val
      BY <3>13, <3>15
    <3>17. ASSUME NEW z, NEW w, w # Nil
           PROVE  Holds(b, z, w) <=> (z = k /\ w = v) \/ Holds(a, z, w)
      <4>1. ASSUME Holds(b, z, w) PROVE (z = k /\ w = v) \/ Holds(a, z, w)
        <5>1. PICK q \in DOMAIN a : b[q].key = z /\ b[q].val = w
          BY <3>12, <4>1 DEF Holds
        <5> QED BY <1>3, <3>13, <3>15, <3>16, <5>1 DEF Holds
      <4>2. ASSUME Holds(a, z, w) PROVE Holds(b, z, w)
        <5>1. PICK q \in DOMAIN a : a[q].key = z /\ a[q].val = w
          BY <4>2 DEF Holds
        <5>2. q # f
          BY <2>1, <3>17, <5>1
        <5> QED BY <2>1, <3>12, <3>13, <3>16, <5>1, <5>2 DEF Holds
      <4>3. z = k /\ w = v => Holds(b, z, w)
        BY <1>3, <3>12, <3>15 DEF Holds
      <4> QED BY <4>1, <4>2, <4>3
    <3>18. ASSUME NEW p \in DOMAIN b PROVE b[p].key = k \/ \E q \in DOMAIN b : b[p].key = a[q].key
      BY <1>3, <3>12, <3>13, <3>15, <3>16
    <3>19. NewNodes(a, b, k, v, f)
      BY <3>12, <3>14, <3>17, <3>18 DEF NewNodes
    <3> QED BY <1>2, <2>1, <3>7, <3>12, <3>19 DEF NewTable
  <2> QED BY <2>3, <2>4
<1> QED BY <1>5, <1>6

(***************************************************************************)
(* A value for a key, where there is room.                                 *)
(***************************************************************************)

\* Values change, and keys die, but no link does.
SameLinks(a, b) ==
    /\ Len(b) = Len(a)
    /\ \A p \in DOMAIN a :
          /\ b[p].key = a[p].key /\ b[p].next = a[p].next
          /\ a[p].dead => b[p].dead
          /\ b[p].dead => b[p].val = Nil /\ a[p].key \in Strings \cup Objects
          /\ a[p].key = Nil => b[p] = a[p]

LEMMA SameLinksChained ==
    ASSUME NEW a \in Seq(Node), Chained(a), NEW b \in Seq(Node), SameLinks(a, b)
    PROVE  Chained(b) /\ Used(b) = Used(a)
<1>1. DOMAIN b = DOMAIN a /\ \A x : MainPosition(b, x) = MainPosition(a, x)
  BY NodesDomain DEF MainPosition, SameLinks
<1>2. Used(b) = Used(a) /\ \A p \in DOMAIN a : Home(b, p) = Home(a, p)
  BY <1>1 DEF Used, Home, SameLinks
<1>3. UnusedAlone(b)
  BY <1>1, <1>2 DEF Chained, UnusedAlone, SameLinks
<1>4. Lives(b)
  <2>1. \A p \in DOMAIN b : b[p].dead => b[p].val = Nil /\ b[p].key \in Strings \cup Objects
    BY <1>1 DEF SameLinks
  <2>2. \A p, q \in Used(b) : b[p].key = b[q].key /\ ~b[p].dead /\ ~b[q].dead => p = q
    <3>1. \A p \in Used(b) : p \in DOMAIN a /\ b[p].key = a[p].key /\ (~b[p].dead => ~a[p].dead)
      BY <1>1 DEF Used, SameLinks
    <3> QED BY <1>2, <3>1 DEF Chained, Lives
  <2> QED BY <2>1, <2>2 DEF Lives
<1>5. InMainPosition(b)
  BY <1>2 DEF Chained, InMainPosition, Used
<1>6. Found(b)
  <2>1. ASSUME NEW p \in Used(b) PROVE Leads(b, Home(b, p), p)
    <3>1. p \in DOMAIN a /\ Leads(a, Home(a, p), p)
      BY <1>2, <2>1 DEF Chained, Found, Used
    <3> QED BY <1>1, <1>2, <3>1 DEF Leads, SameLinks
  <2>2. ASSUME NEW p \in Used(b), ~b[p].dead
        PROVE  \E T \in SUBSET DOMAIN b : Before(b, T, Home(b, p), p)
    <3>1. p \in Used(a) /\ p \in DOMAIN a /\ ~a[p].dead
      BY <1>2, <2>2 DEF Used, SameLinks
    <3>2. PICK T \in SUBSET DOMAIN a : Before(a, T, Home(a, p), p)
      BY <3>1 DEF Chained, Found
    <3>3. Before(b, T, Home(b, p), p)
      BY <1>1, <1>2, <3>1, <3>2 DEF Before, SameLinks
    <3> QED BY <1>1, <3>3
  <2> QED BY <2>1, <2>2 DEF Found
<1> QED BY <1>2, <1>3, <1>4, <1>5, <1>6 DEF Chained

LEMMA TableTypes ==
    ASSUME NEW tb \in Table
    PROVE  /\ tb.array \in Seq(Values \cup {Nil}) /\ Len(tb.array) \in Nat
           /\ DOMAIN tb.array = 1..Len(tb.array)
           /\ \A i \in 1..Len(tb.array) : tb.array[i] \in Values \cup {Nil}
           /\ tb.alimit \in Nat /\ tb.realsize \in BOOLEAN /\ tb.lastfree \in Nat
           /\ tb.node \in Seq(Node) /\ Len(tb.node) \in Nat
<1>1. tb.array \in Seq(Values \cup {Nil})
  BY DEF Table
<1>2. \A i \in 1..Len(tb.array) : tb.array[i] \in Values \cup {Nil}
  BY <1>1, ElementOfSeq
<1> QED BY <1>1, <1>2, LenProperties DEF Table

\* The key has a slot in the array.
HasSlot(tb, k) == k \in 1..Len(tb.array)

LEMMA InArrayIs ==
    ASSUME NEW tb, TableOK(tb), NEW k \in Keys \cup (Nat \ {0})
    PROVE  InArray(tb, k) <=> HasSlot(tb, k)
<1>1. /\ tb.alimit \in Nat /\ Len(tb.array) \in Nat /\ luaH_realasize(tb) = Len(tb.array)
      /\ tb.alimit <= Len(tb.array) /\ (tb.realsize => tb.alimit = Len(tb.array))
  <2>1. tb \in Table /\ Sized(tb)
    BY DEF TableOK
  <2> QED BY <2>1, SizedSize, TableTypes DEF Sized
<1>2. IsInteger(k) <=> k \in Nat
  BY TableAssumption DEF Keys, Ints, IsInteger
<1>3. k \in Nat => k # 0
  BY TableAssumption DEF Keys, Ints
<1> QED BY <1>1, <1>2, <1>3 DEF InArray, InHiddenPart, HasSlot

LEMMA LuaGet ==
    ASSUME NEW tb, TableOK(tb), NEW k \in Keys \cup (Nat \ {0})
    PROVE  luaH_get(tb, k) = IF HasSlot(tb, k) THEN tb.array[k] ELSE HashGet(tb.node, k)
BY InArrayIs DEF luaH_get, HashGet

LEMMA NewKeyOK ==
    ASSUME NEW tb, TableOK(tb), NEW k \in Keys, NEW v \in Values,
           NoLive(tb.node, k), HasRoom(tb, k), ~HasSlot(tb, k)
    PROVE  LET new == NewKey(tb, k, v)
           IN /\ TableOK(new) /\ new.array = tb.array
              /\ new.alimit = tb.alimit /\ new.realsize = tb.realsize
              /\ Len(new.node) = Len(tb.node)
              /\ \E f : Used(new.node) = Used(tb.node) \cup {f}
              /\ \A x, w : w # Nil =>
                    (Holds(new.node, x, w) <=> (x = k /\ w = v) \/ Holds(tb.node, x, w))
<1>1. PICK new : new = NewKey(tb, k, v)
  OBVIOUS
<1>2. PICK a : a = tb.node
  OBVIOUS
<1>3. tb \in Table /\ Sized(tb) /\ Chained(a) /\ Free(tb) /\ Divided(tb)
  BY <1>2 DEF TableOK
<1>4. PICK b \in Seq(Node), f \in DOMAIN a :
             NewNodes(a, b, k, v, f) /\ NewTable(tb, new, b, f)
  <2>1. NoLive(a, k)
    BY <1>2
  <2> QED BY <1>1, <1>2, <1>3, <2>1, NewKeyCases
<1>5. a \in Seq(Node) /\ f \in Nat /\ f # 0 /\ f <= Len(a) /\ DOMAIN a = 1..Len(a) /\ Len(a) \in Nat
  BY <1>2, <1>3, <1>4, TableTypes, NodesDomain
<1>6. /\ new \in Table /\ new.array = tb.array /\ new.alimit = tb.alimit
      /\ new.realsize = tb.realsize /\ new.node = b
      /\ new.lastfree = tb.lastfree \/ (new.lastfree = f - 1 /\ f = getfreepos(tb))
  <2>1. CASE new = [tb EXCEPT !.node = b]
    BY <1>3, <2>1 DEF Table
  <2>2. CASE new = [tb EXCEPT !.lastfree = f - 1, !.node = b] /\ f = getfreepos(tb)
    <3>1. f - 1 \in Nat
      BY <1>5
    <3> QED BY <1>3, <2>2, <3>1 DEF Table
  <2> QED BY <1>4, <2>1, <2>2 DEF NewTable
<1>7. Len(b) = Len(a) /\ DOMAIN b = DOMAIN a /\ Chained(b) /\ Used(b) = Used(a) \cup {f}
  BY <1>4, <1>5, NodesDomain DEF NewNodes
<1>8. Sized(new)
  BY <1>3, <1>6 DEF Sized
<1>9. Free(new)
  <2>1. tb.lastfree \in 0..Len(a) /\ \A p \in DOMAIN a : p > tb.lastfree => p \in Used(a)
    BY <1>2, <1>3 DEF Free
  <2>2. CASE new.lastfree = tb.lastfree
    BY <1>6, <1>7, <2>1, <2>2 DEF Free
  <2>3. CASE new.lastfree = f - 1 /\ f = getfreepos(tb)
    <3>1. \A p \in DOMAIN a : p > f => p \in Used(a)
      BY <1>2, <1>3, <2>3, FreePos
    <3>2. f - 1 \in 0..Len(a)
      BY <1>5
    <3>3. \A p \in DOMAIN a : p > f - 1 => p = f \/ p > f
      BY <1>5
    <3> QED BY <1>6, <1>7, <2>3, <3>1, <3>2, <3>3 DEF Free
  <2> QED BY <1>6, <2>2, <2>3
<1>10. Divided(new)
  <2>1. k \in Ints => k > Len(tb.array)
    BY <1>3, TableTypes, TableAssumption DEF HasSlot, Ints
  <2>2. ASSUME NEW p \in Used(b), b[p].key \in Ints PROVE b[p].key > Len(tb.array)
    <3>1. p \in DOMAIN b /\ b[p].key # Nil
      BY DEF Used
    <3>2. CASE b[p].key = k
      BY <2>1, <2>2, <3>2
    <3>3. CASE b[p].key # k
      <4>1. PICK q \in DOMAIN a : b[p].key = a[q].key
        BY <1>4, <1>7, <3>1, <3>3 DEF NewNodes
      <4>2. q \in Used(a)
        BY <3>1, <4>1 DEF Used
      <4> QED BY <1>2, <1>3, <2>2, <4>1, <4>2 DEF Divided
    <3> QED BY <3>2, <3>3
  <2>3. \A i \in DOMAIN tb.array : tb.array[i] # Nil => i \in Ints
    BY <1>3 DEF Divided
  <2> QED BY <1>6, <2>2, <2>3 DEF Divided
<1>11. TableOK(new)
  BY <1>6, <1>7, <1>8, <1>9, <1>10 DEF TableOK
<1>12. \A x, w : w # Nil => (Holds(b, x, w) <=> (x = k /\ w = v) \/ Holds(a, x, w))
  BY <1>4 DEF NewNodes
<1> QED BY <1>1, <1>2, <1>6, <1>7, <1>11, <1>12

LEMMA HashGetSame ==
    ASSUME NEW a \in Seq(Node), Chained(a), NEW b \in Seq(Node), Chained(b), NEW x \in Keys,
           \A w : w # Nil => (Holds(b, x, w) <=> Holds(a, x, w))
    PROVE  HashGet(b, x) = HashGet(a, x)
<1>1. \A w : w # Nil => (HashGet(a, x) = w <=> Holds(a, x, w))
  BY HashGetHolds
<1>2. \A w : w # Nil => (HashGet(b, x) = w <=> Holds(b, x, w))
  BY HashGetHolds
<1>3. ASSUME HashGet(a, x) # Nil PROVE HashGet(b, x) = HashGet(a, x)
  BY <1>1, <1>2, <1>3
<1>4. ASSUME HashGet(b, x) # Nil PROVE HashGet(b, x) = HashGet(a, x)
  BY <1>1, <1>2, <1>4
<1> QED BY <1>3, <1>4

\* The value of a live node changes.
NodeSet(tb, k, v, new) ==
    LET p == getgeneric(tb.node, k, FALSE)
    IN p # 0 /\ new = [tb EXCEPT !.node[p].val = v]

LEMMA ChangeNode ==
    ASSUME NEW tb, TableOK(tb), NEW k \in Keys, NEW v \in Values \cup {Nil}, ~HasSlot(tb, k),
           NEW new, NodeSet(tb, k, v, new)
    PROVE  /\ TableOK(new) /\ new.array = tb.array
           /\ new.alimit = tb.alimit /\ new.realsize = tb.realsize
           /\ SameLinks(tb.node, new.node)
           /\ \A x \in Keys : luaH_get(new, x) = IF x = k THEN v ELSE luaH_get(tb, x)
<1>1. PICK p : p = getgeneric(tb.node, k, FALSE)
  OBVIOUS
<1>2. new = [tb EXCEPT !.node[p].val = v] /\ p # 0
  BY <1>1 DEF NodeSet
<1>3. PICK a : a = tb.node
  OBVIOUS
<1>4. PICK y : y = [a[p] EXCEPT !.val = v]
  OBVIOUS
<1>5. PICK b : b = [a EXCEPT ![p] = y]
  OBVIOUS
<1>6. tb \in Table /\ Sized(tb) /\ Chained(a) /\ Free(tb) /\ Divided(tb) /\ a \in Seq(Node)
  BY <1>3, TableTypes DEF TableOK
<1>7. p \in DOMAIN a /\ a[p].key = k /\ ~a[p].dead /\ a[p] \in Node /\ k # Nil
  <2>1. p \in DOMAIN a /\ a[p].key = k /\ ~a[p].dead
    BY <1>1, <1>2, <1>3, <1>6, NodeGet
  <2> QED BY <1>6, <2>1, NodesDomain, KeysNotNil
<1>8. y \in Node /\ y.key = k /\ y.dead = FALSE /\ y.val = v /\ y.next = a[p].next
  BY <1>4, <1>7 DEF Node
<1>9. /\ b \in Seq(Node) /\ Len(b) = Len(a) /\ DOMAIN b = DOMAIN a
      /\ b[p] = y /\ \A q \in DOMAIN a : q # p => b[q] = a[q]
  BY <1>5, <1>6, <1>7, <1>8, NodesExcept
<1>10. /\ new \in Table /\ new.array = tb.array /\ new.alimit = tb.alimit
      /\ new.realsize = tb.realsize /\ new.node = b /\ new.lastfree = tb.lastfree
  <2>1. new = [tb EXCEPT !.node = b]
    BY <1>2, <1>3, <1>4, <1>5, <1>6 DEF Table
  <2> QED BY <1>6, <1>9, <2>1 DEF Table
<1>11. SameLinks(a, b)
  <2>1. \A q \in DOMAIN a : a[q].dead => a[q].val = Nil /\ a[q].key \in Strings \cup Objects
    BY <1>6 DEF Chained, Lives
  <2> QED BY <1>7, <1>8, <1>9, <2>1 DEF SameLinks
<1>12. Chained(b) /\ Used(b) = Used(a)
  BY <1>6, <1>9, <1>11, SameLinksChained
<1>13. TableOK(new)
  <2>1. Sized(new)
    BY <1>6, <1>10 DEF Sized
  <2>2. Free(new)
    BY <1>3, <1>6, <1>9, <1>10, <1>12 DEF Free
  <2>3. Divided(new)
    <3>1. \A q \in Used(b) : b[q].key = a[q].key
      BY <1>7, <1>8, <1>9 DEF Used
    <3> QED BY <1>3, <1>6, <1>10, <1>12, <3>1 DEF Divided
  <2> QED BY <1>10, <1>12, <2>1, <2>2, <2>3 DEF TableOK
<1>14. HashGet(b, k) = v
  <2>1. getgeneric(b, k, FALSE) = p
    <3>1. \A q \in DOMAIN b : b[q].key = k /\ ~b[q].dead => getgeneric(b, k, FALSE) = q
      BY <1>9, <1>12, NodeGet
    <3> QED BY <1>7, <1>8, <1>9, <3>1
  <2> QED BY <1>2, <1>8, <1>9, <2>1 DEF HashGet
<1>15. ASSUME NEW x \in Keys, x # k PROVE HashGet(b, x) = HashGet(a, x)
  <2>1. ASSUME NEW w PROVE Holds(b, x, w) <=> Holds(a, x, w)
    BY <1>7, <1>8, <1>9, <1>15 DEF Holds
  <2> QED BY <1>6, <1>9, <1>12, <2>1, HashGetSame
<1>16. ASSUME NEW x \in Keys
       PROVE  luaH_get(new, x) = IF x = k THEN v ELSE luaH_get(tb, x)
  <2>1. luaH_get(new, x) = IF HasSlot(new, x) THEN new.array[x] ELSE HashGet(new.node, x)
    BY <1>13, LuaGet
  <2>2. luaH_get(tb, x) = IF HasSlot(tb, x) THEN tb.array[x] ELSE HashGet(tb.node, x)
    BY LuaGet
  <2>3. HasSlot(new, x) <=> HasSlot(tb, x)
    BY <1>10 DEF HasSlot
  <2> QED BY <1>3, <1>10, <1>14, <1>15, <2>1, <2>2, <2>3
<1> QED BY <1>2, <1>3, <1>10, <1>11, <1>13, <1>16

\* The value of a slot changes.
LEMMA ChangeSlot ==
    ASSUME NEW tb, TableOK(tb), NEW k \in Keys, NEW v \in Values \cup {Nil}, HasSlot(tb, k)
    PROVE  LET new == [tb EXCEPT !.array[k] = v]
           IN /\ TableOK(new) /\ Len(new.array) = Len(tb.array)
              /\ new.alimit = tb.alimit /\ new.realsize = tb.realsize /\ new.node = tb.node
              /\ \A x \in Keys : luaH_get(new, x) = IF x = k THEN v ELSE luaH_get(tb, x)
<1>1. PICK new : new = [tb EXCEPT !.array[k] = v]
  OBVIOUS
<1>2. PICK s : s = [tb.array EXCEPT ![k] = v]
  OBVIOUS
<1>3. tb \in Table /\ Sized(tb) /\ Chained(tb.node) /\ Free(tb) /\ Divided(tb)
  BY DEF TableOK
<1>4. k \in 1..Len(tb.array) /\ DOMAIN tb.array = 1..Len(tb.array) /\ Len(tb.array) \in Nat
  BY <1>3, TableTypes DEF HasSlot
<1>5. /\ s \in Seq(Values \cup {Nil}) /\ Len(s) = Len(tb.array)
      /\ \A i \in 1..Len(tb.array) : s[i] = IF i = k THEN v ELSE tb.array[i]
  BY <1>2, <1>3, <1>4, TableTypes, ExceptSeq
<1>6. /\ new \in Table /\ new.array = s /\ new.alimit = tb.alimit
      /\ new.realsize = tb.realsize /\ new.node = tb.node /\ new.lastfree = tb.lastfree
  <2>1. new = [tb EXCEPT !.array = s]
    BY <1>1, <1>2, <1>3 DEF Table
  <2> QED BY <1>3, <1>5, <2>1 DEF Table
<1>7. k \in Ints
  BY <1>4, TableAssumption DEF Keys, Ints
<1>8. TableOK(new)
  <2>1. Sized(new)
    BY <1>3, <1>5, <1>6 DEF Sized
  <2>2. Free(new)
    BY <1>3, <1>6 DEF Free
  <2>3. Divided(new)
    <3>1. DOMAIN s = 1..Len(tb.array)
      BY <1>5, LenProperties
    <3>2. \A i \in DOMAIN s : s[i] # Nil => i \in Ints
      BY <1>3, <1>4, <1>5, <1>7, <3>1 DEF Divided
    <3> QED BY <1>3, <1>5, <1>6, <3>2 DEF Divided
  <2> QED BY <1>3, <1>6, <2>1, <2>2, <2>3 DEF TableOK
<1>9. ASSUME NEW x \in Keys
      PROVE  luaH_get(new, x) = IF x = k THEN v ELSE luaH_get(tb, x)
  <2>1. luaH_get(new, x) = IF HasSlot(new, x) THEN new.array[x] ELSE HashGet(new.node, x)
    BY <1>8, LuaGet
  <2>2. luaH_get(tb, x) = IF HasSlot(tb, x) THEN tb.array[x] ELSE HashGet(tb.node, x)
    BY LuaGet
  <2> QED BY <1>4, <1>5, <1>6, <2>1, <2>2 DEF HasSlot
<1> QED BY <1>1, <1>5, <1>6, <1>8, <1>9

\* There is a place for the value.
Room(tb, k, v) ==
    \/ HasSlot(tb, k) \/ ~NoLive(tb.node, k) \/ v = Nil
    \/ HasRoom(tb, k)

WasSet(tb, k, v, new) == new = SetInPlace(tb, k, v)

HasBeenSet(tb, k, v, new) ==
    /\ TableOK(new) /\ Len(new.array) = Len(tb.array)
    /\ new.alimit = tb.alimit /\ new.realsize = tb.realsize
    /\ Len(new.node) = Len(tb.node)
    /\ HasSlot(tb, k) => new.node = tb.node
    /\ HasSlot(tb, k) \/ ~NoLive(tb.node, k) \/ v = Nil => SameLinks(tb.node, new.node)
    /\ \E f : Used(new.node) \subseteq Used(tb.node) \cup {f}
    /\ \A x \in Keys : luaH_get(new, x) = IF x = k THEN v ELSE luaH_get(tb, x)

LEMMA SetInPlaceOK ==
    ASSUME NEW tb, TableOK(tb), NEW k \in Keys, NEW v \in Values \cup {Nil}, Room(tb, k, v),
           NEW new, WasSet(tb, k, v, new)
    PROVE  HasBeenSet(tb, k, v, new)
<1>1. new = SetInPlace(tb, k, v)
  BY DEF WasSet
<1>2. PICK p : p = getgeneric(tb.node, k, FALSE)
  OBVIOUS
<1>3. tb \in Table /\ Chained(tb.node) /\ tb.node \in Seq(Node)
  BY TableTypes DEF TableOK
<1>4. (InArray(tb, k) <=> HasSlot(tb, k)) /\ (p = 0 <=> NoLive(tb.node, k))
  BY <1>2, <1>3, InArrayIs, NodeGet
<1>5. SameLinks(tb.node, tb.node)
  BY <1>3 DEF SameLinks, Chained, Lives
<1>6. CASE HasSlot(tb, k)
  <2>1. new = [tb EXCEPT !.array[k] = v]
    BY <1>1, <1>4, <1>6 DEF SetInPlace
  <2>2. /\ TableOK(new) /\ Len(new.array) = Len(tb.array)
        /\ new.alimit = tb.alimit /\ new.realsize = tb.realsize /\ new.node = tb.node
        /\ \A x \in Keys : luaH_get(new, x) = IF x = k THEN v ELSE luaH_get(tb, x)
    BY <1>6, <2>1, ChangeSlot
  <2> QED BY <1>1, <1>5, <2>2 DEF HasBeenSet
<1>7. CASE ~HasSlot(tb, k) /\ p # 0
  <2>1. NodeSet(tb, k, v, new)
    BY <1>1, <1>2, <1>4, <1>7 DEF SetInPlace, NodeSet
  <2>2. /\ TableOK(new) /\ new.array = tb.array
        /\ new.alimit = tb.alimit /\ new.realsize = tb.realsize
        /\ SameLinks(tb.node, new.node)
        /\ \A x \in Keys : luaH_get(new, x) = IF x = k THEN v ELSE luaH_get(tb, x)
    BY <1>7, <2>1, ChangeNode
  <2>3. new.node \in Seq(Node)
    BY <2>2, TableTypes DEF TableOK
  <2>4. Used(new.node) = Used(tb.node) /\ Len(new.node) = Len(tb.node)
    BY <1>3, <2>2, <2>3, SameLinksChained DEF SameLinks
  <2> QED BY <1>1, <1>7, <2>2, <2>4 DEF HasBeenSet
<1>8. CASE ~HasSlot(tb, k) /\ p = 0 /\ v = Nil
  <2>1. new = tb
    BY <1>1, <1>2, <1>4, <1>8 DEF SetInPlace
  <2>2. luaH_get(tb, k) = Nil
    BY <1>2, <1>8, LuaGet DEF HashGet
  <2> QED BY <1>1, <1>5, <1>8, <2>1, <2>2 DEF HasBeenSet
<1>9. CASE ~HasSlot(tb, k) /\ p = 0 /\ v # Nil
  <2>1. new = NewKey(tb, k, v) /\ NoLive(tb.node, k) /\ HasRoom(tb, k) /\ v \in Values
    BY <1>1, <1>2, <1>4, <1>9 DEF SetInPlace, Room
  <2>2. /\ TableOK(new) /\ new.array = tb.array
        /\ new.alimit = tb.alimit /\ new.realsize = tb.realsize
        /\ Len(new.node) = Len(tb.node)
        /\ \E f : Used(new.node) = Used(tb.node) \cup {f}
        /\ \A x, w : w # Nil => (Holds(new.node, x, w) <=> (x = k /\ w = v) \/ Holds(tb.node, x, w))
    BY <1>9, <2>1, NewKeyOK
  <2>3. new.node \in Seq(Node) /\ Chained(new.node)
    BY <2>2, TableTypes DEF TableOK
  <2>4. ASSUME NEW x \in Keys
        PROVE  luaH_get(new, x) = IF x = k THEN v ELSE luaH_get(tb, x)
    <3>1. luaH_get(new, x) = IF HasSlot(new, x) THEN new.array[x] ELSE HashGet(new.node, x)
      BY <2>2, LuaGet
    <3>2. luaH_get(tb, x) = IF HasSlot(tb, x) THEN tb.array[x] ELSE HashGet(tb.node, x)
      BY LuaGet
    <3>3. HasSlot(new, x) <=> HasSlot(tb, x)
      BY <2>2 DEF HasSlot
    <3>4. x = k => HashGet(new.node, x) = v
      BY <1>9, <2>2, <2>3, HashGetHolds
    <3>5. x # k => HashGet(new.node, x) = HashGet(tb.node, x)
      BY <1>3, <2>2, <2>3, HashGetSame
    <3> QED BY <1>9, <2>2, <3>1, <3>2, <3>3, <3>4, <3>5
  <2> QED BY <1>1, <1>4, <1>9, <2>2, <2>4 DEF HasBeenSet
<1> QED BY <1>6, <1>7, <1>8, <1>9

LEMMA UsedFinite ==
    ASSUME NEW nodes \in Seq(Node)
    PROVE  /\ IsFiniteSet(Used(nodes)) /\ Cardinality(Used(nodes)) \in Nat
           /\ Cardinality(Used(nodes)) < Len(nodes) => \E p \in DOMAIN nodes : p \notin Used(nodes)
<1>1. Len(nodes) \in Nat /\ DOMAIN nodes = 1..Len(nodes)
  BY NodesDomain
<1>2. IsFiniteSet(1..Len(nodes)) /\ Cardinality(1..Len(nodes)) = Len(nodes)
  BY <1>1, FS_Interval
<1>3. Used(nodes) \in SUBSET (1..Len(nodes))
  BY <1>1 DEF Used
<1>4. IsFiniteSet(Used(nodes)) /\ Cardinality(Used(nodes)) \in Nat
  BY <1>2, <1>3, FS_Subset, FS_CardinalityType
<1>5. ASSUME Cardinality(Used(nodes)) < Len(nodes) PROVE \E p \in DOMAIN nodes : p \notin Used(nodes)
  <2>1. Used(nodes) # 1..Len(nodes)
    BY <1>1, <1>2, <1>4, <1>5
  <2> QED BY <1>1, <1>3, <2>1
<1> QED BY <1>4, <1>5

\* While a node was never used there is one below lastfree.
LEMMA RoomLeft ==
    ASSUME NEW tb, TableOK(tb), NEW k, Cardinality(Used(tb.node)) < Len(tb.node)
    PROVE  HasRoom(tb, k)
<1>1. tb \in Table /\ Free(tb) /\ tb.node \in Seq(Node) /\ tb.lastfree \in Nat
  BY TableTypes DEF TableOK
<1>2. PICK p \in DOMAIN tb.node : p \notin Used(tb.node)
  BY <1>1, UsedFinite
<1>3. p \in Nat /\ p # 0
  BY <1>1, NodesDomain
<1>4. getfreepos(tb) # 0
  <2>1. \A q \in DOMAIN tb.node : q > getfreepos(tb) => q \in Used(tb.node)
    BY <1>1, FreePos
  <2> QED BY <1>2, <1>3, <2>1
<1>5. tb.node # <<>>
  <2>1. Len(tb.node) # 0
    BY <1>1, UsedFinite, NodesDomain
  <2> QED BY <2>1
<1> QED BY <1>4, <1>5 DEF HasRoom, isdummy

(***************************************************************************)
(* luaH_resize and rehash.                                                 *)
(***************************************************************************)

LEMMA EntryCases ==
    ASSUME NEW tb, TableOK(tb), NEW i \in Entries(tb)
    PROVE  /\ i \in Nat /\ i <= Len(tb.array) + Len(tb.node)
           /\ \/ /\ i \in 1..Len(tb.array) /\ i \in Ints
                 /\ KeyAt(tb, i) = i /\ ValueAt(tb, i) = tb.array[i]
              \/ \E p \in DOMAIN tb.node :
                    /\ i = Len(tb.array) + p /\ tb.node[p].key = KeyAt(tb, i)
                    /\ tb.node[p].val = ValueAt(tb, i) /\ p \in Used(tb.node)
                    /\ ~tb.node[p].dead /\ KeyAt(tb, i) \in Keys
                    /\ (KeyAt(tb, i) \in Ints => KeyAt(tb, i) > Len(tb.array))
           /\ ValueAt(tb, i) \in Values
<1>0. PICK A \in Nat, M \in Nat :
        A = Len(tb.array) /\ A = luaH_realasize(tb) /\ M = Len(tb.node)
  BY SizedSize, TableTypes DEF TableOK
<1>1. /\ tb \in Table /\ Sized(tb) /\ Divided(tb) /\ Chained(tb.node)
      /\ tb.node \in Seq(Node)
      /\ \A x \in 1..A : tb.array[x] \in Values \cup {Nil}
      /\ DOMAIN tb.array = 1..A
  BY <1>0, SizedSize, TableTypes DEF TableOK
<1>2. /\ i \in 1..(A + M) /\ ValueAt(tb, i) # Nil
      /\ i \in Nat
  BY <1>0 DEF Entries
<1>3. CASE i <= A
  <2>1. i \in 1..A /\ KeyAt(tb, i) = i /\ ValueAt(tb, i) = tb.array[i]
    BY <1>0, <1>2, <1>3 DEF KeyAt, ValueAt
  <2>2. i \in Ints /\ ValueAt(tb, i) \in Values
    BY <1>1, <1>2, <2>1 DEF Divided
  <2> QED BY <1>0, <1>2, <2>1, <2>2
<1>4. CASE ~ (i <= A)
  <2>1. PICK p : p = i - A
    OBVIOUS
  <2>2. p \in 1..M /\ i = A + p
    BY <1>2, <1>4, <2>1
  <2>3. p \in DOMAIN tb.node /\ tb.node[p] \in Node
    BY <1>0, <1>1, <2>2, NodesDomain
  <2>4. KeyAt(tb, i) = tb.node[p].key /\ ValueAt(tb, i) = tb.node[p].val
    BY <1>0, <1>4, <2>1 DEF KeyAt, ValueAt
  <2>5. tb.node[p].key # Nil /\ ~tb.node[p].dead
    BY <1>1, <1>2, <2>3, <2>4 DEF Chained, UnusedAlone, Lives, EmptyNode
  <2>6. KeyAt(tb, i) \in Keys /\ ValueAt(tb, i) \in Values
    BY <1>2, <2>3, <2>4, <2>5 DEF Node
  <2>7. p \in Used(tb.node)
    BY <2>3, <2>5 DEF Used
  <2>8. KeyAt(tb, i) \in Ints => KeyAt(tb, i) > A
    BY <1>0, <1>1, <2>4, <2>7 DEF Divided
  <2> QED BY <1>0, <1>2, <2>2, <2>3, <2>4, <2>5, <2>6, <2>7, <2>8
<1> QED BY <1>3, <1>4

\* The entries are the keys that have a value.
LEMMA EntryGet ==
    ASSUME NEW tb, TableOK(tb)
    PROVE  /\ \A i \in Entries(tb) : KeyAt(tb, i) \in Keys /\ luaH_get(tb, KeyAt(tb, i)) = ValueAt(tb, i)
           /\ \A i, j \in Entries(tb) : KeyAt(tb, i) = KeyAt(tb, j) => i = j
           /\ \A k \in Keys : luaH_get(tb, k) # Nil => \E i \in Entries(tb) : KeyAt(tb, i) = k
<1>0. PICK A \in Nat, M \in Nat :
        A = Len(tb.array) /\ A = luaH_realasize(tb) /\ M = Len(tb.node)
  BY SizedSize, TableTypes DEF TableOK
<1>1. /\ tb \in Table /\ Sized(tb) /\ Divided(tb) /\ Chained(tb.node)
      /\ tb.node \in Seq(Node)
      /\ DOMAIN tb.array = 1..A
  BY <1>0, SizedSize, TableTypes DEF TableOK
<1>2. Ints \subseteq Keys /\ Ints \subseteq Nat \ {0}
  BY TableAssumption DEF Keys, Ints
<1>3. ASSUME NEW i \in Entries(tb)
      PROVE  KeyAt(tb, i) \in Keys /\ luaH_get(tb, KeyAt(tb, i)) = ValueAt(tb, i)
  <2>1. CASE /\ i \in 1..A /\ i \in Ints
             /\ KeyAt(tb, i) = i /\ ValueAt(tb, i) = tb.array[i]
    BY <1>0, <1>2, <2>1, LuaGet DEF HasSlot
  <2>2. ASSUME NEW p \in DOMAIN tb.node,
               tb.node[p].key = KeyAt(tb, i), tb.node[p].val = ValueAt(tb, i),
               KeyAt(tb, i) \in Keys, KeyAt(tb, i) \in Ints => KeyAt(tb, i) > A
        PROVE  KeyAt(tb, i) \in Keys /\ luaH_get(tb, KeyAt(tb, i)) = ValueAt(tb, i)
    <3>1. ~HasSlot(tb, KeyAt(tb, i))
      BY <1>0, <2>2, TableAssumption DEF HasSlot, Keys
    <3>2. ValueAt(tb, i) # Nil
      BY DEF Entries
    <3>3. Holds(tb.node, KeyAt(tb, i), ValueAt(tb, i))
      BY <2>2 DEF Holds
    <3>4. HashGet(tb.node, KeyAt(tb, i)) = ValueAt(tb, i)
      BY <1>1, <2>2, <3>2, <3>3, HashGetHolds
    <3> QED BY <2>2, <3>1, <3>4, LuaGet
  <2> QED BY <1>0, <2>1, <2>2, EntryCases
<1>4. ASSUME NEW i \in Entries(tb), NEW j \in Entries(tb), KeyAt(tb, i) = KeyAt(tb, j)
      PROVE  i = j
  <2>1. ASSUME NEW x \in Entries(tb), NEW y \in Entries(tb), KeyAt(tb, x) = KeyAt(tb, y),
               x \in 1..A, x \in Ints, KeyAt(tb, x) = x
        PROVE  x = y
    <3>1. \/ y \in 1..A /\ KeyAt(tb, y) = y
          \/ KeyAt(tb, y) \in Ints => KeyAt(tb, y) > A
      BY <1>0, EntryCases
    <3> QED BY <1>0, <2>1, <3>1
  <2>2. ASSUME NEW p \in Used(tb.node), NEW q \in Used(tb.node), i = A + p,
               j = A + q, tb.node[p].key = KeyAt(tb, i), tb.node[q].key = KeyAt(tb, j),
               ~tb.node[p].dead, ~tb.node[q].dead
        PROVE  i = j
    BY <1>1, <1>4, <2>2 DEF Chained, Lives
  <2>3. CASE ~ (i \in 1..A) /\ ~ (j \in 1..A)
    <3>1. ASSUME NEW x \in Entries(tb), ~ (x \in 1..A)
          PROVE  \E p \in Used(tb.node) :
                    x = A + p /\ tb.node[p].key = KeyAt(tb, x) /\ ~tb.node[p].dead
      BY <1>0, <3>1, EntryCases
    <3> QED BY <2>2, <2>3, <3>1
  <2>4. ASSUME NEW x \in Entries(tb), x \in 1..A
        PROVE  x \in Ints /\ KeyAt(tb, x) = x
    <3>1. ~ (\E p \in DOMAIN tb.node : x = A + p)
      BY <1>0, <1>1, <2>4, NodesDomain
    <3> QED BY <1>0, <3>1, EntryCases
  <2> QED BY <1>4, <2>1, <2>3, <2>4
<1>5. ASSUME NEW k \in Keys, luaH_get(tb, k) # Nil
      PROVE  \E i \in Entries(tb) : KeyAt(tb, i) = k
  <2>1. CASE HasSlot(tb, k)
    <3>1. k \in 1..A /\ tb.array[k] # Nil
      BY <1>0, <1>5, <2>1, LuaGet DEF HasSlot
    <3>2. KeyAt(tb, k) = k /\ ValueAt(tb, k) = tb.array[k] /\ k \in Entries(tb)
      BY <1>0, <3>1 DEF KeyAt, ValueAt, Entries
    <3> QED BY <3>2
  <2>2. CASE ~HasSlot(tb, k)
    <3>1. HashGet(tb.node, k) # Nil
      BY <1>5, <2>2, LuaGet
    <3>2. Holds(tb.node, k, HashGet(tb.node, k))
      BY <1>1, <3>1, HashGetHolds
    <3>3. PICK p \in DOMAIN tb.node : tb.node[p].key = k /\ tb.node[p].val # Nil
      BY <3>1, <3>2 DEF Holds
    <3>4. PICK i : i = A + p
      OBVIOUS
    <3>5. p \in Nat /\ p \in 1..M /\ i - A = p /\ ~ (i <= A)
          /\ i \in 1..(A + M)
      BY <1>0, <1>1, <3>4, NodesDomain
    <3>6. KeyAt(tb, i) = k /\ ValueAt(tb, i) # Nil
      BY <1>0, <3>3, <3>5 DEF KeyAt, ValueAt
    <3> QED BY <1>0, <3>5, <3>6 DEF Entries
  <2> QED BY <2>1, <2>2
<1> QED BY <1>3, <1>4, <1>5

\* What luaH_resize begins with, for n nodes, and what it does with an entry.
Emptied(tb, m, n) ==
    [array |-> [i \in 1..m |-> IF i <= luaH_realasize(tb) THEN tb.array[i] ELSE Nil],
     alimit |-> m, realsize |-> TRUE,
     node |-> [i \in 1..n |-> EmptyNode], lastfree |-> n]

Reinsert(tb, m, i, r) ==
    IF Moves(tb, m, i) THEN SetInPlace(r, KeyAt(tb, i), ValueAt(tb, i)) ELSE r

NodesFor(h) == IF h = 0 THEN 0 ELSE RoundUp(h)

Inserts(f, tb, m, e, N) ==
    /\ f = [i \in 0..N |-> f[i]] /\ f[0] = e
    /\ \A i \in 1..N : f[i] = Reinsert(tb, m, i, f[i - 1])

LEMMA InsertsExists ==
    ASSUME NEW tb, NEW m, NEW e, NEW N \in Nat
    PROVE  \E f : Inserts(f, tb, m, e, N)
<1> DEFINE H == {n \in Nat : \E f : Inserts(f, tb, m, e, n)}
<1>1. 0 \in H
  <2>1. Inserts([i \in 0..0 |-> e], tb, m, e, 0)
    BY DEF Inserts
  <2> QED BY <2>1
<1>2. ASSUME NEW n \in Nat, n \in H PROVE n + 1 \in H
  <2>1. PICK f : Inserts(f, tb, m, e, n)
    BY <1>2
  <2> DEFINE h == [i \in 0..(n + 1) |-> IF i <= n THEN f[i] ELSE Reinsert(tb, m, n + 1, f[n])]
  <2>2. Inserts(h, tb, m, e, n + 1)
    <3>1. h = [i \in 0..(n + 1) |-> h[i]] /\ h[0] = e
      BY <2>1 DEF Inserts
    <3>2. \A i \in 0..n : h[i] = f[i]
      OBVIOUS
    <3>3. h[n + 1] = Reinsert(tb, m, n + 1, f[n])
      OBVIOUS
    <3> HIDE DEF h
    <3>4. ASSUME NEW i \in 1..(n + 1) PROVE h[i] = Reinsert(tb, m, i, h[i - 1])
      <4>1. CASE i = n + 1
        <5>1. i - 1 = n /\ n \in 0..n
          BY <4>1
        <5> QED BY <3>2, <3>3, <4>1, <5>1
      <4>2. CASE i # n + 1
        <5>1. i \in 1..n /\ i \in 0..n /\ i - 1 \in 0..n
          BY <4>2
        <5> QED BY <2>1, <3>2, <5>1 DEF Inserts
      <4> QED BY <4>1, <4>2
    <3> QED BY <3>1, <3>4 DEF Inserts
  <2> HIDE DEF h
  <2> QED BY <2>2
<1>3. \A n \in Nat : n \in H
  <2> HIDE DEF H
  <2> QED BY <1>1, <1>2, NatSetInduction
<1> QED BY <1>3

LEMMA ResizeRuns ==
    ASSUME NEW tb, NEW m, NEW h, NEW N \in Nat, N = luaH_realasize(tb) + Len(tb.node)
    PROVE  \E f : /\ Inserts(f, tb, m, Emptied(tb, m, NodesFor(h)), N)
                  /\ luaH_resize(tb, m, h) = f[N]
<1> DEFINE e == Emptied(tb, m, NodesFor(h))
           Body(f, i) == IF i = 0 THEN e
                         ELSE IF Moves(tb, m, i)
                              THEN SetInPlace(f[i - 1], KeyAt(tb, i), ValueAt(tb, i))
                              ELSE f[i - 1]
           Equation(f) == f = [i \in 0..N |-> Body(f, i)]
           f == CHOOSE f : Equation(f)
<1>1. luaH_resize(tb, m, h) = f[N]
  BY DEF luaH_resize, Emptied, NodesFor
<1> HIDE DEF e
<1>2. \E g : Equation(g)
  <2>1. PICK g : Inserts(g, tb, m, e, N)
    BY InsertsExists
  <2>2. ASSUME NEW i \in 0..N PROVE g[i] = Body(g, i)
    <3>1. CASE i = 0
      BY <2>1, <3>1 DEF Inserts
    <3>2. CASE i # 0
      <4>1. i \in 1..N
        BY <3>2
      <4>2. g[i] = Reinsert(tb, m, i, g[i - 1])
        BY <2>1, <4>1 DEF Inserts
      <4> QED BY <3>2, <4>2 DEF Reinsert
    <3> QED BY <3>1, <3>2
  <2> HIDE DEF Body
  <2>3. [i \in 0..N |-> g[i]] = [i \in 0..N |-> Body(g, i)]
    BY <2>2
  <2>4. Equation(g)
    BY <2>1, <2>3 DEF Inserts
  <2> QED BY <2>4
<1>3. Equation(f)
  <2> HIDE DEF Equation
  <2> QED BY <1>2
<1> HIDE DEF f
<1>4. Inserts(f, tb, m, e, N)
  BY <1>3 DEF Inserts, Reinsert
<1> QED BY <1>1, <1>4 DEF e

\* The table that the entries are inserted in.
IsEmptied(tb, m, n, e) == e = Emptied(tb, m, n)

LEMMA EmptiedOK ==
    ASSUME NEW tb, TableOK(tb), NEW m \in Nat, NEW n \in Nat, NEW e, IsEmptied(tb, m, n, e)
    PROVE  /\ TableOK(e) /\ Len(e.array) = m /\ e.realsize /\ Len(e.node) = n
           /\ Used(e.node) = {}
           /\ \A k \in Keys : luaH_get(e, k) =
                 IF k \in 1..m /\ k \in 1..Len(tb.array) THEN tb.array[k] ELSE Nil
<1>1. PICK A \in Nat : A = Len(tb.array) /\ A = luaH_realasize(tb)
  BY SizedSize, TableTypes DEF TableOK
<1>2. /\ DOMAIN tb.array = 1..A /\ \A i \in 1..A : tb.array[i] \in Values \cup {Nil}
      /\ Divided(tb)
  BY <1>1, TableTypes DEF TableOK
<1>3. PICK s : s = [i \in 1..m |-> IF i <= A THEN tb.array[i] ELSE Nil]
  OBVIOUS
<1>4. PICK b : b = [i \in 1..n |-> EmptyNode]
  OBVIOUS
<1>6. e = [array |-> s, alimit |-> m, realsize |-> TRUE, node |-> b, lastfree |-> n]
  BY <1>1, <1>3, <1>4 DEF Emptied, IsEmptied
<1>7. /\ s \in Seq(Values \cup {Nil}) /\ Len(s) = m /\ DOMAIN s = 1..m
      /\ \A i \in 1..m : s[i] = IF i <= A THEN tb.array[i] ELSE Nil
  <2>1. \A i \in 1..m : s[i] \in Values \cup {Nil}
    BY <1>2, <1>3
  <2> QED BY <1>3, <2>1, IsASeq
<1>8. /\ b \in Seq(Node) /\ Len(b) = n /\ DOMAIN b = 1..n
      /\ \A p \in 1..n : b[p] = EmptyNode
  <2>1. EmptyNode \in Node
    BY DEF EmptyNode, Node
  <2> QED BY <1>4, <2>1, IsASeq
<1>9. Used(b) = {}
  BY <1>8 DEF Used, EmptyNode
<1>10. Chained(b)
  BY <1>8, <1>9 DEF Chained, UnusedAlone, Lives, InMainPosition, Found, EmptyNode
<1>11. e \in Table /\ e.array = s /\ e.node = b /\ e.realsize /\ e.alimit = m /\ e.lastfree = n
  BY <1>6, <1>7, <1>8 DEF Table
<1>12. TableOK(e)
  <2>1. Sized(e)
    BY <1>7, <1>11 DEF Sized
  <2>2. Free(e)
    BY <1>8, <1>11 DEF Free
  <2>3. Divided(e)
    <3>1. ASSUME NEW i \in 1..m, s[i] # Nil PROVE i \in Ints
      BY <1>2, <1>7, <3>1 DEF Divided
    <3> QED BY <1>7, <1>9, <1>11, <3>1 DEF Divided
  <2> QED BY <1>10, <1>11, <2>1, <2>2, <2>3 DEF TableOK
<1>13. ASSUME NEW k \in Keys
       PROVE  luaH_get(e, k) = IF k \in 1..m /\ k \in 1..A THEN tb.array[k] ELSE Nil
  <2>1. luaH_get(e, k) = IF HasSlot(e, k) THEN e.array[k] ELSE HashGet(e.node, k)
    BY <1>12, LuaGet
  <2>2. HashGet(b, k) = Nil
    <3>1. ~Holds(b, k, HashGet(b, k)) \/ HashGet(b, k) = Nil
      BY <1>8 DEF Holds, EmptyNode
    <3> QED BY <1>8, <1>10, <3>1, HashGetHolds
  <2>3. HasSlot(e, k) <=> k \in 1..m
    BY <1>7, <1>11 DEF HasSlot
  <2> QED BY <1>7, <1>11, <2>1, <2>2, <2>3
<1> QED BY <1>1, <1>7, <1>8, <1>9, <1>11, <1>12, <1>13

\* The entries up to j that need a node when the array has m slots.
NeedNode(tb, m, j) == {i \in Entries(tb) : i <= j /\ ~ (KeyAt(tb, i) \in 1..m)}

\* What r has when the entries up to j are inserted: those, and the slots that stay.
There(tb, m, j) == {i \in Entries(tb) : i <= j \/ ~Moves(tb, m, i)}

Resized(tb, m, n, j, r) ==
    /\ TableOK(r) /\ Len(r.array) = m /\ r.realsize /\ Len(r.node) = n
    /\ Cardinality(Used(r.node)) <= Cardinality(NeedNode(tb, m, j))
    /\ \A i \in There(tb, m, j) : luaH_get(r, KeyAt(tb, i)) = ValueAt(tb, i)
    /\ \A k \in Keys : luaH_get(r, k) # Nil => \E i \in There(tb, m, j) : KeyAt(tb, i) = k

LEMMA EntriesFinite ==
    ASSUME NEW tb, TableOK(tb)
    PROVE  IsFiniteSet(Entries(tb)) /\ Entries(tb) \subseteq Nat
<1>1. PICK N \in Nat : N = luaH_realasize(tb) + Len(tb.node)
  BY SizedSize, TableTypes DEF TableOK
<1>2. Entries(tb) \in SUBSET (1..N)
  BY <1>1 DEF Entries
<1>3. IsFiniteSet(1..N)
  BY <1>1, FS_Interval
<1>4. Entries(tb) \subseteq Nat
  BY <1>2
<1> QED BY <1>2, <1>3, <1>4, FS_Subset

LEMMA NeedNodeGrows ==
    ASSUME NEW tb, TableOK(tb), NEW m, NEW j \in Nat
    PROVE  /\ Cardinality(NeedNode(tb, m, j)) \in Nat
           /\ IsFiniteSet(NeedNode(tb, m, j))
           /\ NeedNode(tb, m, j + 1) = IF /\ j + 1 \in Entries(tb)
                                          /\ ~ (KeyAt(tb, j + 1) \in 1..m)
                                       THEN NeedNode(tb, m, j) \cup {j + 1}
                                       ELSE NeedNode(tb, m, j)
           /\ \A l \in Nat : j <= l =>
                 Cardinality(NeedNode(tb, m, j)) <= Cardinality(NeedNode(tb, m, l))
<1>1. Entries(tb) \subseteq Nat /\ IsFiniteSet(Entries(tb))
  BY EntriesFinite
<1>2. \A l : NeedNode(tb, m, l) \in SUBSET Entries(tb)
  BY DEF NeedNode
<1>3. \A l : IsFiniteSet(NeedNode(tb, m, l)) /\ Cardinality(NeedNode(tb, m, l)) \in Nat
  BY <1>1, <1>2, FS_Subset, FS_CardinalityType
<1>4. NeedNode(tb, m, j + 1) = IF /\ j + 1 \in Entries(tb)
                                  /\ ~ (KeyAt(tb, j + 1) \in 1..m)
                               THEN NeedNode(tb, m, j) \cup {j + 1}
                               ELSE NeedNode(tb, m, j)
  BY <1>1 DEF NeedNode
<1>5. ASSUME NEW l \in Nat, j <= l
      PROVE  Cardinality(NeedNode(tb, m, j)) <= Cardinality(NeedNode(tb, m, l))
  <2>1. NeedNode(tb, m, j) \in SUBSET NeedNode(tb, m, l)
    BY <1>1, <1>5 DEF NeedNode
  <2> QED BY <1>3, <2>1, FS_Subset
<1> QED BY <1>3, <1>4, <1>5

LEMMA ResizedFirst ==
    ASSUME NEW tb, TableOK(tb), NEW m \in Nat, NEW n \in Nat
    PROVE  Resized(tb, m, n, 0, Emptied(tb, m, n))
<1>1. PICK e : e = Emptied(tb, m, n)
  OBVIOUS
<1>2. /\ TableOK(e) /\ Len(e.array) = m /\ e.realsize /\ Len(e.node) = n
      /\ Used(e.node) = {}
      /\ \A k \in Keys : luaH_get(e, k) =
            IF k \in 1..m /\ k \in 1..Len(tb.array) THEN tb.array[k] ELSE Nil
  <2>1. IsEmptied(tb, m, n, e)
    BY <1>1 DEF IsEmptied
  <2>2. /\ TableOK(e) /\ Len(e.array) = m /\ e.realsize /\ Len(e.node) = n
        /\ Used(e.node) = {}
    BY <2>1, EmptiedOK
  <2>3. \A k \in Keys : luaH_get(e, k) =
           IF k \in 1..m /\ k \in 1..Len(tb.array) THEN tb.array[k] ELSE Nil
    BY <2>1, EmptiedOK
  <2> QED BY <2>2, <2>3
<1>3. PICK A \in Nat, M \in Nat :
        A = Len(tb.array) /\ A = luaH_realasize(tb) /\ M = Len(tb.node)
  BY SizedSize, TableTypes DEF TableOK
<1>4. Cardinality(Used(e.node)) <= Cardinality(NeedNode(tb, m, 0))
  <2>1. Cardinality(NeedNode(tb, m, 0)) \in Nat
    BY NeedNodeGrows
  <2> QED BY <1>2, <2>1, FS_EmptySet
<1>5. ASSUME NEW i \in There(tb, m, 0) PROVE luaH_get(e, KeyAt(tb, i)) = ValueAt(tb, i)
  <2>1. i \in Entries(tb) /\ i \in 1..(A + M) /\ i <= m /\ i <= A
    BY <1>3 DEF There, Moves, Entries
  <2>2. KeyAt(tb, i) = i /\ ValueAt(tb, i) = tb.array[i]
    BY <1>3, <2>1 DEF KeyAt, ValueAt
  <2>3. i \in Keys
    BY <2>1, <2>2, EntryGet
  <2> QED BY <1>2, <1>3, <2>1, <2>2, <2>3
<1>6. ASSUME NEW k \in Keys, luaH_get(e, k) # Nil
      PROVE  \E i \in There(tb, m, 0) : KeyAt(tb, i) = k
  <2>1. k \in 1..m /\ k \in 1..A /\ tb.array[k] # Nil
    BY <1>2, <1>3, <1>6
  <2>2. KeyAt(tb, k) = k /\ ValueAt(tb, k) # Nil
    BY <1>3, <2>1 DEF KeyAt, ValueAt
  <2>3. k \in Entries(tb)
    BY <1>3, <2>1, <2>2 DEF Entries
  <2>4. k \in There(tb, m, 0)
    BY <1>3, <2>1, <2>3 DEF There, Moves
  <2> QED BY <2>2, <2>4
<1> QED BY <1>1, <1>2, <1>4, <1>5, <1>6 DEF Resized

LEMMA ResizedNext ==
    ASSUME NEW tb, TableOK(tb), NEW m \in Nat, NEW n \in Nat, NEW j \in Nat, NEW r,
           Resized(tb, m, n, j, r), Cardinality(NeedNode(tb, m, j + 1)) <= n
    PROVE  Resized(tb, m, n, j + 1, Reinsert(tb, m, j + 1, r))
<1>1. PICK i \in Nat : i = j + 1
  OBVIOUS
<1>2. PICK u : u = Reinsert(tb, m, i, r)
  OBVIOUS
<1>3. /\ TableOK(r) /\ Len(r.array) = m /\ r.realsize /\ Len(r.node) = n
      /\ Cardinality(Used(r.node)) <= Cardinality(NeedNode(tb, m, j))
      /\ \A x \in There(tb, m, j) : luaH_get(r, KeyAt(tb, x)) = ValueAt(tb, x)
      /\ \A k \in Keys : luaH_get(r, k) # Nil => \E x \in There(tb, m, j) : KeyAt(tb, x) = k
  BY DEF Resized
<1>4. /\ \A x \in Entries(tb) : KeyAt(tb, x) \in Keys
      /\ \A x, y \in Entries(tb) : KeyAt(tb, x) = KeyAt(tb, y) => x = y
      /\ Entries(tb) \subseteq Nat
  BY EntryGet, EntriesFinite
<1>5. /\ Cardinality(NeedNode(tb, m, j)) \in Nat /\ Cardinality(NeedNode(tb, m, i)) \in Nat
      /\ Cardinality(NeedNode(tb, m, j)) <= Cardinality(NeedNode(tb, m, i))
      /\ IsFiniteSet(NeedNode(tb, m, j))
      /\ NeedNode(tb, m, i) = IF i \in Entries(tb) /\ ~ (KeyAt(tb, i) \in 1..m)
                              THEN NeedNode(tb, m, j) \cup {i} ELSE NeedNode(tb, m, j)
  <2>1. j <= i
    BY <1>1
  <2>2. Cardinality(NeedNode(tb, m, i)) \in Nat
    BY NeedNodeGrows
  <2> QED BY <1>1, <2>1, <2>2, NeedNodeGrows
<1>6. r.node \in Seq(Node)
  BY <1>3, TableTypes DEF TableOK
<1>7. IsFiniteSet(Used(r.node)) /\ Cardinality(Used(r.node)) \in Nat
  BY <1>6, UsedFinite
<1>8. CASE ~Moves(tb, m, i)
  <2>1. u = r
    BY <1>2, <1>8 DEF Reinsert
  <2>2. There(tb, m, i) = There(tb, m, j)
    BY <1>1, <1>4, <1>8 DEF There
  <2>3. Cardinality(Used(u.node)) <= Cardinality(NeedNode(tb, m, i))
    BY <1>3, <1>5, <1>7, <2>1
  <2>4. Resized(tb, m, n, i, u)
    BY <1>3, <2>1, <2>2, <2>3 DEF Resized
  <2> QED BY <1>1, <1>2, <2>4
<1>9. CASE Moves(tb, m, i)
  <2>1. i \in Entries(tb) /\ ~ (i \in There(tb, m, j)) /\ There(tb, m, i) = There(tb, m, j) \cup {i}
    BY <1>1, <1>4, <1>9 DEF There, Moves
  <2>2. PICK k \in Keys : k = KeyAt(tb, i)
    BY <1>4, <2>1
  <2>3. PICK v \in Values : v = ValueAt(tb, i)
    BY <2>1, EntryCases
  <2>4. WasSet(r, k, v, u)
    BY <1>2, <1>9, <2>2, <2>3 DEF Reinsert, WasSet
  <2>5. k \notin 1..m => Cardinality(NeedNode(tb, m, i)) = Cardinality(NeedNode(tb, m, j)) + 1
    <3>1. i \notin NeedNode(tb, m, j)
      BY <1>1 DEF NeedNode
    <3> QED BY <1>5, <2>1, <2>2, <3>1, FS_AddElement
  <2>6. HasSlot(r, k) <=> k \in 1..m
    BY <1>3 DEF HasSlot
  <2>7. Room(r, k, v)
    <3>1. CASE k \in 1..m
      BY <2>6, <3>1 DEF Room
    <3>2. CASE k \notin 1..m
      <4>1. Cardinality(Used(r.node)) < Len(r.node)
        BY <1>1, <1>3, <1>5, <1>7, <2>5, <3>2
      <4> QED BY <1>3, <4>1, RoomLeft DEF Room
    <3> QED BY <3>1, <3>2
  <2>8. /\ TableOK(u) /\ Len(u.array) = Len(r.array) /\ u.realsize = r.realsize
        /\ Len(u.node) = Len(r.node)
        /\ HasSlot(r, k) => u.node = r.node
        /\ \E f : Used(u.node) \subseteq Used(r.node) \cup {f}
        /\ \A x \in Keys : luaH_get(u, x) = IF x = k THEN v ELSE luaH_get(r, x)
    <3>1. HasBeenSet(r, k, v, u)
      BY <1>3, <2>4, <2>7, SetInPlaceOK
    <3> QED BY <3>1 DEF HasBeenSet
  <2>9. Cardinality(Used(u.node)) <= Cardinality(NeedNode(tb, m, i))
    <3>1. CASE k \in 1..m
      BY <1>3, <1>5, <1>7, <2>6, <2>8, <3>1
    <3>2. CASE k \notin 1..m
      <4>1. PICK f : Used(u.node) \subseteq Used(r.node) \cup {f}
        BY <2>8
      <4>2. /\ IsFiniteSet(Used(r.node) \cup {f})
            /\ Cardinality(Used(r.node) \cup {f}) <= Cardinality(Used(r.node)) + 1
            /\ Cardinality(Used(r.node) \cup {f}) \in Nat
        <5>1. PICK S : S = Used(r.node)
          OBVIOUS
        <5>2. IsFiniteSet(S) /\ Cardinality(S) \in Nat
          BY <1>7, <5>1
        <5>3. /\ IsFiniteSet(S \cup {f})
              /\ Cardinality(S \cup {f}) = IF f \in S THEN Cardinality(S) ELSE Cardinality(S) + 1
          BY <5>2, FS_AddElement
        <5> QED BY <5>1, <5>2, <5>3
      <4>3. /\ Cardinality(Used(u.node)) <= Cardinality(Used(r.node) \cup {f})
            /\ IsFiniteSet(Used(u.node))
        BY <4>1, <4>2, FS_Subset
      <4>4. Cardinality(Used(u.node)) \in Nat
        BY <4>3, FS_CardinalityType
      <4> QED BY <1>3, <1>5, <1>7, <2>5, <3>2, <4>2, <4>3, <4>4
    <3> QED BY <3>1, <3>2
  <2>10. ASSUME NEW x \in There(tb, m, i) PROVE luaH_get(u, KeyAt(tb, x)) = ValueAt(tb, x)
    <3>1. CASE x = i
      BY <2>2, <2>3, <2>8, <3>1
    <3>2. CASE x # i
      <4>1. x \in There(tb, m, j) /\ x \in Entries(tb)
        BY <2>1, <3>2 DEF There
      <4>2. KeyAt(tb, x) # k /\ KeyAt(tb, x) \in Keys
        BY <1>4, <2>1, <2>2, <3>2, <4>1
      <4> QED BY <1>3, <2>8, <4>1, <4>2
    <3> QED BY <3>1, <3>2
  <2>11. ASSUME NEW x \in Keys, luaH_get(u, x) # Nil
         PROVE  \E y \in There(tb, m, i) : KeyAt(tb, y) = x
    <3>1. CASE x = k
      BY <2>1, <2>2, <3>1
    <3>2. CASE x # k
      BY <1>3, <2>1, <2>8, <2>11, <3>2
    <3> QED BY <3>1, <3>2
  <2>12. Resized(tb, m, n, i, u)
    BY <1>3, <2>8, <2>9, <2>10, <2>11 DEF Resized
  <2> QED BY <1>1, <1>2, <2>12
<1> QED BY <1>8, <1>9

NoSlot(tb, m) == {i \in Entries(tb) : ~ (KeyAt(tb, i) \in 1..m)}

HasBeenResized(tb, m, h, new) ==
    /\ TableOK(new) /\ Len(new.array) = m /\ new.realsize /\ h <= Len(new.node)
    /\ Cardinality(Used(new.node)) <= Cardinality(NoSlot(tb, m))
    /\ \A k \in Keys : luaH_get(new, k) = luaH_get(tb, k)

\* A resize that has nodes for the entries without a slot loses none.
LEMMA ResizeOK ==
    ASSUME NEW tb, TableOK(tb), NEW m \in Nat, NEW h \in Nat, Cardinality(NoSlot(tb, m)) <= h
    PROVE  HasBeenResized(tb, m, h, luaH_resize(tb, m, h))
<1>1. PICK N \in Nat : N = luaH_realasize(tb) + Len(tb.node)
  BY SizedSize, TableTypes DEF TableOK
<1>2. PICK n \in Nat : n = NodesFor(h) /\ h <= n
  BY RoundUpProperties DEF NodesFor
<1>3. PICK f : Inserts(f, tb, m, Emptied(tb, m, n), N) /\ luaH_resize(tb, m, h) = f[N]
  <2>1. \E f : Inserts(f, tb, m, Emptied(tb, m, NodesFor(h)), N) /\ luaH_resize(tb, m, h) = f[N]
    BY <1>1, ResizeRuns
  <2> QED BY <1>2, <2>1
<1>4. Entries(tb) \in SUBSET (1..N)
  BY <1>1 DEF Entries
<1>5. /\ NeedNode(tb, m, N) = NoSlot(tb, m)
      /\ There(tb, m, N) = Entries(tb)
  BY <1>4 DEF NeedNode, NoSlot, There
<1>6. Cardinality(NoSlot(tb, m)) \in Nat
  BY <1>5, NeedNodeGrows
<1>7. ASSUME NEW j \in Nat, j <= N PROVE Cardinality(NeedNode(tb, m, j)) <= n
  <2>1. /\ Cardinality(NeedNode(tb, m, j)) <= Cardinality(NeedNode(tb, m, N))
        /\ Cardinality(NeedNode(tb, m, j)) \in Nat
    BY <1>7, NeedNodeGrows
  <2> QED BY <1>2, <1>5, <1>6, <2>1
<1> DEFINE H == {j \in Nat : j <= N => Resized(tb, m, n, j, f[j])}
<1>8. 0 \in H
  <2>1. f[0] = Emptied(tb, m, n)
    BY <1>3 DEF Inserts
  <2>2. Resized(tb, m, n, 0, f[0])
    BY <2>1, ResizedFirst
  <2> QED BY <2>2
<1>9. ASSUME NEW j \in Nat, j \in H PROVE j + 1 \in H
  <2> SUFFICES ASSUME j + 1 <= N PROVE Resized(tb, m, n, j + 1, f[j + 1])
    OBVIOUS
  <2>1. j + 1 \in 1..N /\ (j + 1) - 1 = j /\ Resized(tb, m, n, j, f[j])
    BY <1>9
  <2>2. f[j + 1] = Reinsert(tb, m, j + 1, f[j])
    BY <1>3, <2>1 DEF Inserts
  <2>3. Cardinality(NeedNode(tb, m, j + 1)) <= n
    BY <1>7
  <2>4. Resized(tb, m, n, j + 1, Reinsert(tb, m, j + 1, f[j]))
    BY <2>1, <2>3, ResizedNext
  <2> QED BY <2>2, <2>4
<1>10. Resized(tb, m, n, N, f[N])
  <2>1. \A j \in Nat : j \in H
    <3> HIDE DEF H
    <3> QED BY <1>8, <1>9, NatSetInduction
  <2> QED BY <2>1
<1> HIDE DEF H
<1>11. PICK new : new = f[N]
  OBVIOUS
<1>12. /\ TableOK(new) /\ Len(new.array) = m /\ new.realsize /\ Len(new.node) = n
       /\ Cardinality(Used(new.node)) <= Cardinality(NoSlot(tb, m))
       /\ \A i \in Entries(tb) : luaH_get(new, KeyAt(tb, i)) = ValueAt(tb, i)
       /\ \A k \in Keys : luaH_get(new, k) # Nil => \E i \in Entries(tb) : KeyAt(tb, i) = k
  BY <1>5, <1>10, <1>11 DEF Resized
<1>13. ASSUME NEW k \in Keys PROVE luaH_get(new, k) = luaH_get(tb, k)
  BY <1>12, EntryGet
<1> QED BY <1>2, <1>3, <1>11, <1>12, <1>13 DEF HasBeenResized

LEMMA ComputesizesNat ==
    ASSUME NEW ints, IsFiniteSet(ints)
    PROVE  computesizes(ints) \in Nat
<1> DEFINE S == {0} \cup {n \in 1..(2 * Cardinality(ints)) :
                            ispow2(n) /\ 2 * Cardinality({i \in ints : i <= n}) > n}
<1>1. PICK b \in Nat : b = 2 * Cardinality(ints)
  BY FS_CardinalityType
<1>2. S \in SUBSET Nat /\ S # {} /\ \A n \in S : n <= b
  BY <1>1
<1>3. Max(S) \in S
  <2> HIDE DEF S
  <2> QED BY <1>1, <1>2, MaxGreatest
<1>4. computesizes(ints) = Max(S)
  BY DEF computesizes
<1> HIDE DEF S
<1> QED BY <1>2, <1>3, <1>4

LEMMA KeysOf ==
    ASSUME NEW tb, TableOK(tb), NEW S \in SUBSET Entries(tb)
    PROVE  /\ IsFiniteSet({KeyAt(tb, i) : i \in S})
           /\ Cardinality({KeyAt(tb, i) : i \in S}) = Cardinality(S)
<1>1. IsFiniteSet(S)
  BY EntriesFinite, FS_Subset
<1>2. \A i, j \in S : KeyAt(tb, i) = KeyAt(tb, j) => i = j
  BY EntryGet
<1> DEFINE K == {KeyAt(tb, i) : i \in S}
           f == [i \in S |-> KeyAt(tb, i)]
<1>3. f \in [S -> K] /\ (\A i \in S : f[i] = KeyAt(tb, i)) /\ \A x \in K : \E i \in S : f[i] = x
  OBVIOUS
<1> HIDE DEF f, K
<1>4. f \in Bijection(S, K)
  <2>1. f \in Injection(S, K)
    BY <1>2, <1>3 DEF Injection, IsInjective
  <2>2. f \in Surjection(S, K)
    BY <1>3 DEF Surjection
  <2> QED BY <2>1, <2>2 DEF Bijection
<1>5. ExistsBijection(S, K)
  BY <1>4 DEF ExistsBijection
<1> QED BY <1>1, <1>5, FS_Bijection DEF K

\* A rehash keeps every value, and has a place for the new key.
LEMMA RehashOK ==
    ASSUME NEW tb, TableOK(tb), NEW k \in Keys, luaH_get(tb, k) = Nil
    PROVE  LET new == rehash(tb, k)
           IN /\ TableOK(new) /\ \A x \in Keys : luaH_get(new, x) = luaH_get(tb, x)
              /\ HasSlot(new, k) \/ HasRoom(new, k)
<1> DEFINE E == Entries(tb)
           ints == {x \in {KeyAt(tb, i) : i \in E} \cup {k} : IsInteger(x)}
           asize == computesizes(ints)
           low == {i \in ints : i <= asize}
           S == {i \in E : KeyAt(tb, i) \in 1..asize}
           T == NoSlot(tb, asize)
<1>1. /\ IsFiniteSet(E) /\ \A i \in E : KeyAt(tb, i) \in Keys
      /\ \A i, j \in E : KeyAt(tb, i) = KeyAt(tb, j) => i = j
      /\ \A i \in E : KeyAt(tb, i) # k
  <2>1. \A i \in E : KeyAt(tb, i) \in Keys /\ luaH_get(tb, KeyAt(tb, i)) = ValueAt(tb, i)
                     /\ ValueAt(tb, i) # Nil
    BY EntryGet DEF Entries
  <2> QED BY <2>1, EntriesFinite, EntryGet
<1>2. IsFiniteSet(ints)
  <2>1. IsFiniteSet({KeyAt(tb, i) : i \in E})
    BY KeysOf
  <2>2. IsFiniteSet({KeyAt(tb, i) : i \in E} \cup {k})
    BY <2>1, FS_AddElement
  <2>3. ints \in SUBSET ({KeyAt(tb, i) : i \in E} \cup {k})
    OBVIOUS
  <2> QED BY <2>2, <2>3, FS_Subset
<1>3. asize \in Nat
  BY <1>2, ComputesizesNat
<1>4. \A x \in Keys : IsInteger(x) <=> x \in Nat /\ x >= 1
  BY TableAssumption DEF Keys, Ints, IsInteger
<1> HIDE DEF asize
<1>5. low = {KeyAt(tb, i) : i \in S} \cup (IF k \in 1..asize THEN {k} ELSE {})
  <2>1. \A x \in Keys : (IsInteger(x) /\ x <= asize) <=> x \in 1..asize
    BY <1>3, <1>4, TableAssumption DEF Keys, Ints
  <2> QED BY <1>1, <2>1
<1>6. /\ IsFiniteSet(S) /\ IsFiniteSet(T) /\ S \cap T = {} /\ S \cup T = E
      /\ Cardinality(S) \in Nat /\ Cardinality(T) \in Nat
  <2>1. S \in SUBSET E /\ T \in SUBSET E /\ S \cap T = {} /\ S \cup T = E
    BY DEF NoSlot
  <2> QED BY <1>1, <2>1, FS_Subset, FS_CardinalityType
<1> HIDE DEF E, T, S
<1>7. Cardinality(E) = Cardinality(S) + Cardinality(T)
  BY <1>6, FS_Union, FS_EmptySet
<1>8. /\ IsFiniteSet({KeyAt(tb, i) : i \in S})
      /\ Cardinality({KeyAt(tb, i) : i \in S}) = Cardinality(S)
  BY <1>6, KeysOf DEF E
<1>9. k \notin {KeyAt(tb, i) : i \in S}
  BY <1>1, <1>6
<1>10. Cardinality(low) = Cardinality(S) + (IF k \in 1..asize THEN 1 ELSE 0)
  <2>1. PICK K : K = {KeyAt(tb, i) : i \in S}
    OBVIOUS
  <2>2. IsFiniteSet(K) /\ Cardinality(K) = Cardinality(S) /\ k \notin K
    BY <1>8, <1>9, <2>1
  <2>3. CASE k \in 1..asize
    <3>1. low = K \cup {k}
      BY <1>5, <2>1, <2>3
    <3> HIDE DEF low
    <3>2. Cardinality(K \cup {k}) = Cardinality(K) + 1
      BY <2>2, FS_AddElement
    <3> QED BY <2>2, <2>3, <3>1, <3>2
  <2>4. CASE k \notin 1..asize
    <3>1. low = K
      BY <1>5, <2>1, <2>4
    <3> HIDE DEF low
    <3> QED BY <1>6, <2>2, <2>4, <3>1
  <2> QED BY <2>3, <2>4
<1>11. PICK h : h = Cardinality(E) + 1 - Cardinality(low)
  OBVIOUS
<1>12. h \in Nat /\ h = Cardinality(T) + (IF k \in 1..asize THEN 0 ELSE 1)
  BY <1>6, <1>7, <1>10, <1>11
<1>13. PICK new : new = luaH_resize(tb, asize, h)
  OBVIOUS
<1>14. rehash(tb, k) = new
  BY <1>11, <1>13 DEF rehash, E, asize
<1>15. HasBeenResized(tb, asize, h, new)
  <2>1. Cardinality(NoSlot(tb, asize)) <= h
    BY <1>6, <1>12 DEF T
  <2> QED BY <1>3, <1>12, <1>13, <2>1, ResizeOK
<1>16. /\ TableOK(new) /\ Len(new.array) = asize /\ h <= Len(new.node)
       /\ Cardinality(Used(new.node)) <= Cardinality(T)
       /\ \A x \in Keys : luaH_get(new, x) = luaH_get(tb, x)
  BY <1>15 DEF HasBeenResized, T
<1>17. HasSlot(new, k) \/ HasRoom(new, k)
  <2>1. CASE k \in 1..asize
    BY <1>16, <2>1 DEF HasSlot
  <2>2. CASE k \notin 1..asize
    <3>1. new.node \in Seq(Node) /\ Len(new.node) \in Nat
      BY <1>16, TableTypes DEF TableOK
    <3>2. Cardinality(Used(new.node)) \in Nat
      BY <3>1, UsedFinite
    <3>3. Cardinality(Used(new.node)) < Len(new.node)
      BY <1>6, <1>12, <1>16, <2>2, <3>1, <3>2
    <3> QED BY <1>16, <3>3, RoomLeft
  <2> QED BY <2>1, <2>2
<1> QED BY <1>14, <1>16, <1>17

(***************************************************************************)
(* luaH_set, and the changes of the hint.                                  *)
(***************************************************************************)

\* Only the hint changes.
OnlyHint(tb, new) ==
    /\ new \in Table /\ Sized(new)
    /\ new.array = tb.array /\ new.node = tb.node /\ new.lastfree = tb.lastfree

LEMMA OnlyHintOK ==
    ASSUME NEW tb, TableOK(tb), NEW new, OnlyHint(tb, new)
    PROVE  /\ TableOK(new) /\ SameLinks(tb.node, new.node)
           /\ \A k \in Keys : luaH_get(new, k) = luaH_get(tb, k)
           /\ \A k : HasRoom(tb, k) => HasRoom(new, k)
<1>1. /\ new \in Table /\ Sized(new)
      /\ new.array = tb.array /\ new.node = tb.node /\ new.lastfree = tb.lastfree
      /\ Chained(tb.node) /\ Free(tb) /\ Divided(tb)
  BY DEF OnlyHint, TableOK
<1>2. TableOK(new)
  <2>1. Free(new)
    BY <1>1 DEF Free
  <2>2. Divided(new)
    BY <1>1 DEF Divided
  <2> QED BY <1>1, <2>1, <2>2 DEF TableOK
<1>3. SameLinks(tb.node, new.node)
  BY <1>1 DEF SameLinks, Chained, Lives
<1>4. ASSUME NEW k \in Keys PROVE luaH_get(new, k) = luaH_get(tb, k)
  <2>1. luaH_get(new, k) = IF HasSlot(new, k) THEN new.array[k] ELSE HashGet(new.node, k)
    BY <1>2, LuaGet
  <2>2. luaH_get(tb, k) = IF HasSlot(tb, k) THEN tb.array[k] ELSE HashGet(tb.node, k)
    BY LuaGet
  <2> QED BY <1>1, <2>1, <2>2 DEF HasSlot
<1>5. getfreepos(new) = getfreepos(tb)
  BY <1>1 DEF getfreepos
<1>6. ASSUME NEW k, HasRoom(tb, k) PROVE HasRoom(new, k)
  BY <1>1, <1>5, <1>6 DEF HasRoom, isdummy
<1> QED BY <1>2, <1>3, <1>4, <1>6

\* What an assignment does for a lookup, and for a traversal.
Assigned(tb, k, v, new) ==
    /\ TableOK(new)
    /\ \A x \in Keys : luaH_get(new, x) = IF x = k THEN v ELSE luaH_get(tb, x)
    /\ luaH_get(tb, k) # Nil \/ v = Nil =>
          Len(new.array) = Len(tb.array) /\ SameLinks(tb.node, new.node)

LEMMA NeedsNoNodeIs ==
    ASSUME NEW tb, TableOK(tb), NEW k \in Keys, NEW v
    PROVE  NeedsNoNode(tb, k, v) <=> HasSlot(tb, k) \/ ~NoLive(tb.node, k) \/ v = Nil
<1>1. tb.node \in Seq(Node) /\ Chained(tb.node)
  BY TableTypes DEF TableOK
<1>2. getgeneric(tb.node, k, FALSE) = 0 <=> NoLive(tb.node, k)
  BY <1>1, NodeGet
<1> QED BY <1>2, InArrayIs DEF NeedsNoNode

LEMMA SetOK ==
    ASSUME NEW tb, TableOK(tb), NEW k \in Keys, NEW v \in Values \cup {Nil}
    PROVE  Assigned(tb, k, v, luaH_set(tb, k, v))
<1>1. PICK new : new = luaH_set(tb, k, v)
  OBVIOUS
<1>2. PICK found : found = AfterGet(tb, k)
  OBVIOUS
<1>3. OnlyHint(tb, found)
  <2>1. tb \in Table /\ Sized(tb)
    BY DEF TableOK
  <2> QED BY <1>2, <2>1, GetMovesHint DEF OnlyHint
<1>4. /\ TableOK(found) /\ found.array = tb.array /\ found.node = tb.node
      /\ \A x \in Keys : luaH_get(found, x) = luaH_get(tb, x)
      /\ HasRoom(tb, k) => HasRoom(found, k)
  BY <1>3, OnlyHintOK DEF OnlyHint
<1>5. CASE NeedsNoNode(tb, k, v) \/ HasRoom(tb, k)
  <2>1. WasSet(found, k, v, new)
    BY <1>1, <1>2, <1>5 DEF luaH_set, WasSet
  <2>2. Room(found, k, v)
    BY <1>4, <1>5, NeedsNoNodeIs DEF Room, HasSlot
  <2>3. HasBeenSet(found, k, v, new)
    BY <1>4, <2>1, <2>2, SetInPlaceOK
  <2>4. luaH_get(tb, k) # Nil => HasSlot(found, k) \/ ~NoLive(found.node, k)
    <3>1. HasSlot(found, k) \/ luaH_get(tb, k) = HashGet(tb.node, k)
      BY <1>4, LuaGet DEF HasSlot
    <3>2. tb.node \in Seq(Node) /\ Chained(tb.node)
      BY TableTypes DEF TableOK
    <3>3. getgeneric(tb.node, k, FALSE) = 0 <=> NoLive(tb.node, k)
      BY <3>2, NodeGet
    <3>4. NoLive(tb.node, k) => HashGet(tb.node, k) = Nil
      BY <3>3 DEF HashGet
    <3> QED BY <1>4, <3>1, <3>4
  <2> QED BY <1>1, <1>4, <2>3, <2>4 DEF HasBeenSet, Assigned
<1>6. CASE ~ (NeedsNoNode(tb, k, v) \/ HasRoom(tb, k))
  <2>1. PICK r : r = rehash(tb, k)
    OBVIOUS
  <2>2. WasSet(r, k, v, new)
    BY <1>1, <1>6, <2>1 DEF luaH_set, WasSet
  <2>3. ~HasSlot(tb, k) /\ NoLive(tb.node, k) /\ v # Nil
    BY <1>6, NeedsNoNodeIs
  <2>4. luaH_get(tb, k) = Nil
    <3>1. tb.node \in Seq(Node) /\ Chained(tb.node)
      BY TableTypes DEF TableOK
    <3>2. getgeneric(tb.node, k, FALSE) = 0
      BY <2>3, <3>1, NodeGet
    <3> QED BY <2>3, <3>2, LuaGet DEF HashGet
  <2>5. /\ TableOK(r) /\ \A x \in Keys : luaH_get(r, x) = luaH_get(tb, x)
        /\ HasSlot(r, k) \/ HasRoom(r, k)
    BY <2>1, <2>4, RehashOK
  <2>6. Room(r, k, v)
    BY <2>5 DEF Room
  <2>7. HasBeenSet(r, k, v, new)
    BY <2>2, <2>5, <2>6, SetInPlaceOK
  <2> QED BY <1>1, <2>3, <2>4, <2>5, <2>7 DEF HasBeenSet, Assigned
<1> QED BY <1>5, <1>6

\* Where the links are the same, a traversal goes the same way.
LEMMA FindindexSame ==
    ASSUME NEW tb, TableOK(tb), NEW new, TableOK(new), Len(new.array) = Len(tb.array),
           SameLinks(tb.node, new.node), NEW k \in Keys
    PROVE  findindex(new, k) = findindex(tb, k)
<1>1. /\ luaH_realasize(tb) = Len(tb.array) /\ luaH_realasize(new) = Len(new.array)
      /\ tb.node \in Seq(Node) /\ new.node \in Seq(Node)
      /\ Linked(tb.node) /\ Linked(new.node)
  BY SizedSize, TableTypes, ChainedLinked DEF TableOK
<1> DEFINE x == getgeneric(tb.node, k, TRUE)
           y == getgeneric(new.node, k, TRUE)
<1>2. x = y
  <2>1. /\ Len(tb.node) = Len(new.node)
        /\ \A p \in DOMAIN tb.node : /\ tb.node[p].key = new.node[p].key
                                     /\ tb.node[p].next = new.node[p].next
    BY DEF SameLinks
  <2>2. k \in Keys \cup Nat
    OBVIOUS
  <2> QED BY <1>1, <2>1, <2>2, LookupSame
<1>3. findindex(tb, k) = IF IsInteger(k) /\ k <= Len(tb.array) THEN k
                         ELSE IF x = 0 THEN 0 ELSE Len(tb.array) + x
  BY <1>1 DEF findindex
<1>4. findindex(new, k) = IF IsInteger(k) /\ k <= Len(tb.array) THEN k
                          ELSE IF y = 0 THEN 0 ELSE Len(tb.array) + y
  BY <1>1 DEF findindex
<1> HIDE DEF x, y
<1> QED BY <1>2, <1>3, <1>4

(***************************************************************************)
(* luaH_getn.                                                              *)
(***************************************************************************)

LEMMA ArrayFacts ==
    ASSUME NEW tb, TableOK(tb)
    PROVE  /\ tb \in Table /\ Sized(tb) /\ tb.alimit \in Nat /\ tb.realsize \in BOOLEAN
           /\ Len(tb.array) \in Nat /\ luaH_realasize(tb) = Len(tb.array)
           /\ tb.alimit <= Len(tb.array)
           /\ limitequalsasize(tb) => tb.alimit = Len(tb.array)
           /\ ~limitequalsasize(tb) => /\ tb.alimit < Len(tb.array) /\ tb.alimit # 0
                                       /\ Len(tb.array) < 2 * tb.alimit
                                       /\ ispow2realasize(tb)
<1>1. /\ tb \in Table /\ Sized(tb) /\ tb.alimit \in Nat /\ tb.realsize \in BOOLEAN
      /\ Len(tb.array) \in Nat /\ luaH_realasize(tb) = Len(tb.array)
  BY SizedSize, TableTypes DEF TableOK
<1>2. tb.alimit <= Len(tb.array)
  BY <1>1 DEF Sized
<1>3. limitequalsasize(tb) => tb.alimit = Len(tb.array)
  BY <1>1 DEF luaH_realasize
<1>4. ASSUME ~limitequalsasize(tb)
      PROVE  /\ tb.alimit < Len(tb.array) /\ tb.alimit # 0
             /\ Len(tb.array) < 2 * tb.alimit /\ ispow2realasize(tb)
  <2>1. ~tb.realsize /\ ~ispow2(tb.alimit)
    BY <1>4 DEF limitequalsasize
  <2>2. PICK e \in Nat : Len(tb.array) = twoto[e] /\ Len(tb.array) < 2 * tb.alimit
    BY <1>1, <2>1 DEF Sized
  <2>3. tb.alimit # Len(tb.array)
    BY <1>1, <2>1, <2>2, IsPow2
  <2>4. tb.alimit # 0
    BY <1>1, <2>1, IsPow2
  <2> QED BY <1>1, <1>2, <2>1, <2>2, <2>3, <2>4 DEF ispow2realasize
<1> QED BY <1>1, <1>2, <1>3, <1>4

\* The slot before the hint is a hint too, unless the array might as well be half as large.
LEMMA HintBefore ==
    ASSUME NEW tb, TableOK(tb), ispow2realasize(tb), NEW n \in Nat, n # 0, n + 1 = tb.alimit, ~ispow2(n)
    PROVE  Len(tb.array) < 2 * n
<1>1. PICK A \in Nat : A = Len(tb.array) /\ n + 1 <= A
  BY ArrayFacts
<1>2. PICK e \in Nat : A = twoto[e] /\ A < 2 * (n + 1)
  <2>1. CASE ~tb.realsize
    <3>1. Sized(tb)
      BY DEF TableOK
    <3> QED BY <1>1, <2>1, <3>1 DEF Sized
  <2>2. CASE tb.realsize
    <3>1. A = n + 1 /\ ispow2(A)
      BY <1>1, <2>2, ArrayFacts DEF limitequalsasize, ispow2realasize
    <3>2. \E e \in Nat : A = twoto[e]
      BY <1>1, <3>1, IsPow2
    <3> QED BY <3>1, <3>2
  <2> QED BY <2>1, <2>2
<1>3. SUFFICES ASSUME 2 * n <= A PROVE FALSE
  BY <1>1
<1>4. e # 0
  BY <1>1, <1>2, <1>3, TwoTo
<1>5. PICK d \in Nat : d + 1 = e
  BY <1>4
<1>6. A = 2 * twoto[d] /\ twoto[d] \in Nat
  BY <1>2, <1>5, TwoTo, TwoToType
<1>7. n = twoto[d]
  BY <1>2, <1>3, <1>6
<1> QED BY <1>7, IsPow2

Border(tb, n) ==
    /\ n \in Nat /\ (n = 0 \/ luaH_get(tb, n) # Nil)
    /\ luaH_get(tb, n + 1) = Nil

\* Only the integers that are keys have a value.
LEMMA OnlyInts ==
    ASSUME NEW tb, TableOK(tb), NEW n \in Nat \ {0}, luaH_get(tb, n) # Nil
    PROVE  n \in Ints
<1>1. /\ tb.node \in Seq(Node) /\ Chained(tb.node) /\ Divided(tb)
      /\ DOMAIN tb.array = 1..Len(tb.array)
  BY TableTypes DEF TableOK
<1>2. CASE HasSlot(tb, n)
  BY <1>1, <1>2, LuaGet DEF HasSlot, Divided
<1>3. CASE ~HasSlot(tb, n)
  <2> DEFINE r == getgeneric(tb.node, n, FALSE)
  <2>1. HashGet(tb.node, n) # Nil
    BY <1>3, LuaGet
  <2>2. r # 0 /\ tb.node[r].val # Nil
    BY <2>1 DEF HashGet
  <2>3. r \in DOMAIN tb.node \cup {0} /\ (r # 0 => tb.node[r].key = n)
    <3>1. Linked(tb.node) /\ n \in Keys \cup Nat /\ FALSE \in BOOLEAN
      BY <1>1, ChainedLinked
    <3> QED BY <3>1, GetGeneric
  <2> HIDE DEF r
  <2>4. tb.node[r].key # Nil
    BY <1>1, <2>2, <2>3 DEF Chained, UnusedAlone, EmptyNode
  <2>5. tb.node[r] \in Node
    BY <1>1, <2>2, <2>3, NodesDomain
  <2>6. n \in Keys
    BY <2>2, <2>3, <2>4, <2>5 DEF Node
  <2> QED BY <2>6, TableAssumption DEF Keys
<1> QED BY <1>2, <1>3

LEMMA EmptyHash ==
    ASSUME NEW tb, TableOK(tb), NEW n \in Nat \ {0}, ~HasSlot(tb, n), isdummy(tb)
    PROVE  luaH_get(tb, n) = Nil
<1>1. tb.node \in Seq(Node) /\ DOMAIN tb.node = {}
  BY DEF isdummy
<1> DEFINE r == getgeneric(tb.node, n, FALSE)
<1>2. r = 0
  <2>1. Linked(tb.node) /\ n \in Keys \cup Nat /\ FALSE \in BOOLEAN
    BY <1>1, TableTypes, ChainedLinked DEF TableOK
  <2>2. r \in DOMAIN tb.node \cup {0}
    BY <2>1, GetGeneric
  <2> HIDE DEF r
  <2> QED BY <1>1, <2>2
<1>3. HashGet(tb.node, n) = IF r = 0 THEN Nil ELSE tb.node[r].val
  BY DEF HashGet
<1> HIDE DEF r
<1> QED BY <1>2, <1>3, LuaGet

\* hash_search starts from a size that is 0 or present, where the next index is present.
LEMMA HashSearchBorder ==
    ASSUME NEW tb, TableOK(tb), NEW size \in Nat, size = 0 \/ luaH_get(tb, size) # Nil,
           luaH_get(tb, size + 1) # Nil
    PROVE  Border(tb, hash_search(tb, size))
<1> DEFINE present == {i \in Ints : luaH_get(tb, i) # Nil}
           first == IF size = 0 THEN 1 ELSE size
           d == Doubled(present, first)
           r == binsearch(present, d, 2 * d)
<1>1. /\ present \in SUBSET Ints
      /\ \A n \in Nat \ {0} : n \in present <=> luaH_get(tb, n) # Nil
      /\ \A n \in present : n \in Nat \ {0}
  BY OnlyInts DEF Ints
<1>2. hash_search(tb, size) = r
  BY DEF hash_search
<1> HIDE DEF present
<1>3. first \in Nat /\ 1 <= first /\ first \in present
  BY <1>1
<1> HIDE DEF first
<1>4. d \in Nat /\ 1 <= d /\ d \in present /\ 2 * d \notin present
  BY <1>1, <1>3, DoubledBorder
<1> HIDE DEF d
<1>5. r \in Nat /\ d <= r /\ (r = d \/ r \in present) /\ r + 1 \notin present
  <2>1. PICK j \in Nat : j = 2 * d /\ d < j /\ j \notin present
    BY <1>4
  <2>2. /\ binsearch(present, d, j) \in Nat /\ d <= binsearch(present, d, j)
        /\ binsearch(present, d, j) = d \/ binsearch(present, d, j) \in present
        /\ binsearch(present, d, j) + 1 \notin present
    BY <1>4, <2>1, BinsearchBorder
  <2> QED BY <2>1, <2>2
<1> HIDE DEF r
<1> QED BY <1>1, <1>2, <1>4, <1>5 DEF Border

LEMMA HintIs ==
    ASSUME NEW tb, TableOK(tb), NEW n \in Nat, n <= Len(tb.array), Len(tb.array) < 2 * n,
           ispow2realasize(tb)
    PROVE  OnlyHint(tb, [tb EXCEPT !.alimit = n, !.realsize = FALSE])
<1>1. tb \in Table /\ Sized(tb)
  BY DEF TableOK
<1>2. PICK new : new = [tb EXCEPT !.alimit = n, !.realsize = FALSE]
  OBVIOUS
<1>3. /\ [tb EXCEPT !.alimit = n, !.realsize = FALSE] \in Table
      /\ Sized([tb EXCEPT !.alimit = n, !.realsize = FALSE])
  BY <1>1, HintTellsSize
<1>4. new.array = tb.array /\ new.node = tb.node /\ new.lastfree = tb.lastfree
  BY <1>1, <1>2 DEF Table
<1> QED BY <1>2, <1>3, <1>4 DEF OnlyHint

\* luaH_getn finds a border, and a hint that tells the size.
LEMMA GetnOK ==
    ASSUME NEW tb, TableOK(tb)
    PROVE  OnlyHint(tb, luaH_getn(tb).tb) /\ Border(tb, luaH_getn(tb).n)
<1> DEFINE limit == tb.alimit
           size == luaH_realasize(tb)
           present == {i \in 1..size : tb.array[i] # Nil}
           found == limit = 0 \/ limit \in present
           Hint(n) == [n |-> n, tb |-> [tb EXCEPT !.alimit = n, !.realsize = FALSE]]
           Same(n) == [n |-> n, tb |-> tb]
           low == binsearch(present, 0, limit)
           high == binsearch(present, limit, size)
           g == luaH_getn(tb)
<1>1. ~found /\ limit - 1 \in present =>
         g = IF ispow2realasize(tb) /\ ~ispow2(limit - 1) THEN Hint(limit - 1) ELSE Same(limit - 1)
  BY DEF luaH_getn
<1>2. ~found /\ limit - 1 \notin present =>
         g = IF MayBeLimit(tb, low) THEN Hint(low) ELSE Same(low)
  BY DEF luaH_getn
<1>3. found /\ ~limitequalsasize(tb) /\ limit + 1 \notin present => g = Same(limit)
  BY DEF luaH_getn
<1>4. found /\ ~limitequalsasize(tb) /\ limit + 1 \in present /\ size \notin present => g = Hint(high)
  BY DEF luaH_getn
<1>5. found /\ (limitequalsasize(tb) \/ (limit + 1 \in present /\ size \in present)) =>
         g = IF isdummy(tb) \/ luaH_get(tb, size + 1) = Nil
             THEN Same(size) ELSE Same(hash_search(tb, size))
  BY DEF luaH_getn
<1>6. /\ limit \in Nat /\ size \in Nat /\ limit <= size /\ size = Len(tb.array)
      /\ limitequalsasize(tb) => limit = size
      /\ ~limitequalsasize(tb) => limit < size /\ limit # 0 /\ size < 2 * limit /\ ispow2realasize(tb)
  BY ArrayFacts
<1>7. \A i \in Nat : i # 0 /\ i <= size => (i \in present <=> luaH_get(tb, i) # Nil)
  <2> SUFFICES ASSUME NEW i \in Nat, i # 0, i <= size
               PROVE  i \in present <=> luaH_get(tb, i) # Nil
    OBVIOUS
  <2>1. HasSlot(tb, i) /\ i \in 1..size
    BY <1>6 DEF HasSlot
  <2> QED BY <2>1, LuaGet
<1>8. \A i \in present : i \in Nat /\ i # 0 /\ i <= size
  BY <1>6
<1>9. OnlyHint(tb, tb)
  BY DEF OnlyHint, TableOK
<1>10. \A n : Same(n).n = n /\ Same(n).tb = tb
  OBVIOUS
<1>11. ASSUME NEW n \in Nat, n <= size, size < 2 * n, ispow2realasize(tb)
       PROVE  OnlyHint(tb, Hint(n).tb) /\ Hint(n).n = n
  BY <1>6, <1>11, HintIs
<1> HIDE DEF limit, size, present, Same, Hint, low, high, g
<1>12. CASE ~found /\ limit - 1 \in present
  <2>1. PICK n \in Nat : n = limit - 1 /\ n + 1 = limit /\ n # 0 /\ n \in present
    BY <1>6, <1>8, <1>12
  <2>2. Border(tb, n)
    BY <1>6, <1>7, <1>12, <2>1 DEF Border
  <2>3. CASE ispow2realasize(tb) /\ ~ispow2(n)
    <3>1. size < 2 * n
      BY <1>6, <2>1, <2>3, HintBefore DEF limit
    <3> QED BY <1>1, <1>6, <1>11, <1>12, <2>1, <2>2, <2>3, <3>1 DEF g
  <2>4. CASE ~ (ispow2realasize(tb) /\ ~ispow2(n))
    BY <1>1, <1>9, <1>10, <1>12, <2>1, <2>2, <2>4 DEF g
  <2> QED BY <2>3, <2>4
<1>13. CASE ~found /\ limit - 1 \notin present
  <2>1. limit # 0 /\ limit \notin present
    BY <1>13
  <2>2. low \in Nat /\ low < limit /\ (low = 0 \/ low \in present) /\ low + 1 \notin present
    BY <1>6, <2>1, BinsearchBorder DEF low
  <2>3. Border(tb, low)
    BY <1>6, <1>7, <1>8, <2>2 DEF Border
  <2>4. CASE MayBeLimit(tb, low)
    <3>1. ispow2realasize(tb) /\ size < 2 * low
      <4>1. ispow2realasize(tb) /\ low > size \div 2
        BY <2>4 DEF MayBeLimit, size
      <4>2. \A x, y \in Nat : y > x \div 2 => x < 2 * y
        OBVIOUS
      <4>3. size \in Nat /\ low \in Nat
        BY <1>6, <2>2
      <4> QED BY <4>1, <4>2, <4>3
    <3> QED BY <1>2, <1>6, <1>11, <1>13, <2>2, <2>3, <2>4, <3>1 DEF g
  <2>5. CASE ~MayBeLimit(tb, low)
    BY <1>2, <1>9, <1>10, <1>13, <2>3, <2>5 DEF g
  <2> QED BY <2>4, <2>5
<1>14. CASE found /\ ~limitequalsasize(tb) /\ limit + 1 \notin present
  <2>1. Border(tb, limit)
    BY <1>6, <1>7, <1>14 DEF Border
  <2> QED BY <1>3, <1>9, <1>10, <1>14, <2>1 DEF g
<1>15. CASE found /\ ~limitequalsasize(tb) /\ limit + 1 \in present /\ size \notin present
  <2>1. high \in Nat /\ limit <= high /\ high < size /\ (high = limit \/ high \in present) /\ high + 1 \notin present
    BY <1>6, <1>15, BinsearchBorder DEF high
  <2>2. Border(tb, high)
    BY <1>6, <1>7, <1>8, <1>15, <2>1 DEF Border
  <2>3. OnlyHint(tb, Hint(high).tb) /\ Hint(high).n = high
    BY <1>6, <1>11, <1>15, <2>1
  <2> QED BY <1>4, <1>15, <2>2, <2>3 DEF g
<1>16. CASE found /\ (limitequalsasize(tb) \/ (limit + 1 \in present /\ size \in present))
  <2>1. size = 0 \/ luaH_get(tb, size) # Nil
    BY <1>6, <1>7, <1>8, <1>16
  <2>2. CASE luaH_get(tb, size + 1) = Nil
    <3>1. Border(tb, size)
      BY <1>6, <2>1, <2>2 DEF Border
    <3> QED BY <1>5, <1>9, <1>10, <1>16, <2>2, <3>1 DEF g
  <2>3. CASE luaH_get(tb, size + 1) # Nil
    <3>1. Border(tb, hash_search(tb, size))
      BY <1>6, <2>1, <2>3, HashSearchBorder
    <3>2. ~HasSlot(tb, size + 1) /\ size + 1 \in Nat \ {0}
      BY <1>6 DEF HasSlot
    <3>3. ~isdummy(tb)
      BY <2>3, <3>2, EmptyHash
    <3> QED BY <1>5, <1>9, <1>10, <1>16, <2>3, <3>1, <3>3 DEF g
  <2> QED BY <2>2, <2>3
<1> HIDE DEF found
<1> QED BY <1>12, <1>13, <1>14, <1>15, <1>16

(***************************************************************************)
(* The traversal, and the steps.                                           *)
(***************************************************************************)

\* The index of the key of an entry is where the entry is.
LEMMA FindEntry ==
    ASSUME NEW tb, TableOK(tb), NEW i \in Entries(tb)
    PROVE  findindex(tb, KeyAt(tb, i)) = i
<1>1. PICK A \in Nat : A = Len(tb.array) /\ A = luaH_realasize(tb)
  BY SizedSize, TableTypes DEF TableOK
<1>2. tb.node \in Seq(Node) /\ Chained(tb.node) /\ Linked(tb.node)
  BY TableTypes, ChainedLinked DEF TableOK
<1>3. CASE i \in 1..A /\ i \in Ints /\ KeyAt(tb, i) = i
  <2>1. IsInteger(i)
    BY <1>3, TableAssumption DEF IsInteger, Ints
  <2> QED BY <1>1, <1>3, <2>1 DEF findindex
<1>4. ASSUME NEW p \in DOMAIN tb.node, i = A + p, tb.node[p].key = KeyAt(tb, i),
             p \in Used(tb.node), ~tb.node[p].dead, KeyAt(tb, i) \in Keys,
             KeyAt(tb, i) \in Ints => KeyAt(tb, i) > A
      PROVE  findindex(tb, KeyAt(tb, i)) = i
  <2> DEFINE k == KeyAt(tb, i)
             r == getgeneric(tb.node, k, TRUE)
  <2>1. ~ (IsInteger(k) /\ k <= A)
    <3>1. IsInteger(k) => k \in Ints
      BY <1>4 DEF IsInteger, Keys
    <3>2. k \in Ints => k \in Nat
      BY DEF Ints
    <3> QED BY <1>1, <1>4, <3>1, <3>2
  <2>2. r = p
    <3>1. Leads(tb.node, Home(tb.node, p), p)
      BY <1>2, <1>4 DEF Chained, Found
    <3>2. PICK T \in SUBSET DOMAIN tb.node : Before(tb.node, T, Home(tb.node, p), p)
      BY <1>2, <1>4 DEF Chained, Found
    <3>3. getgeneric(tb.node, tb.node[p].key, TRUE) = p
      BY <1>2, <1>4, <3>1, <3>2, LookupLive
    <3> QED BY <1>4, <3>3
  <2>3. p # 0
    BY <1>2, NodesDomain
  <2>4. findindex(tb, k) = IF r = 0 THEN 0 ELSE A + r
    BY <1>1, <2>1 DEF findindex
  <2> HIDE DEF r
  <2> QED BY <1>4, <2>2, <2>3, <2>4
<1> QED BY <1>1, <1>3, <1>4, EntryCases

LEMMA FindNat ==
    ASSUME NEW tb, TableOK(tb), NEW k \in Keys
    PROVE  findindex(tb, k) \in Nat
<1>1. luaH_realasize(tb) \in Nat
  BY SizedSize, TableTypes DEF TableOK
<1> DEFINE r == getgeneric(tb.node, k, TRUE)
<1>2. r \in Nat
  <2>1. tb.node \in Seq(Node) /\ Linked(tb.node) /\ k \in Keys \cup Nat /\ TRUE \in BOOLEAN
    BY TableTypes, ChainedLinked DEF TableOK
  <2>2. r \in DOMAIN tb.node \cup {0}
    BY <2>1, GetGeneric
  <2>3. \A p \in DOMAIN tb.node : p \in Nat
    BY <2>1, NodesDomain
  <2> HIDE DEF r
  <2> QED BY <2>2, <2>3
<1>3. IsInteger(k) => k \in Nat
  BY DEF IsInteger, Keys, Ints
<1>4. findindex(tb, k) = IF IsInteger(k) /\ k <= luaH_realasize(tb) THEN k
                         ELSE IF r = 0 THEN 0 ELSE luaH_realasize(tb) + r
  BY DEF findindex
<1> HIDE DEF r
<1> QED BY <1>1, <1>2, <1>3, <1>4

\* The present keys are those of the entries.
LEMMA PresentEntries ==
    ASSUME IInv
    PROVE  /\ \A i \in Entries(t) : /\ i \in Nat /\ KeyAt(t, i) \in Keys
                                    /\ map[KeyAt(t, i)] # Nil
                                    /\ findindex(t, KeyAt(t, i)) = i
           /\ \A k \in Keys : map[k] # Nil => findindex(t, k) \in Entries(t)
                                              /\ KeyAt(t, findindex(t, k)) = k
<1>1. TableOK(t) /\ \A k \in Keys : luaH_get(t, k) = map[k]
  BY DEF IInv, FindsWhatWasSet
<1>2. ASSUME NEW i \in Entries(t)
      PROVE  /\ i \in Nat /\ KeyAt(t, i) \in Keys /\ map[KeyAt(t, i)] # Nil
             /\ findindex(t, KeyAt(t, i)) = i
  <2>1. KeyAt(t, i) \in Keys /\ luaH_get(t, KeyAt(t, i)) = ValueAt(t, i)
    BY <1>1, EntryGet
  <2>2. ValueAt(t, i) # Nil
    BY DEF Entries
  <2> QED BY <1>1, <2>1, <2>2, EntriesFinite, FindEntry
<1>3. ASSUME NEW k \in Keys, map[k] # Nil
      PROVE  findindex(t, k) \in Entries(t) /\ KeyAt(t, findindex(t, k)) = k
  <2>1. PICK i \in Entries(t) : KeyAt(t, i) = k
    BY <1>1, <1>3, EntryGet
  <2> QED BY <1>2, <2>1
<1> QED BY <1>2, <1>3

\* A step of next ends the traversal when all was met, or meets what it had not.
LEMMA AdvanceCases ==
    ASSUME IInv, Advance
    PROVE  /\ t' = t /\ map' = map /\ at # Off
           /\ \/ /\ at' = Off /\ seen' = {}
                 /\ \A k \in Keys : map[k] # Nil => k \in seen
              \/ /\ at' \in Keys /\ seen' = seen \cup {at'} /\ at' \notin seen
                 /\ map[at'] # Nil /\ findindex(t, at') # 0
                 /\ \A k \in Keys : map[k] # Nil =>
                       (k \in seen \cup {at'} <=> findindex(t, k) <= findindex(t, at'))
<1> DEFINE from == IF at = Nil THEN 0 ELSE findindex(t, at)
           rest == {i \in Entries(t) : i > from}
           m == Min(rest)
<1>1. /\ TableOK(t) /\ at \in Keys \cup {Nil} /\ at # Off
      /\ at = Nil => seen = {}
      /\ at \in Keys => /\ findindex(t, at) # 0
                        /\ \A k \in Keys : map[k] # Nil =>
                              (k \in seen <=> findindex(t, k) <= findindex(t, at))
  BY DEF IInv, Traversal, Advance
<1>2. /\ \A i \in Entries(t) : /\ i \in Nat /\ KeyAt(t, i) \in Keys
                               /\ map[KeyAt(t, i)] # Nil
                               /\ findindex(t, KeyAt(t, i)) = i
      /\ \A k \in Keys : map[k] # Nil => findindex(t, k) \in Entries(t)
                                         /\ KeyAt(t, findindex(t, k)) = k
  BY PresentEntries
<1>3. \A i \in Entries(t) : i # 0
  BY <1>1, SizedSize, TableTypes DEF Entries, TableOK
<1>4. from \in Nat /\ ~ (at # Nil /\ from = 0)
  BY <1>1, FindNat
<1>5. ASSUME NEW k \in Keys, map[k] # Nil PROVE k \in seen <=> findindex(t, k) <= from
  <2>1. CASE at = Nil
    BY <1>1, <1>2, <1>3, <1>5, <2>1
  <2>2. CASE at # Nil
    BY <1>1, <1>5, <2>2
  <2> QED BY <2>1, <2>2
<1>6. /\ t' = t /\ map' = map
      /\ rest = {} => at' = Off /\ seen' = {}
      /\ rest # {} => at' = KeyAt(t, m) /\ seen' = seen \cup {KeyAt(t, m)}
  BY <1>4 DEF Advance
<1>7. rest \in SUBSET Nat /\ \A i \in Entries(t) : i \in rest <=> i > from
  BY <1>2
<1>8. rest \subseteq Entries(t)
  OBVIOUS
<1>9. rest # {} => m \in rest /\ \A i \in rest : m <= i
  <2> HIDE DEF rest
  <2> QED BY <1>7, MinLeast
<1> HIDE DEF from, rest, m
<1>10. CASE rest = {}
  <2>1. ASSUME NEW k \in Keys, map[k] # Nil PROVE k \in seen
    <3>1. findindex(t, k) \in Entries(t) /\ ~ (findindex(t, k) > from) /\ findindex(t, k) \in Nat
      BY <1>2, <1>7, <1>10, <2>1
    <3> QED BY <1>4, <1>5, <2>1, <3>1
  <2> QED BY <1>1, <1>6, <1>10, <2>1
<1>11. CASE rest # {}
  <2>1. PICK key \in Keys : key = KeyAt(t, m)
    BY <1>2, <1>8, <1>9, <1>11
  <2>2. /\ m \in Entries(t) /\ m \in Nat /\ m > from /\ findindex(t, key) = m /\ m # 0
        /\ map[key] # Nil
    BY <1>2, <1>3, <1>7, <1>8, <1>9, <1>11, <2>1
  <2>3. key \notin seen
    BY <1>4, <1>5, <2>2
  <2>4. ASSUME NEW k \in Keys, map[k] # Nil
        PROVE  k \in seen \cup {key} <=> findindex(t, k) <= m
    <3>1. PICK i \in Entries(t) : i = findindex(t, k) /\ KeyAt(t, i) = k /\ i \in Nat
      BY <1>2, <2>4
    <3>2. k \in seen <=> i <= from
      BY <1>5, <2>4, <3>1
    <3>3. k = key <=> i = m
      BY <1>2, <2>1, <2>2, <3>1
    <3>4. i > from => m <= i
      BY <1>7, <1>9, <1>11
    <3> QED BY <1>4, <2>2, <3>1, <3>2, <3>3, <3>4
  <2> QED BY <1>1, <1>6, <1>11, <2>1, <2>2, <2>3, <2>4
<1> QED BY <1>10, <1>11

LEMMA TraversalKept ==
    ASSUME IInv, TableOK(t'), Len(t'.array) = Len(t.array), SameLinks(t.node, t'.node),
           \A k \in Keys : map'[k] # Nil => map[k] # Nil, UNCHANGED <<at, seen>>
    PROVE  Traversal'
<1>1. TableOK(t) /\ Traversal
  BY DEF IInv
<1>2. PICK new : new = t'
  OBVIOUS
<1>3. \A k \in Keys : findindex(t', k) = findindex(t, k)
  <2>1. \A k \in Keys : findindex(new, k) = findindex(t, k)
    BY <1>1, <1>2, FindindexSame
  <2> QED BY <1>2, <2>1
<1>4. at' = at /\ seen' = seen
  OBVIOUS
<1> QED BY <1>1, <1>3, <1>4 DEF Traversal

LEMMA InitIInv == ASSUME Init PROVE IInv
<1>1. PICK sizes \in Created :
        t = luaH_resize([array |-> <<>>, alimit |-> 0, realsize |-> TRUE,
                         node |-> <<>>, lastfree |-> 0], sizes[1], sizes[2])
  BY DEF Init
<1>2. PICK m \in Nat, h \in Nat : m = sizes[1] /\ h = sizes[2]
  BY TableAssumption
<1>3. PICK e : e = [array |-> <<>>, alimit |-> 0, realsize |-> TRUE, node |-> <<>>, lastfree |-> 0]
  OBVIOUS
<1>4. TableOK(e) /\ Entries(e) = {} /\ \A k \in Keys : luaH_get(e, k) = Nil
  <2>1. /\ e \in Table /\ e.array = <<>> /\ e.node = <<>> /\ e.realsize /\ e.alimit = 0
        /\ e.lastfree = 0 /\ Len(e.array) = 0 /\ Len(e.node) = 0
        /\ DOMAIN e.array = {} /\ DOMAIN e.node = {}
    BY <1>3, EmptySeq DEF Table
  <2>2. Used(e.node) = {} /\ Chained(e.node)
    BY <2>1 DEF Used, Chained, UnusedAlone, Lives, InMainPosition, Found
  <2>3. Sized(e) /\ Free(e) /\ Divided(e)
    BY <2>1, <2>2 DEF Sized, Free, Divided
  <2>4. TableOK(e)
    BY <2>1, <2>2, <2>3 DEF TableOK
  <2>5. luaH_realasize(e) = 0
    BY <2>1, <2>4, SizedSize DEF TableOK
  <2>6. Entries(e) = {}
    BY <2>1, <2>5 DEF Entries
  <2>7. \A k \in Keys : luaH_get(e, k) = Nil
    BY <2>4, <2>6, EntryGet
  <2> QED BY <2>4, <2>6, <2>7
<1>5. Cardinality(NoSlot(e, m)) <= h
  <2>1. NoSlot(e, m) = {}
    BY <1>4 DEF NoSlot
  <2> QED BY <1>2, <2>1, FS_EmptySet
<1>6. HasBeenResized(e, m, h, luaH_resize(e, m, h))
  BY <1>2, <1>4, <1>5, ResizeOK
<1>7. TableOK(t) /\ \A k \in Keys : luaH_get(t, k) = Nil
  BY <1>1, <1>2, <1>3, <1>4, <1>6 DEF HasBeenResized
<1>8. map = [k \in Keys |-> Nil] /\ at = Off /\ seen = {}
  BY DEF Init
<1> QED BY <1>7, <1>8, KeysNotNil DEF IInv, FindsWhatWasSet, Traversal

\* A table whose links stay keeps everything else that holds.
LEMMA StepKept ==
    ASSUME IInv, NEW new, new = t', TableOK(new), SameLinks(t.node, new.node),
           Len(new.array) = Len(t.array),
           \A k \in Keys : luaH_get(new, k) = luaH_get(t, k), UNCHANGED <<map, at, seen>>
    PROVE  IInv'
<1>1. Traversal'
  BY TraversalKept
<1>2. FindsWhatWasSet'
  BY DEF IInv, FindsWhatWasSet
<1> QED BY <1>1, <1>2 DEF IInv

LEMMA StepSet ==
    ASSUME IInv, NEW k \in Keys, NEW v \in Values \cup {Nil}, Set(k, v)
    PROVE  IInv'
<1>1. PICK new : new = t'
  OBVIOUS
<1>2. /\ TableOK(t) /\ map \in [Keys -> Values \cup {Nil}]
      /\ \A x \in Keys : luaH_get(t, x) = map[x]
  BY DEF IInv, FindsWhatWasSet
<1>3. Assigned(t, k, v, luaH_set(t, k, v))
  BY <1>2, SetOK
<1>4. Assigned(t, k, v, new)
  BY <1>1, <1>3 DEF Set
<1>5. /\ TableOK(new)
      /\ \A x \in Keys : luaH_get(new, x) = IF x = k THEN v ELSE luaH_get(t, x)
      /\ luaH_get(t, k) # Nil \/ v = Nil =>
            Len(new.array) = Len(t.array) /\ SameLinks(t.node, new.node)
  BY <1>4 DEF Assigned
<1>6. /\ map' = [map EXCEPT ![k] = v]
      /\ map[k] = Nil /\ v # Nil => at' = Off /\ seen' = {}
      /\ ~ (map[k] = Nil /\ v # Nil) => UNCHANGED <<at, seen>>
  BY DEF Set
<1>7. map' \in [Keys -> Values \cup {Nil}] /\ \A x \in Keys : map'[x] = IF x = k THEN v ELSE map[x]
  BY <1>2, <1>6
<1>8. FindsWhatWasSet'
  BY <1>1, <1>2, <1>5, <1>7 DEF FindsWhatWasSet
<1>9. Traversal'
  <2>1. CASE map[k] = Nil /\ v # Nil
    BY <1>6, <2>1, KeysNotNil DEF Traversal
  <2>2. CASE ~ (map[k] = Nil /\ v # Nil)
    <3>1. \A x \in Keys : map'[x] # Nil => map[x] # Nil
      BY <1>7, <2>2
    <3>2. Len(new.array) = Len(t.array) /\ SameLinks(t.node, new.node)
      BY <1>2, <1>5, <2>2
    <3> QED BY <1>1, <1>5, <1>6, <2>2, <3>1, <3>2, TraversalKept
  <2> QED BY <2>1, <2>2
<1> QED BY <1>1, <1>5, <1>7, <1>8, <1>9 DEF IInv

LEMMA StepHint ==
    ASSUME IInv, NEW new, new = t', OnlyHint(t, new), UNCHANGED <<map, at, seen>>
    PROVE  IInv'
<1>1. TableOK(t)
  BY DEF IInv
<1>2. /\ TableOK(new) /\ SameLinks(t.node, new.node)
      /\ \A k \in Keys : luaH_get(new, k) = luaH_get(t, k)
      /\ new.array = t.array
  BY <1>1, OnlyHintOK DEF OnlyHint
<1> QED BY <1>2, StepKept

LEMMA StepSetFails ==
    ASSUME IInv, NEW k \in Keys, NEW v, SetFails(k, v)
    PROVE  IInv'
<1>1. PICK new : new = t'
  OBVIOUS
<1>2. TableOK(t)
  BY DEF IInv
<1>3. /\ t \in Table /\ Sized(t) /\ luaH_realasize(t) = Len(t.array) /\ Len(t.array) \in Nat
  BY <1>2, ArrayFacts
<1>4. new = [t EXCEPT !.alimit = Len(t.array), !.realsize = TRUE]
  BY <1>1, <1>3 DEF SetFails, setlimittosize
<1>5. /\ new \in Table /\ new.alimit = Len(t.array) /\ new.realsize
      /\ new.array = t.array /\ new.node = t.node /\ new.lastfree = t.lastfree
  BY <1>3, <1>4 DEF Table
<1>6. OnlyHint(t, new)
  BY <1>5 DEF OnlyHint, Sized
<1>7. UNCHANGED <<map, at, seen>>
  BY DEF SetFails
<1> QED BY <1>1, <1>6, <1>7, StepHint

LEMMA StepGet ==
    ASSUME IInv, NEW k \in Keys, Get(k)
    PROVE  IInv'
<1>1. PICK new : new = t'
  OBVIOUS
<1>2. t \in Table /\ Sized(t)
  BY DEF IInv, TableOK
<1>3. new = AfterGet(t, k) /\ UNCHANGED <<map, at, seen>>
  BY <1>1 DEF Get
<1>4. OnlyHint(t, new)
  BY <1>2, <1>3, GetMovesHint DEF OnlyHint
<1> QED BY <1>1, <1>3, <1>4, StepHint

LEMMA StepLength ==
    ASSUME IInv, Length
    PROVE  IInv'
<1>1. PICK new : new = t'
  OBVIOUS
<1>2. TableOK(t)
  BY DEF IInv
<1>3. new = luaH_getn(t).tb /\ UNCHANGED <<map, at, seen>>
  BY <1>1 DEF Length
<1>4. OnlyHint(t, new)
  BY <1>2, <1>3, GetnOK
<1> QED BY <1>1, <1>3, <1>4, StepHint

LEMMA StepClearKeys ==
    ASSUME IInv, ClearKeys
    PROVE  IInv'
<1>1. PICK a : a = t.node
  OBVIOUS
<1>2. PICK b : b = [p \in DOMAIN a |->
                      [a[p] EXCEPT !.dead = a[p].val = Nil /\ a[p].key \in Strings \cup Objects]]
  OBVIOUS
<1>3. PICK new : new = t'
  OBVIOUS
<1>4. /\ TableOK(t) /\ t \in Table /\ Sized(t) /\ Free(t) /\ Divided(t)
      /\ a \in Seq(Node) /\ Chained(a) /\ DOMAIN a = 1..Len(a) /\ Len(a) \in Nat
  BY <1>1, TableTypes, NodesDomain DEF IInv, TableOK
<1>5. new = [t EXCEPT !.node = b] /\ UNCHANGED <<map, at, seen>>
  BY <1>1, <1>2, <1>3 DEF ClearKeys
<1>6. ASSUME NEW p \in DOMAIN a
      PROVE  /\ b[p] \in Node /\ b[p].key = a[p].key /\ b[p].val = a[p].val
             /\ b[p].next = a[p].next
             /\ b[p].dead <=> a[p].val = Nil /\ a[p].key \in Strings \cup Objects
  <2>1. a[p] \in Node
    BY <1>4, <1>6, NodesDomain
  <2>2. PICK d \in BOOLEAN : d = (a[p].val = Nil /\ a[p].key \in Strings \cup Objects)
    OBVIOUS
  <2>3. b[p] = [a[p] EXCEPT !.dead = d]
    BY <1>2, <1>6, <2>2
  <2> QED BY <2>1, <2>2, <2>3 DEF Node
<1>7. b \in Seq(Node) /\ Len(b) = Len(a) /\ DOMAIN b = DOMAIN a
  <2>1. b = [p \in 1..Len(a) |-> b[p]]
    BY <1>2, <1>4
  <2>2. \A p \in 1..Len(a) : b[p] \in Node
    BY <1>4, <1>6
  <2> QED BY <1>4, <2>1, <2>2, IsASeq
<1>8. SameLinks(a, b)
  <2>1. ASSUME NEW p \in DOMAIN a PROVE a[p].dead => b[p].dead
    BY <1>4, <1>6 DEF Chained, Lives
  <2>2. ASSUME NEW p \in DOMAIN a, a[p].key = Nil PROVE b[p] = a[p]
    <3>1. a[p] = EmptyNode /\ a[p] \in Node /\ b[p] \in Node
      BY <1>4, <1>6, <2>2, NodesDomain DEF Chained, UnusedAlone
    <3>2. ~b[p].dead /\ ~a[p].dead
      <4>1. Nil \notin Strings \cup Objects
        BY KeysNotNil DEF Keys
      <4> QED BY <1>6, <2>2, <3>1, <4>1 DEF EmptyNode
    <3>3. /\ b[p].key = a[p].key /\ b[p].val = a[p].val /\ b[p].next = a[p].next
          /\ b[p].dead = a[p].dead
      BY <1>6, <3>1, <3>2 DEF Node
    <3> QED BY <3>1, <3>3 DEF Node
  <2> QED BY <1>6, <1>7, <2>1, <2>2 DEF SameLinks
<1>9. Chained(b) /\ Used(b) = Used(a)
  BY <1>4, <1>7, <1>8, SameLinksChained
<1>10. /\ new \in Table /\ new.array = t.array /\ new.alimit = t.alimit
       /\ new.realsize = t.realsize /\ new.node = b /\ new.lastfree = t.lastfree
  BY <1>4, <1>5, <1>7 DEF Table
<1>11. TableOK(new)
  <2>1. Sized(new)
    BY <1>4, <1>10 DEF Sized
  <2>2. Free(new)
    BY <1>1, <1>4, <1>7, <1>9, <1>10 DEF Free
  <2>3. Divided(new)
    <3>1. \A q \in Used(b) : b[q].key = a[q].key
      BY <1>6, <1>7 DEF Used
    <3> QED BY <1>1, <1>4, <1>9, <1>10, <3>1 DEF Divided
  <2> QED BY <1>9, <1>10, <2>1, <2>2, <2>3 DEF TableOK
<1>12. ASSUME NEW k \in Keys PROVE luaH_get(new, k) = luaH_get(t, k)
  <2>1. \A w : Holds(b, k, w) <=> Holds(a, k, w)
    BY <1>6, <1>7 DEF Holds
  <2>2. HashGet(b, k) = HashGet(a, k)
    BY <1>4, <1>7, <1>9, <2>1, HashGetSame
  <2>3. luaH_get(new, k) = IF HasSlot(new, k) THEN new.array[k] ELSE HashGet(new.node, k)
    BY <1>11, LuaGet
  <2>4. luaH_get(t, k) = IF HasSlot(t, k) THEN t.array[k] ELSE HashGet(t.node, k)
    BY <1>4, LuaGet
  <2> QED BY <1>1, <1>10, <2>2, <2>3, <2>4 DEF HasSlot
<1> QED BY <1>1, <1>3, <1>5, <1>8, <1>10, <1>11, <1>12, StepKept

LEMMA StepAdvance ==
    ASSUME IInv, Advance
    PROVE  IInv'
<1>1. /\ t' = t /\ map' = map
      /\ \/ at' = Off /\ seen' = {}
         \/ /\ at' \in Keys /\ seen' = seen \cup {at'} /\ findindex(t, at') # 0
            /\ \A k \in Keys : map[k] # Nil =>
                  (k \in seen \cup {at'} <=> findindex(t, k) <= findindex(t, at'))
  BY AdvanceCases
<1>2. FindsWhatWasSet' /\ TableOK(t') /\ map' \in [Keys -> Values \cup {Nil}]
  BY <1>1 DEF IInv, FindsWhatWasSet
<1>3. Traversal'
  BY <1>1, KeysNotNil DEF Traversal
<1> QED BY <1>2, <1>3 DEF IInv

LEMMA StepIInv ==
    ASSUME IInv, [Next]_vars
    PROVE  IInv'
<1>1. ASSUME NEW k \in Keys, Get(k) PROVE IInv'
  BY <1>1, StepGet
<1>2. ASSUME NEW k \in Keys, NEW v \in Values \cup {Nil}, Set(k, v) PROVE IInv'
  BY <1>2, StepSet
<1>3. ASSUME NEW k \in Keys, NEW v \in Values \cup {Nil}, SetFails(k, v) PROVE IInv'
  BY <1>3, StepSetFails
<1>4. CASE Length
  BY <1>4, StepLength
<1>5. CASE ClearKeys
  BY <1>5, StepClearKeys
<1>6. CASE Begin
  <2>1. Traversal'
    BY <1>6, KeysNotNil, TableAssumption DEF Begin, Traversal
  <2>2. FindsWhatWasSet'
    BY <1>6 DEF Begin, IInv, FindsWhatWasSet
  <2> QED BY <1>6, <2>1, <2>2 DEF Begin, IInv
<1>7. CASE Advance
  BY <1>7, StepAdvance
<1>8. CASE UNCHANGED vars
  <2>1. Traversal'
    BY <1>8 DEF vars, IInv, Traversal
  <2>2. FindsWhatWasSet'
    BY <1>8 DEF vars, IInv, FindsWhatWasSet
  <2> QED BY <1>8, <2>1, <2>2 DEF vars, IInv
<1> QED BY <1>1, <1>2, <1>3, <1>4, <1>5, <1>6, <1>7, <1>8 DEF Next

LEMMA Invariant == Spec => []IInv
<1>1. Init => IInv
  BY InitIInv
<1>2. IInv /\ [Next]_vars => IInv'
  BY StepIInv
<1> QED BY <1>1, <1>2, PTL DEF Spec

(***************************************************************************)
(* The theorems.                                                           *)
(***************************************************************************)

\* The code computes the size of the array from any hint it leaves
\* (luaH_realasize), so that no access is beyond the array and no slot is forgotten.
THEOREM SizeIsKnown == Spec => []SizeKnown
<1>1. IInv => SizeKnown
  BY SizedSize DEF IInv, TableOK, SizeKnown
<1> QED BY <1>1, Invariant, PTL

\* luaH_newkey keeps Brent's variation: an element that is not in its main
\* position collides with one that is.
THEOREM CollidersAtHome == Spec => []CollidingInMainPosition
<1>1. IInv => CollidingInMainPosition
  <2> SUFFICES ASSUME IInv PROVE CollidingInMainPosition
    OBVIOUS
  <2>1. InMainPosition(t.node)
    BY DEF IInv, TableOK, Chained
  <2> QED BY <2>1 DEF InMainPosition, Used, Home, CollidingInMainPosition
<1> QED BY <1>1, Invariant, PTL

\* luaH_get returns what luaH_set last assigned to the key.
THEOREM LookupFindsAssigned == Spec => []FindsWhatWasSet
<1>1. IInv => FindsWhatWasSet
  BY DEF IInv
<1> QED BY <1>1, Invariant, PTL

\* luaH_getn returns a border: the last of some indices, or 0 where t[1] is absent.
THEOREM LengthFindsBorder == Spec => []LengthIsBorder
<1>1. IInv => LengthIsBorder
  <2> SUFFICES ASSUME IInv PROVE LengthIsBorder
    OBVIOUS
  <2>1. PICK n : n = luaH_getn(t).n
    OBVIOUS
  <2>2. TableOK(t) /\ \A k \in Keys : luaH_get(t, k) = map[k]
    BY DEF IInv, FindsWhatWasSet
  <2>3. n \in Nat /\ (n = 0 \/ luaH_get(t, n) # Nil) /\ luaH_get(t, n + 1) = Nil
    <3>1. Border(t, luaH_getn(t).n)
      BY <2>2, GetnOK
    <3> QED BY <2>1, <3>1 DEF Border
  <2>4. n = 0 \/ n \in Ints
    BY <2>2, <2>3, OnlyInts
  <2>5. n = 0 \/ map[n] # Nil
    BY <2>2, <2>3, <2>4 DEF Keys
  <2>6. n = MaxInt \/ n + 1 \in Ints
    BY <2>3, <2>4, TableAssumption DEF Ints
  <2>7. n = MaxInt \/ map[n + 1] = Nil
    BY <2>2, <2>3, <2>6 DEF Keys
  <2> QED BY <2>1, <2>5, <2>7 DEF LengthIsBorder
<1> QED BY <1>1, Invariant, PTL

\* The array and the hash part implement a map that next traverses: next meets
\* every present key once, and the error "invalid key to 'next'" (findindex) is
\* not raised, while the program changes and clears fields and keys die.
THEOREM TableImplementsMap == Spec => ImplementsLuaMap
<1>1. Init => Map!Init
  BY DEF Init, Map!Init
<1>2. IInv /\ [Next]_vars => [Map!Next]_(Map!vars)
  <2> SUFFICES ASSUME IInv, [Next]_vars PROVE [Map!Next]_(Map!vars)
    OBVIOUS
  <2>1. ASSUME NEW k \in Keys, Get(k) PROVE UNCHANGED Map!vars
    BY <2>1 DEF Get, Map!vars
  <2>2. ASSUME NEW k \in Keys, NEW v \in Values \cup {Nil}, Set(k, v) PROVE Map!Next
    <3>1. Map!Set(k, v)
      BY <2>2 DEF Set, Map!Set, Map!Present
    <3> QED BY <3>1 DEF Map!Next
  <2>3. ASSUME NEW k \in Keys, NEW v, SetFails(k, v) PROVE UNCHANGED Map!vars
    BY <2>3 DEF SetFails, Map!vars
  <2>4. CASE Length
    BY <2>4 DEF Length, Map!vars
  <2>5. CASE ClearKeys
    BY <2>5 DEF ClearKeys, Map!vars
  <2>6. CASE Begin
    BY <2>6 DEF Begin, Map!Begin, Map!Next
  <2>7. CASE Advance
    <3>1. /\ map' = map /\ at # Off
          /\ \/ /\ at' = Off /\ seen' = {}
                /\ \A k \in Keys : map[k] # Nil => k \in seen
             \/ /\ at' \in Keys /\ seen' = seen \cup {at'} /\ at' \notin seen
                /\ map[at'] # Nil
      BY <2>7, AdvanceCases
    <3>2. CASE /\ at' = Off /\ seen' = {}
               /\ \A k \in Keys : map[k] # Nil => k \in seen
      <4>1. Map!End
        BY <3>1, <3>2 DEF Map!End, Map!Present
      <4> QED BY <4>1 DEF Map!Next
    <3>3. CASE /\ at' \in Keys /\ seen' = seen \cup {at'} /\ at' \notin seen
               /\ map[at'] # Nil
      <4>1. Map!Meet(at')
        BY <3>1, <3>3 DEF Map!Meet, Map!Present
      <4> QED BY <3>3, <4>1 DEF Map!Next
    <3> QED BY <3>1, <3>2, <3>3
  <2>8. CASE UNCHANGED vars
    BY <2>8 DEF vars, Map!vars
  <2> QED BY <2>1, <2>2, <2>3, <2>4, <2>5, <2>6, <2>7, <2>8 DEF Next
<1> QED BY <1>1, <1>2, Invariant, PTL DEF Spec, ImplementsLuaMap, Map!Spec
=============================================================================
