-------------------------- MODULE PoolLogicProofs --------------------------
(***************************************************************************)
(* What the definitions of PoolLogic are worth.  First, sums over a finite *)
(* set: SumOver is a recursive function that picks the elements in an      *)
(* order of its own, so each fact about it is proved by looking at a       *)
(* smallest subset for which it would fail.  Then, what each operation on  *)
(* the loan book does to the paper, the cash and the claims.               *)
(***************************************************************************)
EXTENDS PoolLogic, FiniteSetTheorems, SequenceTheorems, NaturalsInduction,
        WellFoundedInduction, TLAPS

Pick(s) == CHOOSE x \in s : TRUE

Less1(s) == s \ {Pick(s)}

\* `g` adds `f` up over every subset of S.
Adds(g, f, S) ==
    g = [s \in SUBSET S |-> IF s = {} THEN 0 ELSE f[Pick(s)] + g[Less1(s)]]

LEMMA SumIsChosen ==
    ASSUME NEW f, NEW S
    PROVE  SumOver(f, S) = (CHOOSE g : Adds(g, f, S))[S]
  <1> DEFINE P(g) == g = [s \in SUBSET S |->
                            IF s = {} THEN 0
                            ELSE f[CHOOSE x \in s : TRUE]
                                   + g[s \ {CHOOSE x \in s : TRUE}]]
  <1>1. SumOver(f, S) = (CHOOSE g : P(g))[S]
    BY Zenon DEF SumOver, SumFunctionOnSet, FoldFunctionOnSet, MapThenFoldSet
  <1>2. \A g : P(g) <=> Adds(g, f, S)
    BY DEF Adds, Pick, Less1
  <1> HIDE DEF P
  <1>3. (CHOOSE g : P(g)) = (CHOOSE g : Adds(g, f, S))
    BY <1>2
  <1> QED BY <1>1, <1>3

\* A property that fails on some subset fails on a smallest one.
LEMMA SmallestSubset ==
    ASSUME NEW S, IsFiniteSet(S), NEW T, T \subseteq SUBSET S, T # {}
    PROVE  \E U \in T : \A V \in T : ~(V \subseteq U /\ V # U)
  <1>1. IsWellFoundedOn(StrictSubsetOrdering(S), SUBSET S)
    BY FS_StrictSubsetOrderingWellFounded, FS_FiniteSubsetsOfFinite
  <1>2. \E U \in T : \A V \in T : <<V, U>> \notin StrictSubsetOrdering(S)
    BY <1>1, WFMin
  <1> QED BY <1>2 DEF StrictSubsetOrdering

LEMMA PickIsIn ==
    ASSUME NEW s, s # {}
    PROVE  Pick(s) \in s /\ Less1(s) \subseteq s /\ Less1(s) # s
  BY DEF Pick, Less1

\* Two functions that add the same values agree.
LEMMA SumIsUnique ==
    ASSUME NEW S, IsFiniteSet(S), NEW R, NEW Q, S \subseteq R, S \subseteq Q,
           NEW f, NEW e, \A x \in S : f[x] = e[x],
           NEW g, Adds(g, f, R), NEW h, Adds(h, e, Q)
    PROVE  g[S] = h[S]
  <1> SUFFICES ASSUME g[S] # h[S] PROVE FALSE
    OBVIOUS
  <1> DEFINE T == {s \in SUBSET S : g[s] # h[s]}
  <1>0. S \in T /\ T \subseteq SUBSET S
    OBVIOUS
  <1>1. PICK U \in T : \A V \in T : ~(V \subseteq U /\ V # U)
    <2> HIDE DEF T
    <2> QED BY <1>0, SmallestSubset
  <1>2. U \subseteq S /\ U \in SUBSET R /\ U \in SUBSET Q /\ g[U] # h[U]
    OBVIOUS
  <1>3. CASE U = {}
    <2>1. g[U] = 0 /\ h[U] = 0
      BY <1>2, <1>3 DEF Adds
    <2> QED BY <1>2, <2>1
  <1>4. CASE U # {}
    <2>1. Pick(U) \in U /\ Less1(U) \subseteq U /\ Less1(U) # U
      BY <1>4, PickIsIn
    <2>2. g[U] = f[Pick(U)] + g[Less1(U)] /\ h[U] = e[Pick(U)] + h[Less1(U)]
      BY <1>2, <1>4 DEF Adds
    <2>3. g[Less1(U)] = h[Less1(U)]
      BY <1>1, <1>2, <2>1
    <2>4. f[Pick(U)] = e[Pick(U)]
      BY <1>2, <2>1
    <2> QED BY <1>2, <2>2, <2>3, <2>4
  <1> QED BY <1>3, <1>4

\* There is such a function: one for a set is put together from those for its
\* proper subsets.
LEMMA SumExists ==
    ASSUME NEW S, IsFiniteSet(S), NEW f
    PROVE  \E g : Adds(g, f, S)
  <1> SUFFICES ASSUME ~ \E g : Adds(g, f, S) PROVE FALSE
    OBVIOUS
  <1> DEFINE T == {s \in SUBSET S : ~ \E g : Adds(g, f, s)}
  <1>0. S \in T /\ T \subseteq SUBSET S
    OBVIOUS
  <1>1. PICK U \in T : \A V \in T : ~(V \subseteq U /\ V # U)
    <2> HIDE DEF T
    <2> QED BY <1>0, SmallestSubset
  <1>2. U \subseteq S /\ ~ \E g : Adds(g, f, U)
    OBVIOUS
  <1> DEFINE part(s) == CHOOSE g : Adds(g, f, s)
  <1>3. ASSUME NEW s \in SUBSET U, s # U PROVE Adds(part(s), f, s)
    <2>1. \E g : Adds(g, f, s)
      BY <1>1, <1>2, <1>3
    <2> QED BY <2>1
  <1> HIDE DEF part
  <1> DEFINE value(s) == IF s = {} THEN 0 ELSE f[Pick(s)] + part(Less1(s))[Less1(s)]
             g == [s \in SUBSET U |-> value(s)]
  <1>4. ASSUME NEW s \in SUBSET U, s # {} PROVE g[Less1(s)] = part(Less1(s))[Less1(s)]
    <2> DEFINE v == Less1(s)
    <2>1. v \in SUBSET U /\ v # U
      BY <1>4, PickIsIn
    <2>2. Adds(part(v), f, v)
      BY <1>3, <2>1
    <2> HIDE DEF v
    <2>3. CASE v = {}
      <3>1. part(v)[v] = 0
        BY <2>2, <2>3 DEF Adds
      <3> QED BY <2>1, <2>3, <3>1 DEF v
    <2>4. CASE v # {}
      <3> DEFINE w == Less1(v)
      <3>1. w \subseteq v /\ w # v
        BY <2>4, PickIsIn
      <3>2. Adds(part(w), f, w)
        BY <1>3, <2>1, <3>1
      <3>3. IsFiniteSet(w)
        BY <1>2, <2>1, <3>1, FS_Subset
      <3> HIDE DEF w
      <3>4. part(v)[w] = part(w)[w]
        BY <2>2, <3>1, <3>2, <3>3, SumIsUnique
      <3>5. part(v)[v] = f[Pick(v)] + part(v)[w]
        BY <2>2, <2>4 DEF Adds, w
      <3>6. g[v] = f[Pick(v)] + part(w)[w]
        BY <2>1, <2>4 DEF w
      <3> QED BY <3>4, <3>5, <3>6 DEF v
    <2> QED BY <2>3, <2>4
  <1>5. \A s \in SUBSET U :
          g[s] = IF s = {} THEN 0 ELSE f[Pick(s)] + g[Less1(s)]
    <2> TAKE s \in SUBSET U
    <2>1. g[s] = value(s)
      OBVIOUS
    <2> HIDE DEF g
    <2> QED BY <1>4, <2>1
  <1>6. g = [s \in SUBSET U |-> g[s]]
    OBVIOUS
  <1> HIDE DEF g
  <1>7. Adds(g, f, U)
    BY <1>5, <1>6 DEF Adds
  <1> QED BY <1>2, <1>7

---------------------------------------------------------------------------
(* Sums. *)

LEMMA SumOfNothing == \A f : SumOver(f, {}) = 0
  <1> TAKE f
  <1>1. \E g : Adds(g, f, {})
    BY SumExists, FS_EmptySet
  <1>2. Adds(CHOOSE g : Adds(g, f, {}), f, {})
    BY <1>1
  <1>3. \A g : Adds(g, f, {}) => g[{}] = 0
    BY DEF Adds
  <1> QED BY <1>2, <1>3, SumIsChosen

\* A sum depends on the values summed and on nothing else.
LEMMA SumAgrees ==
    ASSUME NEW S, IsFiniteSet(S), NEW f, NEW e, \A x \in S : f[x] = e[x]
    PROVE  SumOver(f, S) = SumOver(e, S)
  <1> DEFINE g == CHOOSE g : Adds(g, f, S)
             h == CHOOSE h : Adds(h, e, S)
  <1>1. Adds(g, f, S) /\ Adds(h, e, S)
    BY SumExists
  <1>2. SumOver(f, S) = g[S] /\ SumOver(e, S) = h[S]
    BY SumIsChosen
  <1> HIDE DEF g, h
  <1> QED BY <1>1, <1>2, SumIsUnique

LEMMA SumPicks ==
    ASSUME NEW S, IsFiniteSet(S), S # {}, NEW f
    PROVE  SumOver(f, S) = f[Pick(S)] + SumOver(f, Less1(S))
  <1> DEFINE v == Less1(S)
             g == CHOOSE g : Adds(g, f, S)
             h == CHOOSE h : Adds(h, f, v)
  <1>1. v \subseteq S /\ IsFiniteSet(v)
    BY PickIsIn, FS_Subset
  <1>2. Adds(g, f, S) /\ Adds(h, f, v)
    BY <1>1, SumExists
  <1>3. SumOver(f, S) = g[S] /\ SumOver(f, v) = h[v]
    BY SumIsChosen
  <1>4. g[S] = f[Pick(S)] + g[v]
    BY <1>2 DEF Adds
  <1> HIDE DEF g, h, v
  <1>5. g[v] = h[v]
    BY <1>1, <1>2, SumIsUnique
  <1> QED BY <1>3, <1>4, <1>5 DEF v

LEMMA SumIsInt ==
    ASSUME NEW S, IsFiniteSet(S), NEW f, \A x \in S : f[x] \in Int
    PROVE  SumOver(f, S) \in Int
  <1> SUFFICES ASSUME SumOver(f, S) \notin Int PROVE FALSE
    OBVIOUS
  <1> DEFINE T == {s \in SUBSET S : SumOver(f, s) \notin Int}
  <1>0. S \in T /\ T \subseteq SUBSET S
    OBVIOUS
  <1>1. PICK U \in T : \A V \in T : ~(V \subseteq U /\ V # U)
    <2> HIDE DEF T
    <2> QED BY <1>0, SmallestSubset
  <1>2. U \subseteq S /\ SumOver(f, U) \notin Int /\ IsFiniteSet(U)
    BY FS_Subset
  <1>3. U # {}
    BY <1>2, SumOfNothing
  <1>4. Pick(U) \in U /\ Less1(U) \subseteq U /\ Less1(U) # U
    BY <1>3, PickIsIn
  <1>5. SumOver(f, Less1(U)) \in Int
    BY <1>1, <1>2, <1>4
  <1> QED BY <1>2, <1>3, <1>4, <1>5, SumPicks

LEMMA SumOfZeros ==
    ASSUME NEW S, IsFiniteSet(S)
    PROVE  SumOver([x \in S |-> 0], S) = 0
  <1> DEFINE f == [x \in S |-> 0]
  <1> SUFFICES ASSUME SumOver(f, S) # 0 PROVE FALSE
    OBVIOUS
  <1> DEFINE T == {s \in SUBSET S : SumOver(f, s) # 0}
  <1>0. S \in T /\ T \subseteq SUBSET S
    OBVIOUS
  <1>1. PICK U \in T : \A V \in T : ~(V \subseteq U /\ V # U)
    <2> HIDE DEF T
    <2> QED BY <1>0, SmallestSubset
  <1>2. U \subseteq S /\ SumOver(f, U) # 0 /\ IsFiniteSet(U)
    BY FS_Subset
  <1>3. U # {}
    BY <1>2, SumOfNothing
  <1> DEFINE p == Pick(U)
             v == Less1(U)
  <1>4. /\ p \in U /\ v \subseteq U /\ v # U /\ SumOver(f, U) = f[p] + SumOver(f, v)
    BY <1>2, <1>3, PickIsIn, SumPicks
  <1>5. f[p] = 0
    BY <1>2, <1>4
  <1> HIDE DEF p, v, f
  <1>6. SumOver(f, v) = 0
    BY <1>1, <1>2, <1>4
  <1> QED BY <1>2, <1>4, <1>5, <1>6

\* Any element can be taken out first.
LEMMA SumTakesOut ==
    ASSUME NEW S, IsFiniteSet(S), NEW f, \A x \in S : f[x] \in Int, NEW x \in S
    PROVE  SumOver(f, S) = f[x] + SumOver(f, S \ {x})
  <1> DEFINE Splits(s) == \A y \in s : SumOver(f, s) = f[y] + SumOver(f, s \ {y})
             T == {s \in SUBSET S : ~Splits(s)}
  <1> SUFFICES ASSUME ~Splits(S) PROVE FALSE
    OBVIOUS
  <1>0. S \in T /\ T \subseteq SUBSET S
    OBVIOUS
  <1>1. PICK U \in T : \A V \in T : ~(V \subseteq U /\ V # U)
    <2> HIDE DEF T
    <2> QED BY <1>0, SmallestSubset
  <1>2. PICK y \in U : SumOver(f, U) # f[y] + SumOver(f, U \ {y})
    OBVIOUS
  <1> DEFINE p == Pick(U)
             rest == (U \ {p}) \ {y}
  <1>3. /\ U \subseteq S /\ IsFiniteSet(U) /\ p \in U
        /\ SumOver(f, U) = f[p] + SumOver(f, U \ {p})
    BY SumPicks, PickIsIn, FS_Subset DEF Less1
  <1> HIDE DEF p
  <1>4. p # y
    BY <1>2, <1>3
  <1>5. /\ U \ {p} \in SUBSET S /\ U \ {p} \subseteq U /\ U \ {p} # U
        /\ U \ {y} \in SUBSET S /\ U \ {y} \subseteq U /\ U \ {y} # U
    BY <1>3
  <1>6. Splits(U \ {p}) /\ Splits(U \ {y})
    <2> HIDE DEF Splits
    <2> QED BY <1>1, <1>5
  <1>7. /\ SumOver(f, U \ {p}) = f[y] + SumOver(f, rest)
        /\ SumOver(f, U \ {y}) = f[p] + SumOver(f, (U \ {y}) \ {p})
    BY <1>2, <1>3, <1>4, <1>6
  <1>8. (U \ {y}) \ {p} = rest
    OBVIOUS
  <1>9. f[p] \in Int /\ f[y] \in Int /\ SumOver(f, rest) \in Int
    <2>1. rest \subseteq S /\ IsFiniteSet(rest)
      BY <1>3, FS_Subset
    <2> HIDE DEF rest
    <2> QED BY <1>2, <1>3, <2>1, SumIsInt
  <1>10. SumOver(f, U \ {y}) = f[p] + SumOver(f, rest)
    BY <1>7, <1>8
  <1> DEFINE c == SumOver(f, rest)
  <1>11. c \in Int /\ SumOver(f, U) = f[p] + (f[y] + c) /\ SumOver(f, U \ {y}) = f[p] + c
    BY <1>3, <1>7, <1>9, <1>10
  <1> HIDE DEF c, rest
  <1> QED BY <1>2, <1>9, <1>11

LEMMA SumPutsIn ==
    ASSUME NEW S, IsFiniteSet(S), NEW x, x \notin S,
           NEW f, \A y \in S \cup {x} : f[y] \in Int
    PROVE  SumOver(f, S \cup {x}) = SumOver(f, S) + f[x]
  <1>1. IsFiniteSet(S \cup {x}) /\ (S \cup {x}) \ {x} = S
    BY FS_AddElement
  <1>2. SumOver(f, S \cup {x}) = f[x] + SumOver(f, S)
    BY <1>1, SumTakesOut
  <1> QED BY <1>2, SumIsInt

\* Integer summands that differ at x only.
OnlyAt(f, e, x, S) ==
    \A y \in S : /\ f[y] \in Int /\ e[y] \in Int
                 /\ y # x => f[y] = e[y]

\* One summand changes.
LEMMA SumMoves ==
    ASSUME NEW S, IsFiniteSet(S), NEW f, NEW e, NEW x \in S, OnlyAt(f, e, x, S)
    PROVE  SumOver(e, S) = SumOver(f, S) - f[x] + e[x]
  <1> USE DEF OnlyAt
  <1> DEFINE rest == S \ {x}
  <1>1. rest \subseteq S /\ IsFiniteSet(rest)
    BY FS_Subset
  <1>2. SumOver(f, S) = f[x] + SumOver(f, rest) /\ SumOver(e, S) = e[x] + SumOver(e, rest)
    BY SumTakesOut
  <1>3. \A y \in rest : f[y] = e[y] /\ f[y] \in Int
    OBVIOUS
  <1> HIDE DEF rest
  <1>4. SumOver(f, rest) = SumOver(e, rest) /\ SumOver(f, rest) \in Int
    BY <1>1, <1>3, SumAgrees, SumIsInt
  <1>5. f[x] \in Int /\ e[x] \in Int
    OBVIOUS
  <1> QED BY <1>2, <1>4, <1>5

\* Larger summands, larger sum; a part of the summands, a smaller one.
LEMMA SumIsMonotone ==
    ASSUME NEW S, IsFiniteSet(S), NEW f, NEW e,
           \A y \in S : f[y] \in Int /\ e[y] \in Int /\ f[y] <= e[y]
    PROVE  SumOver(f, S) <= SumOver(e, S)
  <1> SUFFICES ASSUME ~(SumOver(f, S) <= SumOver(e, S)) PROVE FALSE
    OBVIOUS
  <1> DEFINE T == {s \in SUBSET S : ~(SumOver(f, s) <= SumOver(e, s))}
  <1>0. S \in T /\ T \subseteq SUBSET S
    OBVIOUS
  <1>1. PICK U \in T : \A V \in T : ~(V \subseteq U /\ V # U)
    <2> HIDE DEF T
    <2> QED BY <1>0, SmallestSubset
  <1>2. U \subseteq S /\ ~(SumOver(f, U) <= SumOver(e, U)) /\ IsFiniteSet(U)
    BY FS_Subset
  <1>3. U # {}
    BY <1>2, SumOfNothing
  <1> DEFINE p == Pick(U)
             v == Less1(U)
  <1>4. /\ p \in U /\ v \subseteq U /\ v # U /\ IsFiniteSet(v)
        /\ SumOver(f, U) = f[p] + SumOver(f, v)
        /\ SumOver(e, U) = e[p] + SumOver(e, v)
    BY <1>2, <1>3, PickIsIn, SumPicks, FS_Subset
  <1> HIDE DEF p, v
  <1>5. SumOver(f, v) <= SumOver(e, v)
    BY <1>1, <1>2, <1>4
  <1>6. /\ f[p] \in Int /\ e[p] \in Int /\ f[p] <= e[p]
        /\ SumOver(f, v) \in Int /\ SumOver(e, v) \in Int
    BY <1>2, <1>4, SumIsInt
  <1> QED BY <1>2, <1>4, <1>5, <1>6

LEMMA SumIsNat ==
    ASSUME NEW S, IsFiniteSet(S), NEW f, \A x \in S : f[x] \in Nat
    PROVE  SumOver(f, S) \in Nat
  <1> SUFFICES ASSUME SumOver(f, S) \notin Nat PROVE FALSE
    OBVIOUS
  <1> DEFINE T == {s \in SUBSET S : SumOver(f, s) \notin Nat}
  <1>0. S \in T /\ T \subseteq SUBSET S
    OBVIOUS
  <1>1. PICK U \in T : \A V \in T : ~(V \subseteq U /\ V # U)
    <2> HIDE DEF T
    <2> QED BY <1>0, SmallestSubset
  <1>2. U \subseteq S /\ SumOver(f, U) \notin Nat /\ IsFiniteSet(U)
    BY FS_Subset
  <1>3. U # {}
    BY <1>2, SumOfNothing
  <1>4. Pick(U) \in U /\ Less1(U) \subseteq U /\ Less1(U) # U
    BY <1>3, PickIsIn
  <1>5. SumOver(f, Less1(U)) \in Nat
    BY <1>1, <1>2, <1>4
  <1> QED BY <1>2, <1>3, <1>4, <1>5, SumPicks

\* A sum over a part is a sum over the whole with zeros outside the part.
LEMMA SumOfPart ==
    ASSUME NEW S, IsFiniteSet(S), NEW P \in SUBSET S, NEW f, \A y \in S : f[y] \in Int
    PROVE  SumOver(f, P) = SumOver([y \in S |-> IF y \in P THEN f[y] ELSE 0], S)
  <1> DEFINE e == [y \in S |-> IF y \in P THEN f[y] ELSE 0]
  <1>e. \A y \in S : e[y] \in Int /\ e[y] = IF y \in P THEN f[y] ELSE 0
    OBVIOUS
  <1> HIDE DEF e
  <1> SUFFICES SumOver(f, P) = SumOver(e, S)
    BY DEF e
  <1> SUFFICES ASSUME SumOver(f, P) # SumOver(e, S) PROVE FALSE
    OBVIOUS
  <1> DEFINE T == {s \in SUBSET S : SumOver(f, P \cap s) # SumOver(e, s)}
  <1>0. S \in T /\ T \subseteq SUBSET S
    <2>1. P \cap S = P
      OBVIOUS
    <2> QED BY <2>1
  <1>1. PICK U \in T : \A V \in T : ~(V \subseteq U /\ V # U)
    <2> HIDE DEF T
    <2> QED BY <1>0, SmallestSubset
  <1>2. U \subseteq S /\ SumOver(f, P \cap U) # SumOver(e, U) /\ IsFiniteSet(U)
    BY FS_Subset
  <1>3. U # {}
    <2> SUFFICES ASSUME U = {} PROVE FALSE
      OBVIOUS
    <2>1. P \cap U = {}
      OBVIOUS
    <2> QED BY <1>2, <2>1, SumOfNothing
  <1> DEFINE p == Pick(U)
             v == Less1(U)
  <1>4. /\ p \in U /\ v \subseteq U /\ v # U /\ IsFiniteSet(v) /\ v = U \ {p}
        /\ SumOver(e, U) = e[p] + SumOver(e, v)
    BY <1>2, <1>3, PickIsIn, SumPicks, FS_Subset DEF Less1
  <1> HIDE DEF p, v
  <1>5. SumOver(f, P \cap v) = SumOver(e, v)
    BY <1>1, <1>2, <1>4
  <1>6. SumOver(e, v) \in Int /\ e[p] = (IF p \in P THEN f[p] ELSE 0)
    BY <1>e, <1>2, <1>4, SumIsInt
  <1>7. CASE p \in P
    <2>1. (P \cap U) \ {p} = P \cap v /\ p \in P \cap U /\ IsFiniteSet(P \cap U)
      BY <1>2, <1>4, <1>7, FS_Subset
    <2>2. SumOver(f, P \cap U) = f[p] + SumOver(f, P \cap v)
      BY <1>2, <2>1, SumTakesOut
    <2> QED BY <1>2, <1>4, <1>5, <1>6, <1>7, <2>2
  <1>8. CASE p \notin P
    <2>1. P \cap U = P \cap v
      BY <1>4, <1>8
    <2> QED BY <1>2, <1>4, <1>5, <1>6, <1>8, <2>1
  <1> QED BY <1>7, <1>8

\* One element changes its value, joins the part summed, or leaves it.
LEMMA PartMoves ==
    ASSUME NEW S, IsFiniteSet(S), NEW x \in S,
           NEW P \in SUBSET S, NEW f, NEW Q \in SUBSET S, NEW e,
           OnlyAt(f, e, x, S), \A y \in S : y # x => (y \in P <=> y \in Q)
    PROVE  SumOver(e, Q) = SumOver(f, P) - (IF x \in P THEN f[x] ELSE 0)
                                         + (IF x \in Q THEN e[x] ELSE 0)
  <1> USE DEF OnlyAt
  <1> DEFINE fp == [y \in S |-> IF y \in P THEN f[y] ELSE 0]
             eq == [y \in S |-> IF y \in Q THEN e[y] ELSE 0]
  <1>1. SumOver(f, P) = SumOver(fp, S) /\ SumOver(e, Q) = SumOver(eq, S)
    BY SumOfPart
  <1>2. /\ \A y \in S : fp[y] \in Int /\ eq[y] \in Int
        /\ \A y \in S : y # x => fp[y] = eq[y]
        /\ fp[x] = IF x \in P THEN f[x] ELSE 0
        /\ eq[x] = IF x \in Q THEN e[x] ELSE 0
    OBVIOUS
  <1> HIDE DEF fp, eq
  <1>3. SumOver(eq, S) = SumOver(fp, S) - fp[x] + eq[x]
    <2> DEFINE rest == S \ {x}
    <2>1. rest \subseteq S /\ IsFiniteSet(rest) /\ \A y \in rest : fp[y] = eq[y]
      BY <1>2, FS_Subset
    <2>2. SumOver(fp, S) = fp[x] + SumOver(fp, rest)
      BY <1>2, SumTakesOut
    <2>3. SumOver(eq, S) = eq[x] + SumOver(eq, rest)
      BY <1>2, SumTakesOut
    <2> HIDE DEF rest
    <2>4. SumOver(fp, rest) = SumOver(eq, rest)
      BY <2>1, SumAgrees
    <2>5. SumOver(fp, rest) \in Int
      BY <1>2, <2>1, SumIsInt
    <2>6. fp[x] \in Int /\ eq[x] \in Int
      BY <1>2
    <2> QED BY <2>2, <2>3, <2>4, <2>5, <2>6
  <1>4. SumOver(e, Q) = SumOver(f, P) - fp[x] + eq[x]
    BY <1>1, <1>3
  <1> DEFINE was == IF x \in P THEN f[x] ELSE 0
             is == IF x \in Q THEN e[x] ELSE 0
  <1>5. fp[x] = was /\ eq[x] = is
    BY <1>2
  <1> HIDE DEF was, is
  <1>6. SumOver(e, Q) = SumOver(f, P) - was + is
    BY <1>4, <1>5
  <1> QED BY <1>6 DEF was, is

\* Nothing that is summed changes.
LEMMA PartStays ==
    ASSUME NEW P, IsFiniteSet(P), NEW f, NEW Q, NEW e, P = Q, \A y \in P : f[y] = e[y]
    PROVE  SumOver(e, Q) = SumOver(f, P)
  BY SumAgrees

---------------------------------------------------------------------------
(* The shape of a loan book: which fields and entries it has. *)

BookFields ==
    {"reserve", "assets", "bookedCash", "deployedAssets", "bookedReceivables",
     "deferredIncome", "totalProvisioned", "provisionedAt", "provisions",
     "seniorAccrued", "books", "merchantExposure", "corridorExposure",
     "openPlanList", "openPlanSlot", "openPlans", "unmarkedDelinquencies",
     "epoch", "markedThisEpoch", "markCursor", "balance"}

PaperFields ==
    {"fronted", "carrying", "recognisedInflow", "deferredIncome", "open",
     "unmarked", "markedEpoch"}

IsPaper(r) == r = [f \in PaperFields |-> r[f]]

Shaped(b) ==
    /\ b = [f \in BookFields |-> b[f]]
    /\ b.books = [k \in Plans |-> b.books[k]]
    /\ \A k \in Plans : IsPaper(b.books[k])

\* Two books with the same cash, the same paper and the same open list: what
\* is moved between the claims and the provisions shows in none of these.
SamePaper(b, c) ==
    /\ c.bookedCash = b.bookedCash /\ c.deployedAssets = b.deployedAssets
    /\ c.balance = b.balance
    /\ c.bookedReceivables = b.bookedReceivables
    /\ c.deferredIncome = b.deferredIncome
    /\ c.books = b.books
    /\ c.merchantExposure = b.merchantExposure
    /\ c.corridorExposure = b.corridorExposure
    /\ c.openPlanList = b.openPlanList /\ c.openPlanSlot = b.openPlanSlot
    /\ c.openPlans = b.openPlans
    /\ c.unmarkedDelinquencies = b.unmarkedDelinquencies
    /\ c.epoch = b.epoch /\ c.markedThisEpoch = b.markedThisEpoch
    /\ c.markCursor = b.markCursor

LEMMA SamePaperIsShaped ==
    ASSUME NEW b, Shaped(b), NEW c, SamePaper(b, c), c = [f \in BookFields |-> c[f]]
    PROVE  Shaped(c)
  BY DEF Shaped, SamePaper

LEMMA SamePaperTransitive ==
    ASSUME NEW b, NEW c, NEW d, SamePaper(b, c), SamePaper(c, d)
    PROVE  SamePaper(b, d)
  BY DEF SamePaper

LEMMA StruckKeepsPaper ==
    ASSUME NEW b, Shaped(b), NEW s
    PROVE  Shaped(Struck(b, s)) /\ SamePaper(b, Struck(b, s))
  <1> DEFINE c == Struck(b, s)
  <1>1. c = [f \in BookFields |-> c[f]]
    BY DEF Struck, Shaped, BookFields
  <1>2. SamePaper(b, c)
    BY DEF Struck, Shaped, BookFields, SamePaper
  <1> HIDE DEF c
  <1> QED BY <1>1, <1>2, SamePaperIsShaped DEF c

LEMMA DistributeKeepsPaper ==
    ASSUME NEW b, Shaped(b), NEW amount
    PROVE  Shaped(Distribute(b, amount)) /\ SamePaper(b, Distribute(b, amount))
  <1> DEFINE c == Distribute(b, amount)
  <1>1. c = [f \in BookFields |-> c[f]]
    BY DEF Distribute, Shaped, BookFields
  <1>2. SamePaper(b, c)
    BY DEF Distribute, Shaped, BookFields, SamePaper
  <1> HIDE DEF c
  <1> QED BY <1>1, <1>2, SamePaperIsShaped DEF c

LEMMA TakeKeepsPaper ==
    ASSUME NEW b, Shaped(b), NEW k, NEW amount
    PROVE  /\ Shaped(TakeProvision(b, k, amount))
           /\ SamePaper(b, TakeProvision(b, k, amount))
  <1> DEFINE s == Strike(b, amount)
             r == Struck(b, s)
             c == TakeProvision(b, k, amount)
  <1>1. Shaped(r) /\ SamePaper(b, r)
    BY StruckKeepsPaper
  <1>2. SamePaper(b, b)
    BY DEF SamePaper
  <1>3. CASE Total(s) = 0
    BY <1>2, <1>3 DEF TakeProvision
  <1>4. CASE Total(s) # 0
    <2>1. \E x, y, z : c = [r EXCEPT !.provisions[k] = x, !.totalProvisioned = y,
                                      !.provisionedAt = z]
      BY <1>4 DEF TakeProvision
    <2>2. PICK x, y, z : c = [r EXCEPT !.provisions[k] = x, !.totalProvisioned = y,
                                        !.provisionedAt = z]
      BY <2>1
    <2> HIDE DEF c, r
    <2>3. c = [f \in BookFields |-> c[f]]
      BY <1>1, <2>2 DEF Shaped, BookFields
    <2>4. SamePaper(r, c)
      BY <1>1, <2>2 DEF SamePaper, Shaped, BookFields
    <2> QED BY <1>1, <2>3, <2>4, SamePaperIsShaped, SamePaperTransitive DEF c
  <1> QED BY <1>3, <1>4

LEMMA ReleaseKeepsPaper ==
    ASSUME NEW b, Shaped(b), NEW k, NEW amount
    PROVE  /\ Shaped(ReleaseProvision(b, k, amount))
           /\ SamePaper(b, ReleaseProvision(b, k, amount))
  <1> DEFINE c == ReleaseProvision(b, k, amount)
  <1>1. SamePaper(b, b)
    BY DEF SamePaper
  <1>2. CASE c = b
    BY <1>1, <1>2
  <1>3. CASE c # b
    <2>1. \E r, a, x, y, z : c = [b EXCEPT !.reserve = r, !.assets = a, !.provisions = x,
                                           !.totalProvisioned = y, !.provisionedAt = z]
      BY <1>3 DEF ReleaseProvision
    <2>2. PICK r, a, x, y, z : c = [b EXCEPT !.reserve = r, !.assets = a, !.provisions = x,
                                             !.totalProvisioned = y, !.provisionedAt = z]
      BY <2>1
    <2> HIDE DEF c
    <2>3. c = [f \in BookFields |-> c[f]]
      BY <2>2 DEF Shaped, BookFields
    <2>4. SamePaper(b, c)
      BY <2>2 DEF SamePaper, Shaped, BookFields
    <2> QED BY <2>3, <2>4, SamePaperIsShaped DEF c
  <1> QED BY <1>2, <1>3

LEMMA SyncKeepsPaper ==
    ASSUME NEW b, Shaped(b), NEW k, NEW v
    PROVE  Shaped(SyncProvision(b, k, v)) /\ SamePaper(b, SyncProvision(b, k, v))
  <1>1. SamePaper(b, b)
    BY DEF SamePaper
  <1> QED BY <1>1, TakeKeepsPaper, ReleaseKeepsPaper DEF SyncProvision

LEMMA IncomeOrLossKeepsPaper ==
    ASSUME NEW b, Shaped(b), NEW gain, NEW loss, NEW gains
    PROVE  LET c == IF gains THEN Distribute(b, gain) ELSE AbsorbLoss(b, loss)
           IN  Shaped(c) /\ SamePaper(b, c)
  BY DistributeKeepsPaper, StruckKeepsPaper DEF AbsorbLoss

---------------------------------------------------------------------------
(* Recognition: the paper of one plan, and the cash it brought. *)

\* Only the paper of `k` differs.
OthersKept(b, c, k) == \A j \in Plans : j # k => c.books[j] = b.books[j]

SameFlags(p, q) ==
    q.fronted = p.fronted /\ q.open = p.open /\ q.markedEpoch = p.markedEpoch

LEMMA AccruedPaper ==
    ASSUME NEW b, Shaped(b), NEW k \in Plans, NEW v
    PROVE  LET c == Accrued(b, k, v)
           IN  /\ Shaped(c) /\ OthersKept(b, c, k)
               /\ c.balance = b.balance
               /\ c.bookedCash = b.bookedCash + Inflow(b, k, v)
               /\ SameFlags(b.books[k], c.books[k])
               /\ c.books[k].unmarked = b.books[k].unmarked
               /\ c.books[k].recognisedInflow = v.forwarded
               /\ c.books[k].carrying = v.outstanding
               /\ c.books[k].deferredIncome = b.books[k].deferredIncome - Earned(b, k, v)
  <1> DEFINE recovered == Recovered(b, k, v)
             earned == Earned(b, k, v)
             inflow == Inflow(b, k, v)
             r == ReduceExposure(b, k, recovered)
             booked == [r EXCEPT
                !.books[k] = [@ EXCEPT !.recognisedInflow = v.forwarded,
                                       !.carrying = v.outstanding,
                                       !.deferredIncome = b.books[k].deferredIncome - earned],
                !.bookedCash = @ + inflow,
                !.bookedReceivables = @ - recovered,
                !.deferredIncome = @ - earned]
             paper == [b.books[k] EXCEPT
                !.recognisedInflow = v.forwarded, !.carrying = v.outstanding,
                !.deferredIncome = b.books[k].deferredIncome - earned]
             c == Accrued(b, k, v)
  <1>1. r = [f \in BookFields |-> r[f]] /\ r.books = b.books
        /\ r.bookedCash = b.bookedCash /\ r.balance = b.balance
    BY DEF ReduceExposure, Shaped, BookFields
  <1>2. IsPaper(paper)
    BY DEF Shaped, IsPaper, PaperFields
  <1>p. /\ SameFlags(b.books[k], paper) /\ paper.unmarked = b.books[k].unmarked
        /\ paper.recognisedInflow = v.forwarded /\ paper.carrying = v.outstanding
        /\ paper.deferredIncome = b.books[k].deferredIncome - earned
    BY DEF Shaped, IsPaper, PaperFields, SameFlags
  <1>4. c = IF inflow + earned >= recovered
            THEN Distribute(booked, inflow + earned - recovered)
            ELSE AbsorbLoss(booked, recovered - inflow - earned)
    BY DEF Accrued
  <1> HIDE DEF recovered, earned, inflow, r, c, paper
  <1>5. /\ booked = [f \in BookFields |-> booked[f]]
        /\ booked.books = [b.books EXCEPT ![k] = paper]
        /\ booked.bookedCash = b.bookedCash + inflow
        /\ booked.balance = b.balance
    <2>1. booked = [f \in BookFields |-> booked[f]]
      BY <1>1 DEF BookFields
    <2>2. booked.books = [r.books EXCEPT ![k] = [r.books[k] EXCEPT
              !.recognisedInflow = v.forwarded, !.carrying = v.outstanding,
              !.deferredIncome = b.books[k].deferredIncome - earned]]
      BY <1>1 DEF BookFields
    <2>3. booked.bookedCash = r.bookedCash + inflow
      BY <1>1 DEF BookFields
    <2>4. booked.balance = r.balance
      BY <1>1 DEF BookFields
    <2> HIDE DEF booked
    <2>5. booked.books = [b.books EXCEPT ![k] = paper]
      BY <1>1, <2>2 DEF paper
    <2> QED BY <1>1, <2>1, <2>3, <2>4, <2>5
  <1> HIDE DEF booked
  <1>6. booked.books = [j \in Plans |-> booked.books[j]]
    BY <1>5 DEF Shaped
  <1>7. \A j \in Plans : booked.books[j] = IF j = k THEN paper ELSE b.books[j]
    BY <1>5 DEF Shaped
  <1>8. Shaped(booked)
    BY <1>2, <1>5, <1>6, <1>7 DEF Shaped
  <1>9. Shaped(c) /\ SamePaper(booked, c)
    BY <1>4, <1>8, IncomeOrLossKeepsPaper
  <1> QED BY <1>p, <1>5, <1>7, <1>9 DEF SamePaper, OthersKept, c, earned, inflow

LEMMA SyncMarkPaper ==
    ASSUME NEW b, Shaped(b), NEW k \in Plans, NEW v
    PROVE  LET c == SyncMarkState(b, k, v)
           IN  /\ Shaped(c) /\ OthersKept(b, c, k)
               /\ c.balance = b.balance /\ c.bookedCash = b.bookedCash
               /\ SameFlags(b.books[k], c.books[k])
               /\ c.books[k].unmarked = v.late
               /\ c.books[k].recognisedInflow = b.books[k].recognisedInflow
               /\ c.books[k].carrying = b.books[k].carrying
               /\ c.books[k].deferredIncome = b.books[k].deferredIncome
  <1> DEFINE c == SyncMarkState(b, k, v)
             paper == [b.books[k] EXCEPT !.unmarked = v.late]
  <1>1. IsPaper(paper)
    BY DEF Shaped, IsPaper, PaperFields
  <1>p. /\ SameFlags(b.books[k], paper) /\ paper.unmarked = v.late
        /\ paper.recognisedInflow = b.books[k].recognisedInflow
        /\ paper.carrying = b.books[k].carrying
        /\ paper.deferredIncome = b.books[k].deferredIncome
    BY DEF Shaped, IsPaper, PaperFields, SameFlags
  <1>2. /\ c = [f \in BookFields |-> c[f]]
        /\ c.books = [b.books EXCEPT ![k] = paper]
        /\ c.balance = b.balance /\ c.bookedCash = b.bookedCash
    BY DEF SyncMarkState, Shaped, BookFields
  <1> HIDE DEF c
  <1>3. c.books = [j \in Plans |-> c.books[j]]
    BY <1>2 DEF Shaped
  <1>4. \A j \in Plans : c.books[j] = IF j = k THEN paper ELSE b.books[j]
    BY <1>2 DEF Shaped
  <1> HIDE DEF paper
  <1>5. Shaped(c)
    BY <1>1, <1>2, <1>3, <1>4 DEF Shaped
  <1> QED BY <1>p, <1>2, <1>4, <1>5 DEF OthersKept, c

LEMMA ClosePaper ==
    ASSUME NEW b, Shaped(b), NEW k \in Plans
    PROVE  LET c == Close(b, k)
           IN  /\ Shaped(c) /\ OthersKept(b, c, k)
               /\ c.balance = b.balance /\ c.bookedCash = b.bookedCash
               /\ c.books[k].fronted = b.books[k].fronted
               /\ c.books[k].recognisedInflow = b.books[k].recognisedInflow
               /\ c.books[k].markedEpoch = b.books[k].markedEpoch
               /\ c.books[k].open = FALSE /\ c.books[k].unmarked = FALSE
               /\ c.books[k].deferredIncome = 0 /\ c.books[k].carrying = 0
  <1> DEFINE writeOff == b.books[k].carrying
             unearned == b.books[k].deferredIncome
             q == RemoveOpenPlan(b, k)
             r == ReleaseProvision(q, k, b.provisions[k].amount)
             x == ReduceExposure(r, k, writeOff)
             settled == [x EXCEPT
                !.openPlans = @ - 1,
                !.unmarkedDelinquencies = @ - (IF b.books[k].unmarked THEN 1 ELSE 0),
                !.deferredIncome = @ - unearned,
                !.bookedReceivables = Less(@, writeOff),
                !.books[k] = [@ EXCEPT !.open = FALSE, !.unmarked = FALSE,
                                       !.deferredIncome = 0, !.carrying = 0]]
             paper == [b.books[k] EXCEPT !.open = FALSE, !.unmarked = FALSE,
                                         !.deferredIncome = 0, !.carrying = 0]
             c == Close(b, k)
  <1>1. /\ q = [f \in BookFields |-> q[f]] /\ q.books = b.books
        /\ q.bookedCash = b.bookedCash /\ q.balance = b.balance
    BY DEF RemoveOpenPlan, Shaped, BookFields
  <1>2. Shaped(q)
    <2> HIDE DEF q
    <2> QED BY <1>1 DEF Shaped
  <1>3. Shaped(r) /\ SamePaper(q, r)
    <2> HIDE DEF q
    <2> QED BY <1>2, ReleaseKeepsPaper
  <1>4. /\ x = [f \in BookFields |-> x[f]] /\ x.books = b.books
        /\ x.bookedCash = b.bookedCash /\ x.balance = b.balance
    <2> HIDE DEF r, q
    <2> QED BY <1>1, <1>3 DEF ReduceExposure, Shaped, BookFields, SamePaper
  <1>5. c = IF writeOff > unearned THEN AbsorbLoss(settled, writeOff - unearned)
            ELSE Distribute(settled, unearned - writeOff)
    BY DEF Close
  <1>6. /\ IsPaper(paper) /\ paper.fronted = b.books[k].fronted
        /\ paper.recognisedInflow = b.books[k].recognisedInflow
        /\ paper.markedEpoch = b.books[k].markedEpoch
        /\ paper.open = FALSE /\ paper.unmarked = FALSE
        /\ paper.deferredIncome = 0 /\ paper.carrying = 0
    BY DEF Shaped, IsPaper, PaperFields
  <1> HIDE DEF x, r, q, c
  <1>7. /\ settled = [f \in BookFields |-> settled[f]]
        /\ settled.books = [b.books EXCEPT ![k] = paper]
        /\ settled.bookedCash = b.bookedCash /\ settled.balance = b.balance
    BY <1>4 DEF BookFields
  <1> HIDE DEF settled
  <1>8. settled.books = [j \in Plans |-> settled.books[j]]
    BY <1>7 DEF Shaped
  <1>9. \A j \in Plans : settled.books[j] = IF j = k THEN paper ELSE b.books[j]
    BY <1>7 DEF Shaped
  <1> HIDE DEF paper, writeOff, unearned
  <1>10. Shaped(settled)
    BY <1>6, <1>7, <1>8, <1>9 DEF Shaped
  <1>11. Shaped(c) /\ SamePaper(settled, c)
    BY <1>5, <1>10, DistributeKeepsPaper, StruckKeepsPaper DEF AbsorbLoss
  <1> QED BY <1>6, <1>7, <1>9, <1>11 DEF SamePaper, OthersKept, c

\* What recognise() does to the paper and the cash of a pool: the inflow is
\* booked, the receivable follows the plan, and a closed plan carries nothing.
RecognisedAs(b, c, k, v) ==
    LET p == c.books[k]
    IN  /\ Shaped(c) /\ OthersKept(b, c, k)
        /\ c.balance = b.balance
        /\ c.bookedCash = b.bookedCash + Inflow(b, k, v)
        /\ p.fronted = b.books[k].fronted /\ p.recognisedInflow = v.forwarded
        /\ v.state \in ClosingStates => p.open = FALSE /\ p.carrying = 0
        /\ v.state \notin ClosingStates
             => p.open = b.books[k].open /\ p.carrying = v.outstanding

LEMMA RecognisedPaper ==
    ASSUME NEW b, Shaped(b), NEW k \in Plans, b.books[k].open, NEW v
    PROVE  RecognisedAs(b, Recognised(b, k, v), k, v)
  <1> USE DEF RecognisedAs
  <1> DEFINE a == Accrued(b, k, v)
             s == SyncMarkState(a, k, v)
             m == SyncProvision(s, k, v)
             c == Recognised(b, k, v)
  <1>1. c = IF v.state \in ClosingStates THEN Close(m, k) ELSE m
    BY DEF Recognised
  <1>2. /\ Shaped(a) /\ OthersKept(b, a, k)
        /\ a.balance = b.balance
        /\ a.bookedCash = b.bookedCash + Inflow(b, k, v)
        /\ SameFlags(b.books[k], a.books[k])
        /\ a.books[k].recognisedInflow = v.forwarded
        /\ a.books[k].carrying = v.outstanding
    <2>1. Shaped(a) /\ OthersKept(b, a, k)
      BY AccruedPaper
    <2>2. a.balance = b.balance
      BY AccruedPaper
    <2>3. a.bookedCash = b.bookedCash + Inflow(b, k, v)
      BY AccruedPaper
    <2>4. SameFlags(b.books[k], a.books[k])
      BY AccruedPaper
    <2>5. a.books[k].recognisedInflow = v.forwarded
      BY AccruedPaper
    <2>6. a.books[k].carrying = v.outstanding
      BY AccruedPaper
    <2> QED BY <2>1, <2>2, <2>3, <2>4, <2>5, <2>6
  <1> HIDE DEF a
  <1>3. /\ Shaped(s) /\ OthersKept(a, s, k)
        /\ s.balance = a.balance /\ s.bookedCash = a.bookedCash
        /\ SameFlags(a.books[k], s.books[k])
        /\ s.books[k].recognisedInflow = a.books[k].recognisedInflow
        /\ s.books[k].carrying = a.books[k].carrying
    BY <1>2, SyncMarkPaper
  <1> HIDE DEF s
  <1>4. Shaped(m) /\ SamePaper(s, m)
    BY <1>3, SyncKeepsPaper
  <1> HIDE DEF m, c
  <1>5. /\ OthersKept(b, m, k) /\ m.balance = b.balance
        /\ m.bookedCash = b.bookedCash + Inflow(b, k, v)
        /\ SameFlags(b.books[k], m.books[k])
        /\ m.books[k].recognisedInflow = v.forwarded
        /\ m.books[k].carrying = v.outstanding
    BY <1>2, <1>3, <1>4 DEF OthersKept, SamePaper, SameFlags
  <1>6. CASE v.state \notin ClosingStates
    BY <1>1, <1>4, <1>5, <1>6 DEF c, SameFlags
  <1>7. CASE v.state \in ClosingStates
    <2>1. c = Close(m, k)
      BY <1>1, <1>7
    <2>2. /\ Shaped(c) /\ OthersKept(m, c, k)
          /\ c.balance = m.balance /\ c.bookedCash = m.bookedCash
          /\ c.books[k].fronted = m.books[k].fronted
          /\ c.books[k].recognisedInflow = m.books[k].recognisedInflow
          /\ c.books[k].open = FALSE /\ c.books[k].carrying = 0
      BY <1>4, <2>1, ClosePaper
    <2> QED BY <1>5, <1>7, <2>2 DEF c, OthersKept, SameFlags
  <1> QED BY <1>6, <1>7

---------------------------------------------------------------------------
(* Fronting a plan, and first-loss capital paid in. *)

FrontedAs(b, c, k) ==
    LET p == c.books[k]
    IN  /\ Shaped(c) /\ OthersKept(b, c, k)
        /\ c.balance = b.balance - CashOut(k)
        /\ c.bookedCash = b.bookedCash - CashOut(k)
        /\ p.fronted = TRUE /\ p.open = TRUE
        /\ p.recognisedInflow = 0 /\ p.carrying = Terms[k].principal

LEMMA FrontedPaper ==
    ASSUME NEW b, Shaped(b), NEW k \in Plans
    PROVE  FrontedAs(b, Fronted(b, k), k)
  <1> USE DEF FrontedAs
  <1> DEFINE c == Fronted(b, k)
             paper == [fronted |-> TRUE, carrying |-> Terms[k].principal,
                       recognisedInflow |-> 0,
                       deferredIncome |-> Terms[k].mdr - Terms[k].escrow,
                       open |-> TRUE, unmarked |-> FALSE, markedEpoch |-> b.epoch]
  <1>1. c = [f \in BookFields |-> c[f]]
    <2> DEFINE mid == [b EXCEPT
                 !.books[k] = paper,
                 !.bookedCash = @ - CashOut(k), !.balance = @ - CashOut(k),
                 !.bookedReceivables = @ + Terms[k].principal,
                 !.deferredIncome = @ + Terms[k].mdr - Terms[k].escrow]
               sized == [mid EXCEPT
                 !.merchantExposure[Terms[k].merchant] = @ + Terms[k].principal,
                 !.corridorExposure[Terms[k].corridor] = @ + Terms[k].principal]
    <2>1. c = [sized EXCEPT !.openPlanSlot[k] = Len(b.openPlanList),
                            !.openPlanList = Append(@, k),
                            !.openPlans = @ + 1, !.markedThisEpoch = @ + 1]
      BY DEF Fronted
    <2>2. mid = [f \in BookFields |-> mid[f]]
      BY DEF Shaped, BookFields
    <2> HIDE DEF c, mid
    <2>3. sized = [f \in BookFields |-> sized[f]]
      BY <2>2 DEF BookFields
    <2> HIDE DEF sized
    <2> QED BY <2>1, <2>3 DEF BookFields
  <1>2. c.books = [b.books EXCEPT ![k] = paper]
    BY DEF Fronted, Shaped, BookFields
  <1>3. c.balance = b.balance - CashOut(k)
    BY DEF Fronted, Shaped, BookFields
  <1>4. c.bookedCash = b.bookedCash - CashOut(k)
    BY DEF Fronted, Shaped, BookFields
  <1>5. IsPaper(paper)
    BY DEF IsPaper, PaperFields
  <1>6. /\ paper.fronted = TRUE /\ paper.open = TRUE
        /\ paper.recognisedInflow = 0 /\ paper.carrying = Terms[k].principal
    OBVIOUS
  <1> HIDE DEF c, paper
  <1>7. /\ c.books = [j \in Plans |-> c.books[j]]
        /\ \A j \in Plans : c.books[j] = IF j = k THEN paper ELSE b.books[j]
    BY <1>2 DEF Shaped
  <1>8. Shaped(c)
    BY <1>1, <1>5, <1>7 DEF Shaped
  <1> QED BY <1>3, <1>4, <1>6, <1>7, <1>8 DEF OthersKept, c

FundedBy(b, c, amount) ==
    /\ Shaped(c) /\ c.books = b.books
    /\ c.balance = b.balance + amount /\ c.bookedCash = b.bookedCash + amount

LEMMA FundedPaper ==
    ASSUME NEW b, Shaped(b), NEW amount
    PROVE  FundedBy(b, ReserveFunded(b, amount), amount)
  <1> USE DEF FundedBy
  <1> DEFINE c == ReserveFunded(b, amount)
  <1>1. c = [f \in BookFields |-> c[f]]
    BY DEF ReserveFunded, Shaped, BookFields
  <1>2. c.books = b.books
    BY DEF ReserveFunded, Shaped, BookFields
  <1>3. c.balance = b.balance + amount
    BY DEF ReserveFunded, Shaped, BookFields
  <1>4. c.bookedCash = b.bookedCash + amount
    BY DEF ReserveFunded, Shaped, BookFields
  <1> HIDE DEF c
  <1>5. Shaped(c)
    BY <1>1, <1>2 DEF Shaped
  <1> QED BY <1>2, <1>3, <1>4, <1>5 DEF c

---------------------------------------------------------------------------
(* What is summed over the plans. *)

CarryingIn(b) == [k \in Plans |-> b.books[k].carrying]

DeferredIn(b) == [k \in Plans |-> b.books[k].deferredIncome]

WithMerchant(b, m) ==
    [k \in Plans |-> IF Terms[k].merchant = m THEN b.books[k].carrying ELSE 0]

InCorridor(b, c) ==
    [k \in Plans |-> IF Terms[k].corridor = c THEN b.books[k].carrying ELSE 0]

HeldIn(b) == [k \in Plans |-> b.provisions[k].amount]

HeldAt(b, e) ==
    [k \in Plans |-> IF b.provisions[k].epoch = e THEN b.provisions[k].amount ELSE 0]

OpenOf(b) == {k \in Plans : b.books[k].open}

MarkedOf(b) == {k \in Plans : b.books[k].open /\ b.books[k].markedEpoch = b.epoch}

UnmarkedOf(b) == {k \in Plans : b.books[k].open /\ b.books[k].unmarked}

---------------------------------------------------------------------------
(* The invariant of the book, part by part. *)

\* What a closed plan leaves behind is nothing.
PaperOK(p, epoch) ==
    /\ p.fronted \in BOOLEAN /\ p.open \in BOOLEAN /\ p.unmarked \in BOOLEAN
    /\ p.carrying \in Nat /\ p.deferredIncome \in Nat /\ p.recognisedInflow \in Nat
    /\ p.markedEpoch \in 0 .. epoch
    /\ p.open => p.fronted
    /\ ~p.fronted => p.recognisedInflow = 0
    /\ ~p.open => p.carrying = 0 /\ p.deferredIncome = 0 /\ p.unmarked = FALSE

Papers(b) == \A k \in Plans : PaperOK(b.books[k], b.epoch)

Sums(b) ==
    /\ b.bookedReceivables = SumOver(CarryingIn(b), Plans)
    /\ b.deferredIncome = SumOver(DeferredIn(b), Plans)
    /\ b.merchantExposure = [m \in Merchants |-> SumOver(WithMerchant(b, m), Plans)]
    /\ b.corridorExposure = [c \in Corridors |-> SumOver(InCorridor(b, c), Plans)]

HeldFields == {"amount", "epoch", "fromReserve", "fromJunior", "fromSenior"}

HasHeldFields(h) == h = [f \in HeldFields |-> h[f]]

\* A provision remembers which layer it was taken from.
IsHeld(h) ==
    /\ HasHeldFields(h)
    /\ h.amount \in Nat /\ h.fromReserve \in Nat
    /\ h.fromJunior \in Nat /\ h.fromSenior \in Nat
    /\ h.amount = h.fromReserve + h.fromJunior + h.fromSenior
    /\ h.epoch \in Epochs

Provided(b) ==
    /\ b.provisions = [k \in Plans |-> b.provisions[k]]
    /\ \A k \in Plans : IsHeld(b.provisions[k])
    /\ b.totalProvisioned = SumOver(HeldIn(b), Plans)
    /\ b.provisionedAt = [e \in Epochs |-> SumOver(HeldAt(b, e), Plans)]

\* Only an open plan is provisioned.
OnlyOpenHeld(b) == \A k \in Plans : ~b.books[k].open => b.provisions[k].amount = 0

\* A list of the members of S, and where in it each of them is.
Slotted(list, slot, S) ==
    /\ list \in Seq(Plans) /\ slot = [k \in Plans |-> slot[k]]
    /\ \A i \in 1 .. Len(list) : list[i] \in S /\ slot[list[i]] = i - 1
    /\ \A k \in S : slot[k] + 1 \in 1 .. Len(list) /\ list[slot[k] + 1] = k

\* One slot is vacated: the last plan may have moved into it, the others stay.
Vacated(list, rest, s) ==
    /\ Len(rest) = Len(list) - 1
    /\ \A i \in 1 .. Len(rest) : i # s + 1 => rest[i] = list[i]

Counted(b) ==
    /\ Slotted(b.openPlanList, b.openPlanSlot, OpenOf(b))
    /\ b.openPlans = Len(b.openPlanList)
    /\ b.markedThisEpoch = Cardinality(MarkedOf(b))
    /\ b.unmarkedDelinquencies = Cardinality(UnmarkedOf(b))

\* What the two tranches and the reserve may claim is never below nothing.
Claimants(b) ==
    /\ b.reserve \in Nat
    /\ b.assets = [t \in Tranche |-> b.assets[t]]
    /\ b.assets["Junior"] \in Nat /\ b.assets["Senior"] \in Nat

Funds(b) ==
    /\ b.bookedCash \in Nat /\ b.deployedAssets \in Nat /\ b.seniorAccrued \in Nat
    /\ b.epoch \in Epochs /\ b.markCursor \in Nat /\ b.balance \in Int

BookInv(b) ==
    /\ Shaped(b) /\ Claimants(b) /\ Funds(b)
    /\ Papers(b) /\ Sums(b) /\ Provided(b) /\ OnlyOpenHeld(b) /\ Counted(b)

---------------------------------------------------------------------------
(* The slots. *)

LEMMA SlotAdded ==
    ASSUME NEW list, NEW slot, NEW S, S \subseteq Plans, Slotted(list, slot, S),
           NEW k \in Plans, k \notin S
    PROVE  Slotted(Append(list, k), [slot EXCEPT ![k] = Len(list)], S \cup {k})
  <1> DEFINE longer == Append(list, k)
             there == [slot EXCEPT ![k] = Len(list)]
             n == Len(list)
  <1>1. list \in Seq(Plans) /\ n \in Nat /\ slot = [j \in Plans |-> slot[j]]
    BY DEF Slotted
  <1>2. /\ longer \in Seq(Plans) /\ Len(longer) = n + 1
        /\ \A i \in 1 .. n : longer[i] = list[i]
        /\ longer[n + 1] = k
    BY <1>1, AppendProperties
  <1>3. /\ there = [j \in Plans |-> there[j]] /\ there[k] = n
        /\ \A j \in Plans : j # k => there[j] = slot[j]
    BY <1>1
  <1> HIDE DEF longer, there, n
  <1>4. ASSUME NEW i \in 1 .. Len(longer)
        PROVE  longer[i] \in S \cup {k} /\ there[longer[i]] = i - 1
    <2>1. CASE i = n + 1
      BY <1>1, <1>2, <1>3, <2>1
    <2>2. CASE i # n + 1
      <3>1. i \in 1 .. n /\ longer[i] = list[i]
        BY <1>1, <1>2, <2>2
      <3>2. list[i] \in S /\ slot[list[i]] = i - 1
        BY <3>1 DEF Slotted, n
      <3> QED BY <1>3, <3>1, <3>2
    <2> QED BY <2>1, <2>2
  <1>5. ASSUME NEW j \in S \cup {k}
        PROVE  there[j] + 1 \in 1 .. Len(longer) /\ longer[there[j] + 1] = j
    <2>1. CASE j = k
      BY <1>1, <1>2, <1>3, <2>1
    <2>2. CASE j # k
      <3>1. slot[j] + 1 \in 1 .. n /\ list[slot[j] + 1] = j /\ there[j] = slot[j]
        BY <1>3, <2>2 DEF Slotted, n
      <3> QED BY <1>1, <1>2, <3>1
    <2> QED BY <2>1, <2>2
  <1>6. Slotted(longer, there, S \cup {k})
    BY <1>2, <1>3, <1>4, <1>5 DEF Slotted
  <1> QED BY <1>6 DEF longer, there, n

\* The last plan of the list takes the slot of the one removed.
LEMMA SlotRemoved ==
    ASSUME NEW list, NEW slot, NEW S, S \subseteq Plans, Slotted(list, slot, S),
           NEW k \in S
    PROVE  LET n     == Len(list)
               last  == list[n]
               moved == [list EXCEPT ![slot[k] + 1] = last]
           IN  /\ Slotted(SubSeq(moved, 1, Len(moved) - 1),
                          [slot EXCEPT ![last] = slot[k], ![k] = 0], S \ {k})
               /\ Len(SubSeq(moved, 1, Len(moved) - 1)) = n - 1
               /\ Vacated(list, SubSeq(moved, 1, Len(moved) - 1), slot[k])
  <1> DEFINE n == Len(list)
             last == list[n]
             s == slot[k]
             moved == [list EXCEPT ![s + 1] = last]
             rest == SubSeq(moved, 1, Len(moved) - 1)
             there == [slot EXCEPT ![last] = s, ![k] = 0]
  <1>1. /\ list \in Seq(Plans) /\ n \in Nat /\ slot = [j \in Plans |-> slot[j]]
        /\ s + 1 \in 1 .. n /\ list[s + 1] = k /\ k \in Plans
        /\ list = [i \in 1 .. n |-> list[i]]
    BY LenProperties DEF Slotted
  <1>2. n \in 1 .. n /\ last \in S /\ slot[last] = n - 1 /\ s \in Int
    <2>1. n \in 1 .. n
      BY <1>1
    <2>2. last \in S /\ slot[last] = n - 1
      BY <2>1 DEF Slotted
    <2>4. \A i \in 1 .. n : slot[list[i]] = i - 1
      BY DEF Slotted
    <2>5. slot[list[s + 1]] = (s + 1) - 1
      BY <1>1, <2>4
    <2>6. \E i \in 1 .. n : i = s + 1 /\ slot[list[i]] = i - 1
      BY <1>1, <2>4
    <2>7. s \in Int
      BY <1>1, <2>6
    <2> QED BY <2>1, <2>2, <2>7
  <1>3. /\ moved \in Seq(Plans) /\ Len(moved) = n
        /\ \A i \in 1 .. n : moved[i] = IF i = s + 1 THEN last ELSE list[i]
    <2>1. last \in Plans
      BY <1>2
    <2> HIDE DEF last, n, s
    <2> QED BY <1>1, <2>1, ExceptSeq DEF n
  <1>4. /\ rest \in Seq(Plans) /\ Len(rest) = n - 1
        /\ \A i \in 1 .. n - 1 : rest[i] = moved[i]
    <2> HIDE DEF moved, last, n, s
    <2> QED BY <1>1, <1>2, <1>3, SubSeqProperties
  <1>5. /\ there = [j \in Plans |-> there[j]]
        /\ \A j \in Plans : there[j] = IF j = k THEN 0 ELSE IF j = last THEN s ELSE slot[j]
    BY <1>1, <1>2
  <1> HIDE DEF moved, rest, there, last, n, s
  <1>6. ASSUME NEW i \in 1 .. Len(rest)
        PROVE  rest[i] \in S \ {k} /\ there[rest[i]] = i - 1
    <2>1. i \in 1 .. n /\ i # n /\ i \in 1 .. n - 1
      BY <1>1, <1>4
    <2>2. list[i] \in S /\ slot[list[i]] = i - 1
      BY <2>1 DEF Slotted, n
    <2>3. CASE i = s + 1
      <3>1. rest[i] = last
        BY <1>3, <1>4, <2>1, <2>3
      <3>2. last # k
        BY <1>2, <2>1, <2>3 DEF s
      <3> QED BY <1>2, <1>5, <2>3, <3>1, <3>2
    <2>4. CASE i # s + 1
      <3>1. rest[i] = list[i]
        BY <1>3, <1>4, <2>1, <2>4
      <3>2. list[i] # k
        BY <1>2, <2>1, <2>2, <2>4 DEF s
      <3>3. list[i] # last
        BY <1>1, <1>2, <2>1, <2>2
      <3> QED BY <1>5, <2>2, <3>1, <3>2, <3>3
    <2> QED BY <2>3, <2>4
  <1>7. ASSUME NEW j \in S \ {k}
        PROVE  there[j] + 1 \in 1 .. Len(rest) /\ rest[there[j] + 1] = j
    <2>1. slot[j] + 1 \in 1 .. n /\ list[slot[j] + 1] = j
      BY DEF Slotted, n
    <2>2. CASE j = last
      <3>1. s + 1 # n /\ s + 1 \in 1 .. n - 1
        BY <1>1, <1>2, <2>2 DEF last
      <3>2. there[j] = s
        BY <1>5, <2>2
      <3> QED BY <1>3, <1>4, <2>2, <3>1, <3>2
    <2>3. CASE j # last
      <3>1. there[j] = slot[j]
        BY <1>5, <2>3
      <3>2. slot[j] + 1 # n
        BY <2>1, <2>3 DEF last
      <3>3. slot[j] + 1 # s + 1
        BY <1>1, <2>1
      <3>4. slot[j] + 1 \in 1 .. n - 1
        BY <1>1, <2>1, <3>2
      <3> QED BY <1>3, <1>4, <2>1, <3>1, <3>3, <3>4
    <2> QED BY <2>2, <2>3
  <1>8. Slotted(rest, there, S \ {k})
    BY <1>4, <1>5, <1>6, <1>7 DEF Slotted
  <1>9. Vacated(list, rest, s)
    <2>1. ASSUME NEW i \in 1 .. Len(rest), i # s + 1 PROVE rest[i] = list[i]
      <3>1. i \in 1 .. n - 1 /\ i \in 1 .. n
        BY <1>1, <1>4
      <3> QED BY <1>3, <1>4, <2>1, <3>1
    <2> QED BY <1>4, <2>1 DEF Vacated, n
  <1> QED BY <1>4, <1>8, <1>9 DEF moved, rest, there, last, n, s

---------------------------------------------------------------------------
(* The claims: loss and income. *)

\* What is taken from each layer is there.
IsStrike(b, s) ==
    /\ s.reserve \in 0 .. b.reserve
    /\ s.junior \in 0 .. b.assets["Junior"] /\ s.senior \in 0 .. b.assets["Senior"]

LEMMA StrikeIsThere ==
    ASSUME NEW b, Claimants(b), NEW amount \in Nat
    PROVE  LET s == Strike(b, amount) IN IsStrike(b, s) /\ Total(s) \in 0 .. amount
  <1> DEFINE r == b.reserve
             j == b.assets["Junior"]
             n == b.assets["Senior"]
             x == Lesser(amount, r)
             y == Lesser(amount - x, j)
             z == Lesser(amount - x - y, n)
  <1>1. r \in Nat /\ j \in Nat /\ n \in Nat
    BY DEF Claimants
  <1>2. x \in 0 .. r /\ x <= amount
    BY <1>1 DEF Lesser
  <1>3. y \in 0 .. j /\ x + y <= amount
    <2> HIDE DEF x, r, j
    <2> QED BY <1>1, <1>2 DEF Lesser
  <1>4. z \in 0 .. n /\ x + y + z <= amount
    <2> HIDE DEF x, y, r, j, n
    <2> QED BY <1>1, <1>2, <1>3 DEF Lesser
  <1>5. Strike(b, amount) = [reserve |-> x, junior |-> y, senior |-> z]
    BY DEF Strike
  <1> HIDE DEF x, y, z, r, j, n
  <1>6. x + y + z \in 0 .. amount
    BY <1>1, <1>2, <1>3, <1>4
  <1> QED BY <1>2, <1>3, <1>4, <1>5, <1>6 DEF IsStrike, Total, r, j, n

\* What is neither the paper nor the claims: the provisions and their totals.
SameProvisions(b, c) ==
    /\ c.provisions = b.provisions /\ c.totalProvisioned = b.totalProvisioned
    /\ c.provisionedAt = b.provisionedAt

Accruals(b) == b.seniorAccrued \in Nat

LEMMA StruckClaims ==
    ASSUME NEW b, Shaped(b), Claimants(b), NEW s, IsStrike(b, s)
    PROVE  LET c == Struck(b, s)
           IN  /\ Shaped(c) /\ SamePaper(b, c) /\ SameProvisions(b, c) /\ Claimants(c)
               /\ c.seniorAccrued = b.seniorAccrued
               /\ c.reserve = b.reserve - s.reserve
               /\ c.assets["Junior"] = b.assets["Junior"] - s.junior
               /\ c.assets["Senior"] = b.assets["Senior"] - s.senior
  <1> DEFINE c == Struck(b, s)
  <1>1. Shaped(c) /\ SamePaper(b, c)
    BY StruckKeepsPaper
  <1>2. SameProvisions(b, c) /\ c.seniorAccrued = b.seniorAccrued
    BY DEF Struck, Shaped, BookFields, SameProvisions
  <1>3. c.reserve = b.reserve - s.reserve
    BY DEF Struck, Shaped, BookFields
  <1>4. c.assets = [t \in Tranche |->
                      b.assets[t] - (IF t = "Junior" THEN s.junior ELSE s.senior)]
    BY DEF Struck, Shaped, BookFields
  <1> HIDE DEF c
  <1>5. /\ c.assets = [t \in Tranche |-> c.assets[t]]
        /\ c.assets["Junior"] = b.assets["Junior"] - s.junior
        /\ c.assets["Senior"] = b.assets["Senior"] - s.senior
    BY <1>4 DEF Tranche
  <1>6. Claimants(c)
    BY <1>3, <1>5 DEF Claimants, IsStrike
  <1> QED BY <1>1, <1>2, <1>3, <1>5, <1>6 DEF c

\* A step that only moves claims.
ClaimsOnly(b, c) ==
    /\ Shaped(c) /\ SamePaper(b, c) /\ SameProvisions(b, c)
    /\ Claimants(c) /\ Accruals(c)

LEMMA LossClaims ==
    ASSUME NEW b, Shaped(b), Claimants(b), Accruals(b), NEW amount \in Nat
    PROVE  ClaimsOnly(b, AbsorbLoss(b, amount))
  <1> DEFINE s == Strike(b, amount)
  <1>1. IsStrike(b, s)
    BY StrikeIsThere
  <1> HIDE DEF s
  <1>2. ClaimsOnly(b, Struck(b, s))
    BY <1>1, StruckClaims DEF ClaimsOnly, Accruals
  <1> QED BY <1>2 DEF AbsorbLoss, s

LEMMA DistributeClaims ==
    ASSUME NEW b, Shaped(b), Claimants(b), Accruals(b), NEW amount \in Nat
    PROVE  ClaimsOnly(b, Distribute(b, amount))
  <1> DEFINE gap == Less(ReserveTarget(b), b.reserve)
             toReserve == Lesser(amount, gap)
             toSenior == IF b.assets["Senior"] > 0
                         THEN Lesser(amount - toReserve, b.seniorAccrued) ELSE 0
             residual == amount - toReserve - toSenior
             heir == IF b.assets["Junior"] > 0 THEN "Junior"
                     ELSE IF b.assets["Senior"] > 0 THEN "Senior" ELSE "reserve"
             c == Distribute(b, amount)
  <1>1. Shaped(c) /\ SamePaper(b, c)
    BY DistributeKeepsPaper
  <1>2. SameProvisions(b, c)
    BY DEF Distribute, Shaped, BookFields, SameProvisions
  <1>3. c = [b EXCEPT
              !.reserve = @ + toReserve + (IF heir = "reserve" THEN residual ELSE 0),
              !.seniorAccrued = @ - toSenior,
              !.assets = [t \in Tranche |->
                  b.assets[t] + (IF t = "Senior" THEN toSenior ELSE 0)
                              + (IF t = heir THEN residual ELSE 0)]]
    BY DEF Distribute
  <1>4. ReserveTarget(b) \in Int /\ b.reserve \in Nat
    BY PoolParamsAssumption DEF ReserveTarget, TotalAssets, Claimants
  <1>5. gap \in Nat
    BY <1>4 DEF Less
  <1> HIDE DEF gap
  <1>6. toReserve \in 0 .. amount
    BY <1>5 DEF Lesser
  <1> HIDE DEF toReserve
  <1>7. toSenior \in 0 .. (amount - toReserve) /\ toSenior <= b.seniorAccrued
    BY <1>6 DEF Lesser, Accruals
  <1> HIDE DEF toSenior
  <1>8. residual \in Nat
    BY <1>6, <1>7
  <1> HIDE DEF residual, heir, c
  <1>9. c.reserve = b.reserve + toReserve + (IF heir = "reserve" THEN residual ELSE 0)
    BY <1>3 DEF Shaped, BookFields
  <1>10. c.seniorAccrued = b.seniorAccrued - toSenior
    BY <1>3 DEF Shaped, BookFields
  <1>11. c.assets = [t \in Tranche |->
                  b.assets[t] + (IF t = "Senior" THEN toSenior ELSE 0)
                              + (IF t = heir THEN residual ELSE 0)]
    BY <1>3 DEF Shaped, BookFields
  <1>12. /\ c.assets = [t \in Tranche |-> c.assets[t]]
         /\ c.assets["Junior"] = b.assets["Junior"] + 0
                                   + (IF "Junior" = heir THEN residual ELSE 0)
         /\ c.assets["Senior"] = b.assets["Senior"] + toSenior
                                   + (IF "Senior" = heir THEN residual ELSE 0)
    BY <1>11 DEF Tranche
  <1>13. Claimants(c)
    BY <1>6, <1>7, <1>8, <1>9, <1>12 DEF Claimants
  <1>14. Accruals(c)
    BY <1>7, <1>10 DEF Accruals
  <1> QED BY <1>1, <1>2, <1>13, <1>14 DEF ClaimsOnly, c

\* A difference, booked as income or as loss.
LEMMA DifferenceClaims ==
    ASSUME NEW b, Shaped(b), Claimants(b), Accruals(b), NEW gain \in Int, NEW loss \in Int
    PROVE  /\ gain >= loss => ClaimsOnly(b, Distribute(b, gain - loss))
           /\ ~(gain >= loss) => ClaimsOnly(b, AbsorbLoss(b, loss - gain))
  <1>1. ASSUME gain >= loss PROVE ClaimsOnly(b, Distribute(b, gain - loss))
    <2>1. gain - loss \in Nat
      BY <1>1
    <2> QED BY <2>1, DistributeClaims
  <1>2. ASSUME ~(gain >= loss) PROVE ClaimsOnly(b, AbsorbLoss(b, loss - gain))
    <2>1. loss - gain \in Nat
      BY <1>2
    <2> QED BY <2>1, LossClaims
  <1> QED BY <1>1, <1>2

---------------------------------------------------------------------------
(* The provisions. *)

\* The provision of `k` becomes `h`, in both totals.
ProvisionBecomes(b, c, k, h) ==
    LET was == b.provisions[k]
    IN  /\ c.provisions = [b.provisions EXCEPT ![k] = h]
        /\ c.totalProvisioned = b.totalProvisioned - was.amount + h.amount
        /\ c.provisionedAt =
             [e \in Epochs |-> b.provisionedAt[e]
                                 - (IF was.epoch = e THEN was.amount ELSE 0)
                                 + (IF h.epoch = e THEN h.amount ELSE 0)]

LEMMA HeldTotals ==
    ASSUME NEW b, Provided(b), NEW k \in Plans
    PROVE  /\ b.totalProvisioned \in Nat /\ b.provisions[k].amount <= b.totalProvisioned
           /\ \A e \in Epochs : b.provisionedAt[e] \in Nat
           /\ b.provisions[k].amount <= b.provisionedAt[b.provisions[k].epoch]
  <1> DEFINE h == b.provisions[k]
             mine == [j \in Plans |-> IF j = k THEN h.amount ELSE 0]
             none == [j \in Plans |-> 0]
  <1>1. /\ \A j \in Plans : IsHeld(b.provisions[j])
        /\ h.amount \in Nat /\ h.epoch \in Epochs /\ IsFiniteSet(Plans)
    BY PoolPartiesAssumption DEF Provided, IsHeld
  <1>2. SumOver(mine, Plans) = h.amount
    <2>1. OnlyAt(none, mine, k, Plans)
      BY <1>1 DEF OnlyAt
    <2>2. SumOver(none, Plans) = 0
      BY <1>1, SumOfZeros
    <2>3. none[k] = 0 /\ mine[k] = h.amount
      OBVIOUS
    <2> HIDE DEF none, mine
    <2> QED BY <1>1, <2>1, <2>2, <2>3, SumMoves
  <1>3. \A e \in Epochs : SumOver(HeldAt(b, e), Plans) \in Nat
    <2> TAKE e \in Epochs
    <2>1. \A j \in Plans : HeldAt(b, e)[j] \in Nat
      BY <1>1 DEF HeldAt, IsHeld
    <2> QED BY <1>1, <2>1, SumIsNat
  <1>4. SumOver(HeldIn(b), Plans) \in Nat
    <2>1. \A j \in Plans : HeldIn(b)[j] \in Nat
      BY <1>1 DEF HeldIn, IsHeld
    <2> QED BY <1>1, <2>1, SumIsNat
  <1>5. \A j \in Plans :
          mine[j] \in Int /\ HeldIn(b)[j] \in Int /\ mine[j] <= HeldIn(b)[j]
    BY <1>1 DEF HeldIn, IsHeld
  <1>6. \A j \in Plans : /\ mine[j] \in Int /\ HeldAt(b, h.epoch)[j] \in Int
                         /\ mine[j] <= HeldAt(b, h.epoch)[j]
    BY <1>1 DEF HeldAt, IsHeld
  <1> HIDE DEF mine
  <1>7. SumOver(mine, Plans) <= SumOver(HeldIn(b), Plans)
    BY <1>1, <1>5, SumIsMonotone
  <1>8. SumOver(mine, Plans) <= SumOver(HeldAt(b, h.epoch), Plans)
    BY <1>1, <1>6, SumIsMonotone
  <1> QED BY <1>1, <1>2, <1>3, <1>4, <1>7, <1>8 DEF Provided

LEMMA ProvisionMoves ==
    ASSUME NEW b, Provided(b), NEW c, NEW k \in Plans, NEW h, IsHeld(h),
           ProvisionBecomes(b, c, k, h)
    PROVE  Provided(c)
  <1> DEFINE was == b.provisions[k]
  <1>1. /\ \A j \in Plans : IsHeld(b.provisions[j])
        /\ IsFiniteSet(Plans) /\ IsHeld(was)
    BY PoolPartiesAssumption DEF Provided
  <1>2. /\ c.provisions = [j \in Plans |-> c.provisions[j]]
        /\ \A j \in Plans : c.provisions[j] = IF j = k THEN h ELSE b.provisions[j]
    BY DEF Provided, ProvisionBecomes
  <1>3. \A j \in Plans : IsHeld(c.provisions[j])
    BY <1>1, <1>2
  <1>4. c.totalProvisioned = SumOver(HeldIn(c), Plans)
    <2>1. OnlyAt(HeldIn(b), HeldIn(c), k, Plans)
      BY <1>1, <1>2, <1>3 DEF OnlyAt, HeldIn, IsHeld
    <2>2. HeldIn(b)[k] = was.amount /\ HeldIn(c)[k] = h.amount
      BY <1>2 DEF HeldIn
    <2>3. SumOver(HeldIn(c), Plans) = SumOver(HeldIn(b), Plans) - was.amount + h.amount
      BY <1>1, <2>1, <2>2, SumMoves
    <2> QED BY <2>3 DEF Provided, ProvisionBecomes
  <1>5. ASSUME NEW e \in Epochs PROVE c.provisionedAt[e] = SumOver(HeldAt(c, e), Plans)
    <2>1. OnlyAt(HeldAt(b, e), HeldAt(c, e), k, Plans)
      BY <1>1, <1>2, <1>3 DEF OnlyAt, HeldAt, IsHeld
    <2>2. /\ HeldAt(b, e)[k] = IF was.epoch = e THEN was.amount ELSE 0
          /\ HeldAt(c, e)[k] = IF h.epoch = e THEN h.amount ELSE 0
      BY <1>2 DEF HeldAt
    <2>3. SumOver(HeldAt(c, e), Plans)
            = SumOver(HeldAt(b, e), Plans) - HeldAt(b, e)[k] + HeldAt(c, e)[k]
      BY <1>1, <2>1, SumMoves
    <2>4. b.provisionedAt[e] = SumOver(HeldAt(b, e), Plans)
      BY DEF Provided
    <2>5. c.provisionedAt[e] = b.provisionedAt[e]
                                 - (IF was.epoch = e THEN was.amount ELSE 0)
                                 + (IF h.epoch = e THEN h.amount ELSE 0)
      BY DEF ProvisionBecomes
    <2> HIDE DEF was
    <2> QED BY <2>2, <2>3, <2>4, <2>5
  <1>6. c.provisionedAt = [e \in Epochs |-> SumOver(HeldAt(c, e), Plans)]
    <2>1. c.provisionedAt = [e \in Epochs |-> c.provisionedAt[e]]
      BY DEF ProvisionBecomes
    <2> QED BY <1>5, <2>1
  <1> QED BY <1>2, <1>3, <1>4, <1>6 DEF Provided

LEMMA ProvisionsStay ==
    ASSUME NEW b, Provided(b), NEW c, SameProvisions(b, c)
    PROVE  Provided(c)
  BY DEF Provided, SameProvisions, HeldIn, HeldAt

\* A step of the provisions of one plan.
ProvisionStep(b, c, k) ==
    /\ Shaped(c) /\ SamePaper(b, c) /\ Claimants(c) /\ Accruals(c) /\ Provided(c)
    /\ \A j \in Plans : j # k => c.provisions[j] = b.provisions[j]

LEMMA TakeProvides ==
    ASSUME NEW b, Shaped(b), Claimants(b), Accruals(b), Provided(b), b.epoch \in Epochs,
           NEW k \in Plans, NEW amount \in Nat
    PROVE  ProvisionStep(b, TakeProvision(b, k, amount), k)
  <1> DEFINE s == Strike(b, amount)
             taken == Total(s)
             held == b.provisions[k]
             at == IF held.amount = 0 THEN b.epoch ELSE held.epoch
             h == [amount |-> held.amount + taken, epoch |-> at,
                   fromReserve |-> held.fromReserve + s.reserve,
                   fromJunior |-> held.fromJunior + s.junior,
                   fromSenior |-> held.fromSenior + s.senior]
             r == Struck(b, s)
             c == TakeProvision(b, k, amount)
  <1>1. Shaped(c) /\ SamePaper(b, c)
    BY TakeKeepsPaper
  <1>2. IsStrike(b, s) /\ taken \in Nat
    <2>1. IsStrike(b, s) /\ taken \in 0 .. amount
      BY StrikeIsThere
    <2> HIDE DEF taken
    <2> QED BY <2>1
  <1>3. CASE taken = 0
    <2>1. c = b
      BY <1>3 DEF TakeProvision
    <2> QED BY <1>1, <2>1 DEF ProvisionStep
  <1>4. CASE taken # 0
    <2>1. c = [r EXCEPT !.provisions[k] = h, !.totalProvisioned = @ + taken,
                        !.provisionedAt[at] = @ + taken]
      BY <1>4 DEF TakeProvision
    <2>2. IsHeld(held) /\ b.provisions = [j \in Plans |-> b.provisions[j]]
      BY DEF Provided
    <2>3. IsHeld(h) /\ h.amount = held.amount + taken /\ h.epoch = at
      <3>1. /\ s.reserve \in Nat /\ s.junior \in Nat /\ s.senior \in Nat
            /\ taken = s.reserve + s.junior + s.senior
        BY <1>2 DEF IsStrike, Claimants, Total
      <3>2. at \in Epochs
        BY <2>2 DEF IsHeld
      <3>3. HasHeldFields(h)
        BY DEF HasHeldFields, HeldFields
      <3> HIDE DEF s, taken, held, at
      <3> QED BY <2>2, <3>1, <3>2, <3>3 DEF IsHeld
    <2>4. /\ Shaped(r) /\ SameProvisions(b, r) /\ Claimants(r)
          /\ r.seniorAccrued = b.seniorAccrued
      <3> HIDE DEF s
      <3> QED BY <1>2, StruckClaims
    <2> HIDE DEF c, r, h, s, taken, at
    <2>5. /\ c.reserve = r.reserve /\ c.assets = r.assets
          /\ c.seniorAccrued = r.seniorAccrued
      BY <2>1, <2>4 DEF Shaped, BookFields
    <2>6. c.provisions = [r.provisions EXCEPT ![k] = h]
      BY <2>1, <2>4 DEF Shaped, BookFields
    <2>7. c.totalProvisioned = r.totalProvisioned + taken
      BY <2>1, <2>4 DEF Shaped, BookFields
    <2>8. c.provisionedAt = [r.provisionedAt EXCEPT ![at] = @ + taken]
      BY <2>1, <2>4 DEF Shaped, BookFields
    <2>9. ProvisionBecomes(b, c, k, h)
      <3>1. held.amount \in Nat /\ b.totalProvisioned \in Nat
        BY <2>2, HeldTotals DEF IsHeld
      <3>2. c.totalProvisioned = b.totalProvisioned - held.amount + h.amount
        BY <1>2, <2>3, <2>4, <2>7, <3>1 DEF SameProvisions
      <3>3. b.provisionedAt = [e \in Epochs |-> b.provisionedAt[e]]
        BY DEF Provided
      <3>4. \A e \in Epochs : b.provisionedAt[e] \in Nat
        BY HeldTotals
      <3>5. held.amount # 0 => at = held.epoch
        BY DEF at
      <3>6. at \in Epochs
        BY <2>3 DEF IsHeld
      <3>7. ASSUME NEW e \in Epochs
            PROVE  c.provisionedAt[e] = b.provisionedAt[e]
                                 - (IF held.epoch = e THEN held.amount ELSE 0)
                                 + (IF h.epoch = e THEN h.amount ELSE 0)
        <4>1. c.provisionedAt[e] = b.provisionedAt[e] + (IF at = e THEN taken ELSE 0)
          BY <1>2, <2>4, <2>8, <3>3, <3>4, <3>6 DEF SameProvisions
        <4>2. b.provisionedAt[e] \in Nat
          BY <3>4
        <4> QED BY <1>2, <2>3, <3>1, <3>5, <4>1, <4>2
      <3>8. c.provisionedAt = [e \in Epochs |-> c.provisionedAt[e]]
        BY <2>4, <2>8, <3>3 DEF SameProvisions
      <3>9. c.provisions = [b.provisions EXCEPT ![k] = h]
        BY <2>4, <2>6 DEF SameProvisions
      <3> QED BY <3>2, <3>7, <3>8, <3>9 DEF ProvisionBecomes
    <2>10. Provided(c)
      BY <2>3, <2>9, ProvisionMoves
    <2>11. Claimants(c) /\ Accruals(c)
      BY <2>4, <2>5 DEF Claimants, Accruals
    <2>12. \A j \in Plans : j # k => c.provisions[j] = b.provisions[j]
      BY <2>2, <2>9 DEF ProvisionBecomes
    <2> QED BY <1>1, <2>10, <2>11, <2>12 DEF ProvisionStep, c
  <1> QED BY <1>3, <1>4

\* A share of what one layer gave, and how two shares compare with the whole.
LEMMA ShareIsWithin ==
    ASSUME NEW x \in Nat, NEW part \in Nat, NEW whole \in Nat, part <= whole, whole > 0
    PROVE  (x * part) \div whole \in 0 .. x
  <1>1. x * part \in Nat /\ x * part <= x * whole
    BY Z3
  <1>2. (x * part) \div whole \in Nat
    BY <1>1, Z3
  <1>3. ((x * part) \div whole) * whole <= x * part
    BY <1>1, Z3
  <1> DEFINE q == (x * part) \div whole
  <1>4. q \in Nat /\ q * whole <= x * whole
    BY <1>1, <1>2, <1>3
  <1> HIDE DEF q
  <1>5. q <= x
    BY <1>4, Z3
  <1> QED BY <1>4, <1>5 DEF q

LEMMA SharesAreWithin ==
    ASSUME NEW x \in Nat, NEW y \in Nat, NEW part \in Nat, NEW whole \in Nat,
           part <= whole, whole > 0, x + y <= whole
    PROVE  (x * part) \div whole + (y * part) \div whole \in 0 .. part
  <1> DEFINE p == (x * part) \div whole
             q == (y * part) \div whole
  <1>1. x * part \in Nat /\ y * part \in Nat
    BY Z3
  <1>2. p \in Nat /\ p * whole <= x * part
    BY <1>1, Z3
  <1>3. q \in Nat /\ q * whole <= y * part
    BY <1>1, Z3
  <1>4. (x + y) * part <= whole * part
    BY Z3
  <1> HIDE DEF p, q
  <1>5. (p + q) * whole <= part * whole
    <2>1. (p + q) * whole = p * whole + q * whole
      BY <1>2, <1>3, Z3
    <2>2. (x + y) * part = x * part + y * part
      BY Z3
    <2>3. whole * part = part * whole
      BY Z3
    <2>4. p * whole \in Int /\ q * whole \in Int /\ part * whole \in Int
      BY <1>2, <1>3
    <2> QED BY <1>1, <1>2, <1>3, <1>4, <2>1, <2>2, <2>3, <2>4
  <1>6. p + q <= part
    <2> DEFINE sum == p + q
    <2>1. sum \in Nat /\ sum * whole <= part * whole
      BY <1>2, <1>3, <1>5
    <2> HIDE DEF sum
    <2>2. sum <= part
      BY <2>1, Z3
    <2> QED BY <2>2 DEF sum
  <1> QED BY <1>2, <1>3, <1>6 DEF p, q

LEMMA ShareOfAll ==
    ASSUME NEW x \in Nat, NEW whole \in Nat, whole > 0
    PROVE  (x * whole) \div whole = x
  <1>1. x * whole \in Nat
    BY Z3
  <1> DEFINE q == (x * whole) \div whole
  <1>2. q \in Nat /\ q * whole <= x * whole /\ x * whole < (q + 1) * whole
    BY <1>1, Z3
  <1> HIDE DEF q
  <1>3. q <= x /\ x < q + 1
    BY <1>2, Z3
  <1>4. q = x
    BY <1>2, <1>3
  <1> QED BY <1>4 DEF q

LEMMA ReleaseProvides ==
    ASSUME NEW b, Shaped(b), Claimants(b), Accruals(b), Provided(b),
           NEW k \in Plans, NEW amount \in Nat
    PROVE  LET c == ReleaseProvision(b, k, amount)
           IN  /\ ProvisionStep(b, c, k)
               /\ amount = b.provisions[k].amount => c.provisions[k].amount = 0
  <1> DEFINE held == b.provisions[k]
             part == Lesser(amount, held.amount)
             toSenior == (held.fromSenior * part) \div held.amount
             toJunior == (held.fromJunior * part) \div held.amount
             toReserve == Lesser(part - toSenior - toJunior, held.fromReserve)
             returned == toSenior + toJunior + toReserve
             h == [amount |-> Less(held.amount, returned), epoch |-> held.epoch,
                   fromReserve |-> held.fromReserve - toReserve,
                   fromJunior |-> held.fromJunior - toJunior,
                   fromSenior |-> held.fromSenior - toSenior]
             c == ReleaseProvision(b, k, amount)
  <1>1. Shaped(c) /\ SamePaper(b, c)
    BY ReleaseKeepsPaper
  <1>2. /\ IsHeld(held) /\ held.amount \in Nat /\ held.epoch \in Epochs
        /\ b.provisions = [j \in Plans |-> b.provisions[j]]
    BY DEF Provided, IsHeld
  <1>3. CASE held.amount = 0 \/ amount = 0
    <2>1. c = b
      BY <1>3 DEF ReleaseProvision
    <2>2. amount = b.provisions[k].amount => c.provisions[k].amount = 0
      BY <1>3, <2>1
    <2> HIDE DEF c
    <2> QED BY <1>1, <2>1, <2>2 DEF ProvisionStep, c
  <1>4. CASE ~(held.amount = 0 \/ amount = 0)
    <2>1. c = [b EXCEPT
                !.reserve = @ + toReserve,
                !.assets = [t \in Tranche |->
                    b.assets[t] + (IF t = "Junior" THEN toJunior ELSE toSenior)],
                !.provisions[k] = h,
                !.totalProvisioned = Less(@, returned),
                !.provisionedAt[held.epoch] = Less(@, returned)]
      BY <1>4 DEF ReleaseProvision
    <2>2. /\ held.fromSenior \in Nat /\ held.fromJunior \in Nat /\ held.fromReserve \in Nat
          /\ held.amount = held.fromReserve + held.fromJunior + held.fromSenior
          /\ held.amount > 0
      BY <1>2, <1>4 DEF IsHeld
    <2>3. part \in Nat /\ part <= held.amount
      BY <1>2 DEF Lesser
    <2>4. amount = held.amount => part = held.amount
      BY DEF Lesser
    <2> HIDE DEF held, part, c
    <2>5. toSenior \in 0 .. held.fromSenior
      BY <1>2, <2>2, <2>3, ShareIsWithin
    <2>6. toJunior \in 0 .. held.fromJunior
      BY <1>2, <2>2, <2>3, ShareIsWithin
    <2>7. toSenior + toJunior \in 0 .. part
      <3>1. held.fromSenior + held.fromJunior <= held.amount
        BY <2>2
      <3> QED BY <1>2, <2>2, <2>3, <3>1, SharesAreWithin
    <2>8. part = held.amount => toSenior = held.fromSenior /\ toJunior = held.fromJunior
      BY <1>2, <2>2, ShareOfAll
    <2> HIDE DEF toSenior, toJunior
    <2>9. toReserve \in 0 .. held.fromReserve
      BY <2>2, <2>3, <2>5, <2>6, <2>7 DEF Lesser
    <2>10. part = held.amount => toReserve = held.fromReserve
      BY <2>2, <2>8 DEF Lesser
    <2> HIDE DEF toReserve
    <2>11. returned \in 0 .. held.amount
      BY <2>2, <2>5, <2>6, <2>9
    <2>12. part = held.amount => returned = held.amount
      BY <2>2, <2>8, <2>10
    <2>13. h.amount = held.amount - returned /\ h.epoch = held.epoch
      BY <1>2, <2>11 DEF Less
    <2>14. IsHeld(h)
      <3>1. /\ h.fromReserve = held.fromReserve - toReserve
            /\ h.fromJunior = held.fromJunior - toJunior
            /\ h.fromSenior = held.fromSenior - toSenior
        OBVIOUS
      <3>2. returned = toSenior + toJunior + toReserve
        OBVIOUS
      <3>3. HasHeldFields(h)
        BY DEF HasHeldFields, HeldFields
      <3> HIDE DEF h, returned
      <3> QED BY <1>2, <2>2, <2>5, <2>6, <2>9, <2>11, <2>13, <3>1, <3>2, <3>3 DEF IsHeld
    <2> HIDE DEF returned, h
    <2>15. c.seniorAccrued = b.seniorAccrued /\ c.reserve = b.reserve + toReserve
      BY <2>1 DEF Shaped, BookFields
    <2>16. c.assets = [t \in Tranche |->
                    b.assets[t] + (IF t = "Junior" THEN toJunior ELSE toSenior)]
      BY <2>1 DEF Shaped, BookFields
    <2>17. c.provisions = [b.provisions EXCEPT ![k] = h]
      BY <2>1 DEF Shaped, BookFields
    <2>18. c.totalProvisioned = Less(b.totalProvisioned, returned)
      BY <2>1 DEF Shaped, BookFields
    <2>19. c.provisionedAt = [b.provisionedAt EXCEPT ![held.epoch] = Less(@, returned)]
      BY <2>1 DEF Shaped, BookFields
    <2>20. Claimants(c) /\ Accruals(c)
      <3>1. /\ c.assets = [t \in Tranche |-> c.assets[t]]
            /\ c.assets["Junior"] = b.assets["Junior"] + toJunior
            /\ c.assets["Senior"] = b.assets["Senior"] + toSenior
        BY <2>16 DEF Tranche
      <3> QED BY <2>2, <2>5, <2>6, <2>9, <2>15, <3>1 DEF Claimants, Accruals
    <2>21. ProvisionBecomes(b, c, k, h)
      <3>1. /\ b.totalProvisioned \in Nat /\ held.amount <= b.totalProvisioned
            /\ \A e \in Epochs : b.provisionedAt[e] \in Nat
            /\ held.amount <= b.provisionedAt[held.epoch]
        BY HeldTotals DEF held
      <3>2. c.totalProvisioned = b.totalProvisioned - held.amount + h.amount
        BY <1>2, <2>11, <2>13, <2>18, <3>1 DEF Less
      <3>3. b.provisionedAt = [e \in Epochs |-> b.provisionedAt[e]]
        BY DEF Provided
      <3>4. c.provisionedAt = [e \in Epochs |-> c.provisionedAt[e]]
        BY <2>19, <3>3
      <3>5. ASSUME NEW e \in Epochs
            PROVE  c.provisionedAt[e] = b.provisionedAt[e]
                                 - (IF held.epoch = e THEN held.amount ELSE 0)
                                 + (IF h.epoch = e THEN h.amount ELSE 0)
        <4>1. CASE e = held.epoch
          <5>1. c.provisionedAt[e] = Less(b.provisionedAt[e], returned)
            BY <1>2, <2>19, <3>3, <4>1
          <5> QED BY <1>2, <2>11, <2>13, <3>1, <4>1, <5>1 DEF Less
        <4>2. CASE e # held.epoch
          <5>1. c.provisionedAt[e] = b.provisionedAt[e]
            BY <2>19, <3>3, <4>2
          <5> QED BY <2>13, <3>1, <4>2, <5>1
        <4> QED BY <4>1, <4>2
      <3> QED BY <2>17, <3>2, <3>4, <3>5 DEF ProvisionBecomes, held
    <2>22. Provided(c)
      BY <2>14, <2>21, ProvisionMoves
    <2>23. /\ \A j \in Plans : j # k => c.provisions[j] = b.provisions[j]
           /\ c.provisions[k] = h
      BY <1>2, <2>17
    <2>24. amount = held.amount => c.provisions[k].amount = 0
      BY <1>2, <2>4, <2>12, <2>13, <2>23
    <2> QED BY <1>1, <2>20, <2>22, <2>23, <2>24 DEF ProvisionStep, c, held
  <1> QED BY <1>3, <1>4

LEMMA SyncProvides ==
    ASSUME NEW b, Shaped(b), Claimants(b), Accruals(b), Provided(b), b.epoch \in Epochs,
           NEW k \in Plans, b.books[k].carrying \in Nat, NEW v
    PROVE  ProvisionStep(b, SyncProvision(b, k, v), k)
  <1> DEFINE want == IF v.state = "Delinquent"
                     THEN (b.books[k].carrying * DelinquentProvisionBps) \div Bps ELSE 0
             held == b.provisions[k].amount
  <1>1. want \in Nat
    BY PoolParamsAssumption, Z3
  <1>2. held \in Nat
    BY DEF Provided, IsHeld
  <1>3. SamePaper(b, b)
    BY DEF SamePaper
  <1>4. SyncProvision(b, k, v) =
          IF want > held THEN TakeProvision(b, k, want - held)
          ELSE IF want < held THEN ReleaseProvision(b, k, held - want) ELSE b
    BY DEF SyncProvision
  <1> HIDE DEF want, held
  <1>5. CASE want > held
    <2>1. want - held \in Nat
      BY <1>1, <1>2, <1>5
    <2> QED BY <1>4, <1>5, <2>1, TakeProvides
  <1>6. CASE want < held
    <2>1. held - want \in Nat /\ ~(want > held)
      BY <1>1, <1>2, <1>6
    <2> QED BY <1>4, <1>6, <2>1, ReleaseProvides
  <1>7. CASE want = held
    <2>1. SyncProvision(b, k, v) = b
      BY <1>1, <1>2, <1>4, <1>7
    <2> QED BY <1>3, <2>1 DEF ProvisionStep
  <1> QED BY <1>1, <1>2, <1>5, <1>6, <1>7

---------------------------------------------------------------------------
(* The totals of the paper. *)

PaperTypes(b) ==
    \A k \in Plans : b.books[k].carrying \in Nat /\ b.books[k].deferredIncome \in Nat

\* A sum of naturals is no less than one of them.
LEMMA TermIsWithinSum ==
    ASSUME NEW f, \A j \in Plans : f[j] \in Nat, NEW k \in Plans
    PROVE  SumOver(f, Plans) \in Nat /\ f[k] <= SumOver(f, Plans)
  <1> DEFINE none == [j \in Plans |-> 0]
             mine == [j \in Plans |-> IF j = k THEN f[k] ELSE 0]
  <1>1. IsFiniteSet(Plans) /\ f[k] \in Nat
    BY PoolPartiesAssumption
  <1>2. SumOver(mine, Plans) = f[k]
    <2>1. OnlyAt(none, mine, k, Plans)
      BY <1>1 DEF OnlyAt
    <2>2. SumOver(none, Plans) = 0
      BY <1>1, SumOfZeros
    <2>3. none[k] = 0 /\ mine[k] = f[k]
      OBVIOUS
    <2> HIDE DEF none, mine
    <2> QED BY <1>1, <2>1, <2>2, <2>3, SumMoves
  <1>3. \A j \in Plans : mine[j] \in Int /\ f[j] \in Int /\ mine[j] <= f[j]
    OBVIOUS
  <1> HIDE DEF mine
  <1>4. SumOver(mine, Plans) <= SumOver(f, Plans)
    BY <1>1, <1>3, SumIsMonotone
  <1>5. SumOver(f, Plans) \in Nat
    BY <1>1, SumIsNat
  <1> QED BY <1>2, <1>4, <1>5

LEMMA PaperTotals ==
    ASSUME NEW b, PaperTypes(b), Sums(b), NEW k \in Plans
    PROVE  LET p == b.books[k]
           IN  /\ b.bookedReceivables \in Nat /\ p.carrying <= b.bookedReceivables
               /\ b.deferredIncome \in Nat /\ p.deferredIncome <= b.deferredIncome
               /\ \A m \in Merchants : b.merchantExposure[m] \in Nat
               /\ \A c \in Corridors : b.corridorExposure[c] \in Nat
               /\ p.carrying <= b.merchantExposure[Terms[k].merchant]
               /\ p.carrying <= b.corridorExposure[Terms[k].corridor]
  <1> DEFINE p == b.books[k]
  <1>0. Terms[k].merchant \in Merchants /\ Terms[k].corridor \in Corridors
    BY PoolTermsAssumption
  <1>1. b.bookedReceivables \in Nat /\ p.carrying <= b.bookedReceivables
    <2>1. (\A j \in Plans : CarryingIn(b)[j] \in Nat) /\ CarryingIn(b)[k] = p.carrying
      BY DEF PaperTypes, CarryingIn
    <2> HIDE DEF p
    <2> QED BY <2>1, TermIsWithinSum DEF Sums
  <1>2. b.deferredIncome \in Nat /\ p.deferredIncome <= b.deferredIncome
    <2>1. (\A j \in Plans : DeferredIn(b)[j] \in Nat) /\ DeferredIn(b)[k] = p.deferredIncome
      BY DEF PaperTypes, DeferredIn
    <2> HIDE DEF p
    <2> QED BY <2>1, TermIsWithinSum DEF Sums
  <1>3. ASSUME NEW m \in Merchants
        PROVE  /\ b.merchantExposure[m] \in Nat
               /\ Terms[k].merchant = m => p.carrying <= b.merchantExposure[m]
    <2>1. /\ \A j \in Plans : WithMerchant(b, m)[j] \in Nat
          /\ Terms[k].merchant = m => WithMerchant(b, m)[k] = p.carrying
      BY DEF PaperTypes, WithMerchant
    <2>2. b.merchantExposure[m] = SumOver(WithMerchant(b, m), Plans)
      BY DEF Sums
    <2> HIDE DEF p
    <2> QED BY <2>1, <2>2, TermIsWithinSum
  <1>4. ASSUME NEW c \in Corridors
        PROVE  /\ b.corridorExposure[c] \in Nat
               /\ Terms[k].corridor = c => p.carrying <= b.corridorExposure[c]
    <2>1. /\ \A j \in Plans : InCorridor(b, c)[j] \in Nat
          /\ Terms[k].corridor = c => InCorridor(b, c)[k] = p.carrying
      BY DEF PaperTypes, InCorridor
    <2>2. b.corridorExposure[c] = SumOver(InCorridor(b, c), Plans)
      BY DEF Sums
    <2> HIDE DEF p
    <2> QED BY <2>1, <2>2, TermIsWithinSum
  <1> HIDE DEF p
  <1> QED BY <1>0, <1>1, <1>2, <1>3, <1>4 DEF p

\* The totals move with the paper of `k`.
TotalsMove(b, c, k) ==
    LET more == c.books[k].carrying - b.books[k].carrying
    IN  /\ c.bookedReceivables = b.bookedReceivables + more
        /\ c.deferredIncome
             = b.deferredIncome + (c.books[k].deferredIncome - b.books[k].deferredIncome)
        /\ c.merchantExposure
             = [m \in Merchants |-> b.merchantExposure[m]
                                      + (IF Terms[k].merchant = m THEN more ELSE 0)]
        /\ c.corridorExposure
             = [x \in Corridors |-> b.corridorExposure[x]
                                      + (IF Terms[k].corridor = x THEN more ELSE 0)]

LEMMA SumsFollow ==
    ASSUME NEW b, PaperTypes(b), Sums(b), NEW c, PaperTypes(c), NEW k \in Plans,
           OthersKept(b, c, k), TotalsMove(b, c, k)
    PROVE  Sums(c)
  <1> DEFINE p == b.books[k]
             q == c.books[k]
             more == q.carrying - p.carrying
  <1>1. /\ IsFiniteSet(Plans)
        /\ p.carrying \in Nat /\ q.carrying \in Nat
        /\ p.deferredIncome \in Nat /\ q.deferredIncome \in Nat
    BY PoolPartiesAssumption DEF PaperTypes
  <1>2. SumOver(CarryingIn(c), Plans) = SumOver(CarryingIn(b), Plans) - p.carrying + q.carrying
    <2>1. OnlyAt(CarryingIn(b), CarryingIn(c), k, Plans)
      BY DEF OnlyAt, CarryingIn, PaperTypes, OthersKept
    <2>2. CarryingIn(b)[k] = p.carrying /\ CarryingIn(c)[k] = q.carrying
      BY DEF CarryingIn
    <2> QED BY <1>1, <2>1, <2>2, SumMoves
  <1>3. SumOver(DeferredIn(c), Plans)
          = SumOver(DeferredIn(b), Plans) - p.deferredIncome + q.deferredIncome
    <2>1. OnlyAt(DeferredIn(b), DeferredIn(c), k, Plans)
      BY DEF OnlyAt, DeferredIn, PaperTypes, OthersKept
    <2>2. DeferredIn(b)[k] = p.deferredIncome /\ DeferredIn(c)[k] = q.deferredIncome
      BY DEF DeferredIn
    <2> QED BY <1>1, <2>1, <2>2, SumMoves
  <1>4. b.bookedReceivables \in Nat /\ b.deferredIncome \in Nat
    BY PaperTotals
  <1>5. /\ c.bookedReceivables = SumOver(CarryingIn(c), Plans)
        /\ c.deferredIncome = SumOver(DeferredIn(c), Plans)
    BY <1>1, <1>2, <1>3, <1>4 DEF Sums, TotalsMove
  <1>6. ASSUME NEW m \in Merchants
        PROVE  c.merchantExposure[m] = SumOver(WithMerchant(c, m), Plans)
    <2>1. OnlyAt(WithMerchant(b, m), WithMerchant(c, m), k, Plans)
      BY DEF OnlyAt, WithMerchant, PaperTypes, OthersKept
    <2>2. /\ WithMerchant(b, m)[k] = IF Terms[k].merchant = m THEN p.carrying ELSE 0
          /\ WithMerchant(c, m)[k] = IF Terms[k].merchant = m THEN q.carrying ELSE 0
      BY DEF WithMerchant
    <2>3. SumOver(WithMerchant(c, m), Plans)
            = SumOver(WithMerchant(b, m), Plans)
                - WithMerchant(b, m)[k] + WithMerchant(c, m)[k]
      BY <1>1, <2>1, SumMoves
    <2>4. b.merchantExposure[m] = SumOver(WithMerchant(b, m), Plans)
          /\ b.merchantExposure[m] \in Nat
      BY PaperTotals DEF Sums
    <2>5. c.merchantExposure[m] = b.merchantExposure[m]
                                      + (IF Terms[k].merchant = m THEN more ELSE 0)
      BY DEF TotalsMove
    <2> QED BY <1>1, <2>2, <2>3, <2>4, <2>5
  <1>7. ASSUME NEW x \in Corridors
        PROVE  c.corridorExposure[x] = SumOver(InCorridor(c, x), Plans)
    <2>1. OnlyAt(InCorridor(b, x), InCorridor(c, x), k, Plans)
      BY DEF OnlyAt, InCorridor, PaperTypes, OthersKept
    <2>2. /\ InCorridor(b, x)[k] = IF Terms[k].corridor = x THEN p.carrying ELSE 0
          /\ InCorridor(c, x)[k] = IF Terms[k].corridor = x THEN q.carrying ELSE 0
      BY DEF InCorridor
    <2>3. SumOver(InCorridor(c, x), Plans)
            = SumOver(InCorridor(b, x), Plans) - InCorridor(b, x)[k] + InCorridor(c, x)[k]
      BY <1>1, <2>1, SumMoves
    <2>4. b.corridorExposure[x] = SumOver(InCorridor(b, x), Plans)
          /\ b.corridorExposure[x] \in Nat
      BY PaperTotals DEF Sums
    <2>5. c.corridorExposure[x] = b.corridorExposure[x]
                                      + (IF Terms[k].corridor = x THEN more ELSE 0)
      BY DEF TotalsMove
    <2> QED BY <1>1, <2>2, <2>3, <2>4, <2>5
  <1>8. /\ c.merchantExposure = [m \in Merchants |-> c.merchantExposure[m]]
        /\ c.corridorExposure = [x \in Corridors |-> c.corridorExposure[x]]
    BY DEF TotalsMove
  <1>9. c.merchantExposure = [m \in Merchants |-> SumOver(WithMerchant(c, m), Plans)]
    BY <1>6, <1>8
  <1>10. c.corridorExposure = [x \in Corridors |-> SumOver(InCorridor(c, x), Plans)]
    BY <1>7, <1>8
  <1> QED BY <1>5, <1>9, <1>10 DEF Sums

\* The paper and its totals are the same.
SameTotals(b, c) ==
    /\ c.books = b.books
    /\ c.bookedReceivables = b.bookedReceivables /\ c.deferredIncome = b.deferredIncome
    /\ c.merchantExposure = b.merchantExposure /\ c.corridorExposure = b.corridorExposure

LEMMA SumsStay ==
    ASSUME NEW b, Sums(b), NEW c, SameTotals(b, c)
    PROVE  Sums(c)
  BY DEF Sums, SameTotals, CarryingIn, DeferredIn, WithMerchant, InCorridor

---------------------------------------------------------------------------
(* Accrual. *)

SameList(b, c) ==
    /\ c.openPlanList = b.openPlanList /\ c.openPlanSlot = b.openPlanSlot
    /\ c.openPlans = b.openPlans /\ c.epoch = b.epoch
    /\ c.markedThisEpoch = b.markedThisEpoch /\ c.markCursor = b.markCursor

SameClaims(b, c) ==
    /\ c.reserve = b.reserve /\ c.assets = b.assets /\ c.seniorAccrued = b.seniorAccrued
    /\ SameProvisions(b, c)

LEMMA ClaimsStay ==
    ASSUME NEW b, NEW c, SameClaims(b, c)
    PROVE  /\ Claimants(b) => Claimants(c)
           /\ Accruals(b) => Accruals(c)
           /\ Provided(b) => Provided(c)
  BY ProvisionsStay DEF SameClaims, Claimants, Accruals

\* What the book relies on when it reads `v` of a plan: debt has only fallen
\* and money only arrived since it last looked.
Readable(b, k, v) ==
    /\ v.outstanding \in 0 .. b.books[k].carrying
    /\ v.forwarded \in Nat /\ b.books[k].recognisedInflow \in Nat
    /\ b.books[k].recognisedInflow <= v.forwarded
    /\ v.late \in BOOLEAN

LEMMA ExposureReduced ==
    ASSUME NEW b, Shaped(b), PaperTypes(b), Sums(b), NEW k \in Plans,
           NEW amount \in 0 .. b.books[k].carrying
    PROVE  LET c == ReduceExposure(b, k, amount)
           IN  /\ Shaped(c) /\ SameList(b, c) /\ SameClaims(b, c)
               /\ c.books = b.books /\ c.bookedCash = b.bookedCash
               /\ c.balance = b.balance /\ c.deployedAssets = b.deployedAssets
               /\ c.bookedReceivables = b.bookedReceivables
               /\ c.deferredIncome = b.deferredIncome
               /\ c.unmarkedDelinquencies = b.unmarkedDelinquencies
               /\ c.merchantExposure
                    = [m \in Merchants |-> b.merchantExposure[m]
                                 - (IF Terms[k].merchant = m THEN amount ELSE 0)]
               /\ c.corridorExposure
                    = [x \in Corridors |-> b.corridorExposure[x]
                                 - (IF Terms[k].corridor = x THEN amount ELSE 0)]
  <1> DEFINE c == ReduceExposure(b, k, amount)
             mk == Terms[k].merchant
             ck == Terms[k].corridor
  <1>0. mk \in Merchants /\ ck \in Corridors
    BY PoolTermsAssumption
  <1>1. c = [f \in BookFields |-> c[f]]
    BY DEF ReduceExposure, Shaped, BookFields
  <1>2. /\ SameList(b, c) /\ c.books = b.books /\ c.bookedCash = b.bookedCash
        /\ c.balance = b.balance /\ c.deployedAssets = b.deployedAssets
    BY DEF ReduceExposure, Shaped, BookFields, SameList
  <1>3. /\ SameClaims(b, c) /\ c.bookedReceivables = b.bookedReceivables
        /\ c.deferredIncome = b.deferredIncome
        /\ c.unmarkedDelinquencies = b.unmarkedDelinquencies
    BY DEF ReduceExposure, Shaped, BookFields, SameClaims, SameProvisions
  <1>4. c.merchantExposure = [b.merchantExposure EXCEPT ![mk] = Less(@, amount)]
    BY DEF ReduceExposure, Shaped, BookFields
  <1>5. c.corridorExposure = [b.corridorExposure EXCEPT ![ck] = Less(@, amount)]
    BY DEF ReduceExposure, Shaped, BookFields
  <1>6. /\ b.merchantExposure = [m \in Merchants |-> b.merchantExposure[m]]
        /\ b.corridorExposure = [x \in Corridors |-> b.corridorExposure[x]]
    BY DEF Sums
  <1>7. /\ b.merchantExposure[mk] \in Nat /\ amount <= b.merchantExposure[mk]
        /\ b.corridorExposure[ck] \in Nat /\ amount <= b.corridorExposure[ck]
        /\ \A m \in Merchants : b.merchantExposure[m] \in Nat
        /\ \A x \in Corridors : b.corridorExposure[x] \in Nat
    <2>1. b.books[k].carrying \in Nat
      BY DEF PaperTypes
    <2> QED BY <1>0, <2>1, PaperTotals
  <1>8. amount \in Int
    BY DEF PaperTypes
  <1> HIDE DEF c, mk, ck
  <1>9. c.merchantExposure = [m \in Merchants |-> b.merchantExposure[m]
                                 - (IF mk = m THEN amount ELSE 0)]
    <2>1. \A m \in Merchants : c.merchantExposure[m] =
              b.merchantExposure[m] - (IF mk = m THEN amount ELSE 0)
      BY <1>4, <1>6, <1>7, <1>8 DEF Less
    <2>2. c.merchantExposure = [m \in Merchants |-> c.merchantExposure[m]]
      BY <1>4, <1>6
    <2> QED BY <2>1, <2>2
  <1>10. c.corridorExposure = [x \in Corridors |-> b.corridorExposure[x]
                                 - (IF ck = x THEN amount ELSE 0)]
    <2>1. \A x \in Corridors : c.corridorExposure[x] =
              b.corridorExposure[x] - (IF ck = x THEN amount ELSE 0)
      BY <1>5, <1>6, <1>7, <1>8 DEF Less
    <2>2. c.corridorExposure = [x \in Corridors |-> c.corridorExposure[x]]
      BY <1>5, <1>6
    <2> QED BY <2>1, <2>2
  <1>11. Shaped(c)
    BY <1>1, <1>2 DEF Shaped
  <1> QED BY <1>2, <1>3, <1>9, <1>10, <1>11 DEF c, mk, ck

\* The parts of the book that a reading of one plan keeps right.
Standing(b) ==
    /\ Shaped(b) /\ Claimants(b) /\ Accruals(b) /\ Provided(b)
    /\ PaperTypes(b) /\ Sums(b)

LEMMA AccruedStands ==
    ASSUME NEW b, Standing(b), NEW k \in Plans, NEW v, Readable(b, k, v)
    PROVE  LET c == Accrued(b, k, v)
           IN  /\ Standing(c) /\ SameProvisions(b, c) /\ SameList(b, c)
               /\ c.deployedAssets = b.deployedAssets
               /\ c.unmarkedDelinquencies = b.unmarkedDelinquencies
  <1> DEFINE recovered == Recovered(b, k, v)
             earned == Earned(b, k, v)
             inflow == Inflow(b, k, v)
             r == ReduceExposure(b, k, recovered)
             paper == [b.books[k] EXCEPT
                !.recognisedInflow = v.forwarded, !.carrying = v.outstanding,
                !.deferredIncome = b.books[k].deferredIncome - earned]
             booked == [r EXCEPT
                !.books[k] = [@ EXCEPT !.recognisedInflow = v.forwarded,
                                       !.carrying = v.outstanding,
                                       !.deferredIncome = b.books[k].deferredIncome - earned],
                !.bookedCash = @ + inflow,
                !.bookedReceivables = @ - recovered,
                !.deferredIncome = @ - earned]
             c == Accrued(b, k, v)
  <1>1. /\ Shaped(b) /\ Claimants(b) /\ Accruals(b) /\ Provided(b) /\ PaperTypes(b) /\ Sums(b)
    BY DEF Standing
  <1>2. /\ b.books[k].carrying \in Nat /\ b.books[k].deferredIncome \in Nat
        /\ v.outstanding \in Nat
    BY <1>1 DEF PaperTypes, Readable
  <1>3. recovered = b.books[k].carrying - v.outstanding /\ recovered \in 0 .. b.books[k].carrying
    BY <1>2 DEF Recovered, Less, Readable
  <1>4. earned \in 0 .. b.books[k].deferredIncome
    <2>1. CASE recovered = 0
      BY <1>2, <2>1 DEF Earned
    <2>2. CASE recovered # 0
      <3>1. earned = (b.books[k].deferredIncome * recovered) \div b.books[k].carrying
        BY <2>2 DEF Earned
      <3> HIDE DEF recovered, earned
      <3>2. /\ recovered \in Nat /\ recovered <= b.books[k].carrying
            /\ b.books[k].carrying > 0
        BY <1>2, <1>3, <2>2
      <3> QED BY <1>2, <3>1, <3>2, ShareIsWithin
    <2> QED BY <2>1, <2>2
  <1>5. inflow \in Nat
    BY DEF Inflow, Readable
  <1>6. /\ Shaped(c) /\ OthersKept(b, c, k)
        /\ c.books[k].carrying = v.outstanding
        /\ c.books[k].deferredIncome = b.books[k].deferredIncome - earned
    <2>1. Shaped(c) /\ OthersKept(b, c, k)
      BY <1>1, AccruedPaper
    <2>2. c.books[k].carrying = v.outstanding
      BY <1>1, AccruedPaper
    <2>3. c.books[k].deferredIncome = b.books[k].deferredIncome - earned
      BY <1>1, AccruedPaper
    <2> QED BY <2>1, <2>2, <2>3
  <1>7. c = IF inflow + earned >= recovered
            THEN Distribute(booked, inflow + earned - recovered)
            ELSE AbsorbLoss(booked, recovered - inflow - earned)
    BY DEF Accrued
  <1> HIDE DEF recovered, earned, inflow, c
  <1>8. /\ Shaped(r) /\ SameList(b, r) /\ SameClaims(b, r)
        /\ r.books = b.books /\ r.deployedAssets = b.deployedAssets
        /\ r.bookedReceivables = b.bookedReceivables
        /\ r.deferredIncome = b.deferredIncome
        /\ r.unmarkedDelinquencies = b.unmarkedDelinquencies
        /\ r.merchantExposure
             = [m \in Merchants |-> b.merchantExposure[m]
                          - (IF Terms[k].merchant = m THEN recovered ELSE 0)]
        /\ r.corridorExposure
             = [x \in Corridors |-> b.corridorExposure[x]
                          - (IF Terms[k].corridor = x THEN recovered ELSE 0)]
    BY <1>1, <1>3, ExposureReduced
  <1> HIDE DEF r, paper
  <1>9. booked.books = [b.books EXCEPT ![k] = paper]
    <2>1. booked.books = [r.books EXCEPT ![k] = [r.books[k] EXCEPT
              !.recognisedInflow = v.forwarded, !.carrying = v.outstanding,
              !.deferredIncome = b.books[k].deferredIncome - earned]]
      BY <1>8 DEF BookFields, Shaped
    <2> HIDE DEF booked
    <2> QED BY <1>8, <2>1 DEF paper
  <1>10. /\ booked = [f \in BookFields |-> booked[f]]
         /\ SameList(r, booked) /\ booked.deployedAssets = r.deployedAssets
         /\ booked.unmarkedDelinquencies = r.unmarkedDelinquencies
    BY <1>8 DEF BookFields, Shaped, SameList
  <1>11. SameClaims(r, booked)
    BY <1>8 DEF BookFields, Shaped, SameClaims, SameProvisions
  <1>12. /\ booked.bookedReceivables = b.bookedReceivables - recovered
         /\ booked.deferredIncome = b.deferredIncome - earned
    BY <1>8 DEF BookFields, Shaped
  <1>13. /\ booked.merchantExposure = r.merchantExposure
         /\ booked.corridorExposure = r.corridorExposure
    BY <1>8 DEF BookFields, Shaped
  <1>14. IsPaper(paper)
    BY <1>1 DEF Shaped, IsPaper, PaperFields, paper
  <1> HIDE DEF booked
  <1>15. Shaped(booked)
    <2>1. booked.books = [j \in Plans |-> booked.books[j]]
      BY <1>1, <1>9 DEF Shaped
    <2>2. \A j \in Plans : booked.books[j] = IF j = k THEN paper ELSE b.books[j]
      BY <1>1, <1>9 DEF Shaped
    <2> QED BY <1>1, <1>10, <1>14, <2>1, <2>2 DEF Shaped
  <1>16. Claimants(booked) /\ Accruals(booked) /\ SameProvisions(b, booked)
    BY <1>1, <1>8, <1>11, ClaimsStay DEF SameClaims, SameProvisions
  <1>17. ClaimsOnly(booked, c)
    <2>1. inflow + earned \in Int /\ recovered \in Int
      BY <1>2, <1>3, <1>4, <1>5
    <2>2. recovered - inflow - earned = recovered - (inflow + earned)
      BY <1>2, <1>3, <1>4, <1>5
    <2> DEFINE gain == inflow + earned
    <2>3. CASE gain >= recovered
      <3>1. inflow + earned - recovered = gain - recovered
        BY <1>2, <1>3, <1>4, <1>5
      <3>2. c = Distribute(booked, inflow + earned - recovered)
        BY <1>7, <2>3
      <3>3. c = Distribute(booked, gain - recovered)
        BY <3>1, <3>2
      <3> QED BY <1>15, <1>16, <2>1, <2>3, <3>3, DifferenceClaims
    <2>4. CASE ~(gain >= recovered)
      <3>1. c = AbsorbLoss(booked, recovered - inflow - earned)
        BY <1>7, <2>4
      <3>2. c = AbsorbLoss(booked, recovered - gain)
        BY <2>2, <3>1
      <3> QED BY <1>15, <1>16, <2>1, <2>4, <3>2, DifferenceClaims
    <2> QED BY <2>3, <2>4
  <1>18. SamePaper(booked, c) /\ SameProvisions(booked, c)
    BY <1>17 DEF ClaimsOnly
  <1>19. PaperTypes(c)
    <2>1. b.books[k].deferredIncome - earned \in Nat
      BY <1>2, <1>4
    <2> QED BY <1>1, <1>2, <1>6, <2>1 DEF PaperTypes, OthersKept
  <1>20. TotalsMove(b, c, k)
    <2>1. c.books[k].carrying - b.books[k].carrying = -recovered /\ recovered \in Int
      BY <1>2, <1>3, <1>6
    <2>2. c.books[k].deferredIncome - b.books[k].deferredIncome = -earned /\ earned \in Int
      BY <1>2, <1>4, <1>6
    <2>3. /\ b.bookedReceivables \in Nat /\ b.deferredIncome \in Nat
          /\ \A m \in Merchants : b.merchantExposure[m] \in Nat
          /\ \A x \in Corridors : b.corridorExposure[x] \in Nat
      BY <1>1, PaperTotals
    <2> DEFINE more == c.books[k].carrying - b.books[k].carrying
               moreIncome == c.books[k].deferredIncome - b.books[k].deferredIncome
    <2>a. more = -recovered /\ moreIncome = -earned
      BY <2>1, <2>2
    <2> HIDE DEF more, moreIncome
    <2>4. /\ c.bookedReceivables = b.bookedReceivables + more
          /\ c.deferredIncome = b.deferredIncome + moreIncome
      BY <1>12, <1>18, <2>1, <2>2, <2>3, <2>a DEF SamePaper
    <2>5. c.merchantExposure
             = [m \in Merchants |-> b.merchantExposure[m]
                                      + (IF Terms[k].merchant = m THEN more ELSE 0)]
      <3>1. c.merchantExposure = r.merchantExposure
        BY <1>13, <1>18 DEF SamePaper
      <3>2. \A m \in Merchants : r.merchantExposure[m] = b.merchantExposure[m]
                                      + (IF Terms[k].merchant = m THEN more ELSE 0)
        BY <1>8, <2>1, <2>3, <2>a
      <3>3. r.merchantExposure = [m \in Merchants |-> r.merchantExposure[m]]
        BY <1>8
      <3> QED BY <3>1, <3>2, <3>3
    <2>6. c.corridorExposure
             = [x \in Corridors |-> b.corridorExposure[x]
                                      + (IF Terms[k].corridor = x THEN more ELSE 0)]
      <3>1. c.corridorExposure = r.corridorExposure
        BY <1>13, <1>18 DEF SamePaper
      <3>2. \A x \in Corridors : r.corridorExposure[x] = b.corridorExposure[x]
                                      + (IF Terms[k].corridor = x THEN more ELSE 0)
        BY <1>8, <2>1, <2>3, <2>a
      <3>3. r.corridorExposure = [x \in Corridors |-> r.corridorExposure[x]]
        BY <1>8
      <3> QED BY <3>1, <3>2, <3>3
    <2> QED BY <2>4, <2>5, <2>6 DEF TotalsMove, more, moreIncome
  <1>21. Sums(c)
    BY <1>1, <1>6, <1>19, <1>20, SumsFollow
  <1>22. SameProvisions(b, c) /\ Provided(c)
    BY <1>1, <1>16, <1>18, ProvisionsStay DEF SameProvisions
  <1>23. /\ SameList(b, c) /\ c.deployedAssets = b.deployedAssets
         /\ c.unmarkedDelinquencies = b.unmarkedDelinquencies
    BY <1>8, <1>10, <1>18 DEF SameList, SamePaper
  <1>24. Claimants(c) /\ Accruals(c)
    BY <1>17 DEF ClaimsOnly
  <1>25. Standing(c)
    BY <1>6, <1>19, <1>21, <1>22, <1>24 DEF Standing
  <1> QED BY <1>22, <1>23, <1>25 DEF c

---------------------------------------------------------------------------
(* Reading a plan twice.  A provision brought to what is wanted is there, or *)
(* as near as it gets: it stays where it is when it is brought there again.  *)

\* A book is what its fields are.
LEMMA SameBook ==
    ASSUME NEW b, Shaped(b), NEW c, Shaped(c), SamePaper(b, c), SameClaims(b, c)
    PROVE  c = b
  <1>1. b = [f \in BookFields |-> b[f]] /\ c = [f \in BookFields |-> c[f]]
    BY DEF Shaped
  <1>2. \A f \in BookFields : c[f] = b[f]
    BY DEF BookFields, SamePaper, SameClaims, SameProvisions
  <1> QED BY <1>1, <1>2

\* What is released of a provision when `part` of it is due: the shares of the
\* two tranches are rounded down, the reserve takes the rest as far as it gave.
ShareOf(x, part, whole) == (x * part) \div whole

IsRelease(h, part, s) ==
    /\ s.senior = ShareOf(h.fromSenior, part, h.amount)
    /\ s.junior = ShareOf(h.fromJunior, part, h.amount)
    /\ s.reserve = Lesser(part - s.senior - s.junior, h.fromReserve)

HeldAfter(h, s) ==
    [amount |-> Less(h.amount, Total(s)), epoch |-> h.epoch,
     fromReserve |-> h.fromReserve - s.reserve,
     fromJunior |-> h.fromJunior - s.junior,
     fromSenior |-> h.fromSenior - s.senior]

ReturnOf(h, part) ==
    LET toSenior == ShareOf(h.fromSenior, part, h.amount)
        toJunior == ShareOf(h.fromJunior, part, h.amount)
    IN  [reserve |-> Lesser(part - toSenior - toJunior, h.fromReserve),
         junior |-> toJunior, senior |-> toSenior]

\* The shares of the whole are the whole.
LEMMA ReleaseOfAll ==
    ASSUME NEW h, IsHeld(h), h.amount > 0, NEW s, IsRelease(h, h.amount, s)
    PROVE  s.senior = h.fromSenior /\ s.junior = h.fromJunior /\ s.reserve = h.fromReserve
  <1>1. /\ h.amount \in Nat /\ h.fromReserve \in Nat
        /\ h.fromJunior \in Nat /\ h.fromSenior \in Nat
        /\ h.amount = h.fromReserve + h.fromJunior + h.fromSenior
    BY DEF IsHeld
  <1>2. s.senior = h.fromSenior /\ s.junior = h.fromJunior
    BY <1>1, ShareOfAll DEF IsRelease, ShareOf
  <1>3. h.amount - s.senior - s.junior = h.fromReserve
    BY <1>1, <1>2
  <1> QED BY <1>1, <1>2, <1>3 DEF IsRelease, Lesser

LEMMA ReleaseIsThere ==
    ASSUME NEW h, IsHeld(h), h.amount > 0, NEW part \in 0 .. h.amount,
           NEW s, IsRelease(h, part, s)
    PROVE  /\ s.senior \in 0 .. h.fromSenior /\ s.junior \in 0 .. h.fromJunior
           /\ s.reserve \in 0 .. h.fromReserve
           /\ s.senior + s.junior \in 0 .. part
           /\ Total(s) \in 0 .. part
  <1>1. /\ h.amount \in Nat /\ h.fromReserve \in Nat /\ part \in Nat /\ part <= h.amount
        /\ h.fromJunior \in Nat /\ h.fromSenior \in Nat
        /\ h.fromSenior + h.fromJunior <= h.amount
    BY DEF IsHeld
  <1>2. s.senior \in 0 .. h.fromSenior
    BY <1>1, ShareIsWithin DEF IsRelease, ShareOf
  <1>3. s.junior \in 0 .. h.fromJunior
    BY <1>1, ShareIsWithin DEF IsRelease, ShareOf
  <1>4. s.senior + s.junior \in 0 .. part
    BY <1>1, SharesAreWithin DEF IsRelease, ShareOf
  <1>5. s.reserve = Lesser(part - s.senior - s.junior, h.fromReserve)
    BY DEF IsRelease
  <1>6. s.reserve \in 0 .. h.fromReserve /\ s.senior + s.junior + s.reserve \in 0 .. part
    BY <1>1, <1>2, <1>3, <1>4, <1>5 DEF Lesser
  <1> QED BY <1>1, <1>2, <1>3, <1>4, <1>6 DEF Total

ReleasedAs(b, c, k, s) ==
    LET h == b.provisions[k]
    IN  /\ c.provisions = [b.provisions EXCEPT ![k] = HeldAfter(h, s)]
        /\ c.reserve = b.reserve + s.reserve
        /\ c.assets = [t \in Tranche |->
               b.assets[t] + (IF t = "Junior" THEN s.junior ELSE s.senior)]
        /\ c.seniorAccrued = b.seniorAccrued
        /\ c.totalProvisioned = Less(b.totalProvisioned, Total(s))
        /\ c.provisionedAt = [b.provisionedAt EXCEPT ![h.epoch] = Less(@, Total(s))]

LEMMA ReleaseGives ==
    ASSUME NEW b, Shaped(b), Claimants(b), Provided(b), NEW k \in Plans,
           NEW amount \in Nat, amount > 0, b.provisions[k].amount > 0,
           NEW h, h = b.provisions[k], NEW part, part = Lesser(amount, h.amount),
           NEW s, s = ReturnOf(h, part)
    PROVE  ReleasedAs(b, ReleaseProvision(b, k, amount), k, s)
  <1> DEFINE held == b.provisions[k]
             due == Lesser(amount, held.amount)
             toSenior == (held.fromSenior * due) \div held.amount
             toJunior == (held.fromJunior * due) \div held.amount
             toReserve == Lesser(due - toSenior - toJunior, held.fromReserve)
             returned == toSenior + toJunior + toReserve
             g == [amount |-> Less(held.amount, returned), epoch |-> held.epoch,
                   fromReserve |-> held.fromReserve - toReserve,
                   fromJunior |-> held.fromJunior - toJunior,
                   fromSenior |-> held.fromSenior - toSenior]
             c == ReleaseProvision(b, k, amount)
  <1>1. held.amount \in Nat /\ IsHeld(held) /\ h = held /\ part = due
    BY DEF Provided, IsHeld
  <1>a. ~(held.amount = 0 \/ amount = 0)
    BY <1>1
  <1>2. c = [b EXCEPT
                !.reserve = @ + toReserve,
                !.assets = [t \in Tranche |->
                    b.assets[t] + (IF t = "Junior" THEN toJunior ELSE toSenior)],
                !.provisions[k] = g,
                !.totalProvisioned = Less(@, returned),
                !.provisionedAt[held.epoch] = Less(@, returned)]
    BY <1>a DEF ReleaseProvision
  <1>3. s.senior = toSenior /\ s.junior = toJunior /\ s.reserve = toReserve
    BY DEF ReturnOf, ShareOf
  <1>4. toSenior \in Int /\ toJunior \in Int /\ toReserve \in Int
    <2>1. IsRelease(h, part, s)
      BY DEF IsRelease, ReturnOf, ShareOf
    <2>2. part \in 0 .. h.amount
      BY <1>1 DEF Lesser
    <2> HIDE DEF toSenior, toJunior, toReserve
    <2>3. /\ s.senior \in 0 .. h.fromSenior /\ s.junior \in 0 .. h.fromJunior
          /\ s.reserve \in 0 .. h.fromReserve
      BY <1>1, <2>1, <2>2, ReleaseIsThere
    <2> QED BY <1>3, <2>3
  <1> HIDE DEF c
  <1>5. returned = Total(s)
    <2> HIDE DEF toSenior, toJunior, toReserve
    <2> QED BY <1>3, <1>4 DEF Total
  <1>6. g = HeldAfter(h, s)
    BY <1>3, <1>5 DEF HeldAfter
  <1> HIDE DEF g, returned, toSenior, toJunior, toReserve
  <1>7. c.provisions = [b.provisions EXCEPT ![k] = g]
    BY <1>2 DEF Shaped, BookFields
  <1>8. c.reserve = b.reserve + toReserve /\ c.seniorAccrued = b.seniorAccrued
    BY <1>2 DEF Shaped, BookFields
  <1>9. c.assets = [t \in Tranche |->
                      b.assets[t] + (IF t = "Junior" THEN toJunior ELSE toSenior)]
    BY <1>2 DEF Shaped, BookFields
  <1>10. c.totalProvisioned = Less(b.totalProvisioned, returned)
    BY <1>2 DEF Shaped, BookFields
  <1>11. c.provisionedAt = [b.provisionedAt EXCEPT ![h.epoch] = Less(@, returned)]
    BY <1>2 DEF Shaped, BookFields
  <1>12. /\ c.provisions = [b.provisions EXCEPT ![k] = HeldAfter(held, s)]
         /\ c.reserve = b.reserve + s.reserve
         /\ c.assets = [t \in Tranche |->
                b.assets[t] + (IF t = "Junior" THEN s.junior ELSE s.senior)]
         /\ c.seniorAccrued = b.seniorAccrued
         /\ c.totalProvisioned = Less(b.totalProvisioned, Total(s))
         /\ c.provisionedAt
              = [b.provisionedAt EXCEPT ![held.epoch] = Less(@, Total(s))]
    BY <1>1, <1>3, <1>5, <1>6, <1>7, <1>8, <1>9, <1>10, <1>11
  <1> QED BY <1>12 DEF ReleasedAs, c

\* A release of nothing changes nothing.
LEMMA NothingReleased ==
    ASSUME NEW b, Shaped(b), Claimants(b), Accruals(b), Provided(b), NEW k \in Plans,
           NEW amount \in Nat,
           LET h == b.provisions[k]
               s == ReturnOf(h, Lesser(amount, h.amount))
           IN  s.senior = 0 /\ s.junior = 0 /\ s.reserve = 0
    PROVE  ReleaseProvision(b, k, amount) = b
  <1> DEFINE h == b.provisions[k]
             part == Lesser(amount, h.amount)
             s == ReturnOf(h, part)
             c == ReleaseProvision(b, k, amount)
  <1>0. s.senior = 0 /\ s.junior = 0 /\ s.reserve = 0
    OBVIOUS
  <1>1. IsHeld(h) /\ h.amount \in Nat /\ h.epoch \in Epochs
    BY DEF Provided, IsHeld
  <1>2. CASE h.amount = 0 \/ amount = 0
    BY <1>2 DEF ReleaseProvision
  <1>3. CASE ~(h.amount = 0 \/ amount = 0)
    <2>1. amount > 0 /\ h.amount > 0
      BY <1>1, <1>3
    <2>2. s.senior = 0 /\ s.junior = 0 /\ s.reserve = 0
      BY <1>0
    <2>3. Shaped(c) /\ SamePaper(b, c)
      BY ReleaseKeepsPaper
    <2> HIDE DEF s, part
    <2>4. /\ c.provisions = [b.provisions EXCEPT ![k] = HeldAfter(h, s)]
          /\ c.reserve = b.reserve + s.reserve
          /\ c.assets = [t \in Tranche |->
                  b.assets[t] + (IF t = "Junior" THEN s.junior ELSE s.senior)]
          /\ c.seniorAccrued = b.seniorAccrued
          /\ c.totalProvisioned = Less(b.totalProvisioned, Total(s))
          /\ c.provisionedAt = [b.provisionedAt EXCEPT ![h.epoch] = Less(@, Total(s))]
      <3>1. ReleasedAs(b, c, k, s)
        BY <2>1, ReleaseGives DEF s, part
      <3> HIDE DEF c
      <3> QED BY <3>1 DEF ReleasedAs
    <2>5. Total(s) = 0
      BY <2>2 DEF Total
    <2> HIDE DEF c
    <2>6. HeldAfter(h, s) = h
      <3>1. /\ h.fromReserve \in Nat /\ h.fromJunior \in Nat /\ h.fromSenior \in Nat
            /\ h = [f \in HeldFields |-> h[f]]
        BY <1>1 DEF IsHeld, HasHeldFields
      <3>2. Less(h.amount, 0) = h.amount
        BY <1>1 DEF Less
      <3> HIDE DEF h
      <3>3. HeldAfter(h, s) = [amount |-> h.amount, epoch |-> h.epoch,
                fromReserve |-> h.fromReserve, fromJunior |-> h.fromJunior,
                fromSenior |-> h.fromSenior]
        BY <2>2, <2>5, <3>1, <3>2 DEF HeldAfter
      <3> QED BY <3>1, <3>3 DEF HeldFields
    <2>7. c.provisions = b.provisions
      <3>1. b.provisions = [j \in Plans |-> b.provisions[j]]
        BY DEF Provided
      <3> QED BY <2>4, <2>6, <3>1
    <2>8. c.reserve = b.reserve
      BY <2>2, <2>4 DEF Claimants
    <2>9. c.assets = b.assets
      BY <2>2, <2>4 DEF Claimants, Tranche
    <2>10. c.totalProvisioned = b.totalProvisioned
      BY <2>4, <2>5, HeldTotals DEF Less
    <2>11. c.provisionedAt = b.provisionedAt
      <3>1. b.provisionedAt = [e \in Epochs |-> b.provisionedAt[e]]
        BY DEF Provided
      <3>2. b.provisionedAt[h.epoch] \in Nat
        BY <1>1, HeldTotals
      <3>3. Less(b.provisionedAt[h.epoch], 0) = b.provisionedAt[h.epoch]
        BY <3>2 DEF Less
      <3> QED BY <2>4, <2>5, <3>1, <3>3
    <2>12. SameClaims(b, c)
      BY <2>4, <2>7, <2>8, <2>9, <2>10, <2>11 DEF SameClaims, SameProvisions
    <2>13. c = b
      BY <2>3, <2>12, SameBook
    <2> QED BY <2>13 DEF c
  <1> QED BY <1>2, <1>3

\* If all of `whole` but `rest` shares in `part`, the shares together are not
\* below what is left of `part` without `rest`.
LEMMA SharesReach ==
    ASSUME NEW x \in Nat, NEW rest \in Nat, NEW whole \in Nat, whole = x + rest,
           NEW part \in Nat, part <= whole, NEW n \in Nat, x * part < n * whole
    PROVE  n > part - rest
  <1> SUFFICES ASSUME n <= part - rest PROVE FALSE
    OBVIOUS
  <1>1. n + rest <= part
    OBVIOUS
  <1>2. (n + rest) * whole <= part * whole
    <2> DEFINE m == n + rest
    <2>1. m \in Nat /\ m <= part
      BY <1>1
    <2> HIDE DEF m
    <2>2. m * whole <= part * whole
      BY <2>1, Z3
    <2> QED BY <2>2 DEF m
  <1>3. (n + rest) * whole = n * whole + rest * whole
    BY Z3
  <1>4. (x + rest) * part = x * part + rest * part
    BY Z3
  <1>5. rest * part <= rest * whole
    BY Z3
  <1>6. part * whole = (x + rest) * part
    BY Z3
  <1> DEFINE a == n * whole
             c == rest * whole
             d == x * part
             e == rest * part
             f == part * whole
  <1>7. a \in Int /\ c \in Int /\ d \in Int /\ e \in Int /\ f \in Int
    BY Z3
  <1>8. a + c <= f /\ f = d + e /\ e <= c /\ d < a
    BY <1>2, <1>3, <1>4, <1>5, <1>6
  <1> HIDE DEF a, c, d, e, f
  <1> QED BY <1>7, <1>8

LEMMA SharesFallShort ==
    ASSUME NEW x \in Nat, NEW y \in Nat, NEW rest \in Nat,
           NEW whole \in Nat, whole = x + y + rest, whole > 0,
           NEW part \in Nat, part <= whole,
           NEW p, p = ShareOf(x, part, whole), NEW q, q = ShareOf(y, part, whole),
           p + q + rest < part
    PROVE  p + q + rest = part - 1 /\ p < x /\ q < y
  <1>0. p = (x * part) \div whole /\ q = (y * part) \div whole
    BY DEF ShareOf
  <1>1. x * part \in Nat /\ y * part \in Nat
    BY Z3
  <1>2. p \in 0 .. x /\ q \in 0 .. y
    BY <1>0, ShareIsWithin
  <1>3. x * part < (p + 1) * whole
    BY <1>0, <1>1, Z3
  <1>4. y * part < (q + 1) * whole
    BY <1>0, <1>1, Z3
  <1>5. p \in Nat /\ q \in Nat
    BY <1>2
  <1>6. p + q + 2 > part - rest
    <2> DEFINE z == x + y
               n == p + q + 2
               p1 == p + 1
               q1 == q + 1
    <2>1. z * part = x * part + y * part
      BY Z3
    <2>2. n * whole = p1 * whole + q1 * whole
      <3>1. n = p1 + q1 /\ p1 \in Nat /\ q1 \in Nat
        BY <1>5
      <3> HIDE DEF n, p1, q1
      <3> QED BY <3>1, Z3
    <2>3. z \in Nat /\ n \in Nat /\ whole = z + rest
      BY <1>5
    <2>4. z * part < n * whole
      <3>1. p1 * whole \in Int /\ q1 * whole \in Int
        BY <1>5, Z3
      <3>2. x * part < p1 * whole /\ y * part < q1 * whole
        BY <1>3, <1>4
      <3> HIDE DEF z, n, p1, q1
      <3> DEFINE xp == x * part
                 yp == y * part
                 pw == p1 * whole
                 qw == q1 * whole
      <3>3. xp \in Int /\ yp \in Int /\ pw \in Int /\ qw \in Int /\ xp < pw /\ yp < qw
        BY <1>1, <3>1, <3>2
      <3> HIDE DEF xp, yp, pw, qw
      <3>4. xp + yp < pw + qw
        BY <3>3
      <3> QED BY <2>1, <2>2, <3>4 DEF xp, yp, pw, qw
    <2> HIDE DEF z, n
    <2>5. n > part - rest
      BY <2>3, <2>4, SharesReach
    <2> QED BY <2>5 DEF n
  <1>7. q < y
    <2> SUFFICES ASSUME q = y PROVE FALSE
      BY <1>2
    <2> DEFINE n == p + 1
               others == y + rest
    <2>1. n \in Nat /\ others \in Nat /\ whole = x + others /\ x * part < n * whole
      BY <1>3, <1>5
    <2> HIDE DEF n, others
    <2>2. n > part - others
      BY <2>1, SharesReach
    <2> QED BY <1>5, <2>2 DEF n, others
  <1>8. p < x
    <2> SUFFICES ASSUME p = x PROVE FALSE
      BY <1>2
    <2> DEFINE n == q + 1
               others == x + rest
    <2>1. n \in Nat /\ others \in Nat /\ whole = y + others /\ y * part < n * whole
      BY <1>4, <1>5
    <2> HIDE DEF n, others
    <2>2. n > part - others
      BY <2>1, SharesReach
    <2> QED BY <1>5, <2>2 DEF n, others
  <1> QED BY <1>5, <1>6, <1>7, <1>8

\* What rounding keeps of a release is one unit at most, the reserve has then
\* had all of its own, and both tranches still wait for some of theirs.
LEMMA RoundingKeepsOne ==
    ASSUME NEW h, IsHeld(h), h.amount > 0, NEW part \in 0 .. h.amount,
           NEW s, IsRelease(h, part, s), Total(s) # part
    PROVE  /\ s.reserve = h.fromReserve /\ Total(s) = part - 1
           /\ s.senior < h.fromSenior /\ s.junior < h.fromJunior
  <1>1. /\ h.amount \in Nat /\ h.fromReserve \in Nat /\ part \in Nat /\ part <= h.amount
        /\ h.fromJunior \in Nat /\ h.fromSenior \in Nat
        /\ h.amount = h.fromSenior + h.fromJunior + h.fromReserve
    BY DEF IsHeld
  <1>2. /\ s.senior \in 0 .. h.fromSenior /\ s.junior \in 0 .. h.fromJunior
        /\ s.reserve \in 0 .. h.fromReserve /\ s.senior + s.junior \in 0 .. part
        /\ Total(s) \in 0 .. part
    BY ReleaseIsThere
  <1>3. s.reserve = Lesser(part - s.senior - s.junior, h.fromReserve)
    BY DEF IsRelease
  <1>4. Total(s) = s.senior + s.junior + s.reserve
    BY <1>2 DEF Total
  <1>5. s.reserve = h.fromReserve
    BY <1>1, <1>2, <1>3, <1>4 DEF Lesser
  <1>6. s.senior + s.junior + h.fromReserve < part
    BY <1>1, <1>2, <1>4, <1>5
  <1>7. /\ s.senior = ShareOf(h.fromSenior, part, h.amount)
        /\ s.junior = ShareOf(h.fromJunior, part, h.amount)
    BY DEF IsRelease
  <1>8. /\ s.senior + s.junior + h.fromReserve = part - 1
        /\ s.senior < h.fromSenior /\ s.junior < h.fromJunior
    <2> DEFINE x == h.fromSenior
               y == h.fromJunior
               rest == h.fromReserve
               whole == h.amount
               p == s.senior
               q == s.junior
    <2>1. /\ x \in Nat /\ y \in Nat /\ rest \in Nat /\ whole \in Nat
          /\ whole = x + y + rest /\ whole > 0 /\ part \in Nat /\ part <= whole
          /\ p + q + rest < part
      BY <1>1, <1>6
    <2>2. p = ShareOf(x, part, whole) /\ q = ShareOf(y, part, whole)
      BY <1>7
    <2> HIDE DEF x, y, rest, whole, p, q
    <2>3. p + q + rest = part - 1 /\ p < x /\ q < y
      BY <2>1, <2>2, SharesFallShort
    <2> QED BY <2>3 DEF x, y, rest, whole, p, q
  <1> QED BY <1>4, <1>5, <1>8

LEMMA ShareOfOne ==
    ASSUME NEW x \in Nat, NEW whole \in Nat, x < whole
    PROVE  ShareOf(x, 1, whole) = 0
  <1>1. x * 1 = x
    OBVIOUS
  <1>2. x \div whole = 0
    BY Z3
  <1> QED BY <1>1, <1>2 DEF ShareOf

\* A partial release leaves what it should, or one unit more that rounding
\* keeps and that no further release moves.
LEMMA ReleaseSettles ==
    ASSUME NEW b, Shaped(b), Claimants(b), Accruals(b), Provided(b), NEW k \in Plans,
           NEW amount \in Nat, amount > 0, amount <= b.provisions[k].amount
    PROVE  LET c == ReleaseProvision(b, k, amount)
               left == c.provisions[k].amount
           IN  \/ left = b.provisions[k].amount - amount
               \/ /\ left = b.provisions[k].amount - amount + 1
                  /\ ReleaseProvision(c, k, 1) = c
  <1> DEFINE h == b.provisions[k]
             part == Lesser(amount, h.amount)
             s == ReturnOf(h, part)
             c == ReleaseProvision(b, k, amount)
             g == c.provisions[k]
  <1>1. IsHeld(h) /\ h.amount \in Nat /\ b.provisions = [j \in Plans |-> b.provisions[j]]
    BY DEF Provided, IsHeld
  <1>2. h.amount > 0 /\ amount <= h.amount
    BY <1>1
  <1>3. part = amount /\ part \in 0 .. h.amount
    BY <1>1, <1>2 DEF Lesser
  <1>4. IsRelease(h, part, s)
    BY DEF IsRelease, ReturnOf
  <1> HIDE DEF s, part
  <1>5. c.provisions = [b.provisions EXCEPT ![k] = HeldAfter(h, s)]
    <2>1. ReleasedAs(b, c, k, s)
      BY <1>2, ReleaseGives DEF s, part
    <2> HIDE DEF c
    <2> QED BY <2>1 DEF ReleasedAs
  <1>6. Shaped(c) /\ Claimants(c) /\ Accruals(c) /\ Provided(c)
    BY <1>2, ReleaseProvides DEF ProvisionStep
  <1> HIDE DEF c
  <1>7. g = HeldAfter(h, s)
    BY <1>1, <1>5
  <1>8. IsHeld(g)
    BY <1>6 DEF Provided
  <1> HIDE DEF h, g
  <1>9. /\ Total(s) \in 0 .. part
        /\ s.senior \in 0 .. h.fromSenior /\ s.junior \in 0 .. h.fromJunior
        /\ s.reserve \in 0 .. h.fromReserve
    BY <1>1, <1>2, <1>3, <1>4, ReleaseIsThere
  <1>10. /\ g.amount = h.amount - Total(s) /\ g.fromReserve = h.fromReserve - s.reserve
         /\ g.fromJunior = h.fromJunior - s.junior /\ g.fromSenior = h.fromSenior - s.senior
    BY <1>1, <1>3, <1>7, <1>9 DEF HeldAfter, Less
  <1>11. CASE Total(s) = part
    <2>1. g.amount = h.amount - amount
      BY <1>3, <1>10, <1>11
    <2> QED BY <2>1 DEF g, h, c
  <1>12. CASE Total(s) # part
    <2>1. /\ s.reserve = h.fromReserve /\ Total(s) = part - 1
          /\ s.senior < h.fromSenior /\ s.junior < h.fromJunior
      BY <1>1, <1>2, <1>3, <1>4, <1>12, RoundingKeepsOne
    <2>2. g.amount = h.amount - amount + 1
      BY <1>1, <1>3, <1>10, <2>1
    <2>3. /\ g.fromReserve \in Nat /\ g.fromJunior \in Nat /\ g.fromSenior \in Nat
          /\ g.amount \in Nat /\ g.amount = g.fromReserve + g.fromJunior + g.fromSenior
      BY <1>8 DEF IsHeld
    <2>4. /\ h.fromReserve \in Nat /\ h.fromJunior \in Nat /\ h.fromSenior \in Nat
      BY <1>1 DEF IsHeld
    <2>5. g.fromReserve = 0 /\ g.fromSenior > 0 /\ g.fromJunior > 0
      BY <1>9, <1>10, <2>1, <2>3, <2>4
    <2>6. g.fromSenior < g.amount /\ g.fromJunior < g.amount
      BY <2>3, <2>5
    <2>7. Lesser(1, g.amount) = 1
      BY <2>3, <2>6 DEF Lesser
    <2> DEFINE again == ReturnOf(g, 1)
    <2>8. ShareOf(g.fromSenior, 1, g.amount) = 0 /\ ShareOf(g.fromJunior, 1, g.amount) = 0
      BY <2>3, <2>6, ShareOfOne
    <2>9. again.senior = 0 /\ again.junior = 0
      BY <2>8 DEF ReturnOf
    <2>10. again.reserve = Lesser(1 - 0 - 0, g.fromReserve)
      BY <2>8 DEF ReturnOf
    <2>11. again.reserve = 0
      BY <2>5, <2>10 DEF Lesser
    <2> HIDE DEF again
    <2>12. ReleaseProvision(c, k, 1) = c
      <3>1. again = ReturnOf(g, Lesser(1, g.amount))
        BY <2>7 DEF again
      <3> QED BY <1>6, <2>9, <2>11, <3>1, NothingReleased DEF g
    <2> QED BY <2>2, <2>12 DEF g, h, c
  <1> QED BY <1>11, <1>12

\* A strike that gets less than it asks for empties every layer.
LEMMA StrikeEmpties ==
    ASSUME NEW b, Claimants(b), NEW amount \in Nat,
           NEW s, s = Strike(b, amount), Total(s) < amount
    PROVE  /\ s.reserve = b.reserve
           /\ s.junior = b.assets["Junior"] /\ s.senior = b.assets["Senior"]
  <1> DEFINE r == b.reserve
             j == b.assets["Junior"]
             n == b.assets["Senior"]
             x == Lesser(amount, r)
             y == Lesser(amount - x, j)
             z == Lesser(amount - x - y, n)
  <1>1. r \in Nat /\ j \in Nat /\ n \in Nat
    BY DEF Claimants
  <1>2. s.reserve = x /\ s.junior = y /\ s.senior = z
    BY DEF Strike
  <1>3. x \in 0 .. r /\ x <= amount /\ (x = r \/ x = amount)
    BY <1>1 DEF Lesser
  <1>4. y \in 0 .. j /\ x + y <= amount /\ (y = j \/ x + y = amount)
    <2> HIDE DEF x, r, j
    <2> QED BY <1>1, <1>3 DEF Lesser
  <1>5. z \in 0 .. n /\ (z = n \/ x + y + z = amount)
    <2> HIDE DEF x, y, r, j, n
    <2> QED BY <1>1, <1>3, <1>4 DEF Lesser
  <1>6. Total(s) = x + y + z
    <2> HIDE DEF x, y, z
    <2> QED BY <1>1, <1>2, <1>3, <1>4, <1>5 DEF Total
  <1> HIDE DEF x, y, z, r, j, n
  <1>7. x = r /\ y = j /\ z = n
    BY <1>1, <1>3, <1>4, <1>5, <1>6
  <1> QED BY <1>2, <1>7 DEF r, j, n

LEMMA NothingStruck ==
    ASSUME NEW b, b.reserve = 0, b.assets["Junior"] = 0, b.assets["Senior"] = 0,
           NEW amount \in Nat
    PROVE  Total(Strike(b, amount)) = 0
  <1> DEFINE x == Lesser(amount, b.reserve)
             y == Lesser(amount - x, b.assets["Junior"])
             z == Lesser(amount - x - y, b.assets["Senior"])
  <1>1. x = 0
    BY DEF Lesser
  <1>2. y = 0
    <2> HIDE DEF x
    <2> QED BY <1>1 DEF Lesser
  <1>3. z = 0
    <2> HIDE DEF x, y
    <2> QED BY <1>1, <1>2 DEF Lesser
  <1>4. Total(Strike(b, amount)) = x + y + z
    <2>1. /\ Strike(b, amount).reserve = x /\ Strike(b, amount).junior = y
          /\ Strike(b, amount).senior = z
      BY DEF Strike
    <2> HIDE DEF x, y, z
    <2> QED BY <1>1, <1>2, <1>3, <2>1 DEF Total
  <1> HIDE DEF x, y, z
  <1> QED BY <1>1, <1>2, <1>3, <1>4

\* What taking a provision does when there is something to take.
HeldWith(h, s, epoch) ==
    [amount |-> h.amount + Total(s),
     epoch |-> IF h.amount = 0 THEN epoch ELSE h.epoch,
     fromReserve |-> h.fromReserve + s.reserve,
     fromJunior |-> h.fromJunior + s.junior,
     fromSenior |-> h.fromSenior + s.senior]

TakenAs(b, c, k, s) ==
    /\ c.provisions = [b.provisions EXCEPT ![k] = HeldWith(b.provisions[k], s, b.epoch)]
    /\ c.reserve = b.reserve - s.reserve
    /\ c.assets["Junior"] = b.assets["Junior"] - s.junior
    /\ c.assets["Senior"] = b.assets["Senior"] - s.senior
    /\ c.totalProvisioned = b.totalProvisioned + Total(s)

LEMMA TakeGives ==
    ASSUME NEW b, Shaped(b), Claimants(b), Provided(b), NEW k \in Plans,
           NEW amount \in Nat, NEW s, s = Strike(b, amount), Total(s) # 0
    PROVE  TakenAs(b, TakeProvision(b, k, amount), k, s)
  <1> DEFINE hit == Strike(b, amount)
             taken == Total(hit)
             held == b.provisions[k]
             at == IF held.amount = 0 THEN b.epoch ELSE held.epoch
             h == [amount |-> held.amount + taken, epoch |-> at,
                   fromReserve |-> held.fromReserve + hit.reserve,
                   fromJunior |-> held.fromJunior + hit.junior,
                   fromSenior |-> held.fromSenior + hit.senior]
             r == Struck(b, hit)
             c == TakeProvision(b, k, amount)
  <1>1. taken # 0 /\ s = hit
    OBVIOUS
  <1>2. c = [r EXCEPT !.provisions[k] = h, !.totalProvisioned = @ + taken,
                      !.provisionedAt[at] = @ + taken]
    BY <1>1 DEF TakeProvision
  <1>3. h = HeldWith(held, s, b.epoch)
    BY <1>1 DEF HeldWith
  <1>4. IsStrike(b, s)
    BY StrikeIsThere
  <1> HIDE DEF hit
  <1>5. /\ Shaped(r) /\ SameProvisions(b, r) /\ Claimants(r)
        /\ r.reserve = b.reserve - s.reserve
        /\ r.assets["Junior"] = b.assets["Junior"] - s.junior
        /\ r.assets["Senior"] = b.assets["Senior"] - s.senior
    BY <1>1, <1>4, StruckClaims
  <1> HIDE DEF c, r, h, taken, at
  <1>6. c.reserve = r.reserve /\ c.assets = r.assets
    BY <1>2, <1>5 DEF Shaped, BookFields
  <1>7. c.provisions = [r.provisions EXCEPT ![k] = h]
    BY <1>2, <1>5 DEF Shaped, BookFields
  <1>8. c.totalProvisioned = r.totalProvisioned + taken
    BY <1>2, <1>5 DEF Shaped, BookFields
  <1>9. c.provisions = [b.provisions EXCEPT ![k] = HeldWith(held, s, b.epoch)]
    BY <1>3, <1>5, <1>7 DEF SameProvisions
  <1>10. c.totalProvisioned = b.totalProvisioned + Total(s)
    BY <1>1, <1>5, <1>8 DEF SameProvisions, taken
  <1>11. /\ c.reserve = b.reserve - s.reserve
         /\ c.assets["Junior"] = b.assets["Junior"] - s.junior
         /\ c.assets["Senior"] = b.assets["Senior"] - s.senior
    BY <1>5, <1>6
  <1>12. TakenAs(b, c, k, s)
    BY <1>9, <1>10, <1>11 DEF TakenAs
  <1> QED BY <1>12 DEF c

\* A provision that could not be taken in full has emptied every layer.
LEMMA TakeSettles ==
    ASSUME NEW b, Shaped(b), Claimants(b), Accruals(b), Provided(b), b.epoch \in Epochs,
           NEW k \in Plans, NEW amount \in Nat, amount > 0
    PROVE  LET c == TakeProvision(b, k, amount)
               now == c.provisions[k].amount
           IN  \/ now = b.provisions[k].amount + amount
               \/ /\ now < b.provisions[k].amount + amount
                  /\ \A more \in Nat : TakeProvision(c, k, more) = c
  <1> DEFINE h == b.provisions[k]
             s == Strike(b, amount)
             c == TakeProvision(b, k, amount)
  <1>1. IsHeld(h) /\ h.amount \in Nat /\ b.provisions = [j \in Plans |-> b.provisions[j]]
    BY DEF Provided, IsHeld
  <1>2. IsStrike(b, s) /\ Total(s) \in 0 .. amount
    BY StrikeIsThere
  <1>3. b.reserve \in Nat /\ b.assets["Junior"] \in Nat /\ b.assets["Senior"] \in Nat
    BY DEF Claimants
  <1>4. Total(s) < amount => /\ s.reserve = b.reserve
                             /\ s.junior = b.assets["Junior"]
                             /\ s.senior = b.assets["Senior"]
    BY StrikeEmpties
  <1>5. Total(s) = s.reserve + s.junior + s.senior
    BY <1>2, <1>3 DEF Total
  <1>6. CASE Total(s) = 0
    <2>1. c = b
      BY <1>6 DEF TakeProvision
    <2> HIDE DEF c, s
    <2>2. b.reserve = 0 /\ b.assets["Junior"] = 0 /\ b.assets["Senior"] = 0
      <3>1. Total(s) < amount
        BY <1>6
      <3>2. /\ s.reserve = b.reserve /\ s.junior = b.assets["Junior"]
            /\ s.senior = b.assets["Senior"]
        BY <1>4, <3>1
      <3>3. b.reserve + b.assets["Junior"] + b.assets["Senior"] = 0
        BY <1>5, <1>6, <3>2
      <3> QED BY <1>3, <3>3
    <2>3. \A more \in Nat : TakeProvision(b, k, more) = b
      <3> TAKE more \in Nat
      <3>1. Total(Strike(b, more)) = 0
        BY <2>2, NothingStruck
      <3> QED BY <3>1 DEF TakeProvision
    <2>4. h.amount < h.amount + amount
      BY <1>1
    <2>5. \A more \in Nat : TakeProvision(c, k, more) = c
      BY <2>1, <2>3
    <2>6. c.provisions[k].amount < h.amount + amount
      BY <2>1, <2>4
    <2> QED BY <2>5, <2>6 DEF c
  <1>7. CASE Total(s) # 0
    <2>1. TakenAs(b, c, k, s)
      BY <1>7, TakeGives
    <2> HIDE DEF s, c
    <2>2. /\ c.provisions[k] = HeldWith(h, s, b.epoch)
          /\ c.reserve = b.reserve - s.reserve
          /\ c.assets["Junior"] = b.assets["Junior"] - s.junior
          /\ c.assets["Senior"] = b.assets["Senior"] - s.senior
      BY <1>1, <2>1 DEF TakenAs
    <2>3. c.provisions[k].amount = h.amount + Total(s)
      BY <2>2 DEF HeldWith
    <2>4. CASE Total(s) = amount
      BY <2>3, <2>4 DEF c
    <2>5. CASE Total(s) < amount
      <3>1. c.reserve = 0 /\ c.assets["Junior"] = 0 /\ c.assets["Senior"] = 0
        BY <1>3, <1>4, <2>2, <2>5
      <3>2. \A more \in Nat : TakeProvision(c, k, more) = c
        <4> TAKE more \in Nat
        <4>1. Total(Strike(c, more)) = 0
          BY <3>1, NothingStruck
        <4> QED BY <4>1 DEF TakeProvision
      <3>3. c.provisions[k].amount < h.amount + amount
        BY <1>1, <1>2, <2>3, <2>5
      <3> QED BY <3>2, <3>3 DEF c
    <2> QED BY <1>2, <2>4, <2>5
  <1> QED BY <1>6, <1>7

\* Brought to what is wanted a second time, a provision does not move.
LEMMA SyncSettles ==
    ASSUME NEW b, Shaped(b), Claimants(b), Accruals(b), Provided(b), b.epoch \in Epochs,
           NEW k \in Plans, b.books[k].carrying \in Nat, NEW v,
           NEW c, c = SyncProvision(b, k, v)
    PROVE  SyncProvision(c, k, v) = c
  <1> DEFINE want == IF v.state = "Delinquent"
                     THEN (b.books[k].carrying * DelinquentProvisionBps) \div Bps ELSE 0
             held == b.provisions[k].amount
             now == c.provisions[k].amount
  <1>1. want \in Nat
    BY PoolParamsAssumption, Z3
  <1>2. held \in Nat
    BY DEF Provided, IsHeld
  <1>3. /\ Shaped(c) /\ SamePaper(b, c) /\ Claimants(c) /\ Accruals(c) /\ Provided(c)
    BY SyncProvides DEF ProvisionStep
  <1>4. c = IF want > held THEN TakeProvision(b, k, want - held)
            ELSE IF want < held THEN ReleaseProvision(b, k, held - want) ELSE b
    BY DEF SyncProvision
  <1>5. c.books[k].carrying = b.books[k].carrying
    BY <1>3 DEF SamePaper
  <1>6. SyncProvision(c, k, v) =
          IF want > now THEN TakeProvision(c, k, want - now)
          ELSE IF want < now THEN ReleaseProvision(c, k, now - want) ELSE c
    BY <1>5 DEF SyncProvision
  <1> DEFINE again == SyncProvision(c, k, v)
  <1> HIDE DEF want, held, again
  <1>7. now \in Nat
    BY <1>3 DEF Provided, IsHeld
  <1>8. CASE want > held
    <2> DEFINE amount == want - held
               more == want - now
    <2>1. amount \in Nat /\ amount > 0 /\ held + amount = want
      BY <1>1, <1>2, <1>8
    <2>2. c = TakeProvision(b, k, amount)
      BY <1>4, <1>8
    <2> HIDE DEF amount, now
    <2>3. \/ now = held + amount
          \/ now < held + amount /\ \A n \in Nat : TakeProvision(c, k, n) = c
      BY <2>1, <2>2, TakeSettles DEF held, now
    <2>4. CASE now = held + amount
      <3>1. ~(want > now) /\ ~(want < now)
        BY <1>1, <2>1, <2>4
      <3>2. again = c
        BY <1>6, <3>1 DEF again, now
      <3> QED BY <3>2 DEF again
    <2>5. CASE now < held + amount /\ \A n \in Nat : TakeProvision(c, k, n) = c
      <3>1. want > now /\ more \in Nat
        BY <1>1, <1>7, <2>1, <2>5 DEF now
      <3>2. again = TakeProvision(c, k, more)
        BY <1>6, <3>1 DEF again, now
      <3> HIDE DEF more
      <3>3. again = c
        BY <2>5, <3>1, <3>2
      <3> QED BY <3>3 DEF again
    <2> QED BY <2>3, <2>4, <2>5
  <1>9. CASE want < held
    <2> DEFINE amount == held - want
    <2>1. amount \in Nat /\ amount > 0 /\ amount <= held /\ held - amount = want
      BY <1>1, <1>2, <1>9
    <2>2. c = ReleaseProvision(b, k, amount)
      BY <1>1, <1>2, <1>4, <1>9
    <2> HIDE DEF amount, now
    <2>3. \/ now = held - amount
          \/ now = held - amount + 1 /\ ReleaseProvision(c, k, 1) = c
      BY <2>1, <2>2, ReleaseSettles DEF held, now
    <2>4. CASE now = held - amount
      <3>1. ~(want > now) /\ ~(want < now)
        BY <1>1, <2>1, <2>4
      <3>2. again = c
        BY <1>6, <3>1 DEF again, now
      <3> QED BY <3>2 DEF again
    <2>5. CASE now = held - amount + 1 /\ ReleaseProvision(c, k, 1) = c
      <3>1. want < now /\ ~(want > now) /\ now - want = 1
        BY <1>1, <2>1, <2>5
      <3>2. again = ReleaseProvision(c, k, now - want)
        BY <1>6, <3>1 DEF again, now
      <3>3. again = c
        BY <2>5, <3>1, <3>2
      <3> QED BY <3>3 DEF again
    <2> QED BY <2>3, <2>4, <2>5
  <1>10. CASE want = held
    <2>1. c = b
      BY <1>1, <1>2, <1>4, <1>10
    <2>2. SyncProvision(b, k, v) = b
      BY <2>1
    <2> QED BY <2>1, <2>2
  <1> QED BY <1>1, <1>2, <1>8, <1>9, <1>10

\* A provision taken and released in full leaves every claim where it was.
LEMMA CureGivesBack ==
    ASSUME NEW b, Shaped(b), Claimants(b), Accruals(b), Provided(b), b.epoch \in Epochs,
           NEW k \in Plans, b.provisions[k].amount = 0, NEW amount \in Nat,
           NEW c, c = TakeProvision(b, k, amount),
           NEW d, d = ReleaseProvision(c, k, c.provisions[k].amount)
    PROVE  /\ d.reserve = b.reserve /\ d.assets = b.assets
           /\ d.totalProvisioned = b.totalProvisioned
  <1> DEFINE s == Strike(b, amount)
             h == b.provisions[k]
             g == c.provisions[k]
             t == ReturnOf(g, g.amount)
  <1>1. /\ IsHeld(h) /\ b.provisions = [j \in Plans |-> b.provisions[j]]
        /\ h.fromReserve = 0 /\ h.fromJunior = 0 /\ h.fromSenior = 0
    <2>1. IsHeld(h) /\ b.provisions = [j \in Plans |-> b.provisions[j]]
      BY DEF Provided
    <2>2. h.amount = 0
      OBVIOUS
    <2> HIDE DEF h
    <2>3. h.fromReserve = 0 /\ h.fromJunior = 0 /\ h.fromSenior = 0
      BY <2>1, <2>2 DEF IsHeld
    <2> QED BY <2>1, <2>3 DEF h
  <1>2. IsStrike(b, s) /\ Total(s) \in 0 .. amount
    BY StrikeIsThere
  <1>3. CASE Total(s) = 0
    <2>1. c = b
      BY <1>3 DEF TakeProvision
    <2>2. d = b
      BY <2>1 DEF ReleaseProvision
    <2> QED BY <2>2
  <1>4. CASE Total(s) # 0
    <2>1. TakenAs(b, c, k, s)
      BY <1>4, TakeGives
    <2>2. Shaped(c) /\ SamePaper(b, c) /\ Claimants(c) /\ Accruals(c) /\ Provided(c)
      BY TakeProvides DEF ProvisionStep
    <2> HIDE DEF s
    <2>3. /\ s.reserve \in Nat /\ s.junior \in Nat /\ s.senior \in Nat
          /\ Total(s) \in Nat /\ Total(s) > 0
      BY <1>2, <1>4 DEF IsStrike, Claimants
    <2>4. /\ g = HeldWith(h, s, b.epoch)
          /\ c.reserve = b.reserve - s.reserve
          /\ c.assets["Junior"] = b.assets["Junior"] - s.junior
          /\ c.assets["Senior"] = b.assets["Senior"] - s.senior
          /\ c.totalProvisioned = b.totalProvisioned + Total(s)
      BY <1>1, <2>1 DEF TakenAs
    <2>5. /\ g.amount = Total(s) /\ g.fromReserve = s.reserve
          /\ g.fromJunior = s.junior /\ g.fromSenior = s.senior
      BY <1>1, <2>3, <2>4 DEF HeldWith
    <2>6. IsHeld(g)
      BY <2>2 DEF Provided
    <2> HIDE DEF g
    <2>7. IsRelease(g, g.amount, t)
      BY DEF IsRelease, ReturnOf
    <2>8. Lesser(g.amount, g.amount) = g.amount /\ g.amount \in Nat /\ g.amount > 0
      BY <2>3, <2>5 DEF Lesser
    <2>9. ReleasedAs(c, d, k, t)
      <3>1. t = ReturnOf(g, Lesser(g.amount, g.amount))
        BY <2>8
      <3> HIDE DEF t
      <3> QED BY <2>2, <2>8, <3>1, ReleaseGives DEF g
    <2> HIDE DEF t
    <2>10. t.senior = s.senior /\ t.junior = s.junior /\ t.reserve = s.reserve
      BY <2>5, <2>6, <2>7, <2>8, ReleaseOfAll
    <2>11. Total(t) = Total(s)
      BY <2>10 DEF Total
    <2>12. /\ d.reserve = c.reserve + s.reserve
           /\ d.assets = [x \in Tranche |->
                  c.assets[x] + (IF x = "Junior" THEN s.junior ELSE s.senior)]
           /\ d.totalProvisioned = Less(c.totalProvisioned, Total(s))
      BY <2>9, <2>10, <2>11 DEF ReleasedAs
    <2>13. d.reserve = b.reserve
      BY <2>3, <2>4, <2>12 DEF Claimants
    <2>14. d.assets = b.assets
      <3>1. \A x \in Tranche : d.assets[x] = b.assets[x]
        BY <2>3, <2>4, <2>12 DEF Claimants, Tranche
      <3>2. d.assets = [x \in Tranche |-> d.assets[x]]
        BY <2>12
      <3> QED BY <3>1, <3>2 DEF Claimants
    <2>15. d.totalProvisioned = b.totalProvisioned
      <3>1. b.totalProvisioned \in Nat
        BY HeldTotals
      <3> QED BY <2>3, <2>4, <2>12, <3>1 DEF Less
    <2> QED BY <2>13, <2>14, <2>15
  <1> QED BY <1>3, <1>4

\* Nothing to distribute, nothing to reduce, nothing to mark: nothing changes.
LEMMA NothingDistributed ==
    ASSUME NEW b, Shaped(b), Claimants(b), Accruals(b)
    PROVE  Distribute(b, 0) = b
  <1> DEFINE gap == Less(ReserveTarget(b), b.reserve)
             toReserve == Lesser(0, gap)
             toSenior == IF b.assets["Senior"] > 0
                         THEN Lesser(0 - toReserve, b.seniorAccrued) ELSE 0
             residual == 0 - toReserve - toSenior
             heir == IF b.assets["Junior"] > 0 THEN "Junior"
                     ELSE IF b.assets["Senior"] > 0 THEN "Senior" ELSE "reserve"
             c == Distribute(b, 0)
  <1>1. Shaped(c) /\ SamePaper(b, c)
    BY DistributeKeepsPaper
  <1>2. SameProvisions(b, c)
    BY DEF Distribute, Shaped, BookFields, SameProvisions
  <1>3. c = [b EXCEPT
              !.reserve = @ + toReserve + (IF heir = "reserve" THEN residual ELSE 0),
              !.seniorAccrued = @ - toSenior,
              !.assets = [t \in Tranche |->
                  b.assets[t] + (IF t = "Senior" THEN toSenior ELSE 0)
                              + (IF t = heir THEN residual ELSE 0)]]
    BY DEF Distribute
  <1>4. ReserveTarget(b) \in Int /\ b.reserve \in Nat
    BY PoolParamsAssumption DEF ReserveTarget, TotalAssets, Claimants
  <1>5. gap \in Nat
    BY <1>4 DEF Less
  <1> HIDE DEF gap
  <1>6. toReserve = 0
    BY <1>5 DEF Lesser
  <1> HIDE DEF toReserve
  <1>7. toSenior = 0
    <2> DEFINE most == 0 - toReserve
    <2>1. most = 0
      BY <1>6
    <2> HIDE DEF most
    <2>2. Lesser(most, b.seniorAccrued) = 0
      BY <2>1 DEF Lesser, Accruals
    <2> QED BY <2>2 DEF most
  <1> HIDE DEF toSenior
  <1>8. residual = 0
    BY <1>6, <1>7
  <1> HIDE DEF residual, heir, c
  <1>9. c.reserve = b.reserve
    BY <1>3, <1>4, <1>6, <1>8 DEF Shaped, BookFields
  <1>10. c.seniorAccrued = b.seniorAccrued
    BY <1>3, <1>7 DEF Shaped, BookFields, Accruals
  <1>11. c.assets = b.assets
    <2>1. c.assets = [t \in Tranche |->
                  b.assets[t] + (IF t = "Senior" THEN toSenior ELSE 0)
                              + (IF t = heir THEN residual ELSE 0)]
      BY <1>3 DEF Shaped, BookFields
    <2>2. \A t \in Tranche : b.assets[t] \in Nat
      BY DEF Claimants, Tranche
    <2>3. \A t \in Tranche : c.assets[t] = b.assets[t]
      BY <1>7, <1>8, <2>1, <2>2
    <2>4. c.assets = [t \in Tranche |-> c.assets[t]]
      BY <2>1
    <2> QED BY <2>3, <2>4 DEF Claimants
  <1>12. SameClaims(b, c)
    BY <1>2, <1>9, <1>10, <1>11 DEF SameClaims
  <1>13. c = b
    BY <1>1, <1>12, SameBook
  <1> QED BY <1>13 DEF c

\* The plan has not moved since the book last looked.
CaughtUp(b, k, v) ==
    /\ b.books[k].recognisedInflow = v.forwarded /\ b.books[k].carrying = v.outstanding
    /\ b.books[k].unmarked = v.late
    /\ v.forwarded \in Nat /\ v.outstanding \in Nat /\ v.late \in BOOLEAN

LEMMA AccruedAgain ==
    ASSUME NEW b, Standing(b), b.bookedCash \in Nat, NEW k \in Plans, NEW v, CaughtUp(b, k, v)
    PROVE  Accrued(b, k, v) = b
  <1> DEFINE recovered == Recovered(b, k, v)
             earned == Earned(b, k, v)
             inflow == Inflow(b, k, v)
             r == ReduceExposure(b, k, recovered)
             paper == [b.books[k] EXCEPT
                !.recognisedInflow = v.forwarded, !.carrying = v.outstanding,
                !.deferredIncome = b.books[k].deferredIncome - earned]
             booked == [r EXCEPT
                !.books[k] = [@ EXCEPT !.recognisedInflow = v.forwarded,
                                       !.carrying = v.outstanding,
                                       !.deferredIncome = b.books[k].deferredIncome - earned],
                !.bookedCash = @ + inflow,
                !.bookedReceivables = @ - recovered,
                !.deferredIncome = @ - earned]
             c == Accrued(b, k, v)
  <1>1. /\ Shaped(b) /\ Claimants(b) /\ Accruals(b) /\ Provided(b) /\ PaperTypes(b) /\ Sums(b)
    BY DEF Standing
  <1>2. /\ b.books[k].carrying \in Nat /\ b.books[k].deferredIncome \in Nat
        /\ b.books[k].carrying = v.outstanding /\ b.books[k].recognisedInflow = v.forwarded
        /\ v.forwarded \in Nat
    BY <1>1 DEF PaperTypes, CaughtUp
  <1>3. recovered = 0
    BY <1>2 DEF Recovered, Less
  <1>4. earned = 0
    BY <1>3 DEF Earned
  <1>5. inflow = 0
    BY <1>2 DEF Inflow
  <1>6. c = IF inflow + earned >= recovered
            THEN Distribute(booked, inflow + earned - recovered)
            ELSE AbsorbLoss(booked, recovered - inflow - earned)
    BY DEF Accrued
  <1> HIDE DEF recovered, earned, inflow, c
  <1>7. /\ inflow + earned >= recovered /\ inflow + earned - recovered = 0
    BY <1>3, <1>4, <1>5
  <1>8. c = Distribute(booked, 0)
    BY <1>6, <1>7
  <1>9. /\ Shaped(r) /\ SameList(b, r) /\ SameClaims(b, r)
        /\ r.books = b.books /\ r.bookedCash = b.bookedCash
        /\ r.balance = b.balance /\ r.deployedAssets = b.deployedAssets
        /\ r.bookedReceivables = b.bookedReceivables
        /\ r.deferredIncome = b.deferredIncome
        /\ r.unmarkedDelinquencies = b.unmarkedDelinquencies
        /\ r.merchantExposure
             = [m \in Merchants |-> b.merchantExposure[m]
                          - (IF Terms[k].merchant = m THEN recovered ELSE 0)]
        /\ r.corridorExposure
             = [x \in Corridors |-> b.corridorExposure[x]
                          - (IF Terms[k].corridor = x THEN recovered ELSE 0)]
    <2>1. recovered \in 0 .. b.books[k].carrying
      BY <1>2, <1>3
    <2> QED BY <1>1, <2>1, ExposureReduced
  <1> HIDE DEF r
  <1>10. /\ b.bookedReceivables \in Nat /\ b.deferredIncome \in Nat
         /\ \A m \in Merchants : b.merchantExposure[m] \in Nat
         /\ \A x \in Corridors : b.corridorExposure[x] \in Nat
    BY <1>1, PaperTotals
  <1>11. r.merchantExposure = b.merchantExposure /\ r.corridorExposure = b.corridorExposure
    <2>1. /\ b.merchantExposure = [m \in Merchants |-> b.merchantExposure[m]]
          /\ b.corridorExposure = [x \in Corridors |-> b.corridorExposure[x]]
      BY <1>1 DEF Sums
    <2>2. \A m \in Merchants : r.merchantExposure[m] = b.merchantExposure[m]
      BY <1>3, <1>9, <1>10
    <2>3. \A x \in Corridors : r.corridorExposure[x] = b.corridorExposure[x]
      BY <1>3, <1>9, <1>10
    <2>4. /\ r.merchantExposure = [m \in Merchants |-> r.merchantExposure[m]]
          /\ r.corridorExposure = [x \in Corridors |-> r.corridorExposure[x]]
      BY <1>9
    <2> QED BY <2>1, <2>2, <2>3, <2>4
  <1>12. SamePaper(b, r)
    BY <1>9, <1>11 DEF SamePaper, SameList
  <1>13. r = b
    BY <1>1, <1>9, <1>12, SameBook
  <1>14. paper = b.books[k]
    <2>1. IsPaper(b.books[k])
      BY <1>1 DEF Shaped
    <2>2. b.books[k].deferredIncome - earned = b.books[k].deferredIncome
      BY <1>2, <1>4
    <2> DEFINE old == b.books[k]
    <2>3. paper = [old EXCEPT !.recognisedInflow = old.recognisedInflow,
                              !.carrying = old.carrying,
                              !.deferredIncome = old.deferredIncome]
      BY <1>2, <2>2
    <2> HIDE DEF old, paper
    <2>4. IsPaper(old)
      BY <2>1 DEF old
    <2>5. paper = old
      BY <2>3, <2>4 DEF IsPaper, PaperFields
    <2> QED BY <2>5 DEF old
  <1> HIDE DEF paper
  <1>15. booked.books = b.books
    <2>1. booked.books = [r.books EXCEPT ![k] = [r.books[k] EXCEPT
              !.recognisedInflow = v.forwarded, !.carrying = v.outstanding,
              !.deferredIncome = b.books[k].deferredIncome - earned]]
      BY <1>9 DEF BookFields, Shaped
    <2> HIDE DEF booked
    <2>2. booked.books = [b.books EXCEPT ![k] = paper]
      BY <1>9, <2>1 DEF paper
    <2> QED BY <1>1, <1>14, <2>2 DEF Shaped
  <1>16. /\ booked = [f \in BookFields |-> booked[f]]
         /\ SameList(r, booked) /\ booked.deployedAssets = r.deployedAssets
         /\ booked.unmarkedDelinquencies = r.unmarkedDelinquencies
         /\ booked.balance = r.balance
    BY <1>9 DEF BookFields, Shaped, SameList
  <1>17. SameClaims(r, booked)
    BY <1>9 DEF BookFields, Shaped, SameClaims, SameProvisions
  <1>18. /\ booked.bookedReceivables = b.bookedReceivables - recovered
         /\ booked.deferredIncome = b.deferredIncome - earned
         /\ booked.bookedCash = b.bookedCash + inflow
    BY <1>9 DEF BookFields, Shaped
  <1>19. /\ booked.merchantExposure = r.merchantExposure
         /\ booked.corridorExposure = r.corridorExposure
    BY <1>9 DEF BookFields, Shaped
  <1> HIDE DEF booked
  <1>20. /\ booked.bookedReceivables = b.bookedReceivables
         /\ booked.deferredIncome = b.deferredIncome
         /\ booked.bookedCash = b.bookedCash
    BY <1>3, <1>4, <1>5, <1>10, <1>18
  <1>21. SamePaper(b, booked) /\ SameClaims(b, booked)
    BY <1>13, <1>15, <1>16, <1>17, <1>19, <1>20 DEF SamePaper, SameList
  <1>22. Shaped(booked)
    BY <1>1, <1>16, <1>21, SamePaperIsShaped
  <1>23. booked = b
    BY <1>1, <1>21, <1>22, SameBook
  <1>24. c = b
    BY <1>1, <1>8, <1>23, NothingDistributed
  <1> QED BY <1>24 DEF c

LEMMA MarkedAgain ==
    ASSUME NEW b, Shaped(b), b.unmarkedDelinquencies \in Int, NEW k \in Plans,
           NEW v, CaughtUp(b, k, v)
    PROVE  SyncMarkState(b, k, v) = b
  <1> DEFINE c == SyncMarkState(b, k, v)
             old == b.books[k]
             paper == [old EXCEPT !.unmarked = v.late]
             n == b.unmarkedDelinquencies + (IF v.late THEN 1 ELSE 0)
                    - (IF b.books[k].unmarked THEN 1 ELSE 0)
  <1>1. v.late \in BOOLEAN /\ old.unmarked = v.late /\ IsPaper(old)
    BY DEF CaughtUp, Shaped
  <1>2. paper = old
    <2> HIDE DEF old
    <2>1. paper = [old EXCEPT !.unmarked = old.unmarked]
      BY <1>1
    <2> HIDE DEF paper
    <2> QED BY <1>1, <2>1 DEF IsPaper, PaperFields
  <1>3. n = b.unmarkedDelinquencies
    BY <1>1
  <1>4. c = [b EXCEPT !.books[k].unmarked = v.late, !.unmarkedDelinquencies = n]
    BY DEF SyncMarkState
  <1> HIDE DEF n
  <1>5. /\ c = [f \in BookFields |-> c[f]]
        /\ \A f \in BookFields :
              f # "books" /\ f # "unmarkedDelinquencies" => c[f] = b[f]
    BY <1>4 DEF Shaped, BookFields
  <1>6. c.unmarkedDelinquencies = n
    BY <1>4 DEF Shaped, BookFields
  <1>7. c.books = [b.books EXCEPT ![k] = paper]
    BY <1>4 DEF Shaped, BookFields
  <1> HIDE DEF c, paper
  <1>8. c.books = b.books
    BY <1>2, <1>7 DEF Shaped
  <1>9. \A f \in BookFields : c[f] = b[f]
    BY <1>3, <1>5, <1>6, <1>8
  <1>10. b = [f \in BookFields |-> b[f]]
    BY DEF Shaped
  <1>11. c = b
    BY <1>5, <1>9, <1>10
  <1> QED BY <1>11 DEF c

---------------------------------------------------------------------------
(* The counters. *)

LEMMA CountMoves ==
    ASSUME NEW S \in SUBSET Plans, NEW T \in SUBSET Plans, NEW k \in Plans,
           \A j \in Plans : j # k => (j \in S <=> j \in T)
    PROVE  /\ Cardinality(S) \in Nat /\ Cardinality(T) \in Nat
           /\ Cardinality(T) = Cardinality(S) - (IF k \in S THEN 1 ELSE 0)
                                              + (IF k \in T THEN 1 ELSE 0)
           /\ k \in S => Cardinality(S) > 0
  <1>1. IsFiniteSet(Plans) /\ IsFiniteSet(S) /\ IsFiniteSet(T)
    BY PoolPartiesAssumption, FS_Subset
  <1>2. Cardinality(S) \in Nat /\ Cardinality(T) \in Nat
    BY <1>1, FS_CardinalityType
  <1> DEFINE rest == S \ {k}
  <1>3. IsFiniteSet(rest) /\ k \notin rest /\ rest = T \ {k}
    BY <1>1, FS_Subset
  <1>4. Cardinality(rest) \in Nat
    BY <1>3, FS_CardinalityType
  <1>5. k \in S => Cardinality(S) = Cardinality(rest) + 1
    <2>1. Cardinality(S \ {k}) = IF k \in S THEN Cardinality(S) - 1 ELSE Cardinality(S)
      BY <1>1, FS_RemoveElement
    <2> QED BY <1>2, <1>4, <2>1
  <1>6. k \in T => Cardinality(T) = Cardinality(rest) + 1
    <2>1. Cardinality(T \ {k}) = IF k \in T THEN Cardinality(T) - 1 ELSE Cardinality(T)
      BY <1>1, FS_RemoveElement
    <2> QED BY <1>2, <1>3, <1>4, <2>1
  <1>7. (k \notin S => S = rest) /\ (k \notin T => T = rest)
    BY <1>3
  <1> HIDE DEF rest
  <1> QED BY <1>2, <1>4, <1>5, <1>6, <1>7

\* The flags of the other plans, and so the counts, are the same.
LEMMA CountedIfKept ==
    ASSUME NEW b, Counted(b), NEW c, SameList(b, c),
           c.unmarkedDelinquencies = b.unmarkedDelinquencies,
           \A j \in Plans : /\ c.books[j].open = b.books[j].open
                            /\ c.books[j].markedEpoch = b.books[j].markedEpoch
                            /\ c.books[j].unmarked = b.books[j].unmarked
    PROVE  Counted(c)
  <1>1. /\ OpenOf(c) = OpenOf(b) /\ MarkedOf(c) = MarkedOf(b)
        /\ UnmarkedOf(c) = UnmarkedOf(b)
    BY DEF OpenOf, MarkedOf, UnmarkedOf, SameList
  <1> QED BY <1>1 DEF Counted, SameList

\* What the mark state leaves alone.
MarkMoves(b, c) ==
    /\ SameList(b, c) /\ SameClaims(b, c)
    /\ c.deployedAssets = b.deployedAssets
    /\ c.bookedReceivables = b.bookedReceivables
    /\ c.deferredIncome = b.deferredIncome
    /\ c.merchantExposure = b.merchantExposure
    /\ c.corridorExposure = b.corridorExposure

CanMark(b, k, v) ==
    b.books[k].open = TRUE /\ b.books[k].unmarked \in BOOLEAN /\ v.late \in BOOLEAN

LEMMA MarkStateCounted ==
    ASSUME NEW b, Shaped(b), Counted(b), NEW k \in Plans, NEW v, CanMark(b, k, v)
    PROVE  LET c == SyncMarkState(b, k, v) IN Counted(c) /\ MarkMoves(b, c)
  <1> DEFINE c == SyncMarkState(b, k, v)
             was == b.books[k].unmarked
             is == v.late
  <1>1. SameList(b, c) /\ c.deployedAssets = b.deployedAssets
    BY DEF SyncMarkState, Shaped, BookFields, SameList
  <1>2. SameClaims(b, c)
    BY DEF SyncMarkState, Shaped, BookFields, SameClaims, SameProvisions
  <1>3. /\ c.bookedReceivables = b.bookedReceivables
        /\ c.deferredIncome = b.deferredIncome
        /\ c.merchantExposure = b.merchantExposure
        /\ c.corridorExposure = b.corridorExposure
    BY DEF SyncMarkState, Shaped, BookFields
  <1>4. c.unmarkedDelinquencies = b.unmarkedDelinquencies + (IF is THEN 1 ELSE 0)
                                                          - (IF was THEN 1 ELSE 0)
    BY DEF SyncMarkState, Shaped, BookFields
  <1>5. /\ OthersKept(b, c, k) /\ SameFlags(b.books[k], c.books[k])
        /\ c.books[k].unmarked = is
    <2>1. OthersKept(b, c, k)
      BY SyncMarkPaper
    <2>2. SameFlags(b.books[k], c.books[k])
      BY SyncMarkPaper
    <2>3. c.books[k].unmarked = is
      BY SyncMarkPaper
    <2> QED BY <2>1, <2>2, <2>3
  <1> HIDE DEF c
  <1>6. OpenOf(c) = OpenOf(b) /\ MarkedOf(c) = MarkedOf(b)
    BY <1>1, <1>5 DEF OpenOf, MarkedOf, SameList, OthersKept, SameFlags
  <1>7. /\ UnmarkedOf(b) \in SUBSET Plans /\ UnmarkedOf(c) \in SUBSET Plans
        /\ \A j \in Plans : j # k => (j \in UnmarkedOf(b) <=> j \in UnmarkedOf(c))
        /\ k \in UnmarkedOf(b) <=> was
        /\ k \in UnmarkedOf(c) <=> is
    BY <1>5 DEF UnmarkedOf, OthersKept, SameFlags, CanMark
  <1> HIDE DEF was, is
  <1>8. /\ Cardinality(UnmarkedOf(b)) \in Nat
        /\ Cardinality(UnmarkedOf(c)) = Cardinality(UnmarkedOf(b))
              - (IF k \in UnmarkedOf(b) THEN 1 ELSE 0)
              + (IF k \in UnmarkedOf(c) THEN 1 ELSE 0)
    BY <1>7, CountMoves
  <1>9. b.unmarkedDelinquencies = Cardinality(UnmarkedOf(b))
    BY DEF Counted
  <1>10. c.unmarkedDelinquencies = Cardinality(UnmarkedOf(c))
    <2> DEFINE x == IF was THEN 1 ELSE 0
               y == IF is THEN 1 ELSE 0
    <2>1. /\ x \in Int /\ y \in Int
          /\ Cardinality(UnmarkedOf(c)) = Cardinality(UnmarkedOf(b)) - x + y
      BY <1>7, <1>8
    <2>2. c.unmarkedDelinquencies = b.unmarkedDelinquencies + y - x
      BY <1>4
    <2> HIDE DEF x, y
    <2> QED BY <1>8, <1>9, <2>1, <2>2
  <1>11. Counted(c)
    BY <1>1, <1>6, <1>10 DEF Counted, SameList
  <1>12. MarkMoves(b, c)
    BY <1>1, <1>2, <1>3 DEF MarkMoves
  <1> QED BY <1>11, <1>12 DEF c

---------------------------------------------------------------------------
(* Closing a plan. *)

LEMMA PlanRemoved ==
    ASSUME NEW b, Shaped(b), NEW k \in Plans
    PROVE  LET c == RemoveOpenPlan(b, k)
               n == Len(b.openPlanList)
               last == b.openPlanList[n]
               moved == [b.openPlanList EXCEPT ![b.openPlanSlot[k] + 1] = last]
           IN  /\ Shaped(c) /\ SameClaims(b, c) /\ SameTotals(b, c)
               /\ c.openPlans = b.openPlans /\ c.epoch = b.epoch
               /\ c.markCursor = b.markCursor /\ c.deployedAssets = b.deployedAssets
               /\ c.unmarkedDelinquencies = b.unmarkedDelinquencies
               /\ c.openPlanList = SubSeq(moved, 1, Len(moved) - 1)
               /\ c.openPlanSlot
                    = [b.openPlanSlot EXCEPT ![last] = b.openPlanSlot[k], ![k] = 0]
               /\ c.markedThisEpoch = IF b.books[k].markedEpoch = b.epoch
                                      THEN Less(b.markedThisEpoch, 1)
                                      ELSE b.markedThisEpoch
  <1> DEFINE c == RemoveOpenPlan(b, k)
             n == Len(b.openPlanList)
             last == b.openPlanList[n]
             moved == [b.openPlanList EXCEPT ![b.openPlanSlot[k] + 1] = last]
  <1>1. c = [f \in BookFields |-> c[f]] /\ c.books = b.books
    BY DEF RemoveOpenPlan, Shaped, BookFields
  <1>2. SameClaims(b, c)
    BY DEF RemoveOpenPlan, Shaped, BookFields, SameClaims, SameProvisions
  <1>3. SameTotals(b, c)
    BY DEF RemoveOpenPlan, Shaped, BookFields, SameTotals
  <1>4. /\ c.openPlans = b.openPlans /\ c.epoch = b.epoch
        /\ c.markCursor = b.markCursor /\ c.deployedAssets = b.deployedAssets
        /\ c.unmarkedDelinquencies = b.unmarkedDelinquencies
    BY DEF RemoveOpenPlan, Shaped, BookFields
  <1>5. c.openPlanList = SubSeq(moved, 1, Len(moved) - 1)
    BY DEF RemoveOpenPlan, Shaped, BookFields
  <1>6. c.openPlanSlot = [b.openPlanSlot EXCEPT ![last] = b.openPlanSlot[k], ![k] = 0]
    BY DEF RemoveOpenPlan, Shaped, BookFields
  <1>7. c.markedThisEpoch = IF b.books[k].markedEpoch = b.epoch
                            THEN Less(b.markedThisEpoch, 1) ELSE b.markedThisEpoch
    BY DEF RemoveOpenPlan, Shaped, BookFields
  <1> HIDE DEF c, moved, last, n
  <1>8. Shaped(c)
    BY <1>1 DEF Shaped
  <1> QED BY <1>2, <1>3, <1>4, <1>5, <1>6, <1>7, <1>8 DEF c, n, last, moved

LEMMA CloseStands ==
    ASSUME NEW b, Standing(b), Papers(b), Counted(b), NEW k \in Plans,
           b.books[k].open = TRUE
    PROVE  LET c == Close(b, k)
           IN  /\ Standing(c) /\ Counted(c)
               /\ c.epoch = b.epoch /\ c.markCursor = b.markCursor
               /\ c.deployedAssets = b.deployedAssets
               /\ c.provisions[k].amount = 0
               /\ \A j \in Plans : j # k => c.provisions[j] = b.provisions[j]
               /\ Vacated(b.openPlanList, c.openPlanList, b.openPlanSlot[k])
  <1> DEFINE writeOff == b.books[k].carrying
             unearned == b.books[k].deferredIncome
             q == RemoveOpenPlan(b, k)
             held == b.provisions[k].amount
             r == ReleaseProvision(q, k, held)
             x == ReduceExposure(r, k, writeOff)
             paper == [b.books[k] EXCEPT !.open = FALSE, !.unmarked = FALSE,
                                         !.deferredIncome = 0, !.carrying = 0]
             settled == [x EXCEPT
                !.openPlans = @ - 1,
                !.unmarkedDelinquencies = @ - (IF b.books[k].unmarked THEN 1 ELSE 0),
                !.deferredIncome = @ - unearned,
                !.bookedReceivables = Less(@, writeOff),
                !.books[k] = [@ EXCEPT !.open = FALSE, !.unmarked = FALSE,
                                       !.deferredIncome = 0, !.carrying = 0]]
             c == Close(b, k)
             n == Len(b.openPlanList)
             last == b.openPlanList[n]
             moved == [b.openPlanList EXCEPT ![b.openPlanSlot[k] + 1] = last]
  <1>1. /\ Shaped(b) /\ Claimants(b) /\ Accruals(b) /\ Provided(b) /\ PaperTypes(b) /\ Sums(b)
    BY DEF Standing
  <1>2. /\ writeOff \in Nat /\ unearned \in Nat /\ held \in Nat
        /\ b.books[k].unmarked \in BOOLEAN
    BY <1>1 DEF PaperTypes, Provided, IsHeld, Papers, PaperOK
  <1>3. c = IF writeOff > unearned THEN AbsorbLoss(settled, writeOff - unearned)
            ELSE Distribute(settled, unearned - writeOff)
    BY DEF Close
  <1>4. /\ Shaped(c) /\ OthersKept(b, c, k) /\ c.books[k].open = FALSE
        /\ c.books[k].deferredIncome = 0 /\ c.books[k].carrying = 0
        /\ c.books[k].unmarked = FALSE
    <2>1. Shaped(c) /\ OthersKept(b, c, k)
      BY <1>1, ClosePaper
    <2>2. c.books[k].open = FALSE /\ c.books[k].unmarked = FALSE
      BY <1>1, ClosePaper
    <2>3. c.books[k].deferredIncome = 0 /\ c.books[k].carrying = 0
      BY <1>1, ClosePaper
    <2> QED BY <2>1, <2>2, <2>3
  <1> HIDE DEF c
  <1>5. /\ Shaped(q) /\ SameClaims(b, q) /\ SameTotals(b, q)
        /\ q.openPlans = b.openPlans /\ q.epoch = b.epoch
        /\ q.markCursor = b.markCursor /\ q.deployedAssets = b.deployedAssets
        /\ q.unmarkedDelinquencies = b.unmarkedDelinquencies
        /\ q.openPlanList = SubSeq(moved, 1, Len(moved) - 1)
        /\ q.openPlanSlot = [b.openPlanSlot EXCEPT ![last] = b.openPlanSlot[k], ![k] = 0]
        /\ q.markedThisEpoch = IF b.books[k].markedEpoch = b.epoch
                               THEN Less(b.markedThisEpoch, 1) ELSE b.markedThisEpoch
    BY <1>1, PlanRemoved
  <1> HIDE DEF q
  <1>6. /\ ProvisionStep(q, r, k) /\ r.provisions[k].amount = 0
    <2>1. Claimants(q) /\ Accruals(q) /\ Provided(q)
      BY <1>1, <1>5, ClaimsStay
    <2>2. held = q.provisions[k].amount
      BY <1>5 DEF SameClaims, SameProvisions
    <2> HIDE DEF held
    <2> QED BY <1>2, <1>5, <2>1, <2>2, ReleaseProvides
  <1> HIDE DEF r, held
  <1>7. /\ Shaped(r) /\ SamePaper(q, r) /\ Claimants(r) /\ Accruals(r) /\ Provided(r)
        /\ \A j \in Plans : j # k => r.provisions[j] = b.provisions[j]
    BY <1>5, <1>6 DEF ProvisionStep, SameClaims, SameProvisions
  <1>8. SameTotals(b, r)
    BY <1>5, <1>7 DEF SameTotals, SamePaper
  <1>9. PaperTypes(r) /\ Sums(r) /\ r.books[k].carrying = writeOff
    BY <1>1, <1>8, SumsStay DEF SameTotals, PaperTypes
  <1>10. writeOff \in 0 .. r.books[k].carrying
    BY <1>2, <1>9
  <1> HIDE DEF writeOff, unearned
  <1>11. /\ Shaped(x) /\ SameList(r, x) /\ SameClaims(r, x) /\ x.books = r.books
         /\ x.deployedAssets = r.deployedAssets
         /\ x.bookedReceivables = r.bookedReceivables
         /\ x.deferredIncome = r.deferredIncome
         /\ x.unmarkedDelinquencies = r.unmarkedDelinquencies
         /\ x.merchantExposure
              = [m \in Merchants |-> r.merchantExposure[m]
                           - (IF Terms[k].merchant = m THEN writeOff ELSE 0)]
         /\ x.corridorExposure
              = [y \in Corridors |-> r.corridorExposure[y]
                           - (IF Terms[k].corridor = y THEN writeOff ELSE 0)]
    BY <1>7, <1>9, <1>10, ExposureReduced
  <1> HIDE DEF x
  <1>12. /\ settled = [f \in BookFields |-> settled[f]]
         /\ settled.openPlanList = x.openPlanList /\ settled.openPlanSlot = x.openPlanSlot
         /\ settled.epoch = x.epoch /\ settled.markedThisEpoch = x.markedThisEpoch
         /\ settled.markCursor = x.markCursor /\ settled.deployedAssets = x.deployedAssets
    BY <1>11 DEF BookFields, Shaped
  <1>13. SameClaims(x, settled)
    BY <1>11 DEF BookFields, Shaped, SameClaims, SameProvisions
  <1>14. /\ settled.openPlans = x.openPlans - 1
         /\ settled.unmarkedDelinquencies
              = x.unmarkedDelinquencies - (IF b.books[k].unmarked THEN 1 ELSE 0)
         /\ settled.deferredIncome = x.deferredIncome - unearned
         /\ settled.bookedReceivables = Less(x.bookedReceivables, writeOff)
    BY <1>11 DEF BookFields, Shaped
  <1>15. /\ settled.merchantExposure = x.merchantExposure
         /\ settled.corridorExposure = x.corridorExposure
    BY <1>11 DEF BookFields, Shaped
  <1>16. settled.books = [b.books EXCEPT ![k] = paper]
    <2>1. settled.books = [x.books EXCEPT ![k] = [x.books[k] EXCEPT
              !.open = FALSE, !.unmarked = FALSE, !.deferredIncome = 0, !.carrying = 0]]
      BY <1>11 DEF BookFields, Shaped
    <2>2. x.books = b.books
      BY <1>8, <1>11 DEF SameTotals
    <2> HIDE DEF settled
    <2> QED BY <2>1, <2>2
  <1>17. IsPaper(paper)
    BY <1>1 DEF Shaped, IsPaper, PaperFields
  <1> HIDE DEF settled, paper
  <1>18. Shaped(settled)
    <2>1. settled.books = [j \in Plans |-> settled.books[j]]
      BY <1>1, <1>16 DEF Shaped
    <2>2. \A j \in Plans : settled.books[j] = IF j = k THEN paper ELSE b.books[j]
      BY <1>1, <1>16 DEF Shaped
    <2> QED BY <1>1, <1>12, <1>17, <2>1, <2>2 DEF Shaped
  <1>19. Claimants(settled) /\ Accruals(settled) /\ Provided(settled)
    <2>1. Claimants(x) /\ Accruals(x) /\ Provided(x)
      BY <1>7, <1>11, ClaimsStay
    <2> QED BY <1>13, <2>1, ClaimsStay
  <1>20. ClaimsOnly(settled, c)
    <2>1. CASE unearned >= writeOff
      <3>1. c = Distribute(settled, unearned - writeOff)
        BY <1>2, <1>3, <2>1
      <3> QED BY <1>2, <1>18, <1>19, <2>1, <3>1, DifferenceClaims
    <2>2. CASE ~(unearned >= writeOff)
      <3>1. c = AbsorbLoss(settled, writeOff - unearned)
        BY <1>2, <1>3, <2>2
      <3> QED BY <1>2, <1>18, <1>19, <2>2, <3>1, DifferenceClaims
    <2> QED BY <2>1, <2>2
  <1>21. SamePaper(settled, c) /\ SameProvisions(settled, c) /\ Claimants(c) /\ Accruals(c)
    BY <1>20 DEF ClaimsOnly
  <1>22. Provided(c) /\ c.provisions = r.provisions
    BY <1>11, <1>13, <1>19, <1>21, ProvisionsStay DEF SameClaims, SameProvisions
  <1>23. PaperTypes(c)
    BY <1>1, <1>4 DEF PaperTypes, OthersKept
  <1>24. TotalsMove(b, c, k)
    <2> DEFINE more == c.books[k].carrying - b.books[k].carrying
               moreIncome == c.books[k].deferredIncome - b.books[k].deferredIncome
    <2>1. more = -writeOff /\ moreIncome = -unearned
      BY <1>2, <1>4 DEF writeOff, unearned
    <2>2. /\ b.bookedReceivables \in Nat /\ writeOff <= b.bookedReceivables
          /\ b.deferredIncome \in Nat
          /\ \A m \in Merchants : b.merchantExposure[m] \in Nat
          /\ \A y \in Corridors : b.corridorExposure[y] \in Nat
      BY <1>1, PaperTotals DEF writeOff
    <2> HIDE DEF more, moreIncome
    <2>3. c.bookedReceivables = b.bookedReceivables + more
      <3>1. c.bookedReceivables = Less(b.bookedReceivables, writeOff)
        BY <1>8, <1>11, <1>14, <1>21 DEF SamePaper, SameTotals
      <3> QED BY <1>2, <2>1, <2>2, <3>1 DEF Less
    <2>4. c.deferredIncome = b.deferredIncome + moreIncome
      <3>1. c.deferredIncome = b.deferredIncome - unearned
        BY <1>8, <1>11, <1>14, <1>21 DEF SamePaper, SameTotals
      <3> QED BY <1>2, <2>1, <2>2, <3>1
    <2>5. c.merchantExposure
             = [m \in Merchants |-> b.merchantExposure[m]
                                      + (IF Terms[k].merchant = m THEN more ELSE 0)]
      <3>1. c.merchantExposure = x.merchantExposure /\ r.merchantExposure = b.merchantExposure
        BY <1>8, <1>15, <1>21 DEF SamePaper, SameTotals
      <3>2. \A m \in Merchants : x.merchantExposure[m] = b.merchantExposure[m]
                                      + (IF Terms[k].merchant = m THEN more ELSE 0)
        BY <1>2, <1>11, <2>1, <2>2, <3>1
      <3>3. x.merchantExposure = [m \in Merchants |-> x.merchantExposure[m]]
        BY <1>11
      <3> QED BY <3>1, <3>2, <3>3
    <2>6. c.corridorExposure
             = [y \in Corridors |-> b.corridorExposure[y]
                                      + (IF Terms[k].corridor = y THEN more ELSE 0)]
      <3>1. c.corridorExposure = x.corridorExposure /\ r.corridorExposure = b.corridorExposure
        BY <1>8, <1>15, <1>21 DEF SamePaper, SameTotals
      <3>2. \A y \in Corridors : x.corridorExposure[y] = b.corridorExposure[y]
                                      + (IF Terms[k].corridor = y THEN more ELSE 0)
        BY <1>2, <1>11, <2>1, <2>2, <3>1
      <3>3. x.corridorExposure = [y \in Corridors |-> x.corridorExposure[y]]
        BY <1>11
      <3> QED BY <3>1, <3>2, <3>3
    <2> QED BY <2>3, <2>4, <2>5, <2>6 DEF TotalsMove, more, moreIncome
  <1>25. Sums(c)
    BY <1>1, <1>4, <1>23, <1>24, SumsFollow
  <1>26. Standing(c)
    BY <1>4, <1>21, <1>22, <1>23, <1>25 DEF Standing
  <1>27. /\ c.openPlanList = q.openPlanList /\ c.openPlanSlot = q.openPlanSlot
         /\ c.openPlans = b.openPlans - 1 /\ c.epoch = b.epoch
         /\ c.markedThisEpoch = q.markedThisEpoch /\ c.markCursor = b.markCursor
         /\ c.deployedAssets = b.deployedAssets
         /\ c.unmarkedDelinquencies
              = b.unmarkedDelinquencies - (IF b.books[k].unmarked THEN 1 ELSE 0)
    BY <1>5, <1>7, <1>11, <1>12, <1>14, <1>21 DEF SamePaper, SameList
  <1>28. Counted(c)
    <2>1. /\ OpenOf(c) = OpenOf(b) \ {k} /\ k \in OpenOf(b) /\ OpenOf(b) \subseteq Plans
      BY <1>4 DEF OpenOf, OthersKept
    <2>2. Slotted(b.openPlanList, b.openPlanSlot, OpenOf(b)) /\ b.openPlans = n
      BY DEF Counted
    <2>3. /\ Slotted(c.openPlanList, c.openPlanSlot, OpenOf(b) \ {k})
          /\ Len(c.openPlanList) = n - 1
      <3> DEFINE rest == SubSeq(moved, 1, Len(moved) - 1)
                 there == [b.openPlanSlot EXCEPT ![last] = b.openPlanSlot[k], ![k] = 0]
      <3>1. Slotted(rest, there, OpenOf(b) \ {k}) /\ Len(rest) = n - 1
        BY <2>1, <2>2, SlotRemoved
      <3>2. c.openPlanList = rest /\ c.openPlanSlot = there
        BY <1>5, <1>27
      <3> HIDE DEF rest, there, n
      <3> QED BY <3>1, <3>2
    <2>4. /\ MarkedOf(b) \in SUBSET Plans /\ MarkedOf(c) \in SUBSET Plans
          /\ \A j \in Plans : j # k => (j \in MarkedOf(b) <=> j \in MarkedOf(c))
          /\ (k \in MarkedOf(b) <=> b.books[k].markedEpoch = b.epoch) /\ k \notin MarkedOf(c)
      BY <1>4, <1>27 DEF MarkedOf, OthersKept
    <2>5. /\ Cardinality(MarkedOf(b)) \in Nat
          /\ Cardinality(MarkedOf(c)) = Cardinality(MarkedOf(b))
                - (IF k \in MarkedOf(b) THEN 1 ELSE 0) + (IF k \in MarkedOf(c) THEN 1 ELSE 0)
          /\ k \in MarkedOf(b) => Cardinality(MarkedOf(b)) > 0
      BY <2>4, CountMoves
    <2>6. c.markedThisEpoch = Cardinality(MarkedOf(c))
      <3>1. b.markedThisEpoch = Cardinality(MarkedOf(b))
        BY DEF Counted
      <3>2. CASE k \in MarkedOf(b)
        <4>1. c.markedThisEpoch = Less(b.markedThisEpoch, 1)
          BY <1>5, <1>27, <2>4, <3>2
        <4> QED BY <2>4, <2>5, <3>1, <3>2, <4>1 DEF Less
      <3>3. CASE k \notin MarkedOf(b)
        <4>1. c.markedThisEpoch = b.markedThisEpoch
          BY <1>5, <1>27, <2>4, <3>3
        <4> QED BY <2>4, <2>5, <3>1, <3>3, <4>1
      <3> QED BY <3>2, <3>3
    <2>7. /\ UnmarkedOf(b) \in SUBSET Plans /\ UnmarkedOf(c) \in SUBSET Plans
          /\ \A j \in Plans : j # k => (j \in UnmarkedOf(b) <=> j \in UnmarkedOf(c))
          /\ (k \in UnmarkedOf(b) <=> b.books[k].unmarked) /\ k \notin UnmarkedOf(c)
      BY <1>4 DEF UnmarkedOf, OthersKept
    <2>8. /\ Cardinality(UnmarkedOf(b)) \in Nat
          /\ Cardinality(UnmarkedOf(c)) = Cardinality(UnmarkedOf(b))
                - (IF k \in UnmarkedOf(b) THEN 1 ELSE 0)
                + (IF k \in UnmarkedOf(c) THEN 1 ELSE 0)
      BY <2>7, CountMoves
    <2>9. c.unmarkedDelinquencies = Cardinality(UnmarkedOf(c))
      <3>1. b.unmarkedDelinquencies = Cardinality(UnmarkedOf(b))
        BY DEF Counted
      <3>2. CASE k \in UnmarkedOf(b)
        <4>1. c.unmarkedDelinquencies = b.unmarkedDelinquencies - 1
          BY <1>27, <2>7, <3>2
        <4> QED BY <2>7, <2>8, <3>1, <3>2, <4>1
      <3>3. CASE k \notin UnmarkedOf(b)
        <4>1. c.unmarkedDelinquencies = b.unmarkedDelinquencies - 0
          BY <1>27, <2>7, <3>3
        <4> QED BY <2>7, <2>8, <3>1, <3>3, <4>1
      <3> QED BY <3>2, <3>3
    <2>10. c.openPlans = Len(c.openPlanList)
      BY <1>27, <2>2, <2>3
    <2> QED BY <2>1, <2>3, <2>6, <2>9, <2>10 DEF Counted
  <1>29. Vacated(b.openPlanList, c.openPlanList, b.openPlanSlot[k])
    <2>1. Slotted(b.openPlanList, b.openPlanSlot, OpenOf(b))
          /\ k \in OpenOf(b) /\ OpenOf(b) \subseteq Plans
      BY DEF Counted, OpenOf
    <2> DEFINE rest == SubSeq(moved, 1, Len(moved) - 1)
    <2>2. Vacated(b.openPlanList, rest, b.openPlanSlot[k])
      BY <2>1, SlotRemoved
    <2>3. c.openPlanList = rest
      BY <1>5, <1>27
    <2> HIDE DEF rest
    <2> QED BY <2>2, <2>3
  <1> QED BY <1>6, <1>7, <1>22, <1>26, <1>27, <1>28, <1>29 DEF c

---------------------------------------------------------------------------
(* Recognition keeps the book. *)

\* What recognising an open plan does: it is caught up with, and if it stays
\* open neither the list nor its mark moves and its provision is settled; if it
\* closes its slot is vacated.
Tracks(b, c, k, v) ==
    /\ OthersKept(b, c, k)
    /\ c.balance = b.balance /\ c.bookedCash = b.bookedCash + Inflow(b, k, v)
    /\ c.deployedAssets = b.deployedAssets
    /\ c.epoch = b.epoch /\ c.markCursor = b.markCursor
    /\ c.books[k].fronted = b.books[k].fronted
    /\ c.books[k].recognisedInflow = v.forwarded
    /\ c.books[k].open => /\ SameList(b, c)
                          /\ c.books[k].carrying = v.outstanding
                          /\ c.books[k].markedEpoch = b.books[k].markedEpoch
                          /\ CaughtUp(c, k, v) /\ SyncProvision(c, k, v) = c
    /\ c.books[k].open = (v.state \notin ClosingStates)
    /\ ~c.books[k].open => Vacated(b.openPlanList, c.openPlanList, b.openPlanSlot[k])

LEMMA MarkStateStands ==
    ASSUME NEW b, Standing(b), Counted(b), NEW k \in Plans, NEW v, CanMark(b, k, v)
    PROVE  Standing(SyncMarkState(b, k, v))
  <1> DEFINE c == SyncMarkState(b, k, v)
  <1>1. Shaped(b) /\ Claimants(b) /\ Accruals(b) /\ Provided(b) /\ PaperTypes(b) /\ Sums(b)
    BY DEF Standing
  <1>2. /\ SameClaims(b, c)
        /\ c.bookedReceivables = b.bookedReceivables
        /\ c.deferredIncome = b.deferredIncome
        /\ c.merchantExposure = b.merchantExposure
        /\ c.corridorExposure = b.corridorExposure
    <2>1. MarkMoves(b, c)
      BY <1>1, MarkStateCounted
    <2> HIDE DEF c
    <2> QED BY <2>1 DEF MarkMoves
  <1>3. Shaped(c) /\ OthersKept(b, c, k)
    BY <1>1, SyncMarkPaper
  <1>4. /\ c.books[k].carrying = b.books[k].carrying
        /\ c.books[k].deferredIncome = b.books[k].deferredIncome
    <2>1. c.books[k].carrying = b.books[k].carrying
      BY <1>1, SyncMarkPaper
    <2>2. c.books[k].deferredIncome = b.books[k].deferredIncome
      BY <1>1, SyncMarkPaper
    <2> QED BY <2>1, <2>2
  <1> HIDE DEF c
  <1>5. \A j \in Plans : /\ c.books[j].carrying = b.books[j].carrying
                         /\ c.books[j].deferredIncome = b.books[j].deferredIncome
    BY <1>3, <1>4 DEF OthersKept
  <1>6. PaperTypes(c)
    BY <1>1, <1>5 DEF PaperTypes
  <1>7. Sums(c)
    <2>1. CarryingIn(c) = CarryingIn(b) /\ DeferredIn(c) = DeferredIn(b)
      BY <1>5 DEF CarryingIn, DeferredIn
    <2>2. \A m \in Merchants : WithMerchant(c, m) = WithMerchant(b, m)
      BY <1>5 DEF WithMerchant
    <2>3. \A y \in Corridors : InCorridor(c, y) = InCorridor(b, y)
      BY <1>5 DEF InCorridor
    <2> QED BY <1>1, <1>2, <2>1, <2>2, <2>3 DEF Sums
  <1>8. Claimants(c) /\ Accruals(c) /\ Provided(c)
    BY <1>1, <1>2, ClaimsStay
  <1>9. Standing(c)
    BY <1>3, <1>6, <1>7, <1>8 DEF Standing
  <1> QED BY <1>9 DEF c

\* The parts of BookInv that a reading of one plan relies on.
LEMMA BookStands ==
    ASSUME NEW b, BookInv(b)
    PROVE  /\ Standing(b) /\ Papers(b) /\ Counted(b) /\ OnlyOpenHeld(b) /\ Funds(b)
           /\ Shaped(b) /\ b.epoch \in Epochs
  BY DEF BookInv, Standing, Papers, PaperOK, PaperTypes, Funds, Accruals

LEMMA RecognisedStands ==
    ASSUME NEW b, BookInv(b), NEW k \in Plans, b.books[k].open = TRUE,
           NEW v, Readable(b, k, v)
    PROVE  LET c == Recognised(b, k, v) IN BookInv(c) /\ Tracks(b, c, k, v)
  <1> DEFINE a == Accrued(b, k, v)
             s == SyncMarkState(a, k, v)
             m == SyncProvision(s, k, v)
             c == Recognised(b, k, v)
  <1>1. /\ Standing(b) /\ Papers(b) /\ Counted(b) /\ OnlyOpenHeld(b) /\ Funds(b)
        /\ Shaped(b) /\ b.epoch \in Epochs
    BY BookStands
  <1>2. c = IF v.state \in ClosingStates THEN Close(m, k) ELSE m
    BY DEF Recognised
  <1>3. /\ Standing(a) /\ SameProvisions(b, a) /\ SameList(b, a)
        /\ a.deployedAssets = b.deployedAssets
        /\ a.unmarkedDelinquencies = b.unmarkedDelinquencies
    BY <1>1, AccruedStands
  <1>4. OthersKept(b, a, k) /\ SameFlags(b.books[k], a.books[k])
    <2>1. OthersKept(b, a, k)
      BY <1>1, AccruedPaper
    <2>2. SameFlags(b.books[k], a.books[k])
      BY <1>1, AccruedPaper
    <2> QED BY <2>1, <2>2
  <1>5. a.books[k].unmarked = b.books[k].unmarked
    BY <1>1, AccruedPaper
  <1>6. a.books[k].recognisedInflow = v.forwarded /\ a.books[k].carrying = v.outstanding
    <2>1. a.books[k].recognisedInflow = v.forwarded
      BY <1>1, AccruedPaper
    <2>2. a.books[k].carrying = v.outstanding
      BY <1>1, AccruedPaper
    <2> QED BY <2>1, <2>2
  <1>7. a.balance = b.balance /\ a.bookedCash = b.bookedCash + Inflow(b, k, v)
    <2>1. a.balance = b.balance
      BY <1>1, AccruedPaper
    <2>2. a.bookedCash = b.bookedCash + Inflow(b, k, v)
      BY <1>1, AccruedPaper
    <2> QED BY <2>1, <2>2
  <1> HIDE DEF a
  <1>8. Shaped(a) /\ Counted(a)
    <2>1. Shaped(a)
      BY <1>3 DEF Standing
    <2>2. \A j \in Plans : /\ a.books[j].open = b.books[j].open
                           /\ a.books[j].markedEpoch = b.books[j].markedEpoch
                           /\ a.books[j].unmarked = b.books[j].unmarked
      BY <1>4, <1>5 DEF OthersKept, SameFlags
    <2>3. Counted(a)
      BY <1>1, <1>3, <2>2, CountedIfKept
    <2> QED BY <2>1, <2>3
  <1>9. CanMark(a, k, v) /\ a.epoch \in Epochs
    BY <1>1, <1>3, <1>4, <1>5
       DEF CanMark, SameFlags, Papers, PaperOK, Readable, SameList
  <1>10. Standing(s)
    <2>1. Standing(a) /\ Counted(a)
      BY <1>3, <1>8
    <2> HIDE DEF s
    <2>2. Standing(SyncMarkState(a, k, v))
      BY <1>9, <2>1, MarkStateStands
    <2> QED BY <2>2 DEF s
  <1>11. /\ Counted(s) /\ SameList(a, s) /\ SameClaims(a, s)
         /\ s.deployedAssets = a.deployedAssets
    <2>1. Counted(s) /\ MarkMoves(a, s)
      BY <1>8, <1>9, MarkStateCounted
    <2> HIDE DEF s
    <2> QED BY <2>1 DEF MarkMoves
  <1>12. OthersKept(a, s, k) /\ SameFlags(a.books[k], s.books[k])
    <2>1. OthersKept(a, s, k)
      BY <1>8, SyncMarkPaper
    <2>2. SameFlags(a.books[k], s.books[k])
      BY <1>8, SyncMarkPaper
    <2> QED BY <2>1, <2>2
  <1>13. s.books[k].unmarked = v.late /\ s.balance = a.balance /\ s.bookedCash = a.bookedCash
    <2>1. s.books[k].unmarked = v.late
      BY <1>8, SyncMarkPaper
    <2>2. s.balance = a.balance
      BY <1>8, SyncMarkPaper
    <2>3. s.bookedCash = a.bookedCash
      BY <1>8, SyncMarkPaper
    <2> QED BY <2>1, <2>2, <2>3
  <1>14. /\ s.books[k].recognisedInflow = a.books[k].recognisedInflow
         /\ s.books[k].carrying = a.books[k].carrying
    <2>1. s.books[k].recognisedInflow = a.books[k].recognisedInflow
      BY <1>8, SyncMarkPaper
    <2>2. s.books[k].carrying = a.books[k].carrying
      BY <1>8, SyncMarkPaper
    <2> QED BY <2>1, <2>2
  <1> HIDE DEF s
  <1>15. ProvisionStep(s, m, k)
    <2>1. /\ Shaped(s) /\ Claimants(s) /\ Accruals(s) /\ Provided(s)
          /\ s.books[k].carrying \in Nat
      BY <1>10 DEF Standing, PaperTypes
    <2>2. s.epoch \in Epochs
      BY <1>9, <1>11 DEF SameList
    <2> QED BY <2>1, <2>2, SyncProvides
  <1>s. SyncProvision(m, k, v) = m
    <2>1. /\ Shaped(s) /\ Claimants(s) /\ Accruals(s) /\ Provided(s)
          /\ s.books[k].carrying \in Nat
      BY <1>10 DEF Standing, PaperTypes
    <2>2. s.epoch \in Epochs
      BY <1>9, <1>11 DEF SameList
    <2> QED BY <2>1, <2>2, SyncSettles
  <1> HIDE DEF m
  <1>16. /\ Shaped(m) /\ SamePaper(s, m) /\ Claimants(m) /\ Accruals(m) /\ Provided(m)
         /\ \A j \in Plans : j # k => m.provisions[j] = s.provisions[j]
    BY <1>15 DEF ProvisionStep
  <1>17. Standing(m)
    <2>1. PaperTypes(m)
      BY <1>10, <1>16 DEF Standing, PaperTypes, SamePaper
    <2>2. SameTotals(s, m)
      BY <1>16 DEF SameTotals, SamePaper
    <2>3. Sums(m)
      BY <1>10, <2>2, SumsStay DEF Standing
    <2> QED BY <1>16, <2>1, <2>3 DEF Standing
  <1>18. Counted(m)
    BY <1>11, <1>16, CountedIfKept DEF SamePaper, SameList
  <1>19. /\ OthersKept(b, m, k) /\ SameList(b, m)
         /\ m.balance = b.balance /\ m.bookedCash = b.bookedCash + Inflow(b, k, v)
         /\ m.deployedAssets = b.deployedAssets
         /\ m.books[k].fronted = b.books[k].fronted /\ m.books[k].open = TRUE
         /\ m.books[k].unmarked = v.late
         /\ m.books[k].markedEpoch = b.books[k].markedEpoch
         /\ m.books[k].recognisedInflow = v.forwarded
         /\ m.books[k].carrying = v.outstanding
    <2>1. OthersKept(b, m, k)
      BY <1>4, <1>12, <1>16 DEF OthersKept, SamePaper
    <2>2. SameList(b, m)
      BY <1>3, <1>11, <1>16 DEF SameList, SamePaper
    <2>3. m.balance = b.balance /\ m.bookedCash = b.bookedCash + Inflow(b, k, v)
      BY <1>7, <1>13, <1>16 DEF SamePaper
    <2>4. m.deployedAssets = b.deployedAssets
      BY <1>3, <1>11, <1>16 DEF SamePaper
    <2>5. m.books = s.books
      BY <1>16 DEF SamePaper
    <2>6. /\ m.books[k].fronted = b.books[k].fronted /\ m.books[k].open = TRUE
          /\ m.books[k].markedEpoch = b.books[k].markedEpoch
      BY <1>4, <1>12, <2>5 DEF SameFlags
    <2> QED BY <1>6, <1>13, <1>14, <2>1, <2>2, <2>3, <2>4, <2>5, <2>6
  <1>20. \A j \in Plans : j # k => m.provisions[j] = b.provisions[j]
    BY <1>3, <1>11, <1>16 DEF SameProvisions, SameClaims
  <1>21. Papers(m)
    <2>1. m.epoch = b.epoch
      BY <1>19 DEF SameList
    <2>2. PaperOK(b.books[k], b.epoch) /\ v.forwarded \in Nat /\ v.late \in BOOLEAN
      BY <1>1 DEF Papers, Readable
    <2>3. PaperOK(m.books[k], m.epoch)
      <3>1. m.books[k].carrying \in Nat /\ m.books[k].deferredIncome \in Nat
        BY <1>17 DEF Standing, PaperTypes
      <3> QED BY <1>19, <2>1, <2>2, <3>1 DEF PaperOK
    <2>4. \A j \in Plans : j # k => PaperOK(m.books[j], m.epoch)
      BY <1>1, <1>19, <2>1 DEF Papers, OthersKept
    <2> QED BY <2>3, <2>4 DEF Papers
  <1>22. Funds(m)
    <2>1. Inflow(b, k, v) \in Nat
      BY DEF Readable, Inflow
    <2>2. m.bookedCash \in Nat
      BY <1>1, <1>19, <2>1 DEF Funds
    <2> QED BY <1>1, <1>16, <1>19, <2>2 DEF Funds, Accruals, SameList
  <1> HIDE DEF c
  <1>23. CASE v.state \notin ClosingStates
    <2>1. c = m
      BY <1>2, <1>23
    <2>2. OnlyOpenHeld(m)
      BY <1>1, <1>19, <1>20 DEF OnlyOpenHeld, OthersKept
    <2>3. BookInv(m)
      BY <1>17, <1>18, <1>21, <1>22, <2>2 DEF BookInv, Standing
    <2>4. CaughtUp(m, k, v)
      <3>1. v.forwarded \in Nat /\ v.outstanding \in Nat /\ v.late \in BOOLEAN
        BY <1>1 DEF Readable, Standing, PaperTypes
      <3> QED BY <1>19, <3>1 DEF CaughtUp
    <2>5. Tracks(b, m, k, v)
      <3>1. m.epoch = b.epoch /\ m.markCursor = b.markCursor
        BY <1>19 DEF SameList
      <3>2. m.books[k].open = (v.state \notin ClosingStates)
        BY <1>19, <1>23
      <3> QED BY <1>s, <1>19, <2>4, <3>1, <3>2, Zenon DEF Tracks
    <2> QED BY <2>1, <2>3, <2>5 DEF c
  <1>24. CASE v.state \in ClosingStates
    <2>1. c = Close(m, k)
      BY <1>2, <1>24
    <2>2. /\ Standing(c) /\ Counted(c)
          /\ c.epoch = m.epoch /\ c.markCursor = m.markCursor
          /\ c.deployedAssets = m.deployedAssets
          /\ c.provisions[k].amount = 0
          /\ \A j \in Plans : j # k => c.provisions[j] = m.provisions[j]
          /\ Vacated(m.openPlanList, c.openPlanList, m.openPlanSlot[k])
      BY <1>17, <1>18, <1>19, <1>21, <2>1, CloseStands
    <2>3. /\ OthersKept(m, c, k)
          /\ c.balance = m.balance /\ c.bookedCash = m.bookedCash
          /\ c.books[k].fronted = m.books[k].fronted
          /\ c.books[k].recognisedInflow = m.books[k].recognisedInflow
          /\ c.books[k].markedEpoch = m.books[k].markedEpoch
          /\ c.books[k].open = FALSE /\ c.books[k].unmarked = FALSE
          /\ c.books[k].deferredIncome = 0 /\ c.books[k].carrying = 0
      BY <1>16, <2>1, ClosePaper
    <2>4. OthersKept(b, c, k)
      BY <1>19, <2>3 DEF OthersKept
    <2>5. Tracks(b, c, k, v)
      <3>1. c.books[k].open = (v.state \notin ClosingStates)
        BY <1>24, <2>3
      <3> QED BY <1>19, <2>2, <2>3, <2>4, <3>1 DEF Tracks, SameList
    <2>6. OnlyOpenHeld(c)
      BY <1>1, <1>20, <2>2, <2>4 DEF OnlyOpenHeld, OthersKept
    <2>7. Papers(c)
      <3>1. PaperOK(m.books[k], m.epoch)
        BY <1>21 DEF Papers
      <3>2. PaperOK(c.books[k], c.epoch)
        <4>1. /\ c.epoch = m.epoch /\ c.books[k].open = FALSE /\ c.books[k].unmarked = FALSE
              /\ c.books[k].carrying = 0 /\ c.books[k].deferredIncome = 0
              /\ c.books[k].fronted = m.books[k].fronted
              /\ c.books[k].recognisedInflow = m.books[k].recognisedInflow
              /\ c.books[k].markedEpoch = m.books[k].markedEpoch
          BY <2>2, <2>3
        <4> DEFINE p == m.books[k]
                   q == c.books[k]
        <4>2. q.fronted \in BOOLEAN /\ q.open \in BOOLEAN /\ q.unmarked \in BOOLEAN
          BY <3>1, <4>1 DEF PaperOK
        <4>3. /\ q.carrying \in Nat /\ q.deferredIncome \in Nat
              /\ q.recognisedInflow \in Nat /\ q.markedEpoch \in 0 .. c.epoch
          BY <3>1, <4>1 DEF PaperOK
        <4>4. ~q.fronted => q.recognisedInflow = 0
          BY <3>1, <4>1 DEF PaperOK
        <4>5. /\ q.open => q.fronted
              /\ ~q.open => q.carrying = 0 /\ q.deferredIncome = 0 /\ q.unmarked = FALSE
          BY <4>1
        <4> HIDE DEF p, q
        <4>6. PaperOK(q, c.epoch)
          BY <4>2, <4>3, <4>4, <4>5, Zenon DEF PaperOK
        <4> QED BY <4>6 DEF q
      <3>3. \A j \in Plans : j # k => PaperOK(c.books[j], c.epoch)
        BY <1>21, <2>2, <2>3 DEF Papers, OthersKept
      <3> QED BY <3>2, <3>3 DEF Papers
    <2>8. Funds(c)
      BY <1>22, <2>2, <2>3 DEF Funds, Standing, Accruals
    <2>9. BookInv(c)
      BY <2>2, <2>6, <2>7, <2>8 DEF BookInv, Standing
    <2> QED BY <2>5, <2>9 DEF c
  <1> QED BY <1>23, <1>24

LEMMA RecognisedAgain ==
    ASSUME NEW b, BookInv(b), NEW k \in Plans, b.books[k].open = TRUE,
           NEW v, CaughtUp(b, k, v), v.state \notin ClosingStates
    PROVE  Recognised(b, k, v) = SyncProvision(b, k, v)
  <1> DEFINE a == Accrued(b, k, v)
             s == SyncMarkState(a, k, v)
             m == SyncProvision(s, k, v)
  <1>1. Standing(b) /\ Funds(b) /\ Counted(b) /\ Shaped(b)
    BY BookStands
  <1>2. a = b
    BY <1>1, AccruedAgain DEF Funds
  <1>3. s = b
    <2>1. b.unmarkedDelinquencies \in Int
      <3>1. IsFiniteSet(UnmarkedOf(b))
        BY PoolPartiesAssumption, FS_Subset DEF UnmarkedOf
      <3> QED BY <1>1, <3>1, FS_CardinalityType DEF Counted
    <2>2. SyncMarkState(b, k, v) = b
      BY <1>1, <2>1, MarkedAgain
    <2> QED BY <1>2, <2>2
  <1>4. Recognised(b, k, v) = m
    BY DEF Recognised
  <1>5. m = SyncProvision(b, k, v)
    BY <1>3
  <1> QED BY <1>4, <1>5

\* A settled provision of a plan that is not delinquent is nothing.
LEMMA CalmHoldsNothing ==
    ASSUME NEW b, BookInv(b), NEW k \in Plans, NEW v, v.state # "Delinquent",
           SyncProvision(b, k, v) = b
    PROVE  b.provisions[k].amount = 0
  <1> DEFINE held == b.provisions[k].amount
             c == ReleaseProvision(b, k, held)
  <1>1. held \in Nat
    BY DEF BookInv, Provided, IsHeld
  <1> SUFFICES ASSUME held # 0 PROVE FALSE
    OBVIOUS
  <1>2. SyncProvision(b, k, v) = ReleaseProvision(b, k, held - 0)
    BY <1>1 DEF SyncProvision
  <1>3. c = b
    BY <1>1, <1>2
  <1>4. Shaped(b) /\ Claimants(b) /\ Accruals(b) /\ Provided(b)
    BY BookStands DEF Standing
  <1> HIDE DEF held
  <1>5. c.provisions[k].amount = 0
    BY <1>1, <1>4, ReleaseProvides DEF held
  <1> QED BY <1>3, <1>5 DEF held

SameNav(b, c) ==
    /\ c.reserve = b.reserve /\ c.assets = b.assets
    /\ c.totalProvisioned = b.totalProvisioned
    /\ c.bookedReceivables = b.bookedReceivables

\* A plan seen calm, then delinquent, then calm again: every claim is back.
LEMMA CureLeavesNoTrace ==
    ASSUME NEW b, BookInv(b), NEW k \in Plans, b.books[k].open = TRUE,
           NEW v, Readable(b, k, v), v.state = "Active",
           NEW w, w.state = "Delinquent", w.outstanding = v.outstanding,
           w.forwarded = v.forwarded, w.late = v.late,
           NEW here, here = Recognised(b, k, v),
           NEW there, there = Recognised(here, k, w),
           NEW back, back = Recognised(there, k, v)
    PROVE  SameNav(here, back)
  <1>1. v.state \notin ClosingStates /\ w.state \notin ClosingStates
    BY DEF ClosingStates
  <1>2. BookInv(here) /\ Tracks(b, here, k, v)
    BY RecognisedStands
  <1>3. here.books[k].open = TRUE /\ CaughtUp(here, k, v) /\ SyncProvision(here, k, v) = here
    BY <1>1, <1>2 DEF Tracks
  <1>4. CaughtUp(here, k, w)
    BY <1>3 DEF CaughtUp
  <1>5. here.provisions[k].amount = 0
    BY <1>2, <1>3, CalmHoldsNothing
  <1>6. there = SyncProvision(here, k, w)
    BY <1>1, <1>2, <1>3, <1>4, RecognisedAgain
  <1>7. BookInv(there) /\ Tracks(here, there, k, w)
    <2>1. Readable(here, k, w)
      BY <1>4 DEF CaughtUp, Readable
    <2> QED BY <1>2, <1>3, <2>1, RecognisedStands
  <1>8. there.books[k].open = TRUE /\ CaughtUp(there, k, w)
    BY <1>1, <1>7 DEF Tracks
  <1>9. CaughtUp(there, k, v)
    BY <1>8 DEF CaughtUp
  <1>10. back = SyncProvision(there, k, v)
    BY <1>1, <1>7, <1>8, <1>9, RecognisedAgain
  <1> DEFINE want == (here.books[k].carrying * DelinquentProvisionBps) \div Bps
             now == there.provisions[k].amount
  <1>11. want \in Nat /\ here.books[k].carrying \in Nat
    <2>1. here.books[k].carrying \in Nat
      BY <1>3 DEF CaughtUp
    <2> QED BY <2>1, PoolParamsAssumption, Z3
  <1>12. there = IF want > 0 THEN TakeProvision(here, k, want - 0)
                 ELSE IF want < 0 THEN ReleaseProvision(here, k, 0 - want) ELSE here
    BY <1>5, <1>6 DEF SyncProvision
  <1> HIDE DEF want
  <1>13. CASE want = 0
    <2>1. there = here
      BY <1>12, <1>13
    <2>2. back = here
      BY <1>3, <1>10, <2>1
    <2> QED BY <2>2 DEF SameNav
  <1>14. CASE want # 0
    <2>1. want - 0 = want /\ want > 0
      BY <1>11, <1>14
    <2>2. there = TakeProvision(here, k, want)
      BY <1>12, <2>1
    <2>3. now \in Nat
      BY <1>7 DEF BookInv, Provided, IsHeld
    <2>4. back = IF 0 > now THEN TakeProvision(there, k, 0 - now)
                 ELSE IF 0 < now THEN ReleaseProvision(there, k, now - 0) ELSE there
      BY <1>10 DEF SyncProvision
    <2>5. back = ReleaseProvision(there, k, now)
      <3>1. CASE now = 0
        <4>1. back = there
          BY <2>4, <3>1
        <4>2. ReleaseProvision(there, k, now) = there
          BY <3>1 DEF ReleaseProvision
        <4> QED BY <4>1, <4>2
      <3>2. CASE now # 0
        <4>1. now - 0 = now /\ 0 < now /\ ~(0 > now)
          BY <2>3, <3>2
        <4> QED BY <2>4, <4>1
      <3> QED BY <3>1, <3>2
    <2>6. /\ Shaped(here) /\ Claimants(here) /\ Accruals(here) /\ Provided(here)
          /\ here.epoch \in Epochs
      BY <1>2, BookStands DEF Standing
    <2>7. /\ back.reserve = here.reserve /\ back.assets = here.assets
          /\ back.totalProvisioned = here.totalProvisioned
      BY <1>5, <1>11, <2>2, <2>5, <2>6, CureGivesBack
    <2>8. back.bookedReceivables = here.bookedReceivables
      <3>1. Shaped(there)
        BY <1>7 DEF BookInv
      <3>2. SamePaper(here, there)
        BY <1>6, <2>6, SyncKeepsPaper
      <3>3. SamePaper(there, back)
        BY <1>10, <3>1, SyncKeepsPaper
      <3> QED BY <3>2, <3>3 DEF SamePaper
    <2> QED BY <2>7, <2>8 DEF SameNav
  <1> QED BY <1>13, <1>14

\* A plan recognised twice is recognised once.
LEMMA RecognisedOnce ==
    ASSUME NEW b, BookInv(b), NEW k \in Plans, b.books[k].open = TRUE,
           NEW v, Readable(b, k, v)
    PROVE  Recognised(Recognised(b, k, v), k, v) = Recognised(b, k, v)
  <1> DEFINE c == Recognised(b, k, v)
  <1>1. BookInv(c) /\ Tracks(b, c, k, v)
    BY RecognisedStands
  <1> HIDE DEF c
  <1> SUFFICES Recognised(c, k, v) = c
    BY DEF c
  <1>2. CASE v.state \in ClosingStates
    <2>1. ~c.books[k].open
      BY <1>1, <1>2 DEF Tracks
    <2> QED BY <2>1 DEF Recognised
  <1>3. CASE v.state \notin ClosingStates
    <2>1. c.books[k].open = TRUE /\ CaughtUp(c, k, v) /\ SyncProvision(c, k, v) = c
      BY <1>1, <1>3 DEF Tracks
    <2>2. Recognised(c, k, v) = SyncProvision(c, k, v)
      BY <1>1, <1>3, <2>1, RecognisedAgain
    <2> QED BY <2>1, <2>2
  <1> QED BY <1>2, <1>3

---------------------------------------------------------------------------
(* What the plans show and what the book has seen of it. *)

Unrecognised(b, views) == [k \in Plans |-> views[k].forwarded - b.books[k].recognisedInflow]

\* A plan owes no more than the book carries it at, has forwarded no less than
\* the book has booked of it, and stands still until it is fronted.
Tells(b, k, v) ==
    /\ v.outstanding \in Nat /\ v.forwarded \in Nat /\ v.late \in BOOLEAN
    /\ b.books[k].recognisedInflow <= v.forwarded
    /\ b.books[k].open => v.outstanding <= b.books[k].carrying
    /\ ~b.books[k].fronted => v = Opening(Terms[k])

Told(b, views) == \A k \in Plans : Tells(b, k, views[k])

\* What the balance holds that is neither the book's nor a plan's: the money
\* of the lenders on their way in and out.
Lenders(b, views) == b.balance - b.bookedCash - SumOver(Unrecognised(b, views), Plans)

\* A step of the cranks: it moves only what the plans have sent.
Keeps(b, c, views) ==
    /\ BookInv(c) /\ Told(c, views)
    /\ Lenders(c, views) = Lenders(b, views)
    /\ c.epoch = b.epoch /\ c.deployedAssets = b.deployedAssets

SameCounts(b, c) ==
    /\ c.openPlanList = b.openPlanList /\ c.openPlanSlot = b.openPlanSlot
    /\ c.openPlans = b.openPlans /\ c.epoch = b.epoch
    /\ c.markedThisEpoch = b.markedThisEpoch
    /\ c.unmarkedDelinquencies = b.unmarkedDelinquencies

\* A step that moves cash and claims only.
LEMMA BookMoves ==
    ASSUME NEW b, BookInv(b), NEW c, Shaped(c), SameTotals(b, c), SameProvisions(b, c),
           SameCounts(b, c), Claimants(c), Funds(c)
    PROVE  BookInv(c)
  <1>1. /\ Papers(b) /\ Sums(b) /\ Provided(b) /\ OnlyOpenHeld(b) /\ Counted(b)
    BY DEF BookInv
  <1>2. Sums(c) /\ Provided(c)
    BY <1>1, SumsStay, ProvisionsStay
  <1>3. c.books = b.books /\ c.epoch = b.epoch /\ c.provisions = b.provisions
    BY DEF SameTotals, SameCounts, SameProvisions
  <1>4. Papers(c) /\ OnlyOpenHeld(c)
    BY <1>1, <1>3 DEF Papers, OnlyOpenHeld
  <1>5. /\ OpenOf(c) = OpenOf(b) /\ MarkedOf(c) = MarkedOf(b)
        /\ UnmarkedOf(c) = UnmarkedOf(b)
    BY <1>3 DEF OpenOf, MarkedOf, UnmarkedOf
  <1>6. Counted(c)
    BY <1>1, <1>5 DEF Counted, SameCounts
  <1> QED BY <1>2, <1>4, <1>6 DEF BookInv

LEMMA ToldStays ==
    ASSUME NEW b, NEW c, c.books = b.books, NEW views, Told(b, views)
    PROVE  Told(c, views)
  BY DEF Told, Tells

LEMMA CursorMoves ==
    ASSUME NEW b, BookInv(b), NEW views, Told(b, views), NEW n \in Nat
    PROVE  LET c == [b EXCEPT !.markCursor = n]
           IN  Keeps(b, c, views) /\ c.books = b.books
  <1> DEFINE c == [b EXCEPT !.markCursor = n]
  <1>1. Shaped(b) /\ Claimants(b) /\ Funds(b)
    BY DEF BookInv
  <1>2. /\ c = [f \in BookFields |-> c[f]] /\ c.markCursor = n
        /\ c.balance = b.balance /\ c.bookedCash = b.bookedCash
        /\ c.epoch = b.epoch /\ c.deployedAssets = b.deployedAssets
        /\ c.seniorAccrued = b.seniorAccrued
    BY <1>1 DEF Shaped, BookFields
  <1>3. SameTotals(b, c)
    BY <1>1 DEF Shaped, BookFields, SameTotals
  <1>4. SameProvisions(b, c)
    BY <1>1 DEF Shaped, BookFields, SameProvisions
  <1>5. SameCounts(b, c)
    BY <1>1 DEF Shaped, BookFields, SameCounts
  <1>6. c.reserve = b.reserve /\ c.assets = b.assets
    BY <1>1 DEF Shaped, BookFields
  <1> HIDE DEF c
  <1>7. c.books = b.books /\ Shaped(c)
    BY <1>1, <1>2, <1>3 DEF SameTotals, Shaped
  <1>8. Claimants(c) /\ Funds(c)
    BY <1>1, <1>2, <1>6 DEF Claimants, Funds
  <1>9. BookInv(c)
    BY <1>3, <1>4, <1>5, <1>7, <1>8, BookMoves
  <1>10. Told(c, views)
    BY <1>7, ToldStays
  <1>11. Lenders(c, views) = Lenders(b, views)
    BY <1>2, <1>7 DEF Lenders, Unrecognised
  <1> QED BY <1>2, <1>7, <1>9, <1>10, <1>11 DEF Keeps, c

\* What a plan has sent is booked once, when the plan is recognised.
LEMMA InflowIsBooked ==
    ASSUME NEW b, BookInv(b), NEW c, NEW views, Told(b, views), NEW k \in Plans,
           OthersKept(b, c, k), c.balance = b.balance,
           c.books[k].recognisedInflow = views[k].forwarded,
           c.bookedCash = b.bookedCash + Inflow(b, k, views[k])
    PROVE  Lenders(c, views) = Lenders(b, views)
  <1> DEFINE f == Unrecognised(b, views)
             e == Unrecognised(c, views)
  <1>1. \A j \in Plans : views[j].forwarded \in Nat /\ b.books[j].recognisedInflow \in Nat
    BY DEF Told, Tells, BookInv, Papers, PaperOK
  <1>2. \A j \in Plans : f[j] \in Int /\ e[j] \in Int /\ (j # k => f[j] = e[j])
    BY <1>1 DEF Unrecognised, OthersKept
  <1>3. f[k] = Inflow(b, k, views[k]) /\ e[k] = 0
    BY <1>1 DEF Unrecognised, Inflow
  <1>4. IsFiniteSet(Plans) /\ b.balance \in Int /\ b.bookedCash \in Nat
    BY PoolPartiesAssumption DEF BookInv, Funds
  <1> HIDE DEF f, e
  <1>5. OnlyAt(f, e, k, Plans)
    BY <1>2 DEF OnlyAt
  <1>6. SumOver(e, Plans) = SumOver(f, Plans) - f[k] + e[k]
    BY <1>4, <1>5, SumMoves
  <1>7. SumOver(f, Plans) \in Int
    BY <1>2, <1>4, SumIsInt
  <1>8. f[k] \in Int
    BY <1>2
  <1>9. SumOver(e, Plans) = SumOver(f, Plans) - f[k]
    BY <1>3, <1>6, <1>7, <1>8
  <1>10. c.balance - c.bookedCash - SumOver(e, Plans)
           = b.balance - b.bookedCash - SumOver(f, Plans)
    <2> DEFINE x == SumOver(f, Plans)
               y == SumOver(e, Plans)
               i == f[k]
    <2>1. y = x - i /\ x \in Int /\ i \in Int /\ c.bookedCash = b.bookedCash + i
      BY <1>3, <1>7, <1>8, <1>9
    <2> HIDE DEF x, y, i
    <2> QED BY <1>4, <2>1 DEF x, y
  <1> QED BY <1>10 DEF Lenders, f, e

LEMMA RecognisedKeeps ==
    ASSUME NEW b, BookInv(b), NEW views, Told(b, views), NEW k \in Plans,
           b.books[k].open = TRUE
    PROVE  LET c == Recognised(b, k, views[k])
           IN  Keeps(b, c, views) /\ Tracks(b, c, k, views[k])
  <1> DEFINE v == views[k]
             c == Recognised(b, k, v)
  <1>1. Tells(b, k, v)
    BY DEF Told
  <1>2. Readable(b, k, v)
    BY <1>1 DEF Tells, Readable, BookInv, Papers, PaperOK
  <1> HIDE DEF v
  <1>3. BookInv(c) /\ Tracks(b, c, k, v)
    BY <1>2, RecognisedStands
  <1> HIDE DEF c
  <1>4. /\ OthersKept(b, c, k)
        /\ c.balance = b.balance /\ c.bookedCash = b.bookedCash + Inflow(b, k, v)
        /\ c.deployedAssets = b.deployedAssets /\ c.epoch = b.epoch
        /\ c.books[k].recognisedInflow = v.forwarded
    BY <1>3 DEF Tracks
  <1>5. Lenders(c, views) = Lenders(b, views)
    BY <1>4, InflowIsBooked DEF v
  <1>6. Tells(c, k, v)
    <2>1. c.books[k].fronted = TRUE
      BY <1>3 DEF Tracks, BookInv, Papers, PaperOK
    <2>2. c.books[k].open => c.books[k].carrying = v.outstanding
      BY <1>3 DEF Tracks
    <2> QED BY <1>1, <1>4, <2>1, <2>2 DEF Tells
  <1>7. \A j \in Plans : j # k => Tells(c, j, views[j])
    BY <1>4 DEF Told, Tells, OthersKept
  <1>8. Told(c, views)
    BY <1>6, <1>7 DEF Told, v
  <1> QED BY <1>3, <1>4, <1>5, <1>8 DEF Keeps, c, v

---------------------------------------------------------------------------
(* The mark phase. *)

\* The same paper but for its mark.
SamePaperFlow(p, q) ==
    /\ q.fronted = p.fronted /\ q.open = p.open /\ q.unmarked = p.unmarked
    /\ q.carrying = p.carrying /\ q.deferredIncome = p.deferredIncome
    /\ q.recognisedInflow = p.recognisedInflow

\* An open plan that had not been marked in this epoch is, and counted once.
LEMMA MarkNoted ==
    ASSUME NEW b, BookInv(b), NEW views, Told(b, views), NEW k \in Plans,
           b.books[k].open = TRUE, b.books[k].markedEpoch # b.epoch, NEW n \in Nat
    PROVE  Keeps(b, [b EXCEPT !.books[k].markedEpoch = b.epoch,
                              !.markedThisEpoch = @ + 1,
                              !.markCursor = n], views)
  <1> DEFINE paper == [b.books[k] EXCEPT !.markedEpoch = b.epoch]
             c == [b EXCEPT !.books[k].markedEpoch = b.epoch,
                            !.markedThisEpoch = @ + 1, !.markCursor = n]
  <1>1. /\ Shaped(b) /\ Claimants(b) /\ Funds(b) /\ Papers(b) /\ Sums(b)
        /\ Provided(b) /\ OnlyOpenHeld(b) /\ Counted(b)
    BY DEF BookInv
  <1>2. /\ c = [f \in BookFields |-> c[f]]
        /\ c.books = [b.books EXCEPT ![k] = paper]
        /\ c.markedThisEpoch = b.markedThisEpoch + 1 /\ c.markCursor = n
    BY <1>1 DEF Shaped, BookFields
  <1>3. /\ c.balance = b.balance /\ c.bookedCash = b.bookedCash
        /\ c.epoch = b.epoch /\ c.deployedAssets = b.deployedAssets
        /\ c.seniorAccrued = b.seniorAccrued
        /\ c.reserve = b.reserve /\ c.assets = b.assets
    BY <1>1 DEF Shaped, BookFields
  <1>4. /\ c.bookedReceivables = b.bookedReceivables
        /\ c.deferredIncome = b.deferredIncome
        /\ c.merchantExposure = b.merchantExposure
        /\ c.corridorExposure = b.corridorExposure
    BY <1>1 DEF Shaped, BookFields
  <1>5. SameProvisions(b, c)
    BY <1>1 DEF Shaped, BookFields, SameProvisions
  <1>6. /\ c.openPlanList = b.openPlanList /\ c.openPlanSlot = b.openPlanSlot
        /\ c.openPlans = b.openPlans
        /\ c.unmarkedDelinquencies = b.unmarkedDelinquencies
    BY <1>1 DEF Shaped, BookFields
  <1>7. /\ IsPaper(paper) /\ SamePaperFlow(b.books[k], paper)
        /\ paper.markedEpoch = b.epoch
    BY <1>1 DEF Shaped, IsPaper, PaperFields, SamePaperFlow
  <1> HIDE DEF c, paper
  <1>8. /\ c.books = [j \in Plans |-> c.books[j]]
        /\ \A j \in Plans : c.books[j] = IF j = k THEN paper ELSE b.books[j]
    BY <1>1, <1>2 DEF Shaped
  <1>9. Shaped(c)
    BY <1>1, <1>2, <1>7, <1>8 DEF Shaped
  <1>10. /\ OthersKept(b, c, k) /\ c.books[k].markedEpoch = b.epoch
         /\ \A j \in Plans : SamePaperFlow(b.books[j], c.books[j])
    BY <1>7, <1>8 DEF OthersKept, SamePaperFlow
  <1>11. Papers(c)
    <2>1. b.epoch \in Nat
      BY <1>1, PoolParamsAssumption DEF Funds, Epochs
    <2>2. ASSUME NEW j \in Plans PROVE PaperOK(c.books[j], c.epoch)
      <3>1. PaperOK(b.books[j], b.epoch) /\ SamePaperFlow(b.books[j], c.books[j])
        BY <1>1, <1>10 DEF Papers
      <3>2. c.books[j].markedEpoch \in 0 .. c.epoch
        BY <1>3, <1>10, <2>1, <3>1 DEF OthersKept, PaperOK
      <3> QED BY <1>3, <3>1, <3>2 DEF PaperOK, SamePaperFlow
    <2> QED BY <2>2 DEF Papers
  <1>12. Sums(c)
    <2>1. CarryingIn(c) = CarryingIn(b) /\ DeferredIn(c) = DeferredIn(b)
      BY <1>10 DEF CarryingIn, DeferredIn, SamePaperFlow
    <2>2. \A m \in Merchants : WithMerchant(c, m) = WithMerchant(b, m)
      BY <1>10 DEF WithMerchant, SamePaperFlow
    <2>3. \A y \in Corridors : InCorridor(c, y) = InCorridor(b, y)
      BY <1>10 DEF InCorridor, SamePaperFlow
    <2> QED BY <1>1, <1>4, <2>1, <2>2, <2>3 DEF Sums
  <1>13. Provided(c) /\ OnlyOpenHeld(c)
    <2>1. Provided(c)
      BY <1>1, <1>5, ProvisionsStay
    <2>2. OnlyOpenHeld(c)
      BY <1>1, <1>5, <1>10 DEF OnlyOpenHeld, SameProvisions, SamePaperFlow
    <2> QED BY <2>1, <2>2
  <1>14. OpenOf(c) = OpenOf(b) /\ UnmarkedOf(c) = UnmarkedOf(b)
    BY <1>10 DEF OpenOf, UnmarkedOf, SamePaperFlow
  <1>15. c.markedThisEpoch = Cardinality(MarkedOf(c))
    <2>1. /\ MarkedOf(b) \in SUBSET Plans /\ MarkedOf(c) \in SUBSET Plans
          /\ \A j \in Plans : j # k => (j \in MarkedOf(b) <=> j \in MarkedOf(c))
          /\ k \notin MarkedOf(b) /\ k \in MarkedOf(c)
      BY <1>3, <1>10 DEF MarkedOf, OthersKept, SamePaperFlow
    <2>2. /\ Cardinality(MarkedOf(b)) \in Nat
          /\ Cardinality(MarkedOf(c)) = Cardinality(MarkedOf(b))
                - (IF k \in MarkedOf(b) THEN 1 ELSE 0) + (IF k \in MarkedOf(c) THEN 1 ELSE 0)
      BY <2>1, CountMoves
    <2>3. b.markedThisEpoch = Cardinality(MarkedOf(b))
      BY <1>1 DEF Counted
    <2> QED BY <1>2, <2>1, <2>2, <2>3
  <1>16. Counted(c)
    BY <1>1, <1>6, <1>14, <1>15 DEF Counted
  <1>17. Claimants(c) /\ Funds(c)
    BY <1>1, <1>2, <1>3 DEF Claimants, Funds
  <1>18. BookInv(c)
    BY <1>9, <1>11, <1>12, <1>13, <1>16, <1>17 DEF BookInv
  <1>19. Told(c, views)
    BY <1>10 DEF Told, Tells, SamePaperFlow
  <1>20. Lenders(c, views) = Lenders(b, views)
    <2>1. Unrecognised(c, views) = Unrecognised(b, views)
      BY <1>10 DEF Unrecognised, SamePaperFlow
    <2> QED BY <1>3, <2>1 DEF Lenders
  <1> QED BY <1>3, <1>18, <1>19, <1>20 DEF Keeps, c

LEMMA KeepsTransitive ==
    ASSUME NEW b, NEW c, NEW d, NEW views, Keeps(b, c, views), Keeps(c, d, views)
    PROVE  Keeps(b, d, views)
  BY DEF Keeps

LEMMA MarkStepKeeps ==
    ASSUME NEW b, BookInv(b), NEW views, Told(b, views)
    PROVE  Keeps(b, MarkStep(b, views), views)
  <1> DEFINE cursor == IF b.markCursor >= Len(b.openPlanList) THEN 0 ELSE b.markCursor
             k == b.openPlanList[cursor + 1]
             start == [b EXCEPT !.markCursor = cursor]
             visited == Recognised(start, k, views[k])
             c == MarkStep(b, views)
  <1>1. /\ Counted(b) /\ Funds(b) /\ b.markCursor \in Nat /\ b.epoch \in Nat
        /\ Len(b.openPlanList) \in Nat /\ b.openPlanList \in Seq(Plans)
    <2>1. Counted(b) /\ Funds(b)
      BY DEF BookInv
    <2>2. b.openPlanList \in Seq(Plans)
      BY <2>1 DEF Counted, Slotted
    <2> QED BY <2>1, <2>2, LenProperties, PoolParamsAssumption DEF Funds, Epochs
  <1>2. c = IF b.markedThisEpoch >= b.openPlans THEN b
            ELSE IF b.books[k].markedEpoch >= b.epoch
            THEN [b EXCEPT !.markCursor = cursor + 1]
            ELSE IF visited.books[k].open
            THEN [visited EXCEPT !.books[k].markedEpoch = b.epoch,
                                 !.markedThisEpoch = @ + 1,
                                 !.markCursor = cursor + 1]
            ELSE visited
    BY DEF MarkStep
  <1>3. cursor \in Nat /\ cursor + 1 \in Nat
    BY <1>1
  <1> HIDE DEF c
  <1>4. CASE b.markedThisEpoch >= b.openPlans
    <2>1. c = b
      BY <1>2, <1>4
    <2> QED BY <2>1 DEF Keeps, c
  <1>5. CASE ~(b.markedThisEpoch >= b.openPlans)
    <2>1. b.openPlans = Len(b.openPlanList) /\ b.markedThisEpoch \in Nat
      <3>1. b.openPlans = Len(b.openPlanList) /\ b.markedThisEpoch = Cardinality(MarkedOf(b))
        BY <1>1 DEF Counted
      <3>2. IsFiniteSet(MarkedOf(b))
        BY PoolPartiesAssumption, FS_Subset DEF MarkedOf
      <3> QED BY <3>1, <3>2, FS_CardinalityType
    <2>2. cursor + 1 \in 1 .. Len(b.openPlanList)
      BY <1>1, <1>5, <2>1
    <2>3. k \in OpenOf(b)
      <3> HIDE DEF cursor
      <3> QED BY <1>1, <2>2 DEF Counted, Slotted
    <2> HIDE DEF cursor, k
    <2>4. k \in Plans /\ b.books[k].open = TRUE
      BY <2>3 DEF OpenOf, BookInv, Papers, PaperOK
    <2>5. CASE b.books[k].markedEpoch >= b.epoch
      <3>1. c = [b EXCEPT !.markCursor = cursor + 1]
        BY <1>2, <1>5, <2>5
      <3> QED BY <1>3, <3>1, CursorMoves DEF c
    <2>6. CASE ~(b.books[k].markedEpoch >= b.epoch)
      <3>1. Keeps(b, start, views) /\ start.books = b.books
        BY <1>3, CursorMoves
      <3> HIDE DEF start
      <3>2. BookInv(start) /\ Told(start, views) /\ start.books[k].open = TRUE
            /\ start.epoch = b.epoch
        BY <2>4, <3>1 DEF Keeps
      <3>3. Keeps(start, visited, views) /\ Tracks(start, visited, k, views[k])
        BY <2>4, <3>2, RecognisedKeeps
      <3> HIDE DEF visited
      <3>4. Keeps(b, visited, views)
        BY <3>1, <3>3, KeepsTransitive
      <3>5. CASE visited.books[k].open
        <4>1. c = [visited EXCEPT !.books[k].markedEpoch = b.epoch,
                                  !.markedThisEpoch = @ + 1,
                                  !.markCursor = cursor + 1]
          BY <1>2, <1>5, <2>6, <3>5
        <4>2. visited.epoch = b.epoch /\ BookInv(visited) /\ Told(visited, views)
          BY <3>4 DEF Keeps
        <4>3. visited.books[k].open = TRUE
          BY <2>4, <3>5, <4>2 DEF BookInv, Papers, PaperOK
        <4>4. visited.books[k].markedEpoch = b.books[k].markedEpoch
          BY <3>1, <3>3, <3>5 DEF Tracks
        <4>5. b.books[k].markedEpoch \in 0 .. b.epoch
          BY <2>4 DEF BookInv, Papers, PaperOK
        <4>6. visited.books[k].markedEpoch # visited.epoch
          BY <1>1, <2>6, <4>2, <4>4, <4>5
        <4>7. Keeps(visited, c, views)
          BY <1>3, <2>4, <4>1, <4>2, <4>3, <4>6, MarkNoted
        <4> QED BY <3>4, <4>7, KeepsTransitive DEF c
      <3>6. CASE ~visited.books[k].open
        <4>1. c = visited
          BY <1>2, <1>5, <2>6, <3>6
        <4> QED BY <3>4, <4>1 DEF c
      <3> QED BY <3>5, <3>6
    <2> QED BY <2>5, <2>6
  <1> QED BY <1>4, <1>5

\* Induction over a set of naturals.
LEMMA InductionOnSet ==
    ASSUME NEW G, 0 \in G, \A n \in Nat : n \in G => n + 1 \in G
    PROVE  Nat \subseteq G
  <1> SUFFICES ASSUME ~(Nat \subseteq G) PROVE FALSE
    OBVIOUS
  <1> DEFINE T == {n \in Nat : n \notin G}
             R == OpToRel(<, Nat)
  <1>1. T \subseteq Nat /\ T # {}
    OBVIOUS
  <1>2. \A x \in Nat, y \in Nat : x < y => <<x, y>> \in R
    BY DEF OpToRel
  <1>3. IsWellFoundedOn(R, Nat)
    BY NatLessThanWellFounded
  <1> HIDE DEF T, R
  <1>4. PICK m \in T : \A n \in T : <<n, m>> \notin R
    BY <1>1, <1>3, WFMin
  <1>5. m \in Nat /\ m \notin G /\ m # 0
    BY DEF T
  <1>6. m - 1 \in Nat /\ m - 1 < m /\ m = (m - 1) + 1
    BY <1>5
  <1>7. m - 1 \in G
    BY <1>2, <1>4, <1>5, <1>6 DEF T
  <1> QED BY <1>5, <1>6, <1>7

\* `g` is the walk of markEpoch from `b`, `n` steps long.
Walks(g, b, views, n) ==
    g = [i \in 0 .. n |-> IF i = 0 THEN b ELSE MarkStep(g[i - 1], views)]

LEMMA WalkExists ==
    ASSUME NEW b, NEW views, NEW n \in Nat
    PROVE  \E g : Walks(g, b, views, n)
  <1> DEFINE G == {m \in Nat : \E g : Walks(g, b, views, m)}
  <1>1. 0 \in G
    <2> DEFINE g == [i \in 0 .. 0 |-> b]
    <2>1. g = [i \in 0 .. 0 |-> IF i = 0 THEN b ELSE MarkStep(g[i - 1], views)]
      OBVIOUS
    <2>2. Walks(g, b, views, 0)
      BY <2>1 DEF Walks
    <2> QED BY <2>2
  <1>2. ASSUME NEW m \in Nat, m \in G PROVE m + 1 \in G
    <2>1. PICK g : Walks(g, b, views, m)
      BY <1>2
    <2> DEFINE h == [i \in 0 .. m + 1 |-> IF i = 0 THEN b ELSE MarkStep(g[i - 1], views)]
    <2>2. ASSUME NEW i \in 0 .. m + 1, i # 0 PROVE h[i - 1] = g[i - 1]
      <3> DEFINE j == i - 1
      <3>1. j \in 0 .. m /\ j \in 0 .. m + 1
        BY <2>2
      <3> HIDE DEF j
      <3>2. g[j] = IF j = 0 THEN b ELSE MarkStep(g[j - 1], views)
        BY <2>1, <3>1 DEF Walks
      <3>3. h[j] = IF j = 0 THEN b ELSE MarkStep(g[j - 1], views)
        BY <3>1
      <3> QED BY <3>2, <3>3 DEF j
    <2>3. \A i \in 0 .. m + 1 : h[i] = IF i = 0 THEN b ELSE MarkStep(h[i - 1], views)
      <3> TAKE i \in 0 .. m + 1
      <3>1. h[i] = IF i = 0 THEN b ELSE MarkStep(g[i - 1], views)
        OBVIOUS
      <3> HIDE DEF h
      <3> QED BY <2>2, <3>1
    <2>4. h = [i \in 0 .. m + 1 |-> h[i]]
      OBVIOUS
    <2> HIDE DEF h
    <2>5. Walks(h, b, views, m + 1)
      BY <2>3, <2>4 DEF Walks
    <2>6. m + 1 \in Nat
      OBVIOUS
    <2> QED BY <2>5, <2>6
  <1> HIDE DEF G
  <1>3. Nat \subseteq G
    BY <1>1, <1>2, InductionOnSet
  <1>4. n \in G
    BY <1>3
  <1> QED BY <1>4 DEF G

LEMMA WalkIsChosen ==
    ASSUME NEW b, NEW views, NEW n
    PROVE  MarkedUpTo(b, n, views) = (CHOOSE g : Walks(g, b, views, n))[n]
  BY Zenon DEF MarkedUpTo, Walks

LEMMA WalkKeeps ==
    ASSUME NEW b, BookInv(b), NEW views, Told(b, views), NEW n \in Nat
    PROVE  Keeps(b, MarkedUpTo(b, n, views), views)
  <1> DEFINE g == CHOOSE h : Walks(h, b, views, n)
             G == {i \in Nat : i \in 0 .. n => Keeps(b, g[i], views)}
  <1>1. Walks(g, b, views, n)
    BY WalkExists
  <1>2. MarkedUpTo(b, n, views) = g[n]
    BY WalkIsChosen
  <1> HIDE DEF g
  <1>3. 0 \in G
    <2>1. g[0] = b
      BY <1>1 DEF Walks
    <2>2. Keeps(b, b, views)
      BY DEF Keeps
    <2> QED BY <2>1, <2>2
  <1>4. ASSUME NEW i \in Nat, i \in G PROVE i + 1 \in G
    <2>1. CASE i + 1 \in 0 .. n
      <3>1. Keeps(b, g[i], views)
        BY <1>4, <2>1
      <3>2. g[i + 1] = MarkStep(g[i], views)
        <4>1. i + 1 # 0 /\ (i + 1) - 1 = i
          OBVIOUS
        <4> QED BY <1>1, <2>1, <4>1 DEF Walks
      <3>3. Keeps(g[i], g[i + 1], views)
        BY <3>1, <3>2, MarkStepKeeps DEF Keeps
      <3>4. Keeps(b, g[i + 1], views)
        BY <3>1, <3>3, KeepsTransitive
      <3> QED BY <3>4
    <2>2. CASE i + 1 \notin 0 .. n
      BY <2>2
    <2> QED BY <2>1, <2>2
  <1> HIDE DEF G
  <1>5. n \in G
    BY <1>3, <1>4, InductionOnSet
  <1>6. n \in 0 .. n
    OBVIOUS
  <1>7. Keeps(b, g[n], views)
    BY <1>5, <1>6 DEF G
  <1> QED BY <1>2, <1>7

---------------------------------------------------------------------------
(* The walk gets to the end. *)

\* Every plan in the first `n` slots has been marked in this epoch.
MarkedTo(b, n) ==
    \A i \in 1 .. Len(b.openPlanList) :
        i <= n => b.books[b.openPlanList[i]].markedEpoch = b.epoch

\* The walk ends within `m` steps: either what is behind the cursor is marked
\* and it has only to get to the end of the list, or it has one more round.
EndsWithin(b, m) ==
    \/ MarkComplete(b)
    \/ /\ MarkedTo(b, b.markCursor)
       /\ Less(Len(b.openPlanList), b.markCursor) <= m
    \/ Less(Len(b.openPlanList), b.markCursor) + Len(b.openPlanList) <= m

\* What one step does to the list and to the marks, from slot `s`.
GoesFrom(b, c, s) ==
    LET k == b.openPlanList[s + 1]
    IN  /\ c.epoch = b.epoch
        /\ \A j \in Plans : j # k => c.books[j].markedEpoch = b.books[j].markedEpoch
        /\ \/ /\ c.openPlanList = b.openPlanList /\ c.markCursor = s + 1
              /\ c.books[k].markedEpoch = b.epoch
           \/ Vacated(b.openPlanList, c.openPlanList, s) /\ c.markCursor = s

LEMMA MarkedToTheEnd ==
    ASSUME NEW b, BookInv(b), MarkedTo(b, Len(b.openPlanList))
    PROVE  MarkComplete(b)
  <1> DEFINE list == b.openPlanList
             n == Len(list)
             M == MarkedOf(b)
             f == [i \in 1 .. n |-> list[i]]
  <1>1. /\ Slotted(list, b.openPlanSlot, OpenOf(b)) /\ b.openPlans = n
        /\ b.markedThisEpoch = Cardinality(M)
    BY DEF BookInv, Counted
  <1>2. n \in Nat
    BY <1>1, LenProperties DEF Slotted
  <1>3. \A i \in 1 .. n : list[i] \in M
    BY <1>1 DEF Slotted, MarkedTo, MarkedOf, OpenOf
  <1>4. \A i \in 1 .. n, j \in 1 .. n : list[i] = list[j] => i = j
    <2> SUFFICES ASSUME NEW i \in 1 .. n, NEW j \in 1 .. n, list[i] = list[j] PROVE i = j
      OBVIOUS
    <2>1. b.openPlanSlot[list[i]] = i - 1 /\ b.openPlanSlot[list[j]] = j - 1
      BY <1>1 DEF Slotted
    <2> QED BY <1>2, <2>1
  <1> HIDE DEF list, n, M
  <1>5. f \in [1 .. n -> M]
    BY <1>3
  <1>6. f \in Injection(1 .. n, M)
    <2>1. \A i \in DOMAIN f, j \in DOMAIN f : f[i] = f[j] => i = j
      BY <1>4
    <2> HIDE DEF f
    <2> QED BY <1>5, <2>1 DEF Injection, IsInjective
  <1>7. IsFiniteSet(M)
    BY PoolPartiesAssumption, FS_Subset DEF MarkedOf, M
  <1>8. Cardinality(1 .. n) <= Cardinality(M)
    BY <1>6, <1>7, FS_Injection
  <1>9. Cardinality(1 .. n) = n
    <2>1. Cardinality(1 .. n) = IF 1 > n THEN 0 ELSE n - 1 + 1
      BY <1>2, FS_Interval
    <2> QED BY <1>2, <2>1
  <1>10. Cardinality(M) \in Nat
    BY <1>7, FS_CardinalityType
  <1> QED BY <1>1, <1>2, <1>8, <1>9, <1>10 DEF MarkComplete

\* The step of the walk, when it is not at the end.
LEMMA MarkStepGoes ==
    ASSUME NEW b, BookInv(b), NEW views, Told(b, views), ~MarkComplete(b),
           NEW s, s = IF b.markCursor >= Len(b.openPlanList) THEN 0 ELSE b.markCursor
    PROVE  /\ s \in Nat /\ s + 1 \in 1 .. Len(b.openPlanList)
           /\ GoesFrom(b, MarkStep(b, views), s)
  <1> DEFINE n == Len(b.openPlanList)
             k == b.openPlanList[s + 1]
             start == [b EXCEPT !.markCursor = s]
             visited == Recognised(start, k, views[k])
             c == MarkStep(b, views)
  <1>1. /\ Slotted(b.openPlanList, b.openPlanSlot, OpenOf(b)) /\ b.openPlans = n
        /\ b.markCursor \in Nat /\ b.epoch \in Nat /\ n \in Nat /\ Shaped(b)
    <2>1. Counted(b) /\ Funds(b) /\ Shaped(b)
      BY DEF BookInv
    <2>2. b.openPlanList \in Seq(Plans)
      BY <2>1 DEF Counted, Slotted
    <2> QED BY <2>1, <2>2, LenProperties, PoolParamsAssumption DEF Counted, Funds, Epochs
  <1>2. c = IF b.books[k].markedEpoch >= b.epoch
            THEN [b EXCEPT !.markCursor = s + 1]
            ELSE IF visited.books[k].open
            THEN [visited EXCEPT !.books[k].markedEpoch = b.epoch,
                                 !.markedThisEpoch = @ + 1,
                                 !.markCursor = s + 1]
            ELSE visited
    BY DEF MarkStep, MarkComplete
  <1> HIDE DEF c
  <1>3. n > 0
    <2>1. b.markedThisEpoch = Cardinality(MarkedOf(b)) /\ IsFiniteSet(MarkedOf(b))
      BY PoolPartiesAssumption, FS_Subset DEF BookInv, Counted, MarkedOf
    <2>2. b.markedThisEpoch \in Nat
      BY <2>1, FS_CardinalityType
    <2> QED BY <1>1, <2>2 DEF MarkComplete
  <1>4. s \in Nat /\ s + 1 \in 1 .. n
    <2> HIDE DEF n
    <2> QED BY <1>1, <1>3 DEF n
  <1>5. k \in OpenOf(b) /\ b.openPlanSlot[k] = s
    <2>1. b.openPlanSlot[k] = (s + 1) - 1 /\ k \in OpenOf(b)
      BY <1>1, <1>4 DEF Slotted
    <2> QED BY <1>4, <2>1
  <1> HIDE DEF k, n
  <1>6. k \in Plans /\ b.books[k].open = TRUE /\ b.books[k].markedEpoch \in 0 .. b.epoch
    BY <1>5 DEF OpenOf, BookInv, Papers, PaperOK
  <1>7. CASE b.books[k].markedEpoch >= b.epoch
    <2>1. c = [b EXCEPT !.markCursor = s + 1]
      BY <1>2, <1>7
    <2>2. /\ c.epoch = b.epoch /\ c.books = b.books /\ c.openPlanList = b.openPlanList
          /\ c.markCursor = s + 1
      BY <1>1, <2>1 DEF Shaped, BookFields
    <2>3. b.books[k].markedEpoch = b.epoch
      BY <1>1, <1>6, <1>7
    <2>4. GoesFrom(b, c, s)
      BY <2>2, <2>3 DEF GoesFrom, k
    <2> QED BY <1>4, <2>4 DEF c, n
  <1>8. CASE ~(b.books[k].markedEpoch >= b.epoch)
    <2>1. Keeps(b, start, views) /\ start.books = b.books
      BY <1>4, CursorMoves
    <2>2. start.openPlanList = b.openPlanList /\ start.openPlanSlot = b.openPlanSlot
          /\ start.markCursor = s
      BY <1>1 DEF Shaped, BookFields
    <2> HIDE DEF start
    <2>3. BookInv(start) /\ Told(start, views) /\ start.books[k].open = TRUE
          /\ start.epoch = b.epoch
      BY <1>6, <2>1 DEF Keeps
    <2>4. Keeps(start, visited, views) /\ Tracks(start, visited, k, views[k])
      BY <1>6, <2>3, RecognisedKeeps
    <2> HIDE DEF visited
    <2>5. /\ visited.epoch = b.epoch /\ visited.markCursor = s
          /\ \A j \in Plans : j # k => visited.books[j] = b.books[j]
      BY <2>1, <2>2, <2>3, <2>4 DEF Tracks, OthersKept
    <2>6. CASE visited.books[k].open
      <3>1. c = [visited EXCEPT !.books[k].markedEpoch = b.epoch,
                                !.markedThisEpoch = @ + 1,
                                !.markCursor = s + 1]
        BY <1>2, <1>8, <2>6
      <3>2. Shaped(visited)
        BY <2>4 DEF Keeps, BookInv
      <3>3. /\ c.openPlanList = visited.openPlanList /\ c.markCursor = s + 1
            /\ c.epoch = visited.epoch
            /\ c.books = [visited.books EXCEPT ![k] =
                             [visited.books[k] EXCEPT !.markedEpoch = b.epoch]]
        BY <3>1, <3>2 DEF Shaped, BookFields
      <3>4. /\ c.books[k].markedEpoch = b.epoch
            /\ \A j \in Plans : j # k => c.books[j] = visited.books[j]
        <4> DEFINE old == visited.books
                   paper == [old[k] EXCEPT !.markedEpoch = b.epoch]
                   new == c.books
        <4>1. IsPaper(old[k]) /\ old = [j \in Plans |-> old[j]]
          BY <1>6, <3>2 DEF Shaped
        <4>2. paper.markedEpoch = b.epoch
          BY <4>1 DEF IsPaper, PaperFields
        <4>3. new = [old EXCEPT ![k] = paper]
          BY <3>3
        <4> HIDE DEF old, paper, new
        <4>4. new[k] = paper /\ \A j \in Plans : j # k => new[j] = old[j]
          BY <1>6, <4>1, <4>3
        <4> QED BY <4>2, <4>4 DEF new, old
      <3>5. c.openPlanList = b.openPlanList
        BY <2>2, <2>4, <2>6, <3>3 DEF Tracks, SameList
      <3>6. GoesFrom(b, c, s)
        BY <2>5, <3>3, <3>4, <3>5 DEF GoesFrom, k
      <3> QED BY <1>4, <3>6 DEF c, n
    <2>7. CASE ~visited.books[k].open
      <3>1. c = visited
        BY <1>2, <1>8, <2>7
      <3>2. Vacated(b.openPlanList, c.openPlanList, s)
        BY <1>5, <2>2, <2>4, <2>7, <3>1 DEF Tracks
      <3>3. GoesFrom(b, c, s)
        BY <2>5, <3>1, <3>2 DEF GoesFrom, k
      <3> QED BY <1>4, <3>3 DEF c, n
    <2> QED BY <2>6, <2>7
  <1> QED BY <1>7, <1>8

\* Behind the cursor nothing is unmarked by a step, and there is less ahead.
LEMMA MarksStay ==
    ASSUME NEW b, BookInv(b), NEW c, BookInv(c), NEW s \in Nat,
           s + 1 \in 1 .. Len(b.openPlanList), GoesFrom(b, c, s)
    PROVE  /\ MarkedTo(b, s) => MarkedTo(c, c.markCursor)
           /\ Less(Len(c.openPlanList), c.markCursor) + 1 <= Len(b.openPlanList) - s
           /\ Len(c.openPlanList) <= Len(b.openPlanList)
  <1> DEFINE list == b.openPlanList
             rest == c.openPlanList
             n == Len(list)
             k == list[s + 1]
  <1>1. /\ Slotted(list, b.openPlanSlot, OpenOf(b)) /\ n \in Nat
        /\ Slotted(rest, c.openPlanSlot, OpenOf(c)) /\ Len(rest) \in Nat
    BY LenProperties DEF BookInv, Counted, Slotted
  <1>2. /\ c.epoch = b.epoch
        /\ \A j \in Plans : j # k => c.books[j].markedEpoch = b.books[j].markedEpoch
        /\ \/ rest = list /\ c.markCursor = s + 1 /\ c.books[k].markedEpoch = b.epoch
           \/ Vacated(list, rest, s) /\ c.markCursor = s
    BY DEF GoesFrom
  <1>3. /\ \A i \in 1 .. n : list[i] \in Plans /\ (i # s + 1 => list[i] # k)
    <2> SUFFICES ASSUME NEW i \in 1 .. n
                 PROVE  list[i] \in Plans /\ (i # s + 1 => list[i] # k)
      OBVIOUS
    <2>1. b.openPlanSlot[list[i]] = i - 1 /\ b.openPlanSlot[k] = (s + 1) - 1
          /\ list[i] \in OpenOf(b)
      BY <1>1 DEF Slotted
    <2> QED BY <1>1, <2>1 DEF OpenOf
  <1> HIDE DEF list, rest, n, k
  <1>4. CASE rest = list /\ c.markCursor = s + 1 /\ c.books[k].markedEpoch = b.epoch
    <2>1. ASSUME MarkedTo(b, s), NEW i \in 1 .. n, i <= s + 1
          PROVE  c.books[list[i]].markedEpoch = c.epoch
      <3>1. CASE i = s + 1
        BY <1>2, <1>4, <3>1 DEF k
      <3>2. CASE i # s + 1
        <4>1. b.books[list[i]].markedEpoch = b.epoch
          BY <2>1, <3>2 DEF MarkedTo, list, n
        <4> QED BY <1>2, <1>3, <3>2, <4>1
      <3> QED BY <3>1, <3>2
    <2>2. MarkedTo(b, s) => MarkedTo(c, c.markCursor)
      BY <1>4, <2>1 DEF MarkedTo, rest, n
    <2>3. Less(n, s + 1) + 1 <= n - s
      BY <1>1 DEF Less, n, list
    <2> QED BY <1>1, <1>4, <2>2, <2>3 DEF rest, list, n
  <1>5. CASE Vacated(list, rest, s) /\ c.markCursor = s
    <2>1. Len(rest) = n - 1 /\ \A i \in 1 .. Len(rest) : i # s + 1 => rest[i] = list[i]
      BY <1>5 DEF Vacated, n
    <2>2. ASSUME MarkedTo(b, s), NEW i \in 1 .. Len(rest), i <= s
          PROVE  c.books[rest[i]].markedEpoch = c.epoch
      <3>1. i \in 1 .. n /\ i # s + 1
        BY <1>1, <2>1, <2>2
      <3>2. b.books[list[i]].markedEpoch = b.epoch
        BY <2>2, <3>1 DEF MarkedTo, list, n
      <3> QED BY <1>2, <1>3, <2>1, <3>1, <3>2
    <2>3. MarkedTo(b, s) => MarkedTo(c, c.markCursor)
      BY <1>5, <2>2 DEF MarkedTo, rest
    <2>4. Less(n - 1, s) + 1 <= n - s
      BY <1>1 DEF Less, n, list
    <2> QED BY <1>1, <1>5, <2>1, <2>3, <2>4 DEF rest, list, n
  <1> QED BY <1>2, <1>4, <1>5

LEMMA StepsToTheEnd ==
    ASSUME NEW b, BookInv(b), NEW views, Told(b, views), NEW m \in Nat, NEW r, r = m + 1,
           EndsWithin(b, r)
    PROVE  EndsWithin(MarkStep(b, views), m)
  <1> DEFINE c == MarkStep(b, views)
             n == Len(b.openPlanList)
             left == Less(Len(c.openPlanList), c.markCursor)
             cursor == b.markCursor
             s == IF cursor >= n THEN 0 ELSE cursor
  <1>1. CASE MarkComplete(b)
    <2>1. c = b
      BY <1>1 DEF MarkStep, MarkComplete
    <2> QED BY <1>1, <2>1 DEF EndsWithin
  <1>2. CASE ~MarkComplete(b)
    <2>1. Keeps(b, c, views)
      BY MarkStepKeeps
    <2>2. BookInv(c)
      BY <2>1 DEF Keeps
    <2>3. s \in Nat /\ s + 1 \in 1 .. n /\ GoesFrom(b, c, s)
      BY <1>2, MarkStepGoes
    <2> HIDE DEF c
    <2>4. /\ MarkedTo(b, s) => MarkedTo(c, c.markCursor)
          /\ left + 1 <= n - s /\ Len(c.openPlanList) <= n
      <3> HIDE DEF s
      <3> QED BY <2>2, <2>3, MarksStay
    <2>5. n \in Nat /\ cursor \in Nat /\ Len(c.openPlanList) \in Nat /\ c.markCursor \in Nat
      BY <2>2, LenProperties DEF BookInv, Counted, Slotted, Funds
    <2>6. left \in Nat
      BY <2>5 DEF Less
    <2>7. CASE MarkedTo(b, cursor) /\ Less(n, cursor) <= r
      <3>1. ~(cursor >= n)
        <4> SUFFICES ASSUME cursor >= n PROVE FALSE
          OBVIOUS
        <4>1. MarkedTo(b, n)
          BY <2>5, <2>7 DEF MarkedTo
        <4> QED BY <1>2, <4>1, MarkedToTheEnd
      <3>2. s = cursor
        BY <3>1
      <3>3. MarkedTo(c, c.markCursor)
        BY <2>4, <2>7, <3>2
      <3>4. left <= m
        <4> HIDE DEF left, n, cursor
        <4> QED BY <2>4, <2>5, <2>6, <2>7, <3>1, <3>2 DEF Less
      <3> QED BY <3>3, <3>4 DEF EndsWithin, c
    <2>8. CASE Less(n, cursor) + n <= r
      <3>1. CASE cursor >= n
        <4>1. s = 0
          BY <3>1
        <4>2. MarkedTo(b, 0)
          BY DEF MarkedTo
        <4>3. MarkedTo(c, c.markCursor)
          BY <2>4, <4>1, <4>2
        <4>4. left <= m
          <5> HIDE DEF left, n, cursor
          <5> QED BY <2>4, <2>5, <2>6, <2>8, <3>1, <4>1 DEF Less
        <4> QED BY <4>3, <4>4 DEF EndsWithin, c
      <3>2. CASE ~(cursor >= n)
        <4>1. s = cursor
          BY <3>2
        <4> DEFINE q == Len(c.openPlanList)
        <4>2. left + q <= m
          <5> HIDE DEF left, n, cursor, q
          <5>1. q \in Nat /\ q <= n
            BY <2>4, <2>5 DEF q
          <5> QED BY <2>4, <2>5, <2>6, <2>8, <3>2, <4>1, <5>1 DEF Less
        <4> QED BY <4>2 DEF EndsWithin, c
      <3> QED BY <3>1, <3>2
    <2> QED BY <1>2, <2>7, <2>8 DEF EndsWithin
  <1> QED BY <1>1, <1>2

\* Two rounds of the list are enough, wherever the cursor is.
LEMMA WalkEnds ==
    ASSUME NEW b, BookInv(b), NEW views, Told(b, views)
    PROVE  MarkComplete(MarkedUpTo(b, 2 * b.openPlans, views))
  <1> DEFINE n == 2 * b.openPlans
             g == CHOOSE h : Walks(h, b, views, n)
             G == {i \in Nat : i \in 0 .. n => Keeps(b, g[i], views) /\ EndsWithin(g[i], n - i)}
  <1>0. /\ b.openPlans = Len(b.openPlanList) /\ b.openPlans \in Nat /\ n \in Nat
        /\ b.markCursor \in Nat
    BY LenProperties DEF BookInv, Counted, Slotted, Funds
  <1>1. Walks(g, b, views, n)
    BY <1>0, WalkExists
  <1>2. MarkedUpTo(b, n, views) = g[n]
    BY WalkIsChosen
  <1> HIDE DEF g
  <1>3. 0 \in G
    <2>1. g[0] = b
      BY <1>0, <1>1 DEF Walks
    <2>2. Keeps(b, b, views)
      BY DEF Keeps
    <2>3. Less(b.openPlans, b.markCursor) + b.openPlans <= n
      BY <1>0 DEF Less
    <2>4. EndsWithin(b, n)
      BY <1>0, <2>3 DEF EndsWithin
    <2>5. n - 0 = n
      BY <1>0
    <2> QED BY <2>1, <2>2, <2>4, <2>5
  <1> HIDE DEF n
  <1>4. ASSUME NEW i \in Nat, i \in G PROVE i + 1 \in G
    <2>1. CASE i + 1 \in 0 .. n
      <3>1. Keeps(b, g[i], views) /\ EndsWithin(g[i], n - i)
        BY <1>0, <1>4, <2>1
      <3>2. g[i + 1] = MarkStep(g[i], views)
        <4>1. i + 1 # 0 /\ (i + 1) - 1 = i
          OBVIOUS
        <4> QED BY <1>1, <2>1, <4>1 DEF Walks
      <3>3. BookInv(g[i]) /\ Told(g[i], views)
        BY <3>1 DEF Keeps
      <3>4. Keeps(g[i], g[i + 1], views)
        BY <3>2, <3>3, MarkStepKeeps
      <3>5. Keeps(b, g[i + 1], views)
        BY <3>1, <3>4, KeepsTransitive
      <3> DEFINE m == n - (i + 1)
                 r == n - i
      <3>6. m \in Nat /\ r = m + 1
        BY <1>0, <2>1
      <3>7. EndsWithin(g[i], r)
        BY <3>1
      <3> HIDE DEF m, r
      <3>8. EndsWithin(g[i + 1], m)
        BY <3>2, <3>3, <3>6, <3>7, StepsToTheEnd
      <3> QED BY <3>5, <3>8 DEF m
    <2>2. CASE i + 1 \notin 0 .. n
      BY <2>2
    <2> QED BY <2>1, <2>2
  <1> HIDE DEF G
  <1>5. n \in G
    BY <1>0, <1>3, <1>4, InductionOnSet
  <1> DEFINE c == g[n]
  <1>6. Keeps(b, c, views) /\ EndsWithin(c, 0)
    <2>1. n \in 0 .. n /\ n - n = 0
      BY <1>0
    <2> QED BY <1>5, <2>1 DEF G
  <1>7. BookInv(c)
    BY <1>6 DEF Keeps
  <1> HIDE DEF c
  <1> DEFINE size == Len(c.openPlanList)
             at == c.markCursor
  <1>8. size \in Nat /\ at \in Nat /\ c.openPlans = size
    BY <1>7, LenProperties DEF BookInv, Counted, Slotted, Funds
  <1>9. CASE MarkedTo(c, at) /\ Less(size, at) <= 0
    <2>1. at >= size
      <3> HIDE DEF size, at
      <3> QED BY <1>8, <1>9 DEF Less
    <2>2. MarkedTo(c, size)
      BY <1>8, <1>9, <2>1 DEF MarkedTo
    <2> QED BY <1>2, <1>7, <2>2, MarkedToTheEnd DEF c, n
  <1>10. CASE Less(size, at) + size <= 0
    <2>1. size = 0
      <3> HIDE DEF size, at
      <3> QED BY <1>8, <1>10 DEF Less
    <2>2. MarkedTo(c, size)
      BY <2>1 DEF MarkedTo
    <2> QED BY <1>2, <1>7, <2>2, MarkedToTheEnd DEF c, n
  <1>11. CASE MarkComplete(c)
    BY <1>2, <1>11 DEF c, n
  <1> QED BY <1>6, <1>9, <1>10, <1>11 DEF EndsWithin

---------------------------------------------------------------------------
(* Fronting a plan. *)

\* What fronting writes.
FrontMoves(b, c, k) ==
    LET terms == Terms[k]
    IN  /\ c.bookedReceivables = b.bookedReceivables + terms.principal
        /\ c.deferredIncome = b.deferredIncome + (terms.mdr - terms.escrow)
        /\ c.merchantExposure
             = [b.merchantExposure EXCEPT ![terms.merchant] = @ + terms.principal]
        /\ c.corridorExposure
             = [b.corridorExposure EXCEPT ![terms.corridor] = @ + terms.principal]
        /\ c.openPlanSlot = [b.openPlanSlot EXCEPT ![k] = Len(b.openPlanList)]
        /\ c.openPlanList = Append(b.openPlanList, k)
        /\ c.openPlans = b.openPlans + 1
        /\ c.markedThisEpoch = b.markedThisEpoch + 1
        /\ c.unmarkedDelinquencies = b.unmarkedDelinquencies
        /\ c.epoch = b.epoch /\ c.markCursor = b.markCursor
        /\ c.deployedAssets = b.deployedAssets
        /\ c.reserve = b.reserve /\ c.assets = b.assets
        /\ c.seniorAccrued = b.seniorAccrued
        /\ SameProvisions(b, c)
        /\ c.books[k].deferredIncome = terms.mdr - terms.escrow
        /\ c.books[k].unmarked = FALSE /\ c.books[k].markedEpoch = b.epoch

LEMMA FrontedFields ==
    ASSUME NEW b, Shaped(b), NEW k \in Plans
    PROVE  FrontMoves(b, Fronted(b, k), k)
  <1> DEFINE paper == [fronted |-> TRUE, carrying |-> Terms[k].principal,
                       recognisedInflow |-> 0,
                       deferredIncome |-> Terms[k].mdr - Terms[k].escrow,
                       open |-> TRUE, unmarked |-> FALSE, markedEpoch |-> b.epoch]
             mid == [b EXCEPT
                 !.books[k] = paper,
                 !.bookedCash = @ - CashOut(k), !.balance = @ - CashOut(k),
                 !.bookedReceivables = @ + Terms[k].principal,
                 !.deferredIncome = @ + Terms[k].mdr - Terms[k].escrow]
             sized == [mid EXCEPT
                 !.merchantExposure[Terms[k].merchant] = @ + Terms[k].principal,
                 !.corridorExposure[Terms[k].corridor] = @ + Terms[k].principal]
             c == Fronted(b, k)
  <1>1. c = [sized EXCEPT !.openPlanSlot[k] = Len(b.openPlanList),
                          !.openPlanList = Append(@, k),
                          !.openPlans = @ + 1, !.markedThisEpoch = @ + 1]
    BY DEF Fronted
  <1> HIDE DEF c, paper
  <1>2. /\ mid = [f \in BookFields |-> mid[f]]
        /\ mid.bookedReceivables = b.bookedReceivables + Terms[k].principal
        /\ mid.deferredIncome = b.deferredIncome + (Terms[k].mdr - Terms[k].escrow)
    BY DEF Shaped, BookFields
  <1>3. /\ mid.merchantExposure = b.merchantExposure
        /\ mid.corridorExposure = b.corridorExposure
        /\ mid.openPlanSlot = b.openPlanSlot /\ mid.openPlanList = b.openPlanList
        /\ mid.openPlans = b.openPlans /\ mid.markedThisEpoch = b.markedThisEpoch
    BY DEF Shaped, BookFields
  <1>4. /\ mid.unmarkedDelinquencies = b.unmarkedDelinquencies
        /\ mid.epoch = b.epoch /\ mid.markCursor = b.markCursor
        /\ mid.deployedAssets = b.deployedAssets
        /\ mid.reserve = b.reserve /\ mid.assets = b.assets
        /\ mid.seniorAccrued = b.seniorAccrued
    BY DEF Shaped, BookFields
  <1>5. SameProvisions(b, mid)
    BY DEF Shaped, BookFields, SameProvisions
  <1> HIDE DEF mid
  <1>6. /\ sized = [f \in BookFields |-> sized[f]]
        /\ sized.merchantExposure
             = [mid.merchantExposure EXCEPT ![Terms[k].merchant] = @ + Terms[k].principal]
        /\ sized.corridorExposure
             = [mid.corridorExposure EXCEPT ![Terms[k].corridor] = @ + Terms[k].principal]
    BY <1>2 DEF BookFields
  <1>7. /\ sized.bookedReceivables = mid.bookedReceivables
        /\ sized.deferredIncome = mid.deferredIncome
        /\ sized.openPlanSlot = mid.openPlanSlot /\ sized.openPlanList = mid.openPlanList
        /\ sized.openPlans = mid.openPlans /\ sized.markedThisEpoch = mid.markedThisEpoch
    BY <1>2 DEF BookFields
  <1>8. /\ sized.unmarkedDelinquencies = mid.unmarkedDelinquencies
        /\ sized.epoch = mid.epoch /\ sized.markCursor = mid.markCursor
        /\ sized.deployedAssets = mid.deployedAssets
        /\ sized.reserve = mid.reserve /\ sized.assets = mid.assets
        /\ sized.seniorAccrued = mid.seniorAccrued
    BY <1>2 DEF BookFields
  <1>9. SameProvisions(mid, sized)
    BY <1>2 DEF BookFields, SameProvisions
  <1> HIDE DEF sized
  <1>10. /\ c.openPlanSlot = [sized.openPlanSlot EXCEPT ![k] = Len(b.openPlanList)]
         /\ c.openPlanList = Append(sized.openPlanList, k)
         /\ c.openPlans = sized.openPlans + 1
         /\ c.markedThisEpoch = sized.markedThisEpoch + 1
    BY <1>1, <1>6 DEF BookFields
  <1>11. /\ c.bookedReceivables = sized.bookedReceivables
         /\ c.deferredIncome = sized.deferredIncome
         /\ c.merchantExposure = sized.merchantExposure
         /\ c.corridorExposure = sized.corridorExposure
    BY <1>1, <1>6 DEF BookFields
  <1>12. /\ c.unmarkedDelinquencies = sized.unmarkedDelinquencies
         /\ c.epoch = sized.epoch /\ c.markCursor = sized.markCursor
         /\ c.deployedAssets = sized.deployedAssets
         /\ c.reserve = sized.reserve /\ c.assets = sized.assets
         /\ c.seniorAccrued = sized.seniorAccrued
    BY <1>1, <1>6 DEF BookFields
  <1>13. SameProvisions(sized, c)
    BY <1>1, <1>6 DEF BookFields, SameProvisions
  <1>14. SameProvisions(b, c)
    BY <1>5, <1>9, <1>13 DEF SameProvisions
  <1>15. /\ c.bookedReceivables = b.bookedReceivables + Terms[k].principal
         /\ c.deferredIncome = b.deferredIncome + (Terms[k].mdr - Terms[k].escrow)
    BY <1>2, <1>7, <1>11
  <1>16. /\ c.merchantExposure
              = [b.merchantExposure EXCEPT ![Terms[k].merchant] = @ + Terms[k].principal]
         /\ c.corridorExposure
              = [b.corridorExposure EXCEPT ![Terms[k].corridor] = @ + Terms[k].principal]
    BY <1>3, <1>6, <1>11
  <1>17. /\ c.openPlanSlot = [b.openPlanSlot EXCEPT ![k] = Len(b.openPlanList)]
         /\ c.openPlanList = Append(b.openPlanList, k)
         /\ c.openPlans = b.openPlans + 1 /\ c.markedThisEpoch = b.markedThisEpoch + 1
    BY <1>3, <1>7, <1>10
  <1>18. /\ c.unmarkedDelinquencies = b.unmarkedDelinquencies
         /\ c.epoch = b.epoch /\ c.markCursor = b.markCursor
         /\ c.deployedAssets = b.deployedAssets
         /\ c.reserve = b.reserve /\ c.assets = b.assets
         /\ c.seniorAccrued = b.seniorAccrued
    BY <1>4, <1>8, <1>12
  <1>19. /\ c.books[k].deferredIncome = Terms[k].mdr - Terms[k].escrow
         /\ c.books[k].unmarked = FALSE /\ c.books[k].markedEpoch = b.epoch
    <2>1. c.books = [b.books EXCEPT ![k] = paper]
      BY DEF Fronted, Shaped, BookFields, c, paper
    <2>2. c.books[k] = paper
      BY <2>1 DEF Shaped
    <2> QED BY <2>2 DEF paper
  <1>20. FrontMoves(b, c, k)
    BY <1>14, <1>15, <1>16, <1>17, <1>18, <1>19 DEF FrontMoves
  <1> QED BY <1>20 DEF c

LEMMA FrontedKeeps ==
    ASSUME NEW b, BookInv(b), NEW views, Told(b, views), NEW k \in Plans, CanFront(b, k)
    PROVE  Keeps(b, Fronted(b, k), views)
  <1> DEFINE c == Fronted(b, k)
             terms == Terms[k]
  <1>1. /\ Shaped(b) /\ Claimants(b) /\ Funds(b) /\ Papers(b) /\ Sums(b)
        /\ Provided(b) /\ OnlyOpenHeld(b) /\ Counted(b)
    BY DEF BookInv
  <1>2. FrontMoves(b, c, k) /\ FrontedAs(b, c, k)
    BY <1>1, FrontedFields, FrontedPaper
  <1> HIDE DEF c
  <1>3. /\ Shaped(c) /\ OthersKept(b, c, k)
        /\ c.balance = b.balance - CashOut(k) /\ c.bookedCash = b.bookedCash - CashOut(k)
        /\ c.books[k].fronted = TRUE /\ c.books[k].open = TRUE
        /\ c.books[k].recognisedInflow = 0 /\ c.books[k].carrying = terms.principal
    BY <1>2 DEF FrontedAs
  <1>4. /\ c.epoch = b.epoch /\ c.markCursor = b.markCursor
        /\ c.deployedAssets = b.deployedAssets
        /\ c.reserve = b.reserve /\ c.assets = b.assets
        /\ c.seniorAccrued = b.seniorAccrued /\ SameProvisions(b, c)
        /\ c.books[k].deferredIncome = terms.mdr - terms.escrow
        /\ c.books[k].unmarked = FALSE /\ c.books[k].markedEpoch = b.epoch
    BY <1>2 DEF FrontMoves
  <1>5. /\ terms.principal \in Nat /\ terms.mdr \in Nat /\ terms.escrow \in Nat
        /\ terms.escrow <= terms.mdr /\ terms.mdr <= terms.principal
        /\ CashOut(k) \in Nat /\ CashOut(k) <= b.bookedCash
    BY PoolTermsAssumption DEF CashOut, CanFront
  <1>6. b.books[k].fronted = FALSE /\ b.books[k].open = FALSE
    BY <1>1 DEF CanFront, Papers, PaperOK
  <1>7. /\ b.books[k].carrying = 0 /\ b.books[k].deferredIncome = 0
        /\ b.books[k].recognisedInflow = 0
    BY <1>1, <1>6 DEF Papers, PaperOK
  <1>8. b.epoch \in Nat
    BY <1>1, PoolParamsAssumption DEF Funds, Epochs
  <1>9. Papers(c)
    <2>1. PaperOK(c.books[k], c.epoch)
      <3> DEFINE q == c.books[k]
      <3>1. q.fronted = TRUE /\ q.open = TRUE /\ q.unmarked = FALSE
        BY <1>3, <1>4
      <3>2. q.carrying \in Nat /\ q.deferredIncome \in Nat /\ q.recognisedInflow \in Nat
        BY <1>3, <1>4, <1>5
      <3>3. q.markedEpoch \in 0 .. c.epoch
        BY <1>4, <1>8
      <3> HIDE DEF q
      <3>4. PaperOK(q, c.epoch)
        BY <3>1, <3>2, <3>3, Zenon DEF PaperOK
      <3> QED BY <3>4 DEF q
    <2>2. \A j \in Plans : j # k => PaperOK(c.books[j], c.epoch)
      BY <1>1, <1>3, <1>4 DEF Papers, OthersKept
    <2> QED BY <2>1, <2>2 DEF Papers
  <1>10. PaperTypes(b) /\ PaperTypes(c)
    BY <1>1, <1>9 DEF Papers, PaperOK, PaperTypes
  <1>11. TotalsMove(b, c, k)
    <2> DEFINE more == c.books[k].carrying - b.books[k].carrying
               moreIncome == c.books[k].deferredIncome - b.books[k].deferredIncome
    <2>1. more = terms.principal /\ moreIncome = terms.mdr - terms.escrow
      BY <1>3, <1>4, <1>5, <1>7
    <2> HIDE DEF more, moreIncome
    <2>2. /\ c.bookedReceivables = b.bookedReceivables + more
          /\ c.deferredIncome = b.deferredIncome + moreIncome
      BY <1>2, <2>1 DEF FrontMoves
    <2>3. /\ \A m \in Merchants : b.merchantExposure[m] \in Nat
          /\ \A y \in Corridors : b.corridorExposure[y] \in Nat
      BY <1>1, <1>10, PaperTotals
    <2>4. c.merchantExposure
             = [m \in Merchants |-> b.merchantExposure[m]
                                      + (IF Terms[k].merchant = m THEN more ELSE 0)]
      <3>1. c.merchantExposure = [b.merchantExposure EXCEPT ![terms.merchant] = @ + more]
        BY <1>2, <2>1 DEF FrontMoves
      <3>2. b.merchantExposure = [m \in Merchants |-> b.merchantExposure[m]]
        BY <1>1 DEF Sums
      <3>3. \A m \in Merchants : b.merchantExposure[m] + 0 = b.merchantExposure[m]
        BY <2>3
      <3> HIDE DEF terms
      <3>4. \A m \in Merchants : c.merchantExposure[m] = b.merchantExposure[m]
                                      + (IF Terms[k].merchant = m THEN more ELSE 0)
        BY <3>1, <3>2, <3>3 DEF terms
      <3>5. c.merchantExposure = [m \in Merchants |-> c.merchantExposure[m]]
        BY <3>1, <3>2
      <3> QED BY <3>4, <3>5
    <2>5. c.corridorExposure
             = [y \in Corridors |-> b.corridorExposure[y]
                                      + (IF Terms[k].corridor = y THEN more ELSE 0)]
      <3>1. c.corridorExposure = [b.corridorExposure EXCEPT ![terms.corridor] = @ + more]
        BY <1>2, <2>1 DEF FrontMoves
      <3>2. b.corridorExposure = [y \in Corridors |-> b.corridorExposure[y]]
        BY <1>1 DEF Sums
      <3>3. \A y \in Corridors : b.corridorExposure[y] + 0 = b.corridorExposure[y]
        BY <2>3
      <3>4. \A y \in Corridors : c.corridorExposure[y] = b.corridorExposure[y]
                                      + (IF Terms[k].corridor = y THEN more ELSE 0)
        BY <3>1, <3>2, <3>3 DEF terms
      <3>5. c.corridorExposure = [y \in Corridors |-> c.corridorExposure[y]]
        BY <3>1, <3>2
      <3> QED BY <3>4, <3>5
    <2> QED BY <2>2, <2>4, <2>5 DEF TotalsMove, more, moreIncome
  <1>12. Sums(c)
    BY <1>1, <1>3, <1>10, <1>11, SumsFollow
  <1>13. Provided(c) /\ OnlyOpenHeld(c)
    <2>1. Provided(c)
      BY <1>1, <1>4, ProvisionsStay
    <2>2. OnlyOpenHeld(c)
      BY <1>1, <1>3, <1>4 DEF OnlyOpenHeld, SameProvisions, OthersKept
    <2> QED BY <2>1, <2>2
  <1>14. Claimants(c)
    BY <1>1, <1>4 DEF Claimants
  <1>15. Funds(c)
    <2>1. c.bookedCash \in Nat /\ c.balance \in Int
      BY <1>1, <1>3, <1>5 DEF Funds
    <2> QED BY <1>1, <1>4, <2>1 DEF Funds
  <1>16. Counted(c)
    <2>1. OpenOf(c) = OpenOf(b) \cup {k} /\ k \notin OpenOf(b) /\ OpenOf(b) \subseteq Plans
      BY <1>3, <1>6 DEF OpenOf, OthersKept
    <2>2. Slotted(b.openPlanList, b.openPlanSlot, OpenOf(b))
      BY <1>1 DEF Counted
    <2>3. Slotted(c.openPlanList, c.openPlanSlot, OpenOf(c))
      <3>1. Slotted(Append(b.openPlanList, k),
                    [b.openPlanSlot EXCEPT ![k] = Len(b.openPlanList)], OpenOf(b) \cup {k})
        BY <2>1, <2>2, SlotAdded
      <3> QED BY <1>2, <2>1, <3>1 DEF FrontMoves
    <2>4. c.openPlans = Len(c.openPlanList)
      <3>1. b.openPlans = Len(b.openPlanList) /\ b.openPlanList \in Seq(Plans)
        BY <1>1, <2>2 DEF Counted, Slotted
      <3>2. Len(Append(b.openPlanList, k)) = Len(b.openPlanList) + 1
        BY <3>1, AppendProperties
      <3> QED BY <1>2, <3>1, <3>2 DEF FrontMoves
    <2>5. c.markedThisEpoch = Cardinality(MarkedOf(c))
      <3>1. /\ MarkedOf(b) \in SUBSET Plans /\ MarkedOf(c) \in SUBSET Plans
            /\ \A j \in Plans : j # k => (j \in MarkedOf(b) <=> j \in MarkedOf(c))
            /\ k \notin MarkedOf(b) /\ k \in MarkedOf(c)
        BY <1>3, <1>4, <1>6 DEF MarkedOf, OthersKept
      <3>2. /\ Cardinality(MarkedOf(b)) \in Nat
            /\ Cardinality(MarkedOf(c)) = Cardinality(MarkedOf(b))
                - (IF k \in MarkedOf(b) THEN 1 ELSE 0) + (IF k \in MarkedOf(c) THEN 1 ELSE 0)
        BY <3>1, CountMoves
      <3>3. /\ b.markedThisEpoch = Cardinality(MarkedOf(b))
            /\ c.markedThisEpoch = b.markedThisEpoch + 1
        BY <1>1, <1>2 DEF Counted, FrontMoves
      <3> QED BY <3>1, <3>2, <3>3
    <2>6. c.unmarkedDelinquencies = Cardinality(UnmarkedOf(c))
      <3>1. UnmarkedOf(c) = UnmarkedOf(b)
        BY <1>3, <1>4, <1>6 DEF UnmarkedOf, OthersKept
      <3>2. c.unmarkedDelinquencies = b.unmarkedDelinquencies
        BY <1>2 DEF FrontMoves
      <3> QED BY <1>1, <3>1, <3>2 DEF Counted
    <2> QED BY <2>3, <2>4, <2>5, <2>6 DEF Counted
  <1>17. BookInv(c)
    BY <1>3, <1>9, <1>12, <1>13, <1>14, <1>15, <1>16 DEF BookInv
  <1>18. Told(c, views)
    <2>1. Tells(b, k, views[k]) /\ views[k] = Opening(Terms[k])
      BY <1>6 DEF Told, Tells
    <2>2. Tells(c, k, views[k])
      <3>1. views[k].outstanding = terms.principal /\ views[k].forwarded = 0
        BY <2>1 DEF Opening
      <3> QED BY <1>3, <1>5, <2>1, <3>1 DEF Tells
    <2>3. \A j \in Plans : j # k => Tells(c, j, views[j])
      BY <1>3 DEF Told, Tells, OthersKept
    <2> QED BY <2>2, <2>3 DEF Told
  <1>19. Lenders(c, views) = Lenders(b, views)
    <2>1. \A j \in Plans : c.books[j].recognisedInflow = b.books[j].recognisedInflow
      BY <1>3, <1>7 DEF OthersKept
    <2>2. Unrecognised(c, views) = Unrecognised(b, views)
      BY <2>1 DEF Unrecognised
    <2>3. c.balance - c.bookedCash = b.balance - b.bookedCash
      BY <1>1, <1>3, <1>5 DEF Funds
    <2> QED BY <2>2, <2>3 DEF Lenders
  <1> QED BY <1>4, <1>17, <1>18, <1>19 DEF Keeps, c

---------------------------------------------------------------------------
(* The steps that move cash and claims and leave the plans alone. *)

Moves(b, c) ==
    /\ Shaped(c) /\ SameTotals(b, c) /\ SameProvisions(b, c) /\ SameCounts(b, c)
    /\ Claimants(c) /\ Funds(c)

LEMMA MovesKeepTheBook ==
    ASSUME NEW b, BookInv(b), NEW c, Moves(b, c), NEW views, Told(b, views)
    PROVE  /\ BookInv(c) /\ Told(c, views) /\ c.epoch = b.epoch
           /\ Lenders(c, views) = Lenders(b, views) + (c.balance - b.balance)
                                                    - (c.bookedCash - b.bookedCash)
  <1>1. /\ Shaped(c) /\ SameTotals(b, c) /\ SameProvisions(b, c) /\ SameCounts(b, c)
        /\ Claimants(c) /\ Funds(c)
    BY DEF Moves
  <1>2. BookInv(c)
    BY <1>1, BookMoves
  <1>3. c.books = b.books /\ c.epoch = b.epoch
    BY <1>1 DEF SameTotals, SameCounts
  <1>4. Told(c, views)
    BY <1>3, ToldStays
  <1>5. Unrecognised(c, views) = Unrecognised(b, views)
    BY <1>3 DEF Unrecognised
  <1>6. SumOver(Unrecognised(b, views), Plans) \in Int
    <2> DEFINE f == Unrecognised(b, views)
    <2>1. \A j \in Plans : f[j] \in Int
      BY DEF Unrecognised, Told, Tells, BookInv, Papers, PaperOK
    <2> HIDE DEF f
    <2>2. SumOver(f, Plans) \in Int
      BY <2>1, PoolPartiesAssumption, SumIsInt
    <2> QED BY <2>2 DEF f
  <1>7. /\ b.balance \in Int /\ b.bookedCash \in Int /\ c.balance \in Int
        /\ c.bookedCash \in Int
    BY <1>1 DEF BookInv, Funds
  <1>8. Lenders(c, views) = Lenders(b, views) + (c.balance - b.balance)
                                              - (c.bookedCash - b.bookedCash)
    <2> DEFINE s == SumOver(Unrecognised(b, views), Plans)
    <2>1. /\ Lenders(b, views) = b.balance - b.bookedCash - s
          /\ Lenders(c, views) = c.balance - c.bookedCash - s
      BY <1>5 DEF Lenders
    <2>2. s \in Int
      BY <1>6
    <2> HIDE DEF s
    <2> QED BY <1>7, <2>1, <2>2
  <1> QED BY <1>2, <1>3, <1>4, <1>8

LEMMA MovesTransitive ==
    ASSUME NEW b, NEW c, NEW d, Moves(b, c), Moves(c, d)
    PROVE  Moves(b, d)
  BY DEF Moves, SameTotals, SameProvisions, SameCounts

LEMMA MovesNothing == ASSUME NEW b, BookInv(b) PROVE Moves(b, b)
  BY DEF Moves, SameTotals, SameProvisions, SameCounts, BookInv

\* What a step that rewrites only cash, balance, deployed assets, accrual and
\* claims leaves as it was.
Untouched(b, c) == SameTotals(b, c) /\ SameProvisions(b, c) /\ SameCounts(b, c)

LEMMA UntouchedMoves ==
    ASSUME NEW b, Shaped(b), NEW c, c = [f \in BookFields |-> c[f]],
           Untouched(b, c), Claimants(c), Funds(c)
    PROVE  Moves(b, c)
  BY DEF Untouched, Moves, SameTotals, Shaped

LEMMA BalanceMoves ==
    ASSUME NEW b, BookInv(b), NEW n \in Int
    PROVE  LET c == [b EXCEPT !.balance = n]
           IN  /\ Moves(b, c) /\ c.balance = n /\ c.bookedCash = b.bookedCash
               /\ c.deployedAssets = b.deployedAssets
  <1> DEFINE c == [b EXCEPT !.balance = n]
  <1>1. Shaped(b) /\ Claimants(b) /\ Funds(b)
    BY DEF BookInv
  <1>2. /\ c = [f \in BookFields |-> c[f]] /\ c.balance = n
        /\ c.bookedCash = b.bookedCash /\ c.epoch = b.epoch
        /\ c.deployedAssets = b.deployedAssets /\ c.markCursor = b.markCursor
        /\ c.seniorAccrued = b.seniorAccrued
        /\ c.reserve = b.reserve /\ c.assets = b.assets
    BY <1>1 DEF Shaped, BookFields
  <1>3. SameTotals(b, c)
    BY <1>1 DEF Shaped, BookFields, SameTotals
  <1>4. SameProvisions(b, c)
    BY <1>1 DEF Shaped, BookFields, SameProvisions
  <1>5. SameCounts(b, c)
    BY <1>1 DEF Shaped, BookFields, SameCounts
  <1> HIDE DEF c
  <1>6. Claimants(c) /\ Funds(c)
    BY <1>1, <1>2 DEF Claimants, Funds
  <1>7. Moves(b, c)
    BY <1>1, <1>2, <1>3, <1>4, <1>5, <1>6, UntouchedMoves DEF Untouched
  <1> QED BY <1>2, <1>7 DEF c

LEMMA ReserveMoves ==
    ASSUME NEW b, BookInv(b), NEW amount \in Nat
    PROVE  LET c == ReserveFunded(b, amount)
           IN  /\ Moves(b, c) /\ c.balance = b.balance + amount
               /\ c.bookedCash = b.bookedCash + amount
               /\ c.deployedAssets = b.deployedAssets
  <1> DEFINE c == ReserveFunded(b, amount)
  <1>1. Shaped(b) /\ Claimants(b) /\ Funds(b)
    BY DEF BookInv
  <1>2. /\ c = [f \in BookFields |-> c[f]] /\ c.balance = b.balance + amount
        /\ c.bookedCash = b.bookedCash + amount /\ c.epoch = b.epoch
        /\ c.deployedAssets = b.deployedAssets /\ c.markCursor = b.markCursor
        /\ c.seniorAccrued = b.seniorAccrued
        /\ c.reserve = b.reserve + amount /\ c.assets = b.assets
    BY <1>1 DEF ReserveFunded, Shaped, BookFields
  <1>3. SameTotals(b, c)
    BY <1>1 DEF ReserveFunded, Shaped, BookFields, SameTotals
  <1>4. SameProvisions(b, c)
    BY <1>1 DEF ReserveFunded, Shaped, BookFields, SameProvisions
  <1>5. SameCounts(b, c)
    BY <1>1 DEF ReserveFunded, Shaped, BookFields, SameCounts
  <1> HIDE DEF c
  <1>6. Claimants(c) /\ Funds(c)
    <2>1. c.reserve \in Nat /\ c.bookedCash \in Nat /\ c.balance \in Int
      BY <1>1, <1>2 DEF Claimants, Funds
    <2>2. Claimants(c)
      BY <1>1, <1>2, <2>1 DEF Claimants
    <2>3. Funds(c)
      BY <1>1, <1>2, <2>1 DEF Funds
    <2> QED BY <2>2, <2>3
  <1>7. Moves(b, c)
    BY <1>1, <1>2, <1>3, <1>4, <1>5, <1>6, UntouchedMoves DEF Untouched
  <1> QED BY <1>2, <1>7 DEF c

\* The claim of a tranche and the cash are rewritten.
ClaimBecomes(b, c, t, n, cash, kept) ==
    c = [b EXCEPT !.bookedCash = cash, !.assets[t] = n, !.balance = kept]

ClaimMoved(b, c, t, n, cash, kept) ==
    /\ Moves(b, c) /\ c.bookedCash = cash /\ c.balance = kept
    /\ c.deployedAssets = b.deployedAssets /\ c.reserve = b.reserve
    /\ c.assets = [b.assets EXCEPT ![t] = n]

LEMMA ClaimMoves ==
    ASSUME NEW b, BookInv(b), NEW t \in Tranche, NEW n \in Nat, NEW cash \in Nat,
           NEW kept \in Int,
           NEW c, ClaimBecomes(b, c, t, n, cash, kept)
    PROVE  ClaimMoved(b, c, t, n, cash, kept)
  <1>1. Shaped(b) /\ Claimants(b) /\ Funds(b)
    BY DEF BookInv
  <1>2. /\ c = [f \in BookFields |-> c[f]] /\ c.balance = kept
        /\ c.bookedCash = cash /\ c.epoch = b.epoch
        /\ c.deployedAssets = b.deployedAssets /\ c.markCursor = b.markCursor
        /\ c.seniorAccrued = b.seniorAccrued /\ c.reserve = b.reserve
        /\ c.assets = [b.assets EXCEPT ![t] = n]
    BY <1>1 DEF ClaimBecomes, Shaped, BookFields
  <1>3. SameTotals(b, c)
    BY <1>1 DEF ClaimBecomes, Shaped, BookFields, SameTotals
  <1>4. SameProvisions(b, c)
    BY <1>1 DEF ClaimBecomes, Shaped, BookFields, SameProvisions
  <1>5. SameCounts(b, c)
    BY <1>1 DEF ClaimBecomes, Shaped, BookFields, SameCounts
  <1>6. Claimants(c)
    <2>1. /\ b.assets = [u \in Tranche |-> b.assets[u]]
          /\ b.assets["Junior"] \in Nat /\ b.assets["Senior"] \in Nat
          /\ t = "Junior" \/ t = "Senior"
      BY <1>1 DEF Claimants, Tranche
    <2>2. c.assets = [u \in Tranche |-> c.assets[u]]
      BY <1>2, <2>1
    <2>3. \A u \in Tranche : c.assets[u] = IF u = t THEN n ELSE b.assets[u]
      BY <1>2, <2>1
    <2>4. "Junior" \in Tranche /\ "Senior" \in Tranche
      BY DEF Tranche
    <2>6. c.assets["Junior"] \in Nat /\ c.assets["Senior"] \in Nat
      BY <2>1, <2>3, <2>4
    <2> QED BY <1>1, <1>2, <2>2, <2>6 DEF Claimants
  <1>7. Funds(c)
    BY <1>1, <1>2 DEF Funds
  <1>8. Moves(b, c)
    <2>1. Untouched(b, c)
      BY <1>3, <1>4, <1>5 DEF Untouched
    <2>2. c = [f \in BookFields |-> c[f]]
      BY <1>2
    <2> QED BY <1>1, <1>6, <1>7, <2>1, <2>2, UntouchedMoves, Zenon
  <1> QED BY <1>2, <1>8 DEF ClaimMoved

\* Cash, balance and deployed assets are rewritten, and no claim is.
BufferBecomes(b, c, cash, out, kept) ==
    c = [b EXCEPT !.bookedCash = cash, !.deployedAssets = out, !.balance = kept]

BufferMoved(b, c, cash, out, kept) ==
    Moves(b, c) /\ c.bookedCash = cash /\ c.balance = kept /\ c.deployedAssets = out

LEMMA BufferMoves ==
    ASSUME NEW b, BookInv(b), NEW cash \in Nat, NEW out \in Nat, NEW kept \in Int,
           NEW c, BufferBecomes(b, c, cash, out, kept)
    PROVE  BufferMoved(b, c, cash, out, kept)
  <1>1. Shaped(b) /\ Claimants(b) /\ Funds(b)
    BY DEF BookInv
  <1>2. /\ c = [f \in BookFields |-> c[f]] /\ c.balance = kept
        /\ c.bookedCash = cash /\ c.epoch = b.epoch
        /\ c.deployedAssets = out /\ c.markCursor = b.markCursor
        /\ c.seniorAccrued = b.seniorAccrued
        /\ c.reserve = b.reserve /\ c.assets = b.assets
    BY <1>1 DEF BufferBecomes, Shaped, BookFields
  <1>3. SameTotals(b, c)
    BY <1>1 DEF BufferBecomes, Shaped, BookFields, SameTotals
  <1>4. SameProvisions(b, c)
    BY <1>1 DEF BufferBecomes, Shaped, BookFields, SameProvisions
  <1>5. SameCounts(b, c)
    BY <1>1 DEF BufferBecomes, Shaped, BookFields, SameCounts
  <1>6. Claimants(c) /\ Funds(c)
    BY <1>1, <1>2 DEF Claimants, Funds
  <1>7. Moves(b, c)
    BY <1>1, <1>2, <1>3, <1>4, <1>5, <1>6, UntouchedMoves DEF Untouched
  <1> QED BY <1>2, <1>7 DEF BufferMoved

LEMMA ClaimsOnlyMoves ==
    ASSUME NEW b, BookInv(b), NEW c, ClaimsOnly(b, c)
    PROVE  /\ Moves(b, c) /\ c.bookedCash = b.bookedCash /\ c.balance = b.balance
           /\ c.deployedAssets = b.deployedAssets
  <1>1. /\ Shaped(c) /\ SamePaper(b, c) /\ SameProvisions(b, c)
        /\ Claimants(c) /\ Accruals(c)
    BY DEF ClaimsOnly
  <1>2. SameTotals(b, c) /\ SameCounts(b, c)
    BY <1>1 DEF SamePaper, SameTotals, SameCounts
  <1>3. /\ c.bookedCash = b.bookedCash /\ c.balance = b.balance
        /\ c.deployedAssets = b.deployedAssets /\ c.epoch = b.epoch
        /\ c.markCursor = b.markCursor
    BY <1>1 DEF SamePaper
  <1>4. Funds(c)
    BY <1>1, <1>3 DEF BookInv, Funds, Accruals
  <1> QED BY <1>1, <1>2, <1>3, <1>4 DEF Moves

\* The next epoch: nothing is marked in it, and every mark there is is older.
LEMMA EpochMoves ==
    ASSUME NEW b, BookInv(b), NEW views, Told(b, views), b.epoch + 1 \in Epochs
    PROVE  LET c == [b EXCEPT !.epoch = @ + 1, !.markedThisEpoch = 0, !.markCursor = 0]
           IN  /\ BookInv(c) /\ Told(c, views) /\ Lenders(c, views) = Lenders(b, views)
               /\ c.epoch = b.epoch + 1 /\ c.bookedCash = b.bookedCash
               /\ c.deployedAssets = b.deployedAssets
  <1> DEFINE c == [b EXCEPT !.epoch = @ + 1, !.markedThisEpoch = 0, !.markCursor = 0]
  <1>1. /\ Shaped(b) /\ Claimants(b) /\ Funds(b) /\ Papers(b) /\ Sums(b)
        /\ Provided(b) /\ OnlyOpenHeld(b) /\ Counted(b)
    BY DEF BookInv
  <1>2. /\ c = [f \in BookFields |-> c[f]] /\ c.epoch = b.epoch + 1
        /\ c.markedThisEpoch = 0 /\ c.markCursor = 0
        /\ c.balance = b.balance /\ c.bookedCash = b.bookedCash
        /\ c.deployedAssets = b.deployedAssets
        /\ c.seniorAccrued = b.seniorAccrued
        /\ c.reserve = b.reserve /\ c.assets = b.assets
    BY <1>1 DEF Shaped, BookFields
  <1>3. SameTotals(b, c)
    BY <1>1 DEF Shaped, BookFields, SameTotals
  <1>4. SameProvisions(b, c)
    BY <1>1 DEF Shaped, BookFields, SameProvisions
  <1>5. /\ c.openPlanList = b.openPlanList /\ c.openPlanSlot = b.openPlanSlot
        /\ c.openPlans = b.openPlans
        /\ c.unmarkedDelinquencies = b.unmarkedDelinquencies
    BY <1>1 DEF Shaped, BookFields
  <1> HIDE DEF c
  <1>6. c.books = b.books /\ c.provisions = b.provisions /\ b.epoch \in Nat
    BY <1>1, <1>3, <1>4, PoolParamsAssumption
       DEF SameTotals, SameProvisions, Funds, Epochs
  <1>7. Shaped(c) /\ Claimants(c) /\ Funds(c)
    <2>1. Shaped(c)
      BY <1>1, <1>2, <1>6 DEF Shaped
    <2>2. Claimants(c)
      BY <1>1, <1>2 DEF Claimants
    <2>3. Funds(c)
      BY <1>1, <1>2, <1>6 DEF Funds
    <2> QED BY <2>1, <2>2, <2>3
  <1>8. Sums(c) /\ Provided(c)
    BY <1>1, <1>3, <1>4, SumsStay, ProvisionsStay
  <1>9. OnlyOpenHeld(c)
    BY <1>1, <1>6 DEF OnlyOpenHeld
  <1>10. \A j \in Plans : b.books[j].markedEpoch \in 0 .. b.epoch
    BY <1>1 DEF Papers, PaperOK
  <1>11. Papers(c)
    <2>1. ASSUME NEW j \in Plans PROVE PaperOK(c.books[j], c.epoch)
      <3> DEFINE p == b.books[j]
      <3>1. PaperOK(p, b.epoch) /\ c.books[j] = p
        BY <1>1, <1>6 DEF Papers
      <3>2. p.markedEpoch \in 0 .. c.epoch
        BY <1>2, <1>6, <1>10
      <3> HIDE DEF p
      <3>3. PaperOK(p, c.epoch)
        BY <3>1, <3>2, Zenon DEF PaperOK
      <3> QED BY <3>1, <3>3
    <2> QED BY <2>1 DEF Papers
  <1>12. Counted(c)
    <2>1. OpenOf(c) = OpenOf(b) /\ UnmarkedOf(c) = UnmarkedOf(b)
      BY <1>6 DEF OpenOf, UnmarkedOf
    <2>2. MarkedOf(c) = {}
      BY <1>2, <1>6, <1>10 DEF MarkedOf
    <2>3. Cardinality(MarkedOf(c)) = 0
      BY <2>2, FS_EmptySet
    <2> QED BY <1>1, <1>2, <1>5, <2>1, <2>3 DEF Counted
  <1>13. BookInv(c)
    BY <1>7, <1>8, <1>9, <1>11, <1>12 DEF BookInv
  <1>14. Told(c, views)
    BY <1>6, ToldStays
  <1>15. Lenders(c, views) = Lenders(b, views)
    BY <1>2, <1>6 DEF Lenders, Unrecognised
  <1> QED BY <1>2, <1>13, <1>14, <1>15 DEF c
=============================================================================
