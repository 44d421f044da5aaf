---------------------- MODULE TranchedCreditPoolProofs ----------------------
(***************************************************************************)
(* The book of the pool is right for any number of plans, any terms and    *)
(* any parameters: its totals are the sums of its plans, the list of open  *)
(* plans and the counters of the epoch crank are exact, every unit of its  *)
(* balance is explained, what lenders may still claim is there, and a      *)
(* close costs none of those who stay.                                     *)
(***************************************************************************)
EXTENDS TranchedCreditPool, PoolLogicProofs

---------------------------------------------------------------------------
(* The book, where the lender side moves it. *)

LEMMA AccrualMoves ==
    ASSUME NEW b, BookInv(b), NEW elapsed \in Nat
    PROVE  LET c == SeniorAccruedTo(b, elapsed)
           IN  /\ Moves(b, c) /\ c.bookedCash = b.bookedCash /\ c.balance = b.balance
               /\ c.deployedAssets = b.deployedAssets /\ c.assets = b.assets
               /\ c.reserve = b.reserve
  <1> DEFINE more == (b.assets["Senior"] * SeniorApyBps * elapsed) \div (Year * Bps)
             c == SeniorAccruedTo(b, elapsed)
  <1>1. Shaped(b) /\ Claimants(b) /\ Funds(b)
    BY DEF BookInv
  <1>2. more \in Nat
    <2> DEFINE n == b.assets["Senior"]
               x == n * SeniorApyBps
               y == x * elapsed
               d == Year * Bps
    <2>1. n \in Nat /\ SeniorApyBps \in Nat /\ Year \in Nat \ {0} /\ Bps \in Nat \ {0}
      BY <1>1, TrancheParamsAssumption, PoolParamsAssumption DEF Claimants
    <2>2. x \in Nat
      <3> HIDE DEF n
      <3> QED BY <2>1, Z3
    <2>3. y \in Nat
      <3> HIDE DEF x
      <3> QED BY <2>2, Z3
    <2>4. d \in Nat /\ d > 0
      BY <2>1, Z3
    <2> HIDE DEF y, d
    <2>5. y \div d \in Nat
      BY <2>3, <2>4, Z3
    <2> QED BY <2>5 DEF y, d, x, n
  <1>3. c = [b EXCEPT !.seniorAccrued = @ + more]
    BY DEF SeniorAccruedTo
  <1> HIDE DEF more
  <1>4. /\ c = [f \in BookFields |-> c[f]] /\ c.balance = b.balance
        /\ c.bookedCash = b.bookedCash /\ c.epoch = b.epoch
        /\ c.deployedAssets = b.deployedAssets /\ c.markCursor = b.markCursor
        /\ c.seniorAccrued = b.seniorAccrued + more
        /\ c.reserve = b.reserve /\ c.assets = b.assets
    BY <1>1, <1>3 DEF Shaped, BookFields
  <1>5. SameTotals(b, c)
    BY <1>1, <1>3 DEF Shaped, BookFields, SameTotals
  <1>6. SameProvisions(b, c)
    BY <1>1, <1>3 DEF Shaped, BookFields, SameProvisions
  <1>7. SameCounts(b, c)
    BY <1>1, <1>3 DEF Shaped, BookFields, SameCounts
  <1> HIDE DEF c
  <1>8. Claimants(c) /\ Funds(c)
    BY <1>1, <1>2, <1>4 DEF Claimants, Funds
  <1>9. Moves(b, c)
    BY <1>1, <1>4, <1>5, <1>6, <1>7, <1>8, UntouchedMoves DEF Untouched
  <1> QED BY <1>4, <1>9 DEF c

LEMMA VenueMoves ==
    ASSUME NEW b, BookInv(b), NEW value \in Nat
    PROVE  LET c == VenueSynced(b, value)
           IN  /\ Moves(b, c) /\ c.bookedCash = b.bookedCash /\ c.balance = b.balance
               /\ c.deployedAssets = value
  <1> DEFINE moved == [b EXCEPT !.deployedAssets = value]
             c == VenueSynced(b, value)
  <1>1. Shaped(b) /\ b.bookedCash \in Nat /\ b.balance \in Int /\ b.deployedAssets \in Nat
    BY DEF BookInv, Funds
  <1>2. moved = [b EXCEPT !.bookedCash = b.bookedCash, !.deployedAssets = value,
                          !.balance = b.balance]
    BY <1>1 DEF Shaped, BookFields
  <1>3. c = IF value >= b.deployedAssets
            THEN Distribute(moved, value - b.deployedAssets)
            ELSE AbsorbLoss(moved, b.deployedAssets - value)
    BY DEF VenueSynced
  <1> HIDE DEF moved
  <1>4. /\ Moves(b, moved) /\ moved.bookedCash = b.bookedCash
        /\ moved.balance = b.balance /\ moved.deployedAssets = value
    <2>1. BufferBecomes(b, moved, b.bookedCash, value, b.balance)
      BY <1>2 DEF BufferBecomes
    <2>2. BufferMoved(b, moved, b.bookedCash, value, b.balance)
      BY <1>1, <2>1, BufferMoves
    <2> QED BY <2>2 DEF BufferMoved
  <1>5. BookInv(moved)
    BY <1>4, BookMoves DEF Moves
  <1>6. Shaped(moved) /\ Claimants(moved) /\ Accruals(moved)
    BY <1>5 DEF BookInv, Funds, Accruals
  <1> HIDE DEF c
  <1>7. ClaimsOnly(moved, c)
    <2>1. CASE value >= b.deployedAssets
      <3>1. c = Distribute(moved, value - b.deployedAssets)
        BY <1>3, <2>1
      <3>2. value - b.deployedAssets \in Nat
        BY <1>1, <2>1
      <3> QED BY <1>6, <3>1, <3>2, DistributeClaims
    <2>2. CASE ~(value >= b.deployedAssets)
      <3>1. c = AbsorbLoss(moved, b.deployedAssets - value)
        BY <1>3, <2>2
      <3>2. b.deployedAssets - value \in Nat
        BY <1>1, <2>2
      <3> QED BY <1>6, <3>1, <3>2, LossClaims
    <2> QED BY <2>1, <2>2
  <1>8. /\ Moves(moved, c) /\ c.bookedCash = moved.bookedCash
        /\ c.balance = moved.balance /\ c.deployedAssets = moved.deployedAssets
    BY <1>5, <1>7, ClaimsOnlyMoves
  <1> QED BY <1>4, <1>8, MovesTransitive DEF c

---------------------------------------------------------------------------
(* Rounding. *)

LEMMA Quotient ==
    ASSUME NEW x \in Nat, NEW s \in Nat, s > 0
    PROVE  x \div s \in Nat /\ (x \div s) * s <= x /\ x < (x \div s + 1) * s
  BY Z3

LEMMA QuotientIsLeast ==
    ASSUME NEW x \in Nat, NEW s \in Nat, s > 0, NEW q \in Nat, x < (q + 1) * s
    PROVE  x \div s <= q
  BY Z3

LEMMA QuotientIsMost ==
    ASSUME NEW x \in Nat, NEW s \in Nat, s > 0, NEW q \in Nat, q * s <= x
    PROVE  q <= x \div s
  BY Z3

LEMMA QuotientGrows ==
    ASSUME NEW x \in Nat, NEW y \in Nat, x <= y, NEW s \in Nat, s > 0
    PROVE  x \div s <= y \div s
  BY Z3

\* `r` units out of a fill of `s` for which `a` was set aside, rounded up.
Worth(r, a, s) == (r * a + (s - 1)) \div s

\* Up is never below down, piece by piece.
LEMMA RoundedApart ==
    ASSUME NEW x \in Nat, NEW y \in Nat, NEW s \in Nat, s > 0
    PROVE  x \div s + (y + (s - 1)) \div s <= (x + y + (s - 1)) \div s
  <1> DEFINE z == y + (s - 1)
             p == x \div s
             q == z \div s
  <1>1. z \in Nat /\ x + z \in Nat /\ x + y + (s - 1) = x + z
    OBVIOUS
  <1> HIDE DEF z
  <1>2. p \in Nat /\ p * s <= x /\ q \in Nat /\ q * s <= z
    BY <1>1, Quotient
  <1> HIDE DEF p, q
  <1>3. (p + q) * s = p * s + q * s
    BY <1>2, Z3
  <1>4. (p + q) * s <= x + z
    <2> DEFINE ps == p * s
               qs == q * s
    <2>1. ps \in Int /\ qs \in Int
      BY <1>2, Z3
    <2> HIDE DEF ps, qs
    <2>2. ps + qs <= x + z
      BY <2>1, <1>1, <1>2 DEF ps, qs
    <2> QED BY <2>2, <1>3 DEF ps, qs
  <1>5. p + q \in Nat
    BY <1>2
  <1>6. p + q <= (x + z) \div s
    BY <1>1, <1>4, <1>5, QuotientIsMost
  <1> QED BY <1>1, <1>6 DEF p, q, z

\* Paying `x` units of a fill, rounded down, leaves the rest its worth.
LEMMA WorthSplits ==
    ASSUME NEW x \in Nat, NEW r \in Nat, NEW a \in Nat, NEW s \in Nat, s > 0
    PROVE  (x * a) \div s + Worth(r, a, s) <= Worth(x + r, a, s)
  <1>1. x * a \in Nat /\ r * a \in Nat /\ (x + r) * a = x * a + r * a
    BY Z3
  <1> DEFINE xa == x * a
             ra == r * a
  <1> HIDE DEF xa, ra
  <1>2. xa \div s + (ra + (s - 1)) \div s <= (xa + ra + (s - 1)) \div s
    BY <1>1, RoundedApart DEF xa, ra
  <1> QED BY <1>1, <1>2 DEF xa, ra, Worth

LEMMA WorthIsNat ==
    ASSUME NEW r \in Nat, NEW a \in Nat, NEW s \in Nat, s > 0
    PROVE  Worth(r, a, s) \in Nat
  <1>1. r * a \in Nat
    BY Z3
  <1>2. r * a + (s - 1) \in Nat
    BY <1>1
  <1> QED BY <1>2, Quotient DEF Worth

LEMMA WorthGrows ==
    ASSUME NEW r \in Nat, NEW q \in Nat, r <= q, NEW a \in Nat, NEW s \in Nat, s > 0
    PROVE  Worth(r, a, s) <= Worth(q, a, s)
  <1>1. r * a \in Nat /\ q * a \in Nat /\ r * a <= q * a
    BY Z3
  <1>2. r * a + (s - 1) \in Nat /\ q * a + (s - 1) \in Nat /\ r * a + (s - 1) <= q * a + (s - 1)
    BY <1>1
  <1> QED BY <1>2, QuotientGrows DEF Worth

\* All of a fill is worth what was set aside for it.
LEMMA WorthOfAll ==
    ASSUME NEW r \in Nat, NEW a \in Nat, NEW s \in Nat, s > 0, r <= s
    PROVE  Worth(r, a, s) <= a
  <1>1. s * a \in Nat /\ r * a \in Nat /\ r * a <= s * a /\ (a + 1) * s = s * a + s
    BY Z3
  <1> DEFINE ra == r * a
             sa == s * a
  <1>2. ra \in Nat /\ sa \in Nat /\ ra <= sa
    BY <1>1
  <1> HIDE DEF ra, sa
  <1>3. ra + (s - 1) \in Nat /\ ra + (s - 1) < sa + s
    BY <1>2
  <1>4. ra + (s - 1) < (a + 1) * s
    BY <1>3, <1>1 DEF sa
  <1> QED BY <1>3, <1>4, QuotientIsLeast DEF Worth, ra

---------------------------------------------------------------------------
(* Shares of a close. *)

LEMMA QuotientsAdd ==
    ASSUME NEW x \in Nat, NEW y \in Nat, NEW s \in Nat, s > 0
    PROVE  x \div s + y \div s <= (x + y) \div s
  <1> DEFINE p == x \div s
             q == y \div s
  <1>1. p \in Nat /\ p * s <= x /\ q \in Nat /\ q * s <= y
    BY Quotient
  <1> HIDE DEF p, q
  <1>2. (p + q) * s = p * s + q * s
    BY <1>1, Z3
  <1>3. (p + q) * s <= x + y
    <2> DEFINE ps == p * s
               qs == q * s
    <2>1. ps \in Int /\ qs \in Int
      BY <1>1, Z3
    <2> HIDE DEF ps, qs
    <2>2. ps + qs <= x + y
      BY <2>1, <1>1 DEF ps, qs
    <2> QED BY <2>2, <1>2 DEF ps, qs
  <1>4. p + q \in Nat /\ x + y \in Nat
    BY <1>1
  <1> QED BY <1>3, <1>4, QuotientIsMost DEF p, q

\* What `m` of `D` is worth to each of S, rounded down.
PartsOf(f, m, D, S) == [x \in S |-> (f[x] * m) \div D]

LEMMA PartsAreWithin ==
    ASSUME NEW S, IsFiniteSet(S), NEW f, \A x \in S : f[x] \in Nat,
           NEW m \in Nat, NEW D \in Nat, D > 0
    PROVE  SumOver(PartsOf(f, m, D, S), S) <= (SumOver(f, S) * m) \div D
  <1> DEFINE e == PartsOf(f, m, D, S)
             Fits(s) == SumOver(e, s) <= (SumOver(f, s) * m) \div D
             T == {s \in SUBSET S : ~Fits(s)}
  <1>e. \A x \in S : e[x] = (f[x] * m) \div D /\ e[x] \in Nat
    <2> TAKE x \in S
    <2>1. e[x] = (f[x] * m) \div D
      BY DEF PartsOf
    <2>2. f[x] * m \in Nat
      BY Z3
    <2> QED BY <2>1, <2>2, Quotient
  <1> HIDE DEF e
  <1> SUFFICES ASSUME ~Fits(S) PROVE FALSE
    BY DEF e
  <1>0. S \in T /\ T \subseteq SUBSET S
    OBVIOUS
  <1>1. PICK U \in T : \A V \in T : ~(V \subseteq U /\ V # U)
    <2> HIDE DEF T
    <2> QED BY <1>0, SmallestSubset
  <1>2. U \subseteq S /\ ~Fits(U) /\ IsFiniteSet(U)
    BY FS_Subset
  <1>3. U # {}
    <2>1. SumOver(e, {}) = 0 /\ SumOver(f, {}) = 0
      BY SumOfNothing
    <2>2. 0 * m = 0 /\ 0 \div D = 0
      BY Z3
    <2>3. Fits({})
      BY <2>1, <2>2
    <2> QED BY <2>3, <1>2
  <1>4. PICK y \in U : TRUE
    BY <1>3
  <1> DEFINE V == U \ {y}
  <1>5. V \subseteq U /\ V # U /\ IsFiniteSet(V) /\ V \in SUBSET S
    BY <1>2, <1>4, FS_Subset
  <1> HIDE DEF V
  <1>6. Fits(V)
    BY <1>1, <1>5
  <1>7. SumOver(e, U) = e[y] + SumOver(e, V) /\ SumOver(f, U) = f[y] + SumOver(f, V)
    <2>1. \A x \in U : e[x] \in Int /\ f[x] \in Int
      BY <1>2, <1>e
    <2>2. SumOver(e, U) = e[y] + SumOver(e, U \ {y})
      BY <1>2, <1>4, <2>1, SumTakesOut
    <2>3. SumOver(f, U) = f[y] + SumOver(f, U \ {y})
      BY <1>2, <1>4, <2>1, SumTakesOut
    <2> QED BY <2>2, <2>3 DEF V
  <1>8. SumOver(e, V) \in Nat /\ SumOver(f, V) \in Nat
    BY <1>2, <1>5, <1>e, SumIsNat
  <1>9. y \in S /\ f[y] \in Nat /\ e[y] \in Nat /\ e[y] = (f[y] * m) \div D
    BY <1>2, <1>4, <1>e
  <1> DEFINE a == f[y]
             r == SumOver(f, V)
             am == a * m
             rm == r * m
  <1>10. a \in Nat /\ r \in Nat /\ am \in Nat /\ rm \in Nat /\ (a + r) * m = am + rm
    BY <1>8, <1>9, Z3
  <1>11. e[y] = am \div D /\ SumOver(e, V) <= rm \div D /\ SumOver(f, U) = a + r
    BY <1>6, <1>7, <1>9
  <1>12. ~(SumOver(e, U) <= (am + rm) \div D)
    BY <1>2, <1>10, <1>11
  <1> HIDE DEF a, r, am, rm
  <1>13. am \div D + rm \div D <= (am + rm) \div D /\ am \div D \in Nat /\ rm \div D \in Nat
    BY <1>10, QuotientsAdd, Quotient
  <1>14. (am + rm) \div D \in Nat
    BY <1>10, Quotient
  <1> DEFINE am1 == am \div D
             rm1 == rm \div D
             top == (am + rm) \div D
             sv == SumOver(e, V)
             su == SumOver(e, U)
             ey == e[y]
  <1>15. /\ am1 + rm1 <= top /\ am1 \in Nat /\ rm1 \in Nat /\ top \in Nat
         /\ ey = am1 /\ sv <= rm1 /\ sv \in Nat /\ su = ey + sv /\ ~(su <= top)
    BY <1>7, <1>8, <1>11, <1>12, <1>13, <1>14
  <1> HIDE DEF am1, rm1, top, sv, su, ey
  <1> QED BY <1>15

---------------------------------------------------------------------------
(* The fills of a queue, and what is set aside for a set of its units.     *)

\* How far the first `j` fills reach, and the units of the j-th.
Edge(fills, j) == IF j = 0 THEN 0 ELSE fills[j].filledTo

Slice(fills, j) == Edge(fills, j - 1) + 1 .. fills[j].filledTo

FillsOK(fills) ==
    /\ fills \in Seq(Fill)
    /\ \A j \in 1 .. Len(fills) :
         /\ fills[j].sharesFilled > 0
         /\ fills[j].filledTo = Edge(fills, j - 1) + fills[j].sharesFilled
    /\ \A i, j \in 0 .. Len(fills) : i <= j => Edge(fills, i) <= Edge(fills, j)

\* What the units X are worth in each fill, and in all of them.
Worths(fills, X) ==
    [j \in 1 .. Len(fills) |->
        Worth(Cardinality(X \cap Slice(fills, j)), fills[j].assetsAllocated,
              fills[j].sharesFilled)]

SetAside(fills, X) == SumOver(Worths(fills, X), 1 .. Len(fills))

LEMMA EdgeIsNat ==
    ASSUME NEW fills, FillsOK(fills), NEW j \in 0 .. Len(fills)
    PROVE  Edge(fills, j) \in Nat
  <1>1. CASE j = 0
    BY <1>1 DEF Edge
  <1>2. CASE j # 0
    <2>1. j \in 1 .. Len(fills) /\ fills \in Seq(Fill)
      BY <1>2 DEF FillsOK
    <2>2. fills[j] \in Fill
      BY <2>1
    <2> QED BY <1>2, <2>2 DEF Edge, Fill
  <1> QED BY <1>1, <1>2

LEMMA FillFacts ==
    ASSUME NEW fills, FillsOK(fills), NEW j \in 1 .. Len(fills)
    PROVE  /\ fills[j].filledTo \in Nat /\ fills[j].sharesFilled \in Nat
           /\ fills[j].assetsAllocated \in Nat /\ fills[j].sharesFilled > 0
           /\ Len(fills) \in Nat /\ j \in Nat /\ j - 1 \in 0 .. Len(fills)
           /\ Edge(fills, j) = fills[j].filledTo /\ Edge(fills, j - 1) \in Nat
           /\ fills[j].filledTo = Edge(fills, j - 1) + fills[j].sharesFilled
  <1>1. fills \in Seq(Fill)
    BY DEF FillsOK
  <1>2. fills[j] \in Fill /\ Len(fills) \in Nat /\ j - 1 \in 0 .. Len(fills) /\ j # 0
    BY <1>1
  <1>3. Edge(fills, j) = fills[j].filledTo
    BY <1>2 DEF Edge
  <1>4. Edge(fills, j - 1) \in Nat
    BY <1>2, EdgeIsNat
  <1>5. fills[j].filledTo = Edge(fills, j - 1) + fills[j].sharesFilled /\ fills[j].sharesFilled > 0
    BY DEF FillsOK
  <1> QED BY <1>2, <1>3, <1>4, <1>5 DEF Fill

LEMMA CountInSlice ==
    ASSUME NEW fills, FillsOK(fills), NEW j \in 1 .. Len(fills), NEW X
    PROVE  /\ IsFiniteSet(X \cap Slice(fills, j))
           /\ Cardinality(X \cap Slice(fills, j)) \in Nat
           /\ Cardinality(X \cap Slice(fills, j)) <= fills[j].sharesFilled
  <1> DEFINE a == Edge(fills, j - 1) + 1
             b == fills[j].filledTo
             F == Slice(fills, j)
  <1>1. a \in Int /\ b \in Int /\ b - a + 1 = fills[j].sharesFilled /\ ~(a > b)
    BY FillFacts
  <1>2. F = a .. b
    BY DEF Slice
  <1> HIDE DEF a, b, F
  <1>3. IsFiniteSet(a .. b) /\ Cardinality(a .. b) = b - a + 1
    BY <1>1, FS_Interval
  <1>4. IsFiniteSet(F) /\ Cardinality(F) = fills[j].sharesFilled
    BY <1>1, <1>2, <1>3
  <1>5. IsFiniteSet(X \cap F) /\ Cardinality(X \cap F) <= Cardinality(F)
    BY <1>4, FS_Intersection
  <1>6. Cardinality(X \cap F) \in Nat
    BY <1>5, FS_CardinalityType
  <1> QED BY <1>4, <1>5, <1>6 DEF F

LEMMA WorthsAre ==
    ASSUME NEW fills, FillsOK(fills), NEW X, NEW j \in 1 .. Len(fills)
    PROVE  /\ Worths(fills, X)[j]
                = Worth(Cardinality(X \cap Slice(fills, j)), fills[j].assetsAllocated,
                        fills[j].sharesFilled)
           /\ Worths(fills, X)[j] \in Nat
  <1>1. Worths(fills, X)[j]
          = Worth(Cardinality(X \cap Slice(fills, j)), fills[j].assetsAllocated,
                  fills[j].sharesFilled)
    BY DEF Worths
  <1>2. Cardinality(X \cap Slice(fills, j)) \in Nat
    BY CountInSlice
  <1>3. fills[j].assetsAllocated \in Nat /\ fills[j].sharesFilled \in Nat
        /\ fills[j].sharesFilled > 0
    BY FillFacts
  <1> QED BY <1>1, <1>2, <1>3, WorthIsNat

LEMMA IndicesAreFinite ==
    ASSUME NEW fills, FillsOK(fills)
    PROVE  Len(fills) \in Nat /\ IsFiniteSet(1 .. Len(fills))
  <1>1. Len(fills) \in Nat
    BY DEF FillsOK
  <1> QED BY <1>1, FS_Interval

LEMMA SetAsideIsNat ==
    ASSUME NEW fills, FillsOK(fills), NEW X
    PROVE  SetAside(fills, X) \in Nat
  <1> DEFINE w == Worths(fills, X)
             J == 1 .. Len(fills)
  <1>1. IsFiniteSet(J) /\ \A j \in J : w[j] \in Nat
    BY IndicesAreFinite, WorthsAre
  <1> HIDE DEF w, J
  <1>2. SumOver(w, J) \in Nat
    BY <1>1, SumIsNat
  <1> QED BY <1>2 DEF SetAside, w, J

\* More units are worth no less.
LEMMA SetAsideGrows ==
    ASSUME NEW fills, FillsOK(fills), NEW X, NEW Y, X \subseteq Y
    PROVE  SetAside(fills, X) <= SetAside(fills, Y)
  <1> DEFINE w == Worths(fills, X)
             v == Worths(fills, Y)
             J == 1 .. Len(fills)
  <1>1. ASSUME NEW j \in J PROVE w[j] \in Int /\ v[j] \in Int /\ w[j] <= v[j]
    <2> DEFINE P == X \cap Slice(fills, j)
               Q == Y \cap Slice(fills, j)
               a == fills[j].assetsAllocated
               s == fills[j].sharesFilled
    <2>1. IsFiniteSet(Q) /\ Cardinality(Q) \in Nat /\ Cardinality(P) \in Nat
      BY CountInSlice
    <2>2. P \in SUBSET Q
      OBVIOUS
    <2>3. a \in Nat /\ s \in Nat /\ s > 0
      BY FillFacts
    <2>4. w[j] = Worth(Cardinality(P), a, s) /\ v[j] = Worth(Cardinality(Q), a, s)
          /\ w[j] \in Nat /\ v[j] \in Nat
      BY WorthsAre
    <2> HIDE DEF P, Q, a, s, w, v
    <2>5. Cardinality(P) <= Cardinality(Q)
      BY <2>1, <2>2, FS_Subset
    <2>6. Worth(Cardinality(P), a, s) <= Worth(Cardinality(Q), a, s)
      BY <2>1, <2>3, <2>5, WorthGrows
    <2> QED BY <2>4, <2>6
  <1>2. IsFiniteSet(J)
    BY IndicesAreFinite
  <1> HIDE DEF w, v, J
  <1>3. SumOver(w, J) <= SumOver(v, J)
    BY <1>1, <1>2, SumIsMonotone
  <1> QED BY <1>3 DEF SetAside, w, v, J

\* The worth of a set of units depends on the units filled so far.
LEMMA SetAsideAgrees ==
    ASSUME NEW fills, FillsOK(fills), NEW X, NEW Y,
           \A j \in 1 .. Len(fills) : X \cap Slice(fills, j) = Y \cap Slice(fills, j)
    PROVE  SetAside(fills, X) = SetAside(fills, Y)
  <1>1. \A j \in 1 .. Len(fills) : Worths(fills, X)[j] = Worths(fills, Y)[j]
    BY DEF Worths
  <1>2. IsFiniteSet(1 .. Len(fills))
    BY IndicesAreFinite
  <1> DEFINE w == Worths(fills, X)
             v == Worths(fills, Y)
             J == 1 .. Len(fills)
  <1>3. IsFiniteSet(J) /\ \A j \in J : w[j] = v[j]
    BY <1>1, <1>2
  <1> HIDE DEF w, v, J
  <1>4. SumOver(w, J) = SumOver(v, J)
    BY <1>3, SumAgrees
  <1> QED BY <1>4 DEF SetAside, w, v, J

---------------------------------------------------------------------------
(* Paying units out. *)

\* Whoever else is waiting, `n` and the worth of the others is no more than
\* what the others and the units U together are worth.
Pays(fills, n, U) ==
    /\ n \in Nat
    /\ \A X : X \cap U = {} => n + SetAside(fills, X) <= SetAside(fills, X \cup U)

LEMMA PaysNothing ==
    ASSUME NEW fills, FillsOK(fills)
    PROVE  Pays(fills, 0, {})
  <1>1. \A X : X \cup {} = X /\ SetAside(fills, X) \in Nat
    BY SetAsideIsNat
  <1> QED BY <1>1 DEF Pays

LEMMA PaysTogether ==
    ASSUME NEW fills, FillsOK(fills), NEW n, NEW m, NEW U, NEW V,
           Pays(fills, n, U), Pays(fills, m, V), U \cap V = {}
    PROVE  Pays(fills, n + m, U \cup V)
  <1>1. n \in Nat /\ m \in Nat /\ n + m \in Nat
    BY DEF Pays
  <1>2. ASSUME NEW X, X \cap (U \cup V) = {}
        PROVE  (n + m) + SetAside(fills, X) <= SetAside(fills, X \cup (U \cup V))
    <2> DEFINE a == SetAside(fills, X)
               b == SetAside(fills, X \cup V)
               c == SetAside(fills, (X \cup V) \cup U)
    <2>1. a \in Nat /\ b \in Nat /\ c \in Nat
      BY SetAsideIsNat
    <2>2. X \cap V = {} /\ (X \cup V) \cap U = {}
      BY <1>2
    <2>3. m + a <= b
      BY <2>2 DEF Pays
    <2>4. n + b <= c
      BY <2>2 DEF Pays
    <2>5. (X \cup V) \cup U = X \cup (U \cup V)
      OBVIOUS
    <2> HIDE DEF a, b, c
    <2>6. (n + m) + a <= c
      BY <1>1, <2>1, <2>3, <2>4
    <2> QED BY <2>5, <2>6 DEF a, c
  <1> QED BY <1>1, <1>2 DEF Pays

\* Whatever the fills reach, no unit is in two of them.
LEMMA SlicesApart ==
    ASSUME NEW fills, FillsOK(fills),
           NEW i \in 1 .. Len(fills), NEW j \in 1 .. Len(fills), i # j
    PROVE  Slice(fills, i) \cap Slice(fills, j) = {}
  <1>1. ASSUME NEW p \in 1 .. Len(fills), NEW q \in 1 .. Len(fills), p < q
        PROVE  Slice(fills, p) \cap Slice(fills, q) = {}
    <2>1. p \in 0 .. Len(fills) /\ q - 1 \in 0 .. Len(fills) /\ p <= q - 1
      BY <1>1, IndicesAreFinite
    <2>2. Edge(fills, p) <= Edge(fills, q - 1)
      BY <2>1 DEF FillsOK
    <2>3. Edge(fills, p) = fills[p].filledTo /\ fills[p].filledTo \in Nat
          /\ Edge(fills, q - 1) \in Nat
      BY FillFacts
    <2>4. fills[p].filledTo <= Edge(fills, q - 1)
      BY <2>2, <2>3
    <2> QED BY <2>3, <2>4 DEF Slice
  <1>2. i < j \/ j < i
    BY IndicesAreFinite
  <1> QED BY <1>1, <1>2

\* `size` units more in the j-th slice and in no other.
LEMMA SliceGains ==
    ASSUME NEW fills, FillsOK(fills), NEW j \in 1 .. Len(fills), NEW X, NEW U,
           U \subseteq Slice(fills, j), X \cap U = {}, IsFiniteSet(U)
    PROVE  Cardinality((X \cup U) \cap Slice(fills, j))
             = Cardinality(U) + Cardinality(X \cap Slice(fills, j))
  <1> DEFINE F == Slice(fills, j)
             P == X \cap F
  <1>1. IsFiniteSet(P) /\ Cardinality(P) \in Nat /\ Cardinality(U) \in Nat
    BY CountInSlice, FS_CardinalityType
  <1>2. (X \cup U) \cap F = U \cup P /\ U \cap P = {}
    OBVIOUS
  <1>3. Cardinality(U \cup P) = Cardinality(U) + Cardinality(P) - Cardinality(U \cap P)
    BY <1>1, FS_Union
  <1>4. Cardinality(U \cap P) = 0
    BY <1>2, FS_EmptySet
  <1> HIDE DEF P, F
  <1>5. Cardinality(U \cup P) = Cardinality(U) + Cardinality(P)
    BY <1>1, <1>3, <1>4
  <1> QED BY <1>2, <1>5 DEF P, F

LEMMA OtherSlicesKeep ==
    ASSUME NEW fills, FillsOK(fills), NEW j \in 1 .. Len(fills), NEW X, NEW U,
           U \subseteq Slice(fills, j), NEW i \in 1 .. Len(fills), i # j
    PROVE  (X \cup U) \cap Slice(fills, i) = X \cap Slice(fills, i)
  BY SlicesApart

LEMMA PaysSlice ==
    ASSUME NEW fills, FillsOK(fills), NEW j \in 1 .. Len(fills), NEW U,
           U \subseteq Slice(fills, j), IsFiniteSet(U)
    PROVE  Pays(fills, (Cardinality(U) * fills[j].assetsAllocated) \div fills[j].sharesFilled, U)
  <1> DEFINE x == Cardinality(U)
             a == fills[j].assetsAllocated
             s == fills[j].sharesFilled
             n == (x * a) \div s
             J == 1 .. Len(fills)
  <1>1. x \in Nat /\ a \in Nat /\ s \in Nat /\ s > 0 /\ IsFiniteSet(J)
    BY FS_CardinalityType, FillFacts, IndicesAreFinite
  <1>2. n \in Nat
    <2> HIDE DEF x, a, s
    <2>1. x * a \in Nat
      BY <1>1, Z3
    <2> QED BY <1>1, <2>1, Quotient
  <1>3. ASSUME NEW X, X \cap U = {}
        PROVE  n + SetAside(fills, X) <= SetAside(fills, X \cup U)
    <2> DEFINE w == Worths(fills, X)
               v == Worths(fills, X \cup U)
               r == Cardinality(X \cap Slice(fills, j))
    <2>1. \A i \in J : w[i] \in Nat /\ v[i] \in Nat
      BY WorthsAre
    <2>2. ASSUME NEW i \in J, i # j PROVE w[i] = v[i]
      <3>1. (X \cup U) \cap Slice(fills, i) = X \cap Slice(fills, i)
        BY <2>2, OtherSlicesKeep
      <3> QED BY <3>1 DEF Worths
    <2>3. Cardinality((X \cup U) \cap Slice(fills, j)) = x + r /\ r \in Nat
      BY <1>3, SliceGains, CountInSlice
    <2>4. w[j] = Worth(r, a, s) /\ v[j] = Worth(x + r, a, s)
      BY <2>3, WorthsAre
    <2> HIDE DEF w, v, r, x, a, s
    <2>5. n + w[j] <= v[j]
      BY <1>1, <2>3, <2>4, WorthSplits
    <2>6. OnlyAt(w, v, j, J)
      BY <2>1, <2>2 DEF OnlyAt
    <2> HIDE DEF n, J
    <2>7. j \in J
      BY DEF J
    <2>8. SumOver(v, J) = SumOver(w, J) - w[j] + v[j]
      BY <1>1, <2>6, <2>7, SumMoves
    <2>9. SumOver(w, J) \in Nat /\ w[j] \in Nat /\ v[j] \in Nat
      BY <1>1, <2>1, <2>7, SumIsNat
    <2> DEFINE sw == SumOver(w, J)
               sv == SumOver(v, J)
               wj == w[j]
               vj == v[j]
    <2>10. sv = sw - wj + vj /\ sw \in Nat /\ wj \in Nat /\ vj \in Nat /\ n + wj <= vj
      BY <2>5, <2>8, <2>9
    <2> HIDE DEF sw, sv, wj, vj
    <2>11. n + sw <= sv
      BY <1>2, <2>10
    <2> QED BY <2>11 DEF sw, sv, w, v, J, SetAside
  <1> HIDE DEF n
  <1>4. Pays(fills, n, U)
    BY <1>2, <1>3 DEF Pays
  <1> QED BY <1>4 DEF n

---------------------------------------------------------------------------
(* A ticket walks along the fills. *)

\* The walk has not passed the ticket, nor the fills the walk.
TicketOK(fills, ticket) ==
    /\ ticket.hi \in Nat /\ ticket.claimedTo \in Nat /\ ticket.claimedTo <= ticket.hi
    /\ ticket.cursor \in 0 .. Len(fills)
    /\ Edge(fills, ticket.cursor) <= ticket.claimedTo

\* From `was` to `is` the units between have been paid `n`.
Walked(fills, was, is, n) ==
    /\ TicketOK(fills, is) /\ is = [hi |-> is.hi, claimedTo |-> is.claimedTo, cursor |-> is.cursor]
    /\ is.hi = was.hi /\ was.claimedTo <= is.claimedTo
    /\ Pays(fills, n, was.claimedTo + 1 .. is.claimedTo)

Ticketed(c) ==
    /\ c = [assets |-> c.assets, ticket |-> c.ticket]
    /\ c.ticket = [hi |-> c.ticket.hi, claimedTo |-> c.ticket.claimedTo,
                   cursor |-> c.ticket.cursor]

LEMMA TicketMoved ==
    ASSUME NEW k, k = [hi |-> k.hi, claimedTo |-> k.claimedTo, cursor |-> k.cursor],
           NEW upTo, NEW reach
    PROVE  [k EXCEPT !.claimedTo = upTo, !.cursor = IF reach <= upTo THEN @ + 1 ELSE @]
             = [hi |-> k.hi, claimedTo |-> upTo,
                cursor |-> IF reach <= upTo THEN k.cursor + 1 ELSE k.cursor]
  <1> DEFINE to == IF reach <= upTo THEN k.cursor + 1 ELSE k.cursor
             m == [hi |-> k.hi, claimedTo |-> upTo, cursor |-> k.cursor]
  <1>1. [k EXCEPT !.claimedTo = upTo] = m
    OBVIOUS
  <1>2. [k EXCEPT !.claimedTo = upTo, !.cursor = IF reach <= upTo THEN @ + 1 ELSE @]
          = [m EXCEPT !.cursor = to]
    BY <1>1
  <1> HIDE DEF to
  <1>3. [m EXCEPT !.cursor = to] = [hi |-> k.hi, claimedTo |-> upTo, cursor |-> to]
    OBVIOUS
  <1> QED BY <1>2, <1>3 DEF to

LEMMA ClaimStepPays ==
    ASSUME NEW fills, FillsOK(fills), NEW c, Ticketed(c), TicketOK(fills, c.ticket),
           c.assets \in Nat
    PROVE  LET d == ClaimStep(fills, c)
           IN  /\ Ticketed(d) /\ d.assets \in Nat /\ d.assets - c.assets \in Nat
               /\ Walked(fills, c.ticket, d.ticket, d.assets - c.assets)
  <1> DEFINE ticket == c.ticket
             j == ticket.cursor + 1
             fill == fills[j]
             lo == ticket.claimedTo
             upTo == Lesser(fill.filledTo, ticket.hi)
             d == ClaimStep(fills, c)
             Good(e) == /\ Ticketed(e) /\ e.assets \in Nat /\ e.assets - c.assets \in Nat
                        /\ Walked(fills, c.ticket, e.ticket, e.assets - c.assets)
  <1>t. /\ ticket.hi \in Nat /\ lo \in Nat /\ lo <= ticket.hi
        /\ ticket.cursor \in 0 .. Len(fills) /\ Edge(fills, ticket.cursor) <= lo
        /\ Len(fills) \in Nat
    BY IndicesAreFinite DEF TicketOK
  <1>0. lo + 1 .. lo = {}
    BY <1>t
  <1>1. CASE ticket.cursor >= Len(fills) \/ lo >= ticket.hi
    <2>1. d = c
      BY <1>1 DEF ClaimStep
    <2>2. c.assets - c.assets = 0
      OBVIOUS
    <2>3. Walked(fills, c.ticket, c.ticket, 0)
      BY <1>0, <1>t, PaysNothing DEF Walked, Ticketed
    <2> QED BY <2>1, <2>2, <2>3
  <1>2. CASE /\ ~(ticket.cursor >= Len(fills) \/ lo >= ticket.hi)
             /\ fill.filledTo <= lo
    <2> DEFINE next == [hi |-> ticket.hi, claimedTo |-> lo, cursor |-> ticket.cursor + 1]
               e == [assets |-> c.assets, ticket |-> next]
    <2>1. d = [c EXCEPT !.ticket.cursor = @ + 1]
      BY <1>2 DEF ClaimStep
    <2>2. d = e
      <3>1. [c EXCEPT !.ticket.cursor = @ + 1]
              = [c EXCEPT !.ticket = [c.ticket EXCEPT !.cursor = c.ticket.cursor + 1]]
        BY DEF Ticketed
      <3>2. [c.ticket EXCEPT !.cursor = c.ticket.cursor + 1] = next
        BY DEF Ticketed
      <3>3. [c EXCEPT !.ticket = next] = e
        BY DEF Ticketed
      <3> QED BY <2>1, <3>1, <3>2, <3>3
    <2>3. j \in 1 .. Len(fills)
      BY <1>2, <1>t
    <2>4. Edge(fills, j) = fill.filledTo /\ fill.filledTo \in Nat
      BY <2>3, FillFacts
    <2>5. TicketOK(fills, next)
      BY <1>2, <1>t, <2>3, <2>4 DEF TicketOK
    <2>6. Walked(fills, ticket, next, 0)
      BY <1>0, <1>t, <2>5, PaysNothing DEF Walked
    <2>7. Ticketed(e) /\ e.assets = c.assets /\ e.ticket = next
      BY DEF Ticketed
    <2> HIDE DEF d, e, next
    <2>8. c.assets - c.assets = 0
      OBVIOUS
    <2>9. Good(e)
      BY <2>6, <2>7, <2>8
    <2> QED BY <2>2, <2>9 DEF d
  <1>3. CASE /\ ~(ticket.cursor >= Len(fills) \/ lo >= ticket.hi)
             /\ ~(fill.filledTo <= lo)
    <2> DEFINE n == ((upTo - lo) * fill.assetsAllocated) \div fill.sharesFilled
               to == IF fill.filledTo <= upTo THEN ticket.cursor + 1 ELSE ticket.cursor
               next == [hi |-> ticket.hi, claimedTo |-> upTo, cursor |-> to]
               e == [assets |-> c.assets + n, ticket |-> next]
               U == lo + 1 .. upTo
    <2>1. d = [assets |-> c.assets + n,
               ticket |-> [ticket EXCEPT !.claimedTo = upTo,
                                         !.cursor = IF fill.filledTo <= upTo
                                                    THEN @ + 1 ELSE @]]
      BY <1>3 DEF ClaimStep
    <2>2. d = e
      <3>1. [ticket EXCEPT !.claimedTo = upTo,
                           !.cursor = IF fill.filledTo <= upTo THEN @ + 1 ELSE @] = next
        BY TicketMoved DEF Ticketed
      <3> QED BY <2>1, <3>1
    <2>3. j \in 1 .. Len(fills)
      BY <1>3, <1>t
    <2>4. /\ Edge(fills, j) = fill.filledTo /\ fill.filledTo \in Nat
          /\ Edge(fills, j - 1) \in Nat /\ j - 1 = ticket.cursor
      <3>1. j - 1 = ticket.cursor
        BY <1>t
      <3>2. Edge(fills, j) = fill.filledTo /\ fill.filledTo \in Nat /\ Edge(fills, j - 1) \in Nat
        BY <2>3, FillFacts
      <3> QED BY <3>1, <3>2
    <2>5. upTo \in Nat /\ lo < upTo /\ upTo <= ticket.hi /\ upTo <= fill.filledTo
      BY <1>3, <1>t, <2>4 DEF Lesser
    <2>6. U \subseteq Slice(fills, j)
      <3>1. Edge(fills, j - 1) <= lo
        BY <2>4, <1>t
      <3> QED BY <3>1, <2>4, <2>5, <1>t DEF Slice
    <2>7. IsFiniteSet(U) /\ Cardinality(U) = upTo - lo
      <3>1. lo + 1 \in Int /\ upTo \in Int /\ ~(lo + 1 > upTo) /\ upTo - (lo + 1) + 1 = upTo - lo
        BY <2>5, <1>t
      <3>2. IsFiniteSet(lo + 1 .. upTo)
        BY <3>1, FS_Interval
      <3>3. Cardinality(lo + 1 .. upTo) = upTo - (lo + 1) + 1
        BY <3>1, FS_Interval
      <3> QED BY <3>1, <3>2, <3>3
    <2> HIDE DEF U
    <2>8. Pays(fills, n, U)
      BY <2>3, <2>6, <2>7, PaysSlice
    <2>9. to \in 0 .. Len(fills) /\ Edge(fills, to) <= upTo
      <3>1. CASE fill.filledTo <= upTo
        BY <3>1, <2>3, <2>4, <2>5, <1>t
      <3>2. CASE ~(fill.filledTo <= upTo)
        <4>1. to = ticket.cursor
          BY <3>2
        <4>2. Edge(fills, ticket.cursor) \in Nat
          BY <1>t, EdgeIsNat
        <4> QED BY <4>1, <4>2, <2>5, <1>t
      <3> QED BY <3>1, <3>2
    <2>10. /\ Ticketed(e) /\ e.assets = c.assets + n /\ e.ticket = next
           /\ next.hi = ticket.hi /\ next.claimedTo = upTo /\ next.cursor = to
           /\ next = [hi |-> next.hi, claimedTo |-> next.claimedTo, cursor |-> next.cursor]
      BY DEF Ticketed
    <2>11. n \in Nat
      BY <2>8 DEF Pays
    <2> HIDE DEF d, e, next, n, to, upTo
    <2>12. TicketOK(fills, next)
      BY <2>5, <2>9, <2>10, <1>t DEF TicketOK
    <2>13. Walked(fills, ticket, next, n)
      BY <2>5, <2>8, <2>10, <2>12, <1>t DEF Walked, U
    <2>14. e.assets \in Nat /\ e.assets - c.assets = n
      BY <2>10, <2>11
    <2>15. Good(e)
      BY <2>10, <2>11, <2>13, <2>14
    <2> QED BY <2>2, <2>15 DEF d
  <1> QED BY <1>1, <1>2, <1>3

LEMMA WalkedOn ==
    ASSUME NEW fills, FillsOK(fills), NEW s, NEW t, NEW u, NEW n, NEW m,
           TicketOK(fills, s), TicketOK(fills, t),
           Walked(fills, s, t, n), Walked(fills, t, u, m)
    PROVE  Walked(fills, s, u, n + m)
  <1>1. /\ s.claimedTo \in Nat /\ t.claimedTo \in Nat /\ u.claimedTo \in Nat
        /\ s.claimedTo <= t.claimedTo /\ t.claimedTo <= u.claimedTo
    BY DEF Walked, TicketOK
  <1> DEFINE U == s.claimedTo + 1 .. t.claimedTo
             V == t.claimedTo + 1 .. u.claimedTo
  <1>2. U \cap V = {} /\ U \cup V = s.claimedTo + 1 .. u.claimedTo
    BY <1>1
  <1>3. Pays(fills, n, U) /\ Pays(fills, m, V)
    BY DEF Walked
  <1> HIDE DEF U, V
  <1>4. Pays(fills, n + m, U \cup V)
    BY <1>2, <1>3, PaysTogether
  <1>5. Pays(fills, n + m, s.claimedTo + 1 .. u.claimedTo)
    BY <1>2, <1>4
  <1>6. s.claimedTo <= u.claimedTo
    BY <1>1
  <1> QED BY <1>5, <1>6 DEF Walked

\* What a walk has found so far is paid out of the units it has walked.
Found(fills, ticket, c) ==
    /\ Ticketed(c) /\ c.assets \in Nat
    /\ Walked(fills, ticket, c.ticket, c.assets)

LEMMA StepFinds ==
    ASSUME NEW fills, FillsOK(fills), NEW ticket, TicketOK(fills, ticket),
           NEW c, Found(fills, ticket, c)
    PROVE  Found(fills, ticket, ClaimStep(fills, c))
  <1> DEFINE d == ClaimStep(fills, c)
  <1>1. Ticketed(c) /\ c.assets \in Nat /\ Walked(fills, ticket, c.ticket, c.assets)
    BY DEF Found
  <1>2. TicketOK(fills, c.ticket)
    BY <1>1 DEF Walked
  <1>3. Ticketed(d) /\ d.assets \in Nat /\ Walked(fills, c.ticket, d.ticket, d.assets - c.assets)
    BY <1>1, <1>2, ClaimStepPays
  <1> HIDE DEF d
  <1>4. Walked(fills, ticket, d.ticket, c.assets + (d.assets - c.assets))
    BY <1>1, <1>2, <1>3, WalkedOn
  <1>5. c.assets + (d.assets - c.assets) = d.assets
    BY <1>1, <1>3
  <1>6. Found(fills, ticket, d)
    BY <1>3, <1>4, <1>5 DEF Found
  <1> QED BY <1>6 DEF d

\* `g` is the walk of claimRedemption from `ticket`, `n` steps long.
Claims0(ticket) == [assets |-> 0, ticket |-> ticket]

ClaimWalks(g, fills, ticket, n) ==
    g = [i \in 0 .. n |-> IF i = 0 THEN Claims0(ticket) ELSE ClaimStep(fills, g[i - 1])]

LEMMA ClaimWalkExists ==
    ASSUME NEW fills, NEW ticket, NEW n \in Nat
    PROVE  \E g : ClaimWalks(g, fills, ticket, n)
  <1> DEFINE first == Claims0(ticket)
             G == {m \in Nat : \E g : ClaimWalks(g, fills, ticket, m)}
  <1>1. 0 \in G
    <2> DEFINE g == [i \in 0 .. 0 |-> first]
    <2>1. g = [i \in 0 .. 0 |-> IF i = 0 THEN first ELSE ClaimStep(fills, g[i - 1])]
      OBVIOUS
    <2>2. ClaimWalks(g, fills, ticket, 0)
      BY <2>1 DEF ClaimWalks
    <2> QED BY <2>2
  <1>2. ASSUME NEW m \in Nat, m \in G PROVE m + 1 \in G
    <2>1. PICK g : ClaimWalks(g, fills, ticket, m)
      BY <1>2
    <2> DEFINE h == [i \in 0 .. m + 1 |-> IF i = 0 THEN first ELSE ClaimStep(fills, g[i - 1])]
    <2>2. ASSUME NEW i \in 0 .. m + 1, i # 0 PROVE h[i - 1] = g[i - 1]
      <3> DEFINE j == i - 1
      <3>1. j \in 0 .. m /\ j \in 0 .. m + 1
        BY <2>2
      <3> HIDE DEF j
      <3>2. g[j] = IF j = 0 THEN first ELSE ClaimStep(fills, g[j - 1])
        BY <2>1, <3>1 DEF ClaimWalks
      <3>3. h[j] = IF j = 0 THEN first ELSE ClaimStep(fills, g[j - 1])
        BY <3>1
      <3> QED BY <3>2, <3>3 DEF j
    <2>3. \A i \in 0 .. m + 1 : h[i] = IF i = 0 THEN first ELSE ClaimStep(fills, h[i - 1])
      <3> TAKE i \in 0 .. m + 1
      <3>1. h[i] = IF i = 0 THEN first ELSE ClaimStep(fills, g[i - 1])
        OBVIOUS
      <3> HIDE DEF h
      <3> QED BY <2>2, <3>1
    <2>4. h = [i \in 0 .. m + 1 |-> h[i]]
      OBVIOUS
    <2> HIDE DEF h
    <2>5. ClaimWalks(h, fills, ticket, m + 1)
      BY <2>3, <2>4 DEF ClaimWalks
    <2>6. m + 1 \in Nat
      OBVIOUS
    <2> QED BY <2>5, <2>6
  <1> HIDE DEF G
  <1>3. Nat \subseteq G
    BY <1>1, <1>2, InductionOnSet
  <1>4. n \in G
    BY <1>3
  <1> QED BY <1>4 DEF G

LEMMA ClaimIsChosen ==
    ASSUME NEW fills, NEW ticket, NEW n
    PROVE  Claim(fills, ticket, n) = (CHOOSE g : ClaimWalks(g, fills, ticket, n))[n]
  BY Zenon DEF Claim, ClaimWalks, Claims0

LEMMA ClaimPays ==
    ASSUME NEW fills, FillsOK(fills), NEW ticket, TicketOK(fills, ticket),
           ticket = [hi |-> ticket.hi, claimedTo |-> ticket.claimedTo,
                     cursor |-> ticket.cursor],
           NEW n \in Nat
    PROVE  Found(fills, ticket, Claim(fills, ticket, n))
  <1> DEFINE g == CHOOSE h : ClaimWalks(h, fills, ticket, n)
             G == {i \in Nat : i \in 0 .. n => Found(fills, ticket, g[i])}
  <1>1. ClaimWalks(g, fills, ticket, n)
    BY ClaimWalkExists
  <1>2. Claim(fills, ticket, n) = g[n]
    BY ClaimIsChosen
  <1> HIDE DEF g
  <1>3. 0 \in G
    <2>1. g[0] = Claims0(ticket)
      BY <1>1 DEF ClaimWalks
    <2>2. Claims0(ticket).assets = 0 /\ Claims0(ticket).ticket = ticket
          /\ Claims0(ticket) = [assets |-> Claims0(ticket).assets,
                                ticket |-> Claims0(ticket).ticket]
      BY DEF Claims0
    <2>3. Ticketed(Claims0(ticket))
      BY <2>2 DEF Ticketed
    <2>4. ticket.claimedTo \in Nat
      BY DEF TicketOK
    <2>5. ticket.claimedTo + 1 .. ticket.claimedTo = {}
      BY <2>4
    <2>6. Walked(fills, ticket, ticket, 0)
      BY <2>4, <2>5, PaysNothing DEF Walked
    <2>7. Found(fills, ticket, Claims0(ticket))
      BY <2>2, <2>3, <2>6 DEF Found
    <2> QED BY <2>1, <2>7
  <1>4. ASSUME NEW i \in Nat, i \in G PROVE i + 1 \in G
    <2>1. CASE i + 1 \in 0 .. n
      <3>1. Found(fills, ticket, g[i])
        BY <1>4, <2>1
      <3>2. g[i + 1] = ClaimStep(fills, g[i])
        <4>1. i + 1 # 0 /\ (i + 1) - 1 = i
          OBVIOUS
        <4> QED BY <1>1, <2>1, <4>1 DEF ClaimWalks
      <3>3. Found(fills, ticket, g[i + 1])
        BY <3>1, <3>2, StepFinds
      <3> QED BY <3>3
    <2>2. CASE i + 1 \notin 0 .. n
      BY <2>2
    <2> QED BY <2>1, <2>2
  <1> HIDE DEF G
  <1>5. n \in G
    BY <1>3, <1>4, InductionOnSet
  <1>6. n \in 0 .. n
    OBVIOUS
  <1>7. Found(fills, ticket, g[n])
    BY <1>5, <1>6 DEF G
  <1> QED BY <1>2, <1>7

---------------------------------------------------------------------------
(* The queue of a tranche.                                                 *)

\* The units a ticket still asks for, and those all tickets ask for.
Units(ticket) == ticket.claimedTo + 1 .. ticket.hi

Waiting(redeems) ==
    {u \in Nat : \E h \in Holders : \E i \in 1 .. Len(redeems[h]) : u \in Units(redeems[h][i])}

Apart(redeems) ==
    \A h, k \in Holders : \A i \in 1 .. Len(redeems[h]), j \in 1 .. Len(redeems[k]) :
        h # k \/ i # j => Units(redeems[h][i]) \cap Units(redeems[k][j]) = {}

IsTicket(k) ==
    /\ k = [hi |-> k.hi, claimedTo |-> k.claimedTo, cursor |-> k.cursor]
    /\ k.hi \in Nat /\ k.claimedTo \in Nat /\ k.cursor \in Nat

\* Tickets are cut off the tail one after the other, and the fills reach as
\* far as the queue is filled.
QueueOK(redeems, tail, filled, fills) ==
    /\ redeems = [h \in Holders |-> redeems[h]]
    /\ \A h \in Holders : redeems[h] \in Seq(RedeemTicket)
    /\ tail \in Nat /\ filled \in Nat /\ filled <= tail
    /\ FillsOK(fills) /\ filled = Edge(fills, Len(fills))
    /\ \A h \in Holders : \A i \in 1 .. Len(redeems[h]) :
         TicketOK(fills, redeems[h][i]) /\ redeems[h][i].hi <= tail
    /\ Apart(redeems)

LEMMA TicketIsTicket ==
    ASSUME NEW list, list \in Seq(RedeemTicket), NEW i \in 1 .. Len(list)
    PROVE  IsTicket(list[i]) /\ list[i] \in RedeemTicket
  <1>1. list[i] \in RedeemTicket
    OBVIOUS
  <1> QED BY <1>1 DEF RedeemTicket, IsTicket

JoinedBy(redeems, h, ticket) == [redeems EXCEPT ![h] = Append(redeems[h], ticket)]

\* What is in the queue of `k` once `ticket` has joined that of `h`.
JoinedAt(redeems, new, h, ticket, k) ==
    /\ new[k] \in Seq(RedeemTicket)
    /\ Len(new[k]) = IF k = h THEN Len(redeems[k]) + 1 ELSE Len(redeems[k])
    /\ \A i \in 1 .. Len(new[k]) :
         new[k][i] = IF k = h /\ i = Len(redeems[k]) + 1 THEN ticket ELSE redeems[k][i]

LEMMA QueueJoinedFacts ==
    ASSUME NEW redeems, redeems = [h \in Holders |-> redeems[h]],
           \A h \in Holders : redeems[h] \in Seq(RedeemTicket),
           NEW h \in Holders, NEW ticket \in RedeemTicket, NEW k \in Holders
    PROVE  JoinedAt(redeems, JoinedBy(redeems, h, ticket), h, ticket, k)
  <1> DEFINE new == JoinedBy(redeems, h, ticket)
  <1>1. new = [x \in Holders |-> IF x = h THEN Append(redeems[h], ticket) ELSE redeems[x]]
    BY DEF JoinedBy
  <1> HIDE DEF new
  <1>3. new[k] = IF k = h THEN Append(redeems[h], ticket) ELSE redeems[k]
    BY <1>1
  <1>4. CASE k = h
    <2> DEFINE s == redeems[h]
    <2>1. s \in Seq(RedeemTicket)
      OBVIOUS
    <2>2. new[k] = Append(s, ticket)
      BY <1>3, <1>4
    <2> HIDE DEF s
    <2>3. /\ Append(s, ticket) \in Seq(RedeemTicket) /\ Len(Append(s, ticket)) = Len(s) + 1
          /\ \A i \in 1 .. Len(s) + 1 :
               Append(s, ticket)[i] = IF i = Len(s) + 1 THEN ticket ELSE s[i]
      BY <2>1
    <2> QED BY <1>4, <2>2, <2>3 DEF s, new, JoinedAt
  <1>5. CASE k # h
    <2>1. new[k] = redeems[k]
      BY <1>3, <1>5
    <2>2. redeems[k] \in Seq(RedeemTicket)
      OBVIOUS
    <2> QED BY <1>5, <2>1, <2>2 DEF new, JoinedAt
  <1> QED BY <1>4, <1>5

Joining(fills, tail, amount) ==
    [hi |-> tail + amount, claimedTo |-> tail, cursor |-> Len(fills)]

LEMMA QueueJoined ==
    ASSUME NEW redeems, NEW tail, NEW filled, NEW fills, QueueOK(redeems, tail, filled, fills),
           NEW h \in Holders, NEW amount \in Nat
    PROVE  LET new == JoinedBy(redeems, h, Joining(fills, tail, amount))
           IN  /\ QueueOK(new, tail + amount, filled, fills)
               /\ SetAside(fills, Waiting(new)) = SetAside(fills, Waiting(redeems))
  <1> DEFINE ticket == Joining(fills, tail, amount)
             new == JoinedBy(redeems, h, ticket)
             size == Len(redeems[h])
  <1>q. /\ redeems = [x \in Holders |-> redeems[x]]
        /\ \A k \in Holders : redeems[k] \in Seq(RedeemTicket)
        /\ tail \in Nat /\ filled \in Nat /\ filled <= tail
        /\ FillsOK(fills) /\ filled = Edge(fills, Len(fills))
    BY DEF QueueOK
  <1>a. /\ \A k \in Holders : \A i \in 1 .. Len(redeems[k]) :
             TicketOK(fills, redeems[k][i]) /\ redeems[k][i].hi <= tail
        /\ Apart(redeems)
    BY DEF QueueOK
  <1>n. Len(fills) \in Nat /\ tail + amount \in Nat /\ size \in Nat
    BY <1>q, IndicesAreFinite
  <1>1. /\ ticket \in RedeemTicket /\ ticket.hi = tail + amount /\ ticket.claimedTo = tail
        /\ ticket.cursor = Len(fills)
    BY <1>n, <1>q DEF Joining, RedeemTicket
  <1> HIDE DEF ticket
  <1>2. TicketOK(fills, ticket)
    BY <1>1, <1>n, <1>q DEF TicketOK
  <1>12. new = [x \in Holders |-> new[x]]
    <2>1. new = [x \in Holders |-> IF x = h THEN Append(redeems[h], ticket) ELSE redeems[x]]
      BY <1>q DEF JoinedBy
    <2> HIDE DEF new
    <2> QED BY <2>1
  <1>p. \A k \in Holders : JoinedAt(redeems, new, h, ticket, k)
    BY <1>1, <1>q, QueueJoinedFacts
  <1> HIDE DEF new
  <1>3. \A k \in Holders :
             /\ new[k] \in Seq(RedeemTicket)
             /\ Len(new[k]) = IF k = h THEN Len(redeems[k]) + 1 ELSE Len(redeems[k])
             /\ \A i \in 1 .. Len(new[k]) :
                  new[k][i] = IF k = h /\ i = Len(redeems[k]) + 1 THEN ticket ELSE redeems[k][i]
    BY <1>p DEF JoinedAt
  \* Every ticket of the new queue is an old one in its place, or the one that joined.
  <1>4. ASSUME NEW k \in Holders, NEW i \in 1 .. Len(new[k])
        PROVE  \/ i \in 1 .. Len(redeems[k]) /\ new[k][i] = redeems[k][i]
                  /\ ~(k = h /\ i = size + 1)
               \/ k = h /\ i = size + 1 /\ new[k][i] = ticket
    <2>1. Len(redeems[k]) \in Nat
      BY <1>q
    <2>2. Len(new[k]) = IF k = h THEN Len(redeems[k]) + 1 ELSE Len(redeems[k])
      BY <1>3
    <2>3. new[k][i] = IF k = h /\ i = Len(redeems[k]) + 1 THEN ticket ELSE redeems[k][i]
      BY <1>3
    <2> QED BY <2>1, <2>2, <2>3
  <1>5. ASSUME NEW k \in Holders, NEW i \in 1 .. Len(redeems[k])
        PROVE  i \in 1 .. Len(new[k]) /\ new[k][i] = redeems[k][i]
    <2>1. Len(redeems[k]) \in Nat
      BY <1>q
    <2>2. Len(new[k]) = IF k = h THEN Len(redeems[k]) + 1 ELSE Len(redeems[k])
      BY <1>3
    <2>3. i \in 1 .. Len(new[k]) /\ i # Len(redeems[k]) + 1
      BY <2>1, <2>2
    <2> QED BY <2>3, <1>3
  <1>6. \A k \in Holders : \A i \in 1 .. Len(new[k]) :
          TicketOK(fills, new[k][i]) /\ new[k][i].hi <= tail + amount
    <2> TAKE k \in Holders
    <2> TAKE i \in 1 .. Len(new[k])
    <2>1. CASE i \in 1 .. Len(redeems[k]) /\ new[k][i] = redeems[k][i]
      <3>1. TicketOK(fills, redeems[k][i]) /\ redeems[k][i].hi <= tail /\ redeems[k][i].hi \in Nat
        BY <2>1, <1>a DEF TicketOK
      <3>2. redeems[k][i].hi <= tail + amount
        BY <3>1, <1>q
      <3> QED BY <2>1, <3>1, <3>2
    <2>2. CASE new[k][i] = ticket
      BY <2>2, <1>1, <1>2, <1>n
    <2> QED BY <1>4, <2>1, <2>2
  <1>7. ASSUME NEW k \in Holders, NEW i \in 1 .. Len(redeems[k])
        PROVE  Units(redeems[k][i]) \cap Units(ticket) = {}
    <2>1. redeems[k][i].hi <= tail /\ redeems[k][i].hi \in Nat
      BY <1>a DEF TicketOK
    <2> QED BY <2>1, <1>1, <1>q DEF Units
  <1>8. Apart(new)
    <2> SUFFICES ASSUME NEW k \in Holders, NEW m \in Holders, NEW i \in 1 .. Len(new[k]),
                        NEW j \in 1 .. Len(new[m]), k # m \/ i # j
                 PROVE  Units(new[k][i]) \cap Units(new[m][j]) = {}
      BY DEF Apart
    <2>1. CASE /\ i \in 1 .. Len(redeems[k]) /\ new[k][i] = redeems[k][i]
               /\ j \in 1 .. Len(redeems[m]) /\ new[m][j] = redeems[m][j]
      BY <2>1, <1>a DEF Apart
    <2>2. CASE /\ i \in 1 .. Len(redeems[k]) /\ new[k][i] = redeems[k][i] /\ new[m][j] = ticket
      BY <2>2, <1>7
    <2>3. CASE /\ j \in 1 .. Len(redeems[m]) /\ new[m][j] = redeems[m][j] /\ new[k][i] = ticket
      BY <2>3, <1>7
    <2> QED BY <1>4, <2>1, <2>2, <2>3
  <1>9. ASSUME NEW j \in 1 .. Len(fills)
        PROVE  Waiting(new) \cap Slice(fills, j) = Waiting(redeems) \cap Slice(fills, j)
    <2>1. fills[j].filledTo <= tail
      <3>1. j \in 0 .. Len(fills) /\ Len(fills) \in 0 .. Len(fills) /\ j <= Len(fills)
        BY <1>n
      <3>2. Edge(fills, j) <= filled
        BY <3>1, <1>q DEF FillsOK
      <3>3. Edge(fills, j) = fills[j].filledTo /\ fills[j].filledTo \in Nat
        BY <1>q, FillFacts
      <3> QED BY <3>2, <3>3, <1>q
    <2>2. Units(ticket) \cap Slice(fills, j) = {}
      <3>1. fills[j].filledTo \in Nat /\ Edge(fills, j - 1) \in Nat
        BY <1>q, FillFacts
      <3> QED BY <2>1, <3>1, <1>1, <1>q DEF Units, Slice
    <2>3. ASSUME NEW u \in Waiting(redeems) PROVE u \in Waiting(new)
      <3>1. PICK k \in Holders : \E i \in 1 .. Len(redeems[k]) : u \in Units(redeems[k][i])
        BY <2>3 DEF Waiting
      <3>2. PICK i \in 1 .. Len(redeems[k]) : u \in Units(redeems[k][i])
        BY <3>1
      <3>3. i \in 1 .. Len(new[k]) /\ u \in Units(new[k][i])
        BY <3>2, <1>5
      <3> QED BY <3>3, <2>3 DEF Waiting
    <2>4. ASSUME NEW u \in Waiting(new), u \in Slice(fills, j) PROVE u \in Waiting(redeems)
      <3>1. PICK k \in Holders : \E i \in 1 .. Len(new[k]) : u \in Units(new[k][i])
        BY <2>4 DEF Waiting
      <3>2. PICK i \in 1 .. Len(new[k]) : u \in Units(new[k][i])
        BY <3>1
      <3>3. new[k][i] # ticket
        BY <3>2, <2>2, <2>4
      <3>4. i \in 1 .. Len(redeems[k]) /\ new[k][i] = redeems[k][i]
        BY <3>3, <1>4
      <3>5. u \in Nat
        BY <2>4 DEF Waiting
      <3> QED BY <3>2, <3>4, <3>5 DEF Waiting
    <2> QED BY <2>3, <2>4
  <1>10. SetAside(fills, Waiting(new)) = SetAside(fills, Waiting(redeems))
    BY <1>9, <1>q, SetAsideAgrees
  <1>11. \A k \in Holders : new[k] \in Seq(RedeemTicket)
    BY <1>3
  <1>13. filled <= tail + amount
    BY <1>q
  <1>14. QueueOK(new, tail + amount, filled, fills)
    BY <1>6, <1>8, <1>11, <1>12, <1>13, <1>n, <1>q DEF QueueOK
  <1> QED BY <1>10, <1>14 DEF new, ticket

PaidBy(redeems, h, i, ticket) == [redeems EXCEPT ![h][i] = ticket]

PaidAt(redeems, new, h, i, ticket, k) ==
    /\ new[k] \in Seq(RedeemTicket)
    /\ Len(new[k]) = Len(redeems[k])
    /\ \A j \in 1 .. Len(new[k]) :
         new[k][j] = IF k = h /\ j = i THEN ticket ELSE redeems[k][j]

LEMMA QueuePaidFacts ==
    ASSUME NEW redeems, redeems = [h \in Holders |-> redeems[h]],
           \A h \in Holders : redeems[h] \in Seq(RedeemTicket),
           NEW h \in Holders, NEW i \in 1 .. Len(redeems[h]),
           NEW ticket \in RedeemTicket, NEW k \in Holders
    PROVE  PaidAt(redeems, PaidBy(redeems, h, i, ticket), h, i, ticket, k)
  <1> DEFINE new == PaidBy(redeems, h, i, ticket)
             s == redeems[h]
             t == [s EXCEPT ![i] = ticket]
  <1>1. new = [redeems EXCEPT ![h] = t]
    BY DEF PaidBy
  <1>2. s \in Seq(RedeemTicket) /\ i \in 1 .. Len(s)
    OBVIOUS
  <1> HIDE DEF new, s
  <1>3. /\ t \in Seq(RedeemTicket) /\ Len(t) = Len(s)
        /\ \A j \in 1 .. Len(s) : t[j] = IF j = i THEN ticket ELSE s[j]
    BY <1>2
  <1> HIDE DEF t
  <1>4. new[k] = IF k = h THEN t ELSE redeems[k]
    BY <1>1
  <1>5. CASE k = h
    BY <1>3, <1>4, <1>5 DEF PaidAt, s, new
  <1>6. CASE k # h
    <2>1. new[k] = redeems[k] /\ redeems[k] \in Seq(RedeemTicket)
      BY <1>4, <1>6
    <2> QED BY <1>6, <2>1 DEF new, PaidAt
  <1> QED BY <1>5, <1>6

LEMMA QueuePaid ==
    ASSUME NEW redeems, NEW tail, NEW filled, NEW fills, QueueOK(redeems, tail, filled, fills),
           NEW h \in Holders, NEW i \in 1 .. Len(redeems[h]), NEW c,
           Found(fills, redeems[h][i], c)
    PROVE  LET new == PaidBy(redeems, h, i, c.ticket)
           IN  /\ QueueOK(new, tail, filled, fills)
               /\ c.assets + SetAside(fills, Waiting(new)) <= SetAside(fills, Waiting(redeems))
  <1> DEFINE was == redeems[h][i]
             ticket == c.ticket
             new == PaidBy(redeems, h, i, ticket)
             U == was.claimedTo + 1 .. ticket.claimedTo
  <1>q. /\ redeems = [x \in Holders |-> redeems[x]]
        /\ \A k \in Holders : redeems[k] \in Seq(RedeemTicket)
        /\ tail \in Nat /\ filled \in Nat /\ filled <= tail
        /\ FillsOK(fills) /\ filled = Edge(fills, Len(fills))
    BY DEF QueueOK
  <1>a. /\ \A k \in Holders : \A j \in 1 .. Len(redeems[k]) :
             TicketOK(fills, redeems[k][j]) /\ redeems[k][j].hi <= tail
        /\ Apart(redeems)
    BY DEF QueueOK
  <1>w. TicketOK(fills, was) /\ was.hi <= tail
    BY <1>a
  <1>f. /\ TicketOK(fills, ticket) /\ ticket.hi = was.hi /\ was.claimedTo <= ticket.claimedTo
        /\ ticket = [hi |-> ticket.hi, claimedTo |-> ticket.claimedTo, cursor |-> ticket.cursor]
        /\ Pays(fills, c.assets, U)
    BY DEF Found, Walked
  <1>n. /\ was.claimedTo \in Nat /\ ticket.claimedTo \in Nat /\ ticket.hi \in Nat
        /\ ticket.claimedTo <= ticket.hi /\ ticket.cursor \in Nat
    BY <1>w, <1>f, <1>q, IndicesAreFinite DEF TicketOK
  <1>1. ticket \in RedeemTicket
    BY <1>f, <1>n DEF RedeemTicket
  <1>2. Units(was) = U \cup Units(ticket) /\ U \cap Units(ticket) = {} /\ U \subseteq Nat
    BY <1>f, <1>n DEF Units
  <1>3. new = [x \in Holders |-> new[x]]
    <2>1. new = [x \in Holders |-> IF x = h THEN [redeems[h] EXCEPT ![i] = ticket] ELSE redeems[x]]
      BY <1>q DEF PaidBy
    <2> HIDE DEF new
    <2> QED BY <2>1
  <1> HIDE DEF ticket
  <1>p. \A k \in Holders : PaidAt(redeems, new, h, i, ticket, k)
    BY <1>1, <1>q, QueuePaidFacts
  <1> HIDE DEF new, U
  <1>4. \A k \in Holders :
             /\ new[k] \in Seq(RedeemTicket)
             /\ Len(new[k]) = Len(redeems[k])
             /\ \A j \in 1 .. Len(redeems[k]) :
                  new[k][j] = IF k = h /\ j = i THEN ticket ELSE redeems[k][j]
    BY <1>p DEF PaidAt
  <1>5. \A k \in Holders : \A j \in 1 .. Len(new[k]) :
          TicketOK(fills, new[k][j]) /\ new[k][j].hi <= tail
    <2> TAKE k \in Holders
    <2> TAKE j \in 1 .. Len(new[k])
    <2>1. j \in 1 .. Len(redeems[k])
      BY <1>4
    <2>2. CASE k = h /\ j = i
      <3>1. new[k][j] = ticket
        BY <2>1, <2>2, <1>4
      <3> QED BY <3>1, <1>f, <1>w DEF ticket
    <2>3. CASE ~(k = h /\ j = i)
      <3>1. new[k][j] = redeems[k][j]
        BY <2>1, <2>3, <1>4
      <3> QED BY <3>1, <2>1, <1>a
    <2> QED BY <2>2, <2>3
  \* The units of every ticket are some of those it had.
  <1>6. ASSUME NEW k \in Holders, NEW j \in 1 .. Len(redeems[k])
        PROVE  Units(new[k][j]) \subseteq Units(redeems[k][j]) /\ Units(new[k][j]) \cap U = {}
    <2>1. CASE k = h /\ j = i
      <3>1. new[k][j] = ticket /\ redeems[k][j] = was
        BY <2>1, <1>4
      <3> QED BY <3>1, <1>2 DEF ticket
    <2>2. CASE ~(k = h /\ j = i)
      <3>1. new[k][j] = redeems[k][j]
        BY <2>2, <1>4
      <3>2. Units(redeems[k][j]) \cap Units(was) = {}
        BY <2>2, <1>a DEF Apart
      <3> QED BY <3>1, <3>2, <1>2
    <2> QED BY <2>1, <2>2
  <1>7. Apart(new)
    <2> SUFFICES ASSUME NEW k \in Holders, NEW m \in Holders, NEW a \in 1 .. Len(new[k]),
                        NEW b \in 1 .. Len(new[m]), k # m \/ a # b
                 PROVE  Units(new[k][a]) \cap Units(new[m][b]) = {}
      BY DEF Apart
    <2>1. a \in 1 .. Len(redeems[k]) /\ b \in 1 .. Len(redeems[m])
      BY <1>4
    <2>2. Units(redeems[k][a]) \cap Units(redeems[m][b]) = {}
      BY <2>1, <1>a DEF Apart
    <2> QED BY <2>1, <2>2, <1>6
  <1>8. Waiting(redeems) = Waiting(new) \cup U /\ Waiting(new) \cap U = {}
    <2>1. ASSUME NEW u \in Waiting(new) PROVE u \in Waiting(redeems) /\ u \notin U
      <3>1. PICK k \in Holders : \E j \in 1 .. Len(new[k]) : u \in Units(new[k][j])
        BY <2>1 DEF Waiting
      <3>2. PICK j \in 1 .. Len(new[k]) : u \in Units(new[k][j])
        BY <3>1
      <3>3. j \in 1 .. Len(redeems[k])
        BY <1>4
      <3>4. u \in Units(redeems[k][j]) /\ u \notin U
        BY <3>2, <3>3, <1>6
      <3>5. u \in Nat
        BY <2>1 DEF Waiting
      <3> QED BY <3>3, <3>4, <3>5 DEF Waiting
    <2>2. ASSUME NEW u \in U PROVE u \in Waiting(redeems)
      <3>1. u \in Units(redeems[h][i]) /\ u \in Nat
        BY <2>2, <1>2
      <3> QED BY <3>1 DEF Waiting
    <2>3. ASSUME NEW u \in Waiting(redeems), u \notin U PROVE u \in Waiting(new)
      <3>1. PICK k \in Holders : \E j \in 1 .. Len(redeems[k]) : u \in Units(redeems[k][j])
        BY <2>3 DEF Waiting
      <3>2. PICK j \in 1 .. Len(redeems[k]) : u \in Units(redeems[k][j])
        BY <3>1
      <3>3. j \in 1 .. Len(new[k])
        BY <1>4
      <3>4. u \in Units(new[k][j])
        <4>1. CASE k = h /\ j = i
          <5>1. new[k][j] = ticket /\ u \in Units(was)
            BY <4>1, <3>2, <1>4
          <5> QED BY <5>1, <2>3, <1>2 DEF ticket
        <4>2. CASE ~(k = h /\ j = i)
          BY <4>2, <3>2, <1>4
        <4> QED BY <4>1, <4>2
      <3>5. u \in Nat
        BY <2>3 DEF Waiting
      <3> QED BY <3>3, <3>4, <3>5 DEF Waiting
    <2> QED BY <2>1, <2>2, <2>3
  <1>9. c.assets + SetAside(fills, Waiting(new)) <= SetAside(fills, Waiting(redeems))
    <2>1. Pays(fills, c.assets, U)
      BY <1>f DEF U, ticket
    <2>2. c.assets + SetAside(fills, Waiting(new)) <= SetAside(fills, Waiting(new) \cup U)
      BY <1>8, <2>1 DEF Pays
    <2> QED BY <2>2, <1>8
  <1>10. \A k \in Holders : new[k] \in Seq(RedeemTicket)
    BY <1>4
  <1>11. QueueOK(new, tail, filled, fills)
    BY <1>3, <1>5, <1>7, <1>10, <1>q DEF QueueOK
  <1> QED BY <1>9, <1>11 DEF new, ticket

NewFill(filled, x, net) ==
    [filledTo |-> filled + x, sharesFilled |-> x, assetsAllocated |-> net]

\* The fills after one more.
LEMMA FillAppended ==
    ASSUME NEW fills, FillsOK(fills), NEW x \in Nat, x > 0, NEW net \in Nat
    PROVE  LET new == Append(fills, NewFill(Edge(fills, Len(fills)), x, net))
           IN  /\ FillsOK(new) /\ Len(new) = Len(fills) + 1
               /\ \A j \in 0 .. Len(fills) : Edge(new, j) = Edge(fills, j)
               /\ \A j \in 1 .. Len(fills) : new[j] = fills[j]
               /\ new[Len(fills) + 1] = NewFill(Edge(fills, Len(fills)), x, net)
               /\ Edge(new, Len(fills) + 1) = Edge(fills, Len(fills)) + x
  <1> DEFINE n == Len(fills)
             filled == Edge(fills, n)
             f == NewFill(filled, x, net)
             new == Append(fills, f)
  <1>1. n \in Nat /\ n \in 0 .. n /\ fills \in Seq(Fill)
    BY IndicesAreFinite DEF FillsOK
  <1>2. filled \in Nat
    BY <1>1, EdgeIsNat
  <1>3. f \in Fill /\ f.filledTo = filled + x /\ f.sharesFilled = x
    BY <1>2 DEF NewFill, Fill
  <1> HIDE DEF f
  <1>4. /\ new \in Seq(Fill) /\ Len(new) = n + 1
        /\ new[n + 1] = f /\ \A j \in 1 .. n : new[j] = fills[j]
    BY <1>1, <1>3
  <1> HIDE DEF new
  <1>5. \A j \in 0 .. n : Edge(new, j) = Edge(fills, j)
    BY <1>1, <1>4 DEF Edge
  <1>6. Edge(new, n + 1) = filled + x
    BY <1>1, <1>3, <1>4 DEF Edge
  <1>7. \A j \in 1 .. n + 1 : new[j].sharesFilled > 0
                              /\ new[j].filledTo = Edge(new, j - 1) + new[j].sharesFilled
    <2> TAKE j \in 1 .. n + 1
    <2>1. CASE j \in 1 .. n
      <3>1. j - 1 \in 0 .. n
        BY <2>1, <1>1
      <3>2. new[j] = fills[j] /\ Edge(new, j - 1) = Edge(fills, j - 1)
        BY <2>1, <3>1, <1>4, <1>5
      <3>3. fills[j].sharesFilled > 0 /\ fills[j].filledTo = Edge(fills, j - 1) + fills[j].sharesFilled
        BY <2>1 DEF FillsOK
      <3> QED BY <3>2, <3>3
    <2>2. CASE j = n + 1
      <3>1. j - 1 = n /\ Edge(new, n) = filled
        BY <2>2, <1>1, <1>5
      <3> QED BY <3>1, <2>2, <1>3, <1>4
    <2> QED BY <2>1, <2>2, <1>1
  <1>8. \A i, j \in 0 .. n + 1 : i <= j => Edge(new, i) <= Edge(new, j)
    <2> SUFFICES ASSUME NEW i \in 0 .. n + 1, NEW j \in 0 .. n + 1, i <= j
                 PROVE  Edge(new, i) <= Edge(new, j)
      OBVIOUS
    <2>1. CASE j \in 0 .. n
      <3>1. i \in 0 .. n
        BY <2>1, <1>1
      <3>2. Edge(fills, i) <= Edge(fills, j)
        BY <2>1, <3>1 DEF FillsOK
      <3> QED BY <2>1, <3>1, <3>2, <1>5
    <2>2. CASE j = n + 1 /\ i \in 0 .. n
      <3>1. i <= n
        BY <2>2, <1>1
      <3>2. Edge(fills, i) <= Edge(fills, n)
        BY <3>1, <2>2, <1>1 DEF FillsOK
      <3>3. Edge(fills, i) \in Nat
        BY <2>2, EdgeIsNat
      <3>4. Edge(new, i) = Edge(fills, i) /\ Edge(new, j) = filled + x
        BY <2>2, <1>5, <1>6
      <3> QED BY <3>2, <3>3, <3>4, <1>2
    <2>3. CASE j = n + 1 /\ i = n + 1
      BY <2>3, <1>2, <1>6
    <2> QED BY <2>1, <2>2, <2>3, <1>1
  <1>9. FillsOK(new)
    BY <1>4, <1>7, <1>8 DEF FillsOK
  <1> QED BY <1>4, <1>5, <1>6, <1>9 DEF new, f

\* A fill of `x` units for `net` sets aside what the units still asked for are
\* worth, and not more than `net`.
LEMMA FillSetsAside ==
    ASSUME NEW fills, FillsOK(fills), NEW x \in Nat, x > 0, NEW net \in Nat, NEW X
    PROVE  SetAside(Append(fills, NewFill(Edge(fills, Len(fills)), x, net)), X)
             <= SetAside(fills, X) + net
  <1> DEFINE n == Len(fills)
             f == NewFill(Edge(fills, n), x, net)
             new == Append(fills, f)
             J == 1 .. n
             w == Worths(fills, X)
             v == Worths(new, X)
  <1>1. n \in Nat /\ IsFiniteSet(J) /\ n + 1 \notin J
    BY IndicesAreFinite
  <1>2. FillsOK(new) /\ Len(new) = n + 1
    BY FillAppended
  <1>3. /\ \A j \in 0 .. n : Edge(new, j) = Edge(fills, j)
        /\ \A j \in 1 .. n : new[j] = fills[j]
    BY FillAppended
  <1>4. new[n + 1] = f
    BY FillAppended
  <1>f. f.sharesFilled = x /\ f.assetsAllocated = net
    BY DEF NewFill
  <1> HIDE DEF f, new
  <1>5. ASSUME NEW j \in J PROVE v[j] = w[j]
    <2>1. j \in 1 .. n + 1 /\ j - 1 \in 0 .. n
      BY <1>1
    <2>2. Slice(new, j) = Slice(fills, j)
      BY <2>1, <1>3 DEF Slice
    <2>3. new[j] = fills[j]
      BY <1>3
    <2>4. v[j] = Worth(Cardinality(X \cap Slice(new, j)), new[j].assetsAllocated,
                       new[j].sharesFilled)
      BY <2>1, <1>2, WorthsAre
    <2>5. w[j] = Worth(Cardinality(X \cap Slice(fills, j)), fills[j].assetsAllocated,
                       fills[j].sharesFilled)
      BY WorthsAre
    <2> QED BY <2>2, <2>3, <2>4, <2>5
  <1>6. v[n + 1] \in Nat /\ v[n + 1] <= net
    <2> DEFINE r == Cardinality(X \cap Slice(new, n + 1))
    <2>1. n + 1 \in 1 .. Len(new)
      BY <1>1, <1>2
    <2>2. r \in Nat /\ r <= x
      BY <2>1, <1>2, <1>4, <1>f, CountInSlice
    <2>3. v[n + 1] = Worth(r, net, x) /\ v[n + 1] \in Nat
      BY <2>1, <1>2, <1>4, <1>f, WorthsAre
    <2> HIDE DEF r, v
    <2> QED BY <2>2, <2>3, WorthOfAll
  <1>7. 1 .. Len(new) = J \cup {n + 1}
    <2> HIDE DEF n
    <2>1. 1 .. n + 1 = (1 .. n) \cup {n + 1}
      BY <1>1
    <2> QED BY <2>1, <1>2
  <1>8. \A j \in J : w[j] \in Int
    <2>1. \A j \in J : w[j] \in Nat
      BY WorthsAre
    <2> QED BY <2>1
  <1> HIDE DEF w, v, J, n
  <1>9. \A j \in J \cup {n + 1} : v[j] \in Int
    BY <1>5, <1>6, <1>8
  <1>10. SumOver(v, J \cup {n + 1}) = SumOver(v, J) + v[n + 1]
    BY <1>1, <1>9, SumPutsIn
  <1>11. SumOver(v, J) = SumOver(w, J) /\ SumOver(w, J) \in Int
    BY <1>1, <1>5, <1>8, SumAgrees, SumIsInt
  <1>12. SetAside(new, X) = SumOver(v, J \cup {n + 1})
    BY <1>7 DEF SetAside, v
  <1>13. SetAside(fills, X) = SumOver(w, J)
    BY DEF SetAside, w, J, n
  <1> DEFINE a == SumOver(w, J)
             z == v[n + 1]
  <1>14. SetAside(new, X) = a + z /\ SetAside(fills, X) = a /\ a \in Int /\ z \in Nat /\ z <= net
    BY <1>6, <1>10, <1>11, <1>12, <1>13
  <1> HIDE DEF a, z
  <1>15. SetAside(new, X) <= SetAside(fills, X) + net
    BY <1>14
  <1> QED BY <1>15 DEF new, f, n

LEMMA QueueFilled ==
    ASSUME NEW redeems, NEW tail, NEW filled, NEW fills, QueueOK(redeems, tail, filled, fills),
           NEW x \in Nat, x > 0, x <= tail - filled, NEW net \in Nat
    PROVE  LET new == Append(fills, NewFill(filled, x, net))
           IN  /\ QueueOK(redeems, tail, filled + x, new)
               /\ SetAside(new, Waiting(redeems)) <= SetAside(fills, Waiting(redeems)) + net
  <1> DEFINE n == Len(fills)
             new == Append(fills, NewFill(filled, x, net))
  <1>q. /\ redeems = [h \in Holders |-> redeems[h]]
        /\ \A k \in Holders : redeems[k] \in Seq(RedeemTicket)
        /\ tail \in Nat /\ filled \in Nat /\ filled <= tail
        /\ FillsOK(fills) /\ filled = Edge(fills, n)
        /\ Apart(redeems)
    BY DEF QueueOK
  <1>a. \A k \in Holders : \A j \in 1 .. Len(redeems[k]) :
             TicketOK(fills, redeems[k][j]) /\ redeems[k][j].hi <= tail
    BY DEF QueueOK
  <1>1. new = Append(fills, NewFill(Edge(fills, n), x, net))
    BY <1>q
  <1>2. FillsOK(new) /\ Len(new) = n + 1
    BY <1>1, <1>q, FillAppended
  <1>3. \A j \in 0 .. n : Edge(new, j) = Edge(fills, j)
    BY <1>1, <1>q, FillAppended
  <1>4. Edge(new, n + 1) = filled + x
    BY <1>1, <1>q, FillAppended
  <1>5. SetAside(new, Waiting(redeems)) <= SetAside(fills, Waiting(redeems)) + net
    BY <1>1, <1>q, FillSetsAside
  <1>n. n \in Nat
    BY <1>q, IndicesAreFinite
  <1> HIDE DEF new, n
  <1>6. \A k \in Holders : \A j \in 1 .. Len(redeems[k]) :
             TicketOK(new, redeems[k][j]) /\ redeems[k][j].hi <= tail
    <2> TAKE k \in Holders
    <2> TAKE j \in 1 .. Len(redeems[k])
    <2> DEFINE ticket == redeems[k][j]
    <2>1. TicketOK(fills, ticket) /\ ticket.hi <= tail
      BY <1>a
    <2> HIDE DEF ticket
    <2>2. ticket.cursor \in 0 .. n /\ ticket.cursor \in 0 .. Len(new)
      BY <2>1, <1>2, <1>n DEF TicketOK, n
    <2>3. Edge(new, ticket.cursor) = Edge(fills, ticket.cursor)
      BY <2>2, <1>3
    <2>4. TicketOK(new, ticket) /\ ticket.hi <= tail
      BY <2>1, <2>2, <2>3 DEF TicketOK
    <2> QED BY <2>4 DEF ticket
  <1>7. filled + x \in Nat /\ filled + x <= tail /\ filled + x = Edge(new, Len(new))
    BY <1>2, <1>4, <1>q
  <1>8. QueueOK(redeems, tail, filled + x, new)
    BY <1>2, <1>6, <1>7, <1>q DEF QueueOK
  <1> QED BY <1>5, <1>8 DEF new

---------------------------------------------------------------------------
(* What every ticket can claim at once. *)

LEMMA PaysMore ==
    ASSUME NEW fills, FillsOK(fills), NEW n, NEW U, NEW V, Pays(fills, n, U), U \subseteq V
    PROVE  Pays(fills, n, V)
  <1>1. n \in Nat
    BY DEF Pays
  <1>2. ASSUME NEW X, X \cap V = {}
        PROVE  n + SetAside(fills, X) <= SetAside(fills, X \cup V)
    <2>1. X \cap U = {} /\ X \cup U \subseteq X \cup V
      BY <1>2
    <2>2. n + SetAside(fills, X) <= SetAside(fills, X \cup U)
      BY <2>1 DEF Pays
    <2>3. SetAside(fills, X \cup U) <= SetAside(fills, X \cup V)
      BY <2>1, SetAsideGrows
    <2>4. /\ SetAside(fills, X) \in Nat /\ SetAside(fills, X \cup U) \in Nat
          /\ SetAside(fills, X \cup V) \in Nat
      BY SetAsideIsNat
    <2> QED BY <1>1, <2>2, <2>3, <2>4
  <1> QED BY <1>1, <1>2 DEF Pays

\* Each of I is paid its own units.
PaysEach(fills, I, c, u) ==
    /\ \A i \in I : Pays(fills, c[i], u[i])
    /\ \A i, j \in I : i # j => u[i] \cap u[j] = {}

AllOf(u, I) == UNION {u[i] : i \in I}

LEMMA PaysAll ==
    ASSUME NEW fills, FillsOK(fills), NEW I, IsFiniteSet(I), NEW c, NEW u, PaysEach(fills, I, c, u)
    PROVE  Pays(fills, SumOver(c, I), AllOf(u, I))
  <1> DEFINE Paid(s) == Pays(fills, SumOver(c, s), AllOf(u, s))
             T == {s \in SUBSET I : ~Paid(s)}
  <1> SUFFICES ASSUME ~Paid(I) PROVE FALSE
    OBVIOUS
  <1>0. I \in T /\ T \subseteq SUBSET I
    OBVIOUS
  <1>1. PICK S \in T : \A V \in T : ~(V \subseteq S /\ V # S)
    <2> HIDE DEF T
    <2> QED BY <1>0, SmallestSubset
  <1>2. S \subseteq I /\ ~Paid(S) /\ IsFiniteSet(S)
    BY FS_Subset
  <1>3. S # {}
    <2>1. SumOver(c, {}) = 0 /\ AllOf(u, {}) = {}
      BY SumOfNothing DEF AllOf
    <2>2. Paid({})
      BY <2>1, PaysNothing
    <2> QED BY <2>2, <1>2
  <1>4. PICK y \in S : TRUE
    BY <1>3
  <1> DEFINE V == S \ {y}
  <1>5. V \subseteq S /\ V # S /\ V \in SUBSET I /\ y \in I
    BY <1>2, <1>4
  <1>6. AllOf(u, S) = u[y] \cup AllOf(u, V)
    BY <1>4 DEF AllOf
  <1>7. u[y] \cap AllOf(u, V) = {}
    BY <1>2, <1>4 DEF AllOf, PaysEach
  <1>8. \A x \in S : c[x] \in Int
    <2>1. \A x \in S : c[x] \in Nat
      BY <1>2 DEF PaysEach, Pays
    <2> QED BY <2>1
  <1>9. SumOver(c, S) = c[y] + SumOver(c, V)
    BY <1>2, <1>4, <1>8, SumTakesOut
  <1> HIDE DEF V
  <1>10. Pays(fills, SumOver(c, V), AllOf(u, V))
    BY <1>1, <1>5
  <1>11. Pays(fills, c[y], u[y])
    BY <1>5 DEF PaysEach
  <1>12. Pays(fills, c[y] + SumOver(c, V), u[y] \cup AllOf(u, V))
    BY <1>7, <1>10, <1>11, PaysTogether
  <1> QED BY <1>2, <1>6, <1>9, <1>12

\* What one lender can claim of one queue.
ClaimsOf(redeems, fills, h) ==
    [i \in 1 .. Len(redeems[h]) |-> Claim(fills, redeems[h][i], Len(fills) + 1).assets]

ClaimableBy(redeems, fills, h) ==
    SumOver(ClaimsOf(redeems, fills, h), 1 .. Len(redeems[h]))

UnitsIn(redeems, h) == [i \in 1 .. Len(redeems[h]) |-> Units(redeems[h][i])]

OwnUnits(redeems, h) == AllOf(UnitsIn(redeems, h), 1 .. Len(redeems[h]))

LEMMA LenderIsPaid ==
    ASSUME NEW redeems, NEW tail, NEW filled, NEW fills, QueueOK(redeems, tail, filled, fills),
           NEW h \in Holders
    PROVE  Pays(fills, ClaimableBy(redeems, fills, h), OwnUnits(redeems, h))
  <1> DEFINE I == 1 .. Len(redeems[h])
             c == ClaimsOf(redeems, fills, h)
             u == UnitsIn(redeems, h)
  <1>1. FillsOK(fills) /\ Len(fills) + 1 \in Nat /\ redeems[h] \in Seq(RedeemTicket)
    BY IndicesAreFinite DEF QueueOK
  <1>2. IsFiniteSet(I)
    <2>1. Len(redeems[h]) \in Nat
      BY <1>1
    <2> QED BY <2>1, FS_Interval
  <1>3. ASSUME NEW i \in I PROVE Pays(fills, c[i], u[i])
    <2> DEFINE ticket == redeems[h][i]
               claim == Claim(fills, ticket, Len(fills) + 1)
    <2>1. IsTicket(ticket)
      BY <1>1, TicketIsTicket
    <2>2. TicketOK(fills, ticket)
      BY DEF QueueOK
    <2>3. c[i] = claim.assets /\ u[i] = Units(ticket)
      BY DEF ClaimsOf, UnitsIn
    <2> HIDE DEF ticket
    <2>4. Found(fills, ticket, claim)
      BY <1>1, <2>1, <2>2, ClaimPays DEF IsTicket
    <2> HIDE DEF claim
    <2> DEFINE U == ticket.claimedTo + 1 .. claim.ticket.claimedTo
    <2>5. Pays(fills, claim.assets, U)
      BY <2>4 DEF Found, Walked
    <2>6. U \subseteq Units(ticket)
      <3>1. /\ claim.ticket.claimedTo \in Nat /\ claim.ticket.claimedTo <= ticket.hi
            /\ ticket.hi \in Nat /\ ticket.claimedTo \in Nat
        BY <2>2, <2>4 DEF Found, Walked, TicketOK
      <3> QED BY <3>1 DEF Units
    <2> HIDE DEF U
    <2>7. Pays(fills, claim.assets, Units(ticket))
      BY <1>1, <2>5, <2>6, PaysMore
    <2> QED BY <2>3, <2>7
  <1>4. ASSUME NEW i \in I, NEW j \in I, i # j PROVE u[i] \cap u[j] = {}
    <2>1. Units(redeems[h][i]) \cap Units(redeems[h][j]) = {}
      BY <1>4 DEF QueueOK, Apart
    <2> QED BY <2>1 DEF UnitsIn
  <1> HIDE DEF c, u
  <1>5. PaysEach(fills, I, c, u)
    BY <1>3, <1>4 DEF PaysEach
  <1>6. Pays(fills, SumOver(c, I), AllOf(u, I))
    BY <1>1, <1>2, <1>5, PaysAll
  <1> QED BY <1>6 DEF c, u, ClaimableBy, OwnUnits

\* What each lender can claim of a queue.
ClaimablesOf(redeems, fills) == [h \in Holders |-> ClaimableBy(redeems, fills, h)]

LEMMA QueueIsCovered ==
    ASSUME NEW redeems, NEW tail, NEW filled, NEW fills, QueueOK(redeems, tail, filled, fills)
    PROVE  /\ \A h \in Holders : ClaimableBy(redeems, fills, h) \in Nat
           /\ SumOver(ClaimablesOf(redeems, fills), Holders) <= SetAside(fills, Waiting(redeems))
  <1> DEFINE c == ClaimablesOf(redeems, fills)
             u == [h \in Holders |-> OwnUnits(redeems, h)]
  <1>1. FillsOK(fills) /\ IsFiniteSet(Holders)
    BY LendersAssumption DEF QueueOK
  <1>2. \A h \in Holders : Pays(fills, ClaimableBy(redeems, fills, h), OwnUnits(redeems, h))
    BY LenderIsPaid
  <1>3. \A h \in Holders : Pays(fills, c[h], u[h])
    BY <1>2 DEF ClaimablesOf
  <1>4. ASSUME NEW h \in Holders, NEW k \in Holders, h # k PROVE u[h] \cap u[k] = {}
    <2>1. Apart(redeems)
      BY DEF QueueOK
    <2>2. \A i \in 1 .. Len(redeems[h]), j \in 1 .. Len(redeems[k]) :
            Units(redeems[h][i]) \cap Units(redeems[k][j]) = {}
      BY <1>4, <2>1 DEF Apart
    <2>3. OwnUnits(redeems, h) \cap OwnUnits(redeems, k) = {}
      <3> SUFFICES ASSUME NEW x \in OwnUnits(redeems, h), x \in OwnUnits(redeems, k)
                   PROVE  FALSE
        OBVIOUS
      <3>1. PICK i \in 1 .. Len(redeems[h]) : x \in Units(redeems[h][i])
        BY DEF OwnUnits, AllOf, UnitsIn
      <3>2. PICK j \in 1 .. Len(redeems[k]) : x \in Units(redeems[k][j])
        BY DEF OwnUnits, AllOf, UnitsIn
      <3> QED BY <2>2, <3>1, <3>2
    <2> QED BY <2>3
  <1>5. AllOf(u, Holders) \subseteq Waiting(redeems)
    <2> SUFFICES ASSUME NEW h \in Holders, NEW x \in OwnUnits(redeems, h)
                 PROVE  x \in Waiting(redeems)
      BY DEF AllOf
    <2>1. PICK i \in 1 .. Len(redeems[h]) : x \in Units(redeems[h][i])
      BY DEF OwnUnits, AllOf, UnitsIn
    <2>2. redeems[h][i].claimedTo \in Nat /\ redeems[h][i].hi \in Nat
      BY DEF QueueOK, TicketOK
    <2>3. x \in Nat
      BY <2>1, <2>2 DEF Units
    <2> QED BY <2>1, <2>3 DEF Waiting
  <1> HIDE DEF c, u
  <1>6. PaysEach(fills, Holders, c, u)
    BY <1>3, <1>4 DEF PaysEach
  <1>7. Pays(fills, SumOver(c, Holders), AllOf(u, Holders))
    BY <1>1, <1>6, PaysAll
  <1>8. SumOver(c, Holders) + SetAside(fills, {}) <= SetAside(fills, {} \cup AllOf(u, Holders))
        /\ SumOver(c, Holders) \in Nat
    BY <1>7 DEF Pays
  <1>9. {} \cup AllOf(u, Holders) = AllOf(u, Holders)
    OBVIOUS
  <1>10. SetAside(fills, AllOf(u, Holders)) <= SetAside(fills, Waiting(redeems))
    BY <1>1, <1>5, SetAsideGrows
  <1>11. /\ SetAside(fills, {}) \in Nat /\ SetAside(fills, AllOf(u, Holders)) \in Nat
         /\ SetAside(fills, Waiting(redeems)) \in Nat
    BY <1>1, SetAsideIsNat
  <1>12. SumOver(c, Holders) <= SetAside(fills, Waiting(redeems))
    BY <1>8, <1>9, <1>10, <1>11
  <1>13. \A h \in Holders : ClaimableBy(redeems, fills, h) \in Nat
    BY <1>2 DEF Pays
  <1> QED BY <1>12, <1>13 DEF c

---------------------------------------------------------------------------
(* The deposits of a tranche. *)

IsDeposit(k, epoch) ==
    /\ k = [epoch |-> k.epoch, assets |-> k.assets]
    /\ k.epoch \in 0 .. epoch /\ k.assets \in Nat

\* What a ticket adds to what was asked for in the running epoch.
AskedBy(k, epoch) == IF k.epoch = epoch THEN k.assets ELSE 0

AskedNow(tickets, epoch) == [h \in Holders |-> AskedBy(tickets[h], epoch)]

\* The money pending in the running epoch is the money of its tickets.
TicketsOK(tickets, asked, epoch) ==
    /\ epoch \in Epochs
    /\ tickets = [h \in Holders |-> tickets[h]]
    /\ \A h \in Holders : IsDeposit(tickets[h], epoch)
    /\ asked = [e \in Epochs |-> asked[e]]
    /\ \A e \in Epochs : asked[e] \in Nat /\ (e > epoch => asked[e] = 0)
    /\ asked[epoch] = SumOver(AskedNow(tickets, epoch), Holders)

PricedOK(minted) == minted = [e \in Epochs |-> minted[e]] /\ \A e \in Epochs : minted[e] \in Nat

\* The shares a ticket of an earlier epoch is owed.
OwedOn(k, asked, minted) ==
    IF asked[k.epoch] = 0 THEN 0 ELSE (k.assets * minted[k.epoch]) \div asked[k.epoch]

OwedTo(k, asked, minted, epoch) == IF k.epoch < epoch THEN OwedOn(k, asked, minted) ELSE 0

OwedNow(tickets, asked, minted, epoch) ==
    [h \in Holders |-> OwedTo(tickets[h], asked, minted, epoch)]

SharesDue(tickets, asked, minted, epoch) ==
    SumOver(OwedNow(tickets, asked, minted, epoch), Holders)

LEMMA EpochsAre ==
    ASSUME NEW epoch \in Epochs, NEW k, IsDeposit(k, epoch)
    PROVE  k.epoch \in Epochs /\ k.epoch \in Nat /\ epoch \in Nat
  BY PoolParamsAssumption DEF Epochs, IsDeposit

LEMMA OwedOnIsNat ==
    ASSUME NEW k, NEW asked, NEW minted, k.assets \in Nat,
           asked[k.epoch] \in Nat, minted[k.epoch] \in Nat
    PROVE  OwedOn(k, asked, minted) \in Nat
  <1> DEFINE a == k.assets
             m == minted[k.epoch]
             D == asked[k.epoch]
  <1>1. a \in Nat /\ m \in Nat /\ D \in Nat
    OBVIOUS
  <1>2. OwedOn(k, asked, minted) = IF D = 0 THEN 0 ELSE (a * m) \div D
    BY DEF OwedOn
  <1> HIDE DEF a, m, D
  <1>3. a * m \in Nat
    BY <1>1, Z3
  <1>4. D # 0 => (a * m) \div D \in Nat
    BY <1>1, <1>3, Quotient
  <1> QED BY <1>2, <1>4

LEMMA NothingOwed ==
    ASSUME NEW k, NEW asked, NEW minted, k.assets = 0,
           asked[k.epoch] \in Nat, minted[k.epoch] \in Nat
    PROVE  OwedOn(k, asked, minted) = 0
  <1> DEFINE m == minted[k.epoch]
             D == asked[k.epoch]
  <1>1. m \in Nat /\ D \in Nat
    OBVIOUS
  <1>2. OwedOn(k, asked, minted) = IF D = 0 THEN 0 ELSE (0 * m) \div D
    BY DEF OwedOn
  <1> HIDE DEF m, D
  <1>3. 0 * m = 0 /\ (D # 0 => 0 \div D = 0)
    BY <1>1, Z3
  <1> QED BY <1>2, <1>3

LEMMA OwedIsNat ==
    ASSUME NEW tickets, NEW asked, NEW minted, NEW epoch,
           TicketsOK(tickets, asked, epoch), PricedOK(minted),
           NEW k, IsDeposit(k, epoch)
    PROVE  OwedTo(k, asked, minted, epoch) \in Nat
  <1>1. epoch \in Epochs
    BY DEF TicketsOK
  <1>2. k.epoch \in Epochs
    BY <1>1, EpochsAre
  <1>3. asked[k.epoch] \in Nat /\ minted[k.epoch] \in Nat /\ k.assets \in Nat
    BY <1>2 DEF TicketsOK, PricedOK, IsDeposit
  <1>4. OwedOn(k, asked, minted) \in Nat
    BY <1>3, OwedOnIsNat
  <1> QED BY <1>4 DEF OwedTo

\* One ticket is replaced and the running epoch's total with it.
Replaced(tickets, asked, minted, epoch, h, k, n) ==
    LET new  == [tickets EXCEPT ![h] = k]
        then == [asked EXCEPT ![epoch] = n]
    IN  /\ TicketsOK(new, then, epoch)
        /\ SharesDue(new, then, minted, epoch)
             = SharesDue(tickets, asked, minted, epoch)
                 - OwedTo(tickets[h], asked, minted, epoch)
                 + OwedTo(k, asked, minted, epoch)

LEMMA TicketReplaced ==
    ASSUME NEW tickets, NEW asked, NEW minted, NEW epoch,
           TicketsOK(tickets, asked, epoch), PricedOK(minted),
           NEW h \in Holders, NEW k, IsDeposit(k, epoch), NEW n,
           n = asked[epoch] - AskedBy(tickets[h], epoch) + AskedBy(k, epoch)
    PROVE  Replaced(tickets, asked, minted, epoch, h, k, n)
  <1> DEFINE new  == [tickets EXCEPT ![h] = k]
             then == [asked EXCEPT ![epoch] = n]
             f == AskedNow(tickets, epoch)
             g == AskedNow(new, epoch)
             o == OwedNow(tickets, asked, minted, epoch)
             p == OwedNow(new, then, minted, epoch)
  <1>t. /\ epoch \in Epochs
        /\ tickets = [x \in Holders |-> tickets[x]]
        /\ \A x \in Holders : IsDeposit(tickets[x], epoch)
        /\ asked = [e \in Epochs |-> asked[e]]
        /\ \A e \in Epochs : asked[e] \in Nat /\ (e > epoch => asked[e] = 0)
        /\ asked[epoch] = SumOver(f, Holders)
    BY DEF TicketsOK
  <1>s. IsFiniteSet(Holders)
    BY LendersAssumption
  <1>1. /\ new = [x \in Holders |-> IF x = h THEN k ELSE tickets[x]]
        /\ then = [e \in Epochs |-> IF e = epoch THEN n ELSE asked[e]]
    BY <1>t
  <1> HIDE DEF new, then
  <1>2. \A x \in Holders : new[x] = (IF x = h THEN k ELSE tickets[x]) /\ IsDeposit(new[x], epoch)
    BY <1>1, <1>t
  <1>3. \A x \in Holders : /\ f[x] = AskedBy(tickets[x], epoch) /\ f[x] \in Nat
                           /\ g[x] = AskedBy(new[x], epoch) /\ g[x] \in Nat
    BY <1>2, <1>t DEF AskedNow, AskedBy, IsDeposit
  <1>4. SumOver(g, Holders) = n /\ SumOver(g, Holders) \in Nat
    <2>1. OnlyAt(f, g, h, Holders)
      BY <1>2, <1>3 DEF OnlyAt
    <2>2. f[h] = AskedBy(tickets[h], epoch) /\ g[h] = AskedBy(k, epoch)
      BY <1>2, <1>3
    <2> HIDE DEF f, g
    <2>3. SumOver(g, Holders) = SumOver(f, Holders) - f[h] + g[h]
      BY <1>s, <2>1, SumMoves
    <2>4. SumOver(g, Holders) \in Nat
      BY <1>s, <1>3, SumIsNat
    <2> QED BY <2>2, <2>3, <2>4, <1>t
  <1>5. \A e \in Epochs : then[e] \in Nat /\ (e > epoch => then[e] = 0)
    <2> TAKE e \in Epochs
    <2>1. then[e] = IF e = epoch THEN n ELSE asked[e]
      BY <1>1
    <2>2. epoch \in Nat
      BY <1>t, PoolParamsAssumption DEF Epochs
    <2> QED BY <2>1, <2>2, <1>t, <1>4
  <1>6. then[epoch] = SumOver(g, Holders) /\ then = [e \in Epochs |-> then[e]]
        /\ new = [x \in Holders |-> new[x]]
    BY <1>1, <1>4, <1>t
  <1>7. TicketsOK(new, then, epoch)
    BY <1>2, <1>5, <1>6, <1>t DEF TicketsOK
  <1>8. ASSUME NEW x, IsDeposit(x, epoch)
        PROVE  OwedTo(x, then, minted, epoch) = OwedTo(x, asked, minted, epoch)
    <2>1. x.epoch \in Epochs /\ x.epoch \in Nat /\ epoch \in Nat
      BY <1>t, <1>8, EpochsAre
    <2>2. CASE x.epoch < epoch
      <3>1. then[x.epoch] = asked[x.epoch]
        BY <2>1, <2>2, <1>1
      <3> QED BY <3>1 DEF OwedTo, OwedOn
    <2>3. CASE ~(x.epoch < epoch)
      BY <2>3 DEF OwedTo
    <2> QED BY <2>2, <2>3
  <1>9. \A x \in Holders : /\ o[x] = OwedTo(tickets[x], asked, minted, epoch)
                           /\ p[x] = OwedTo(new[x], asked, minted, epoch)
    BY <1>2, <1>8 DEF OwedNow
  <1>10. \A x \in Holders : o[x] \in Nat /\ p[x] \in Nat
    BY <1>2, <1>9, <1>t, OwedIsNat
  <1>11. OnlyAt(o, p, h, Holders)
    BY <1>2, <1>9, <1>10 DEF OnlyAt
  <1>12. o[h] = OwedTo(tickets[h], asked, minted, epoch) /\ p[h] = OwedTo(k, asked, minted, epoch)
    BY <1>2, <1>9
  <1> HIDE DEF o, p
  <1>13. SumOver(p, Holders) = SumOver(o, Holders) - o[h] + p[h]
    BY <1>s, <1>11, SumMoves
  <1>14. /\ SharesDue(tickets, asked, minted, epoch) = SumOver(o, Holders)
         /\ SharesDue(new, then, minted, epoch) = SumOver(p, Holders)
    BY DEF SharesDue, o, p
  <1> QED BY <1>7, <1>12, <1>13, <1>14 DEF new, then, Replaced

LEMMA SharesDueIsNat ==
    ASSUME NEW tickets, NEW asked, NEW minted, NEW epoch,
           TicketsOK(tickets, asked, epoch), PricedOK(minted)
    PROVE  SharesDue(tickets, asked, minted, epoch) \in Nat
  <1> DEFINE o == OwedNow(tickets, asked, minted, epoch)
  <1>1. \A h \in Holders : o[h] \in Nat
    BY OwedIsNat DEF OwedNow, TicketsOK
  <1>2. IsFiniteSet(Holders)
    BY LendersAssumption
  <1> HIDE DEF o
  <1> QED BY <1>1, <1>2, SumIsNat DEF SharesDue, o

LEMMA SumAdds ==
    ASSUME NEW S, IsFiniteSet(S), NEW f, NEW g, NEW h,
           \A x \in S : f[x] \in Int /\ g[x] \in Int /\ h[x] = f[x] + g[x]
    PROVE  SumOver(h, S) = SumOver(f, S) + SumOver(g, S)
  <1> DEFINE Adds2(s) == SumOver(h, s) = SumOver(f, s) + SumOver(g, s)
             T == {s \in SUBSET S : ~Adds2(s)}
  <1> SUFFICES ASSUME ~Adds2(S) PROVE FALSE
    OBVIOUS
  <1>0. S \in T /\ T \subseteq SUBSET S
    OBVIOUS
  <1>1. PICK U \in T : \A V \in T : ~(V \subseteq U /\ V # U)
    <2> HIDE DEF T
    <2> QED BY <1>0, SmallestSubset
  <1>2. U \subseteq S /\ ~Adds2(U) /\ IsFiniteSet(U)
    BY FS_Subset
  <1>3. U # {}
    <2>1. SumOver(f, {}) = 0 /\ SumOver(g, {}) = 0 /\ SumOver(h, {}) = 0
      BY SumOfNothing
    <2>2. Adds2({})
      BY <2>1
    <2> QED BY <2>2, <1>2
  <1>4. PICK y \in U : TRUE
    BY <1>3
  <1> DEFINE V == U \ {y}
  <1>5. V \subseteq U /\ V # U /\ V \in SUBSET S /\ y \in S /\ IsFiniteSet(V)
    BY <1>2, <1>4, FS_Subset
  <1>6. \A x \in U : f[x] \in Int /\ g[x] \in Int /\ h[x] \in Int
    BY <1>2
  <1>7. SumOver(f, U) = f[y] + SumOver(f, V)
    BY <1>2, <1>4, <1>6, SumTakesOut
  <1>8. SumOver(g, U) = g[y] + SumOver(g, V)
    BY <1>2, <1>4, <1>6, SumTakesOut
  <1>9. SumOver(h, U) = h[y] + SumOver(h, V)
    BY <1>2, <1>4, <1>6, SumTakesOut
  <1> HIDE DEF V
  <1>10. SumOver(f, V) \in Int /\ SumOver(g, V) \in Int
    BY <1>5, <1>6, SumIsInt
  <1>11. Adds2(V)
    BY <1>1, <1>5
  <1>12. f[y] \in Int /\ g[y] \in Int /\ h[y] = f[y] + g[y]
    BY <1>5
  <1> QED BY <1>2, <1>7, <1>8, <1>9, <1>10, <1>11, <1>12

\* The price of a close: `m` shares for what was asked in its epoch.
PricedAt(minted, asked, epoch, m) ==
    IF asked[epoch] = 0 THEN minted ELSE [minted EXCEPT ![epoch] = m]

MintedFor(asked, epoch, m) == IF asked[epoch] = 0 THEN 0 ELSE m

LEMMA EpochPriced ==
    ASSUME NEW tickets, NEW asked, NEW minted, NEW epoch,
           TicketsOK(tickets, asked, epoch), PricedOK(minted),
           epoch + 1 \in Epochs, NEW m \in Nat
    PROVE  LET new == PricedAt(minted, asked, epoch, m)
           IN  /\ TicketsOK(tickets, asked, epoch + 1)
               /\ PricedOK(new)
               /\ SharesDue(tickets, asked, new, epoch + 1)
                    <= SharesDue(tickets, asked, minted, epoch) + MintedFor(asked, epoch, m)
  <1> DEFINE new == PricedAt(minted, asked, epoch, m)
             D == asked[epoch]
             f == AskedNow(tickets, epoch)
             o == OwedNow(tickets, asked, minted, epoch)
             p == OwedNow(tickets, asked, new, epoch + 1)
             q == IF D = 0 THEN [h \in Holders |-> 0] ELSE PartsOf(f, m, D, Holders)
  <1>t. /\ epoch \in Epochs
        /\ tickets = [x \in Holders |-> tickets[x]]
        /\ \A x \in Holders : IsDeposit(tickets[x], epoch)
        /\ asked = [e \in Epochs |-> asked[e]]
        /\ \A e \in Epochs : asked[e] \in Nat /\ (e > epoch => asked[e] = 0)
        /\ D = SumOver(f, Holders)
    BY DEF TicketsOK
  <1>s. IsFiniteSet(Holders)
    BY LendersAssumption
  <1>e. epoch \in Nat /\ D \in Nat
    BY <1>t, PoolParamsAssumption DEF Epochs
  <1>d. \A h \in Holders : /\ tickets[h].epoch \in Epochs /\ tickets[h].epoch \in Nat
                           /\ tickets[h].epoch <= epoch /\ tickets[h].assets \in Nat
    BY <1>t, <1>e, EpochsAre DEF IsDeposit
  <1>1. TicketsOK(tickets, asked, epoch + 1)
    <2> DEFINE g == AskedNow(tickets, epoch + 1)
               z == [h \in Holders |-> 0]
    <2>1. \A h \in Holders : g[h] = 0 /\ z[h] = 0
      BY <1>d, <1>e DEF AskedNow, AskedBy
    <2>2. SumOver(z, Holders) = 0
      BY <1>s, SumOfZeros
    <2> HIDE DEF g, z
    <2>3. SumOver(g, Holders) = SumOver(z, Holders)
      BY <1>s, <2>1, SumAgrees
    <2>4. asked[epoch + 1] = 0
      BY <1>t, <1>e
    <2>5. \A x \in Holders : IsDeposit(tickets[x], epoch + 1)
      BY <1>t, <1>e DEF IsDeposit
    <2>6. \A e \in Epochs : asked[e] \in Nat /\ (e > epoch + 1 => asked[e] = 0)
      <3> TAKE e \in Epochs
      <3>1. e \in Nat
        BY PoolParamsAssumption DEF Epochs
      <3> QED BY <3>1, <1>t, <1>e
    <2> QED BY <2>2, <2>3, <2>4, <2>5, <2>6, <1>t DEF TicketsOK, g
  <1>2. PricedOK(new)
    BY <1>t DEF PricedOK, PricedAt
  <1>3. \A e \in Epochs : e # epoch => new[e] = minted[e]
    BY DEF PricedAt
  <1>4. D # 0 => new[epoch] = m
    BY <1>t DEF PricedAt, PricedOK
  <1> HIDE DEF new
  <1>5. \A h \in Holders : f[h] \in Nat /\ f[h] = AskedBy(tickets[h], epoch)
    BY <1>d DEF AskedNow, AskedBy
  <1>6. \A h \in Holders : o[h] \in Nat
    BY <1>t, OwedIsNat DEF OwedNow
  <1>7. ASSUME NEW h \in Holders PROVE p[h] = o[h] + q[h] /\ q[h] \in Nat
    <2> DEFINE k == tickets[h]
    <2>k. k.epoch \in Epochs /\ k.epoch \in Nat /\ k.epoch <= epoch /\ k.assets \in Nat
      BY <1>d
    <2>o. /\ o[h] = OwedTo(k, asked, minted, epoch) /\ p[h] = OwedTo(k, asked, new, epoch + 1)
          /\ f[h] = AskedBy(k, epoch) /\ o[h] \in Nat
      BY <1>5, <1>6 DEF OwedNow
    <2>q. q[h] = IF D = 0 THEN 0 ELSE (f[h] * m) \div D
      BY DEF PartsOf
    <2>p. p[h] = OwedOn(k, asked, new)
      BY <2>o, <2>k, <1>e DEF OwedTo
    <2> HIDE DEF k, o, p, q, f, D
    <2>1. CASE k.epoch < epoch
      <3>1. new[k.epoch] = minted[k.epoch]
        BY <2>1, <2>k, <1>3
      <3>2. p[h] = o[h]
        BY <2>1, <2>p, <2>o, <3>1 DEF OwedTo, OwedOn
      <3>3. f[h] = 0
        BY <2>1, <2>o, <2>k, <1>e DEF AskedBy
      <3>4. q[h] = 0
        <4>1. 0 * m = 0 /\ (D # 0 => 0 \div D = 0)
          BY <1>e, Z3
        <4> QED BY <4>1, <3>3, <2>q
      <3> QED BY <3>2, <3>4, <2>o
    <2>2. CASE k.epoch = epoch
      <3>1. o[h] = 0
        BY <2>2, <2>o, <1>e DEF OwedTo
      <3>2. f[h] = k.assets
        BY <2>2, <2>o DEF AskedBy
      <3>3. CASE D = 0
        <4>1. p[h] = 0
          BY <3>3, <2>2, <2>p DEF OwedOn, D
        <4> QED BY <4>1, <3>1, <3>3, <2>q
      <3>4. CASE D # 0
        <4>1. p[h] = (k.assets * m) \div D
          BY <3>4, <2>2, <2>p, <1>4 DEF OwedOn, D
        <4>2. k.assets * m \in Nat
          BY <2>k, Z3
        <4>3. (k.assets * m) \div D \in Nat
          BY <4>2, <3>4, <1>e, Quotient
        <4> QED BY <4>1, <4>3, <3>1, <3>2, <3>4, <2>q
      <3> QED BY <3>3, <3>4
    <2> QED BY <2>1, <2>2, <2>k, <1>e
  <1>8. SumOver(q, Holders) \in Nat /\ SumOver(q, Holders) <= MintedFor(asked, epoch, m)
    <2>1. CASE D = 0
      <3>1. SumOver([h \in Holders |-> 0], Holders) = 0
        BY <1>s, SumOfZeros
      <3> QED BY <2>1, <3>1 DEF MintedFor
    <2>2. CASE D # 0
      <3>1. q = PartsOf(f, m, D, Holders)
        BY <2>2
      <3>2. SumOver(q, Holders) \in Nat
        BY <1>s, <1>7, SumIsNat
      <3> HIDE DEF q, f, D
      <3>3. SumOver(PartsOf(f, m, D, Holders), Holders) <= (SumOver(f, Holders) * m) \div D
        BY <1>s, <1>5, <1>e, <2>2, PartsAreWithin
      <3>4. (D * m) \div D = m
        BY <1>e, <2>2, Z3
      <3>5. SumOver(q, Holders) <= m
        BY <3>1, <3>3, <3>4, <1>t
      <3> QED BY <3>2, <3>5, <2>2 DEF MintedFor, D
    <2> QED BY <2>1, <2>2
  <1> HIDE DEF o, p, q
  <1>9. SumOver(p, Holders) = SumOver(o, Holders) + SumOver(q, Holders)
    BY <1>s, <1>6, <1>7, SumAdds
  <1>10. SumOver(o, Holders) \in Nat
    BY <1>s, <1>6, SumIsNat
  <1>11. /\ SharesDue(tickets, asked, minted, epoch) = SumOver(o, Holders)
         /\ SharesDue(tickets, asked, new, epoch + 1) = SumOver(p, Holders)
    BY DEF SharesDue, o, p
  <1>12. MintedFor(asked, epoch, m) \in Nat
    BY DEF MintedFor
  <1>13. SharesDue(tickets, asked, new, epoch + 1)
           <= SharesDue(tickets, asked, minted, epoch) + MintedFor(asked, epoch, m)
    BY <1>8, <1>9, <1>10, <1>11, <1>12
  <1> QED BY <1>1, <1>2, <1>13 DEF new

---------------------------------------------------------------------------
(* The shape of a desk, and steps that write in one tranche of it. *)

SideFields ==
    {"depositTickets", "epochDepositAssets", "epochDepositShares", "seeded",
     "redeemTickets", "queueTail", "queueFilled", "fills", "redeemRequested",
     "shares", "poolShares", "seedShares"}

DeskFields ==
    SideFields \cup {"pendingDepositAssets", "pendingRedemptionAssets", "unlockAt",
                     "epochStartedAt"}

DeskShaped(d) ==
    /\ d = [f \in DeskFields |-> d[f]]
    /\ \A f \in SideFields : d[f] = [t \in Tranche |-> d[f][t]]

SameSide(d, c, u) == \A f \in SideFields : c[f][u] = d[f][u]

\* Only the fields G are written, and of those only at `t`.
Agrees(d, c, G) == \A f \in DeskFields \ G : c[f] = d[f]

WrittenAt(d, c, t, G) == \A f \in G : \E v : c[f] = [d[f] EXCEPT ![t] = v]

HasFields(c) == c = [f \in DeskFields |-> c[f]]

OneSide(d, c, t) ==
    DeskShaped(c) /\ \A u \in Tranche : u # t => SameSide(d, c, u)

LEMMA WritesOneSide ==
    ASSUME NEW d, DeskShaped(d), NEW t \in Tranche, NEW c, HasFields(c),
           NEW F, NEW G, Agrees(d, c, F), WrittenAt(d, c, t, G),
           F \cap SideFields \subseteq G, G \subseteq SideFields
    PROVE  OneSide(d, c, t)
  <1>1. ASSUME NEW f \in SideFields
        PROVE  /\ c[f] = [x \in Tranche |-> c[f][x]]
               /\ \A u \in Tranche : u # t => c[f][u] = d[f][u]
    <2>0. d[f] = [x \in Tranche |-> d[f][x]]
      BY DEF DeskShaped
    <2>1. CASE f \in G
      <3>1. PICK v : c[f] = [d[f] EXCEPT ![t] = v]
        BY <2>1 DEF WrittenAt
      <3> DEFINE old == d[f]
                 new == c[f]
      <3>2. old = [x \in Tranche |-> old[x]] /\ new = [old EXCEPT ![t] = v]
        BY <2>0, <3>1
      <3> HIDE DEF old, new
      <3>3. new = [x \in Tranche |-> IF x = t THEN v ELSE old[x]]
        BY <3>2
      <3>4. new = [x \in Tranche |-> new[x]] /\ \A u \in Tranche : u # t => new[u] = old[u]
        BY <3>3
      <3> QED BY <3>4 DEF old, new
    <2>2. CASE f \notin G
      <3>1. f \in DeskFields \ F
        BY <2>2 DEF DeskFields
      <3>2. c[f] = d[f]
        BY <3>1 DEF Agrees
      <3> QED BY <2>0, <3>2
    <2> QED BY <2>1, <2>2
  <1>2. DeskShaped(c)
    BY <1>1 DEF DeskShaped, HasFields
  <1> QED BY <1>1, <1>2 DEF SameSide, OneSide

---------------------------------------------------------------------------
(* The invariant of the desk, tranche by tranche. *)

HeldOK(shares) == shares = [h \in Holders |-> shares[h]] /\ \A h \in Holders : shares[h] \in Nat

DueOf(d, t, epoch) ==
    SharesDue(d.depositTickets[t], d.epochDepositAssets[t], d.epochDepositShares[t], epoch)

\* The pool's own shares cover the seed, what is owed and what is queued.
BackedOK(d, t, epoch) ==
    /\ d.poolShares[t] \in Nat /\ d.seedShares[t] \in Nat
    /\ ~d.seeded[t] => d.seedShares[t] = 0
    /\ d.seedShares[t] + DueOf(d, t, epoch) + (d.queueTail[t] - d.queueFilled[t])
         <= d.poolShares[t]

SideOK(d, t, epoch) ==
    /\ TicketsOK(d.depositTickets[t], d.epochDepositAssets[t], epoch)
    /\ PricedOK(d.epochDepositShares[t])
    /\ QueueOK(d.redeemTickets[t], d.queueTail[t], d.queueFilled[t], d.fills[t])
    /\ HeldOK(d.shares[t])
    /\ BackedOK(d, t, epoch)

Reserved(d, t) == SetAside(d.fills[t], Waiting(d.redeemTickets[t]))

RedemptionsOK(d) ==
    /\ d.pendingRedemptionAssets \in Nat
    /\ Reserved(d, "Senior") + Reserved(d, "Junior") <= d.pendingRedemptionAssets

DeskInv(d, epoch) ==
    /\ DeskShaped(d)
    /\ SideOK(d, "Senior", epoch) /\ SideOK(d, "Junior", epoch)
    /\ d.pendingDepositAssets
         = d.epochDepositAssets["Senior"][epoch] + d.epochDepositAssets["Junior"][epoch]
    /\ RedemptionsOK(d)
    /\ d.epochStartedAt \in Nat

LEMMA OtherSideStays ==
    ASSUME NEW d, NEW c, NEW u, SameSide(d, c, u), NEW epoch, SideOK(d, u, epoch)
    PROVE  /\ SideOK(c, u, epoch) /\ Reserved(c, u) = Reserved(d, u)
           /\ c.epochDepositAssets[u] = d.epochDepositAssets[u]
  <1>1. /\ c.depositTickets[u] = d.depositTickets[u]
        /\ c.epochDepositAssets[u] = d.epochDepositAssets[u]
        /\ c.epochDepositShares[u] = d.epochDepositShares[u]
        /\ c.seeded[u] = d.seeded[u] /\ c.redeemTickets[u] = d.redeemTickets[u]
    BY DEF SameSide, SideFields
  <1>2. /\ c.queueTail[u] = d.queueTail[u] /\ c.queueFilled[u] = d.queueFilled[u]
        /\ c.fills[u] = d.fills[u] /\ c.shares[u] = d.shares[u]
        /\ c.poolShares[u] = d.poolShares[u] /\ c.seedShares[u] = d.seedShares[u]
    BY DEF SameSide, SideFields
  <1>3. DueOf(c, u, epoch) = DueOf(d, u, epoch)
    BY <1>1 DEF DueOf
  <1>4. BackedOK(c, u, epoch)
    BY <1>1, <1>2, <1>3 DEF SideOK, BackedOK
  <1>5. SideOK(c, u, epoch)
    BY <1>1, <1>2, <1>4 DEF SideOK
  <1>6. Reserved(c, u) = Reserved(d, u)
    BY <1>1, <1>2 DEF Reserved
  <1> QED BY <1>1, <1>5, <1>6

---------------------------------------------------------------------------
(* A step at one tranche. *)

LEMMA DeskMoves ==
    ASSUME NEW d, NEW epoch, DeskInv(d, epoch), NEW t \in Tranche, NEW c, OneSide(d, c, t),
           SideOK(c, t, epoch),
           c.pendingDepositAssets - d.pendingDepositAssets
             = c.epochDepositAssets[t][epoch] - d.epochDepositAssets[t][epoch],
           c.pendingDepositAssets \in Int,
           c.pendingRedemptionAssets \in Int,
           Reserved(c, t) + d.pendingRedemptionAssets
             <= c.pendingRedemptionAssets + Reserved(d, t),
           c.epochStartedAt \in Nat
    PROVE  DeskInv(c, epoch)
  <1>1. PICK u \in Tranche : u # t /\ Tranche = {t, u}
    <2>1. CASE t = "Senior"
      BY <2>1 DEF Tranche
    <2>2. CASE t = "Junior"
      BY <2>2 DEF Tranche
    <2> QED BY <2>1, <2>2 DEF Tranche
  <1>2. SideOK(d, t, epoch) /\ SideOK(d, u, epoch)
    BY <1>1 DEF DeskInv, Tranche
  <1>3. SameSide(d, c, u) /\ DeskShaped(c)
    BY <1>1 DEF OneSide
  <1>4. /\ SideOK(c, u, epoch) /\ Reserved(c, u) = Reserved(d, u)
        /\ c.epochDepositAssets[u] = d.epochDepositAssets[u]
    BY <1>2, <1>3, OtherSideStays
  <1>5. /\ d.epochDepositAssets[t][epoch] \in Nat /\ d.epochDepositAssets[u][epoch] \in Nat
        /\ c.epochDepositAssets[t][epoch] \in Nat
    BY <1>2 DEF SideOK, TicketsOK
  <1>6. /\ Reserved(d, t) \in Nat /\ Reserved(d, u) \in Nat /\ Reserved(c, t) \in Nat
    BY <1>2, SetAsideIsNat DEF SideOK, QueueOK, Reserved
  <1>7. /\ SideOK(c, "Senior", epoch) /\ SideOK(c, "Junior", epoch)
    BY <1>1, <1>4 DEF Tranche
  <1>8. c.pendingDepositAssets
          = c.epochDepositAssets["Senior"][epoch] + c.epochDepositAssets["Junior"][epoch]
    <2>1. d.pendingDepositAssets
            = d.epochDepositAssets[t][epoch] + d.epochDepositAssets[u][epoch]
      BY <1>1, <1>5 DEF DeskInv, Tranche
    <2>2. c.pendingDepositAssets
            = c.epochDepositAssets[t][epoch] + c.epochDepositAssets[u][epoch]
      BY <2>1, <1>4, <1>5
    <2>3. c.epochDepositAssets[u][epoch] \in Nat
      BY <1>4, <1>5
    <2> QED BY <2>2, <2>3, <1>1, <1>5 DEF Tranche
  <1>9. RedemptionsOK(c)
    <2>1. d.pendingRedemptionAssets \in Nat
          /\ Reserved(d, t) + Reserved(d, u) <= d.pendingRedemptionAssets
      BY <1>1, <1>6 DEF DeskInv, RedemptionsOK, Tranche
    <2>2. c.pendingRedemptionAssets \in Nat
          /\ Reserved(c, t) + Reserved(c, u) <= c.pendingRedemptionAssets
      BY <2>1, <1>4, <1>6
    <2>3. Reserved(c, u) \in Nat
      BY <1>4, <1>6
    <2> QED BY <2>2, <2>3, <1>1, <1>6 DEF RedemptionsOK, Tranche
  <1> QED BY <1>3, <1>7, <1>8, <1>9 DEF DeskInv

---------------------------------------------------------------------------
(* Seeding. *)

SeedBecomes(d, c, t, p, s) ==
    /\ OneSide(d, c, t) /\ Agrees(d, c, {"poolShares", "seedShares", "seeded"})
    /\ c.poolShares[t] = p /\ c.seedShares[t] = s /\ c.seeded[t] = TRUE

LEMMA SeedFields ==
    ASSUME NEW d, DeskShaped(d), NEW t \in Tranche, NEW p, NEW s
    PROVE  SeedBecomes(d, [d EXCEPT !.poolShares[t] = p, !.seedShares[t] = s,
                                    !.seeded[t] = TRUE], t, p, s)
  <1> DEFINE c == [d EXCEPT !.poolShares[t] = p, !.seedShares[t] = s, !.seeded[t] = TRUE]
             G == {"poolShares", "seedShares", "seeded"}
  <1>1. d = [f \in DeskFields |-> d[f]]
    BY DEF DeskShaped
  <1>2. /\ HasFields(c)
        /\ c.poolShares = [d.poolShares EXCEPT ![t] = p]
        /\ c.seedShares = [d.seedShares EXCEPT ![t] = s]
        /\ c.seeded = [d.seeded EXCEPT ![t] = TRUE]
    BY <1>1 DEF DeskFields, SideFields, HasFields
  <1>3. Agrees(d, c, G)
    BY <1>1 DEF DeskFields, SideFields, Agrees
  <1> HIDE DEF c
  <1>4. WrittenAt(d, c, t, G)
    BY <1>2 DEF WrittenAt
  <1>5. G \cap SideFields \subseteq G /\ G \subseteq SideFields
    BY DEF SideFields
  <1>6. OneSide(d, c, t)
    BY <1>2, <1>3, <1>4, <1>5, WritesOneSide
  <1>7. c.poolShares[t] = p /\ c.seedShares[t] = s /\ c.seeded[t] = TRUE
    BY <1>2 DEF DeskShaped, SideFields
  <1> QED BY <1>3, <1>6, <1>7 DEF c, SeedBecomes

LEMMA SeedKeeps ==
    ASSUME NEW d, NEW epoch, DeskInv(d, epoch), NEW t \in Tranche, ~d.seeded[t],
           NEW s \in Nat, NEW c, SeedBecomes(d, c, t, d.poolShares[t] + s, s)
    PROVE  DeskInv(c, epoch)
  <1>0. SideOK(d, t, epoch) /\ t \in {"Senior", "Junior"}
    BY DEF DeskInv, Tranche
  <1>1. /\ OneSide(d, c, t)
        /\ c.poolShares[t] = d.poolShares[t] + s /\ c.seedShares[t] = s /\ c.seeded[t] = TRUE
        /\ c.depositTickets = d.depositTickets /\ c.epochDepositAssets = d.epochDepositAssets
        /\ c.epochDepositShares = d.epochDepositShares /\ c.redeemTickets = d.redeemTickets
        /\ c.queueTail = d.queueTail /\ c.queueFilled = d.queueFilled
        /\ c.fills = d.fills /\ c.shares = d.shares
        /\ c.pendingDepositAssets = d.pendingDepositAssets
        /\ c.pendingRedemptionAssets = d.pendingRedemptionAssets
        /\ c.epochStartedAt = d.epochStartedAt
    BY DEF SeedBecomes, Agrees, DeskFields, SideFields
  <1>2. DueOf(c, t, epoch) = DueOf(d, t, epoch) /\ DueOf(d, t, epoch) \in Nat
    BY <1>0, <1>1, SharesDueIsNat DEF DueOf, SideOK
  <1>3. /\ d.poolShares[t] \in Nat /\ d.seedShares[t] = 0
        /\ DueOf(d, t, epoch) + (d.queueTail[t] - d.queueFilled[t]) <= d.poolShares[t]
        /\ d.queueTail[t] \in Nat /\ d.queueFilled[t] \in Nat
    BY <1>0, <1>2 DEF SideOK, BackedOK, QueueOK
  <1>4. BackedOK(c, t, epoch)
    BY <1>1, <1>2, <1>3 DEF BackedOK
  <1>5. SideOK(c, t, epoch)
    BY <1>0, <1>1, <1>4 DEF SideOK
  <1>6. Reserved(c, t) = Reserved(d, t)
    BY <1>1 DEF Reserved
  <1>7. /\ d.pendingDepositAssets \in Int /\ d.pendingRedemptionAssets \in Nat
        /\ d.epochStartedAt \in Nat /\ d.epochDepositAssets[t][epoch] \in Nat
    <2>1. /\ d.epochDepositAssets["Senior"][epoch] \in Nat
          /\ d.epochDepositAssets["Junior"][epoch] \in Nat
      BY DEF DeskInv, SideOK, TicketsOK
    <2> QED BY <2>1, <1>0 DEF DeskInv, RedemptionsOK
  <1>8. Reserved(d, t) \in Nat
    BY <1>0, SetAsideIsNat DEF SideOK, QueueOK, Reserved
  <1>9. /\ c.pendingDepositAssets - d.pendingDepositAssets
             = c.epochDepositAssets[t][epoch] - d.epochDepositAssets[t][epoch]
        /\ c.pendingDepositAssets \in Int /\ c.pendingRedemptionAssets \in Int
        /\ Reserved(c, t) + d.pendingRedemptionAssets
             <= c.pendingRedemptionAssets + Reserved(d, t)
        /\ c.epochStartedAt \in Nat
    BY <1>1, <1>6, <1>7, <1>8
  <1> QED BY <1>1, <1>5, <1>9, DeskMoves

---------------------------------------------------------------------------
(* Deposits, asked for and cancelled. *)

DeskFacts(d, t, epoch) ==
    /\ SideOK(d, t, epoch)
    /\ d.pendingDepositAssets \in Nat /\ d.pendingRedemptionAssets \in Nat
    /\ d.epochStartedAt \in Nat /\ d.epochDepositAssets[t][epoch] \in Nat
    /\ Reserved(d, t) \in Nat /\ DueOf(d, t, epoch) \in Nat
    /\ d.poolShares[t] \in Nat /\ d.seedShares[t] \in Nat
    /\ d.queueTail[t] \in Nat /\ d.queueFilled[t] \in Nat
    /\ d.queueFilled[t] <= d.queueTail[t]

LEMMA DeskIsSound ==
    ASSUME NEW d, NEW epoch, DeskInv(d, epoch), NEW t \in Tranche
    PROVE  DeskFacts(d, t, epoch)
  <1>1. SideOK(d, t, epoch) /\ t \in {"Senior", "Junior"}
    BY DEF DeskInv, Tranche
  <1>2. /\ d.epochDepositAssets["Senior"][epoch] \in Nat
        /\ d.epochDepositAssets["Junior"][epoch] \in Nat
    BY DEF DeskInv, SideOK, TicketsOK
  <1>3. /\ d.pendingDepositAssets \in Nat /\ d.pendingRedemptionAssets \in Nat
        /\ d.epochStartedAt \in Nat /\ d.epochDepositAssets[t][epoch] \in Nat
    BY <1>1, <1>2 DEF DeskInv, RedemptionsOK
  <1>4. Reserved(d, t) \in Nat
    BY <1>1, SetAsideIsNat DEF SideOK, QueueOK, Reserved
  <1>5. DueOf(d, t, epoch) \in Nat
    BY <1>1, SharesDueIsNat DEF DueOf, SideOK
  <1>6. /\ d.poolShares[t] \in Nat /\ d.seedShares[t] \in Nat
        /\ d.queueTail[t] \in Nat /\ d.queueFilled[t] \in Nat
        /\ d.queueFilled[t] <= d.queueTail[t]
    BY <1>1 DEF SideOK, BackedOK, QueueOK
  <1> QED BY <1>1, <1>3, <1>4, <1>5, <1>6 DEF DeskFacts

TicketFields == {"depositTickets", "pendingDepositAssets", "epochDepositAssets"}

TicketBecomes(d, c, t, h, k, e, n, m) ==
    /\ OneSide(d, c, t) /\ Agrees(d, c, TicketFields)
    /\ c.depositTickets[t] = [d.depositTickets[t] EXCEPT ![h] = k]
    /\ c.epochDepositAssets[t] = [d.epochDepositAssets[t] EXCEPT ![e] = n]
    /\ c.pendingDepositAssets = m

LEMMA TicketWritten ==
    ASSUME NEW d, DeskShaped(d), NEW t \in Tranche, NEW h, NEW k, NEW e, NEW n, NEW m
    PROVE  TicketBecomes(d, [d EXCEPT !.depositTickets[t][h] = k, !.pendingDepositAssets = m,
                                      !.epochDepositAssets[t][e] = n], t, h, k, e, n, m)
  <1> DEFINE c == [d EXCEPT !.depositTickets[t][h] = k, !.pendingDepositAssets = m,
                            !.epochDepositAssets[t][e] = n]
             G == {"depositTickets", "epochDepositAssets"}
  <1>1. d = [f \in DeskFields |-> d[f]]
    BY DEF DeskShaped
  <1>2. /\ HasFields(c)
        /\ c.depositTickets = [d.depositTickets EXCEPT ![t] = [d.depositTickets[t] EXCEPT ![h] = k]]
        /\ c.epochDepositAssets
             = [d.epochDepositAssets EXCEPT ![t] = [d.epochDepositAssets[t] EXCEPT ![e] = n]]
        /\ c.pendingDepositAssets = m
    BY <1>1 DEF DeskFields, SideFields, HasFields
  <1>3. Agrees(d, c, TicketFields)
    BY <1>1 DEF DeskFields, SideFields, Agrees, TicketFields
  <1> HIDE DEF c
  <1>4. WrittenAt(d, c, t, G)
    BY <1>2 DEF WrittenAt
  <1>5. TicketFields \cap SideFields \subseteq G /\ G \subseteq SideFields
    BY DEF SideFields, TicketFields
  <1>6. OneSide(d, c, t)
    BY <1>2, <1>3, <1>4, <1>5, WritesOneSide
  <1>7. /\ d.depositTickets = [x \in Tranche |-> d.depositTickets[x]]
        /\ d.epochDepositAssets = [x \in Tranche |-> d.epochDepositAssets[x]]
    BY DEF DeskShaped, SideFields
  <1>8. /\ c.depositTickets[t] = [d.depositTickets[t] EXCEPT ![h] = k]
        /\ c.epochDepositAssets[t] = [d.epochDepositAssets[t] EXCEPT ![e] = n]
    BY <1>2, <1>7
  <1> QED BY <1>2, <1>3, <1>6, <1>8 DEF c, TicketBecomes

\* A ticket on which no shares are owed.
Unpriced(k, epoch) == k.assets > 0 => k.epoch = epoch

LEMMA UnpricedIsOwedNothing ==
    ASSUME NEW tickets, NEW asked, NEW minted, NEW epoch,
           TicketsOK(tickets, asked, epoch), PricedOK(minted),
           NEW k, IsDeposit(k, epoch), Unpriced(k, epoch)
    PROVE  OwedTo(k, asked, minted, epoch) = 0
  <1>1. epoch \in Epochs
    BY DEF TicketsOK
  <1>2. k.epoch \in Epochs /\ k.epoch \in Nat /\ epoch \in Nat
    BY <1>1, EpochsAre
  <1>3. asked[k.epoch] \in Nat /\ minted[k.epoch] \in Nat /\ k.assets \in Nat
    BY <1>2 DEF TicketsOK, PricedOK, IsDeposit
  <1>4. CASE k.assets = 0
    <2>1. OwedOn(k, asked, minted) = 0
      BY <1>3, <1>4, NothingOwed
    <2> QED BY <2>1 DEF OwedTo
  <1>5. CASE k.assets # 0
    BY <1>2, <1>3, <1>5 DEF OwedTo, Unpriced
  <1> QED BY <1>4, <1>5

LEMMA TicketKeeps ==
    ASSUME NEW d, NEW epoch, DeskInv(d, epoch), NEW t \in Tranche, NEW h \in Holders,
           Unpriced(d.depositTickets[t][h], epoch),
           NEW k, IsDeposit(k, epoch), Unpriced(k, epoch),
           NEW n, NEW m, NEW c, TicketBecomes(d, c, t, h, k, epoch, n, m),
           n = d.epochDepositAssets[t][epoch]
                 - AskedBy(d.depositTickets[t][h], epoch) + AskedBy(k, epoch),
           m = d.pendingDepositAssets
                 - AskedBy(d.depositTickets[t][h], epoch) + AskedBy(k, epoch)
    PROVE  DeskInv(c, epoch)
  <1> DEFINE was == d.depositTickets[t][h]
             tickets == d.depositTickets[t]
             asked == d.epochDepositAssets[t]
             minted == d.epochDepositShares[t]
             new == [tickets EXCEPT ![h] = k]
             then == [asked EXCEPT ![epoch] = n]
  <1>0. DeskFacts(d, t, epoch)
    BY DeskIsSound
  <1>1. /\ OneSide(d, c, t) /\ c.depositTickets[t] = new /\ c.epochDepositAssets[t] = then
        /\ c.pendingDepositAssets = m
        /\ c.poolShares = d.poolShares /\ c.seedShares = d.seedShares /\ c.seeded = d.seeded
        /\ c.epochDepositShares = d.epochDepositShares /\ c.redeemTickets = d.redeemTickets
        /\ c.queueTail = d.queueTail /\ c.queueFilled = d.queueFilled
        /\ c.fills = d.fills /\ c.shares = d.shares
        /\ c.pendingRedemptionAssets = d.pendingRedemptionAssets
        /\ c.epochStartedAt = d.epochStartedAt
    BY DEF TicketBecomes, Agrees, DeskFields, SideFields, TicketFields
  <1>2. TicketsOK(tickets, asked, epoch) /\ PricedOK(minted) /\ IsDeposit(was, epoch)
    BY <1>0 DEF DeskFacts, SideOK, TicketsOK
  <1>3. OwedTo(was, asked, minted, epoch) = 0 /\ OwedTo(k, asked, minted, epoch) = 0
    BY <1>2, UnpricedIsOwedNothing
  <1>4. n = asked[epoch] - AskedBy(tickets[h], epoch) + AskedBy(k, epoch)
    OBVIOUS
  <1>5. /\ TicketsOK(new, then, epoch)
        /\ SharesDue(new, then, minted, epoch)
             = SharesDue(tickets, asked, minted, epoch)
                 - OwedTo(tickets[h], asked, minted, epoch) + OwedTo(k, asked, minted, epoch)
    <2> HIDE DEF tickets, asked, minted
    <2>1. Replaced(tickets, asked, minted, epoch, h, k, n)
      BY <1>2, <1>4, TicketReplaced
    <2> QED BY <2>1 DEF Replaced
  <1>6. DueOf(d, t, epoch) = SharesDue(tickets, asked, minted, epoch)
    BY DEF DueOf
  <1>7. DueOf(c, t, epoch) = DueOf(d, t, epoch)
    <2>1. DueOf(c, t, epoch) = SharesDue(new, then, minted, epoch)
      BY <1>1 DEF DueOf
    <2>2. DueOf(d, t, epoch) \in Nat
      BY <1>0 DEF DeskFacts
    <2> HIDE DEF new, then, tickets, asked, minted, was
    <2> QED BY <2>1, <2>2, <1>3, <1>5, <1>6 DEF was, tickets
  <1>8. BackedOK(c, t, epoch)
    BY <1>0, <1>1, <1>7 DEF BackedOK, DeskFacts, SideOK
  <1>9. SideOK(c, t, epoch)
    BY <1>0, <1>1, <1>5, <1>8 DEF SideOK, DeskFacts
  <1>10. Reserved(c, t) = Reserved(d, t)
    BY <1>1 DEF Reserved
  <1>11. AskedBy(was, epoch) \in Nat /\ AskedBy(k, epoch) \in Nat
    BY <1>2 DEF AskedBy, IsDeposit
  <1>12. c.epochDepositAssets[t][epoch] = n
    <2>1. epoch \in Epochs /\ asked = [e \in Epochs |-> asked[e]]
      BY <1>2 DEF TicketsOK
    <2> QED BY <2>1, <1>1
  <1>13. /\ c.pendingDepositAssets - d.pendingDepositAssets
              = c.epochDepositAssets[t][epoch] - d.epochDepositAssets[t][epoch]
         /\ c.pendingDepositAssets \in Int
    <2>1. d.pendingDepositAssets \in Nat /\ d.epochDepositAssets[t][epoch] \in Nat
      BY <1>0 DEF DeskFacts
    <2> QED BY <2>1, <1>1, <1>11, <1>12
  <1>14. /\ c.pendingRedemptionAssets \in Int
         /\ Reserved(c, t) + d.pendingRedemptionAssets
              <= c.pendingRedemptionAssets + Reserved(d, t)
         /\ c.epochStartedAt \in Nat
    BY <1>0, <1>1, <1>10 DEF DeskFacts
  <1> QED BY <1>1, <1>9, <1>13, <1>14, DeskMoves

\* The desk stays sound, and the money it keeps for lenders moves by x and y.
DeskGoes(d, c, epoch, x, y) ==
    /\ DeskInv(c, epoch)
    /\ c.pendingDepositAssets = d.pendingDepositAssets + x
    /\ c.pendingRedemptionAssets = d.pendingRedemptionAssets + y

LEMMA SeedIsSound ==
    ASSUME NEW b, NEW d, NEW epoch, DeskInv(d, epoch), NEW t \in Tranche, NEW amount,
           CanSeed(d, t, amount), SharesFor(b, d, t, amount) \in Nat
    PROVE  DeskGoes(d, SeededDesk(b, d, t, amount), epoch, 0, 0)
  <1> DEFINE s == SharesFor(b, d, t, amount)
             c == SeededDesk(b, d, t, amount)
  <1>1. ~d.seeded[t] /\ DeskShaped(d)
    BY DEF CanSeed, DeskInv
  <1>2. c = [d EXCEPT !.poolShares[t] = d.poolShares[t] + s, !.seedShares[t] = s,
                      !.seeded[t] = TRUE]
    BY DEF SeededDesk
  <1> HIDE DEF c, s
  <1>3. SeedBecomes(d, c, t, d.poolShares[t] + s, s)
    BY <1>1, <1>2, SeedFields
  <1>4. s \in Nat
    BY DEF s
  <1>5. DeskInv(c, epoch)
    BY <1>1, <1>3, <1>4, SeedKeeps
  <1>6. /\ c.pendingDepositAssets = d.pendingDepositAssets
        /\ c.pendingRedemptionAssets = d.pendingRedemptionAssets
    BY <1>3 DEF SeedBecomes, Agrees, DeskFields, SideFields
  <1>7. d.pendingDepositAssets \in Nat /\ d.pendingRedemptionAssets \in Nat
    BY DeskIsSound DEF DeskFacts
  <1> QED BY <1>5, <1>6, <1>7 DEF DeskGoes, c

\* One ticket is replaced and the money pending moves by `x`.
TicketSet(d, t, h, k, epoch, x) ==
    [d EXCEPT !.depositTickets[t][h] = k,
              !.pendingDepositAssets = d.pendingDepositAssets + x,
              !.epochDepositAssets[t][epoch] = d.epochDepositAssets[t][epoch] + x]

LEMMA TicketGoes ==
    ASSUME NEW d, NEW epoch, DeskInv(d, epoch), NEW t \in Tranche, NEW h \in Holders,
           Unpriced(d.depositTickets[t][h], epoch),
           NEW k, IsDeposit(k, epoch), Unpriced(k, epoch), NEW x \in Int,
           x = AskedBy(k, epoch) - AskedBy(d.depositTickets[t][h], epoch)
    PROVE  DeskGoes(d, TicketSet(d, t, h, k, epoch, x), epoch, x, 0)
  <1> DEFINE was == d.depositTickets[t][h]
             n == d.epochDepositAssets[t][epoch] + x
             m == d.pendingDepositAssets + x
             c == [d EXCEPT !.depositTickets[t][h] = k, !.pendingDepositAssets = m,
                            !.epochDepositAssets[t][epoch] = n]
  <1>0. DeskShaped(d) /\ DeskFacts(d, t, epoch)
    BY DeskIsSound DEF DeskInv
  <1>1. TicketBecomes(d, c, t, h, k, epoch, n, m)
    <2> HIDE DEF n, m
    <2> QED BY <1>0, TicketWritten
  <1>2. IsDeposit(was, epoch)
    BY <1>0 DEF DeskFacts, SideOK, TicketsOK
  <1>3. AskedBy(was, epoch) \in Nat /\ AskedBy(k, epoch) \in Nat
    BY <1>2 DEF AskedBy, IsDeposit
  <1>4. /\ n = d.epochDepositAssets[t][epoch] - AskedBy(was, epoch) + AskedBy(k, epoch)
        /\ m = d.pendingDepositAssets - AskedBy(was, epoch) + AskedBy(k, epoch)
        /\ d.pendingRedemptionAssets \in Nat
    <2>1. /\ d.epochDepositAssets[t][epoch] \in Nat /\ d.pendingDepositAssets \in Nat
          /\ d.pendingRedemptionAssets \in Nat
      BY <1>0 DEF DeskFacts
    <2> QED BY <2>1, <1>3
  <1> HIDE DEF c, n, m
  <1>5. DeskInv(c, epoch)
    BY <1>1, <1>4, TicketKeeps
  <1>6. c.pendingDepositAssets = m /\ c.pendingRedemptionAssets = d.pendingRedemptionAssets
    BY <1>1 DEF TicketBecomes, TicketFields, Agrees, DeskFields, SideFields
  <1>7. DeskGoes(d, c, epoch, x, 0)
    BY <1>4, <1>5, <1>6 DEF DeskGoes, m
  <1> QED BY <1>7 DEF c, m, n, TicketSet

LEMMA DepositIsSound ==
    ASSUME NEW b, NEW d, DeskInv(d, b.epoch), NEW t \in Tranche, NEW h \in Holders,
           NEW amount \in Nat, CanDeposit(b, d, t, h, amount)
    PROVE  DeskGoes(d, Deposited(b, d, t, h, amount), b.epoch, amount, 0)
  <1> DEFINE was == d.depositTickets[t][h]
             e == b.epoch
             k == [epoch |-> e, assets |-> was.assets + amount]
             c == [d EXCEPT !.depositTickets[t][h] = k,
                            !.pendingDepositAssets = d.pendingDepositAssets + amount,
                            !.epochDepositAssets[t][e] = d.epochDepositAssets[t][e] + amount]
  <1>1. Deposited(b, d, t, h, amount) = c
    BY DEF Deposited
  <1>2. Unpriced(was, e)
    BY DEF Unpriced, CanDeposit
  <1>3. IsDeposit(was, e) /\ e \in Epochs
    BY DeskIsSound DEF DeskFacts, SideOK, TicketsOK
  <1>4. e \in Nat /\ was.assets \in Nat /\ was.epoch \in 0 .. e
    BY <1>3, EpochsAre DEF IsDeposit
  <1>5. k.epoch = e /\ k.assets = was.assets + amount
        /\ k = [epoch |-> k.epoch, assets |-> k.assets]
    OBVIOUS
  <1> HIDE DEF k, was
  <1>6. IsDeposit(k, e) /\ Unpriced(k, e)
    BY <1>4, <1>5 DEF IsDeposit, Unpriced
  <1>7. amount = AskedBy(k, e) - AskedBy(was, e)
    BY <1>2, <1>4, <1>5 DEF AskedBy, Unpriced
  <1>8. amount \in Int
    OBVIOUS
  <1>9. DeskGoes(d, TicketSet(d, t, h, k, e, amount), e, amount, 0)
    BY <1>2, <1>6, <1>7, <1>8, TicketGoes DEF was
  <1> QED BY <1>1, <1>9 DEF TicketSet

LEMMA CancelIsSound ==
    ASSUME NEW b, NEW d, DeskInv(d, b.epoch), NEW t \in Tranche, NEW h \in Holders,
           CanCancelDeposit(b, d, t, h)
    PROVE  LET amount == d.depositTickets[t][h].assets
           IN  amount \in Nat /\ DeskGoes(d, DepositCancelled(b, d, t, h), b.epoch, -amount, 0)
  <1> DEFINE was == d.depositTickets[t][h]
             e == b.epoch
             amount == was.assets
             x == -amount
             k == [epoch |-> e, assets |-> 0]
             c == [d EXCEPT !.depositTickets[t][h] = k,
                            !.pendingDepositAssets = d.pendingDepositAssets + x,
                            !.epochDepositAssets[t][e] = d.epochDepositAssets[t][e] + x]
  <1>0. DeskShaped(d) /\ DeskFacts(d, t, e)
    BY DeskIsSound DEF DeskInv
  <1>2. was.assets > 0 /\ was.epoch = e
    BY DEF CanCancelDeposit
  <1>3. IsDeposit(was, e) /\ e \in Epochs
    BY <1>0 DEF DeskFacts, SideOK, TicketsOK
  <1>4. e \in Nat /\ amount \in Nat /\ x \in Int
    BY <1>3, EpochsAre DEF IsDeposit
  <1>5. [was EXCEPT !.assets = 0] = k
    <2>1. was = [epoch |-> was.epoch, assets |-> was.assets]
      BY <1>3 DEF IsDeposit
    <2> HIDE DEF was
    <2> QED BY <2>1, <1>2
  <1>6. /\ d.pendingDepositAssets - amount = d.pendingDepositAssets + x
        /\ d.epochDepositAssets[t][e] - amount = d.epochDepositAssets[t][e] + x
    <2>1. d.pendingDepositAssets \in Nat /\ d.epochDepositAssets[t][e] \in Nat
      BY <1>0 DEF DeskFacts
    <2> QED BY <2>1, <1>4
  <1>7. DepositCancelled(b, d, t, h) = c
    <2>1. DepositCancelled(b, d, t, h)
            = [d EXCEPT !.depositTickets[t][h] = [was EXCEPT !.assets = 0],
                        !.pendingDepositAssets = d.pendingDepositAssets - amount,
                        !.epochDepositAssets[t][e] = d.epochDepositAssets[t][e] - amount]
      BY DEF DepositCancelled
    <2> QED BY <2>1, <1>5, <1>6
  <1>8. k.epoch = e /\ k.assets = 0 /\ k = [epoch |-> k.epoch, assets |-> k.assets]
    OBVIOUS
  <1>9. Unpriced(was, e)
    BY <1>2 DEF Unpriced
  <1> HIDE DEF k
  <1>10. IsDeposit(k, e) /\ Unpriced(k, e)
    BY <1>4, <1>8 DEF IsDeposit, Unpriced
  <1>11. x = AskedBy(k, e) - AskedBy(was, e)
    BY <1>2, <1>4, <1>8 DEF AskedBy
  <1> HIDE DEF x
  <1>12. DeskGoes(d, TicketSet(d, t, h, k, e, x), e, x, 0)
    BY <1>4, <1>9, <1>10, <1>11, TicketGoes
  <1> QED BY <1>4, <1>7, <1>12 DEF x, TicketSet

---------------------------------------------------------------------------
(* Shares claimed. *)

LEMMA HeldMoves ==
    ASSUME NEW shares, HeldOK(shares), NEW h \in Holders, NEW n \in Nat
    PROVE  HeldOK([shares EXCEPT ![h] = n])
  <1> DEFINE new == [shares EXCEPT ![h] = n]
  <1>1. shares = [x \in Holders |-> shares[x]] /\ \A x \in Holders : shares[x] \in Nat
    BY DEF HeldOK
  <1>2. new = [x \in Holders |-> IF x = h THEN n ELSE shares[x]]
    BY <1>1
  <1> HIDE DEF new
  <1>3. new = [x \in Holders |-> new[x]] /\ \A x \in Holders : new[x] \in Nat
    BY <1>1, <1>2
  <1> QED BY <1>3 DEF HeldOK, new

GivenFields == {"depositTickets", "shares", "poolShares", "unlockAt"}

GivenBecomes(d, c, t, h, k, n, p) ==
    /\ OneSide(d, c, t) /\ Agrees(d, c, GivenFields)
    /\ c.depositTickets[t] = [d.depositTickets[t] EXCEPT ![h] = k]
    /\ c.shares[t] = [d.shares[t] EXCEPT ![h] = n]
    /\ c.poolShares[t] = p

LEMMA GivenWritten ==
    ASSUME NEW d, DeskShaped(d), NEW t \in Tranche, NEW h, NEW k, NEW n, NEW p, NEW w
    PROVE  GivenBecomes(d, [d EXCEPT !.depositTickets[t][h] = k, !.shares[t][h] = n,
                                     !.poolShares[t] = p, !.unlockAt[h] = w], t, h, k, n, p)
  <1> DEFINE c == [d EXCEPT !.depositTickets[t][h] = k, !.shares[t][h] = n,
                            !.poolShares[t] = p, !.unlockAt[h] = w]
             G == {"depositTickets", "shares", "poolShares"}
  <1>1. d = [f \in DeskFields |-> d[f]]
    BY DEF DeskShaped
  <1>2. /\ HasFields(c)
        /\ c.depositTickets = [d.depositTickets EXCEPT ![t] = [d.depositTickets[t] EXCEPT ![h] = k]]
        /\ c.shares = [d.shares EXCEPT ![t] = [d.shares[t] EXCEPT ![h] = n]]
        /\ c.poolShares = [d.poolShares EXCEPT ![t] = p]
    BY <1>1 DEF DeskFields, SideFields, HasFields
  <1>3. Agrees(d, c, GivenFields)
    BY <1>1 DEF DeskFields, SideFields, Agrees, GivenFields
  <1> HIDE DEF c
  <1>4. WrittenAt(d, c, t, G)
    BY <1>2 DEF WrittenAt
  <1>5. GivenFields \cap SideFields \subseteq G /\ G \subseteq SideFields
    BY DEF SideFields, GivenFields
  <1>6. OneSide(d, c, t)
    BY <1>2, <1>3, <1>4, <1>5, WritesOneSide
  <1>7. /\ d.depositTickets = [x \in Tranche |-> d.depositTickets[x]]
        /\ d.shares = [x \in Tranche |-> d.shares[x]]
        /\ d.poolShares = [x \in Tranche |-> d.poolShares[x]]
    BY DEF DeskShaped, SideFields
  <1>8. /\ c.depositTickets[t] = [d.depositTickets[t] EXCEPT ![h] = k]
        /\ c.shares[t] = [d.shares[t] EXCEPT ![h] = n]
        /\ c.poolShares[t] = p
    BY <1>2, <1>7
  <1> QED BY <1>3, <1>6, <1>8 DEF c, GivenBecomes

LEMMA GivenKeeps ==
    ASSUME NEW d, NEW epoch, DeskInv(d, epoch), NEW t \in Tranche, NEW h \in Holders,
           d.depositTickets[t][h].epoch < epoch,
           NEW k, IsDeposit(k, epoch), k.assets = 0, k.epoch < epoch,
           NEW amount, amount = OwedOn(d.depositTickets[t][h], d.epochDepositAssets[t],
                                       d.epochDepositShares[t]),
           NEW c, GivenBecomes(d, c, t, h, k, d.shares[t][h] + amount, d.poolShares[t] - amount)
    PROVE  DeskGoes(d, c, epoch, 0, 0)
  <1> DEFINE was == d.depositTickets[t][h]
             tickets == d.depositTickets[t]
             asked == d.epochDepositAssets[t]
             minted == d.epochDepositShares[t]
             new == [tickets EXCEPT ![h] = k]
             then == [asked EXCEPT ![epoch] = asked[epoch]]
  <1>0. DeskFacts(d, t, epoch)
    BY DeskIsSound
  <1>1. /\ OneSide(d, c, t) /\ c.depositTickets[t] = new
        /\ c.shares[t] = [d.shares[t] EXCEPT ![h] = d.shares[t][h] + amount]
        /\ c.poolShares[t] = d.poolShares[t] - amount
        /\ c.seedShares = d.seedShares /\ c.seeded = d.seeded
        /\ c.epochDepositAssets = d.epochDepositAssets
        /\ c.epochDepositShares = d.epochDepositShares /\ c.redeemTickets = d.redeemTickets
        /\ c.queueTail = d.queueTail /\ c.queueFilled = d.queueFilled /\ c.fills = d.fills
        /\ c.pendingDepositAssets = d.pendingDepositAssets
        /\ c.pendingRedemptionAssets = d.pendingRedemptionAssets
        /\ c.epochStartedAt = d.epochStartedAt
    BY DEF GivenBecomes, Agrees, DeskFields, SideFields, GivenFields
  <1>2. TicketsOK(tickets, asked, epoch) /\ PricedOK(minted) /\ IsDeposit(was, epoch)
    BY <1>0 DEF DeskFacts, SideOK, TicketsOK
  <1>3. /\ epoch \in Epochs /\ asked = [e \in Epochs |-> asked[e]]
        /\ asked[epoch] \in Nat /\ was.epoch < epoch
    BY <1>2 DEF TicketsOK
  <1>e. epoch \in Nat /\ was.epoch \in Nat /\ k.epoch \in Nat
    BY <1>2, <1>3, EpochsAre
  <1>4. then = asked
    <2> HIDE DEF asked
    <2> QED BY <1>3
  <1>5. AskedBy(was, epoch) = 0 /\ AskedBy(k, epoch) = 0
    BY <1>3, <1>e DEF AskedBy
  <1>6. asked[epoch] = asked[epoch] - AskedBy(tickets[h], epoch) + AskedBy(k, epoch)
    BY <1>3, <1>5
  <1>7. Unpriced(k, epoch)
    BY DEF Unpriced
  <1>8. OwedTo(k, asked, minted, epoch) = 0
    BY <1>2, <1>7, UnpricedIsOwedNothing
  <1>9. OwedTo(was, asked, minted, epoch) = amount /\ amount \in Nat
    <2>1. OwedTo(was, asked, minted, epoch) = amount
      BY <1>3 DEF OwedTo
    <2>2. OwedTo(was, asked, minted, epoch) \in Nat
      BY <1>2, OwedIsNat
    <2> QED BY <2>1, <2>2
  <1>10. /\ TicketsOK(new, then, epoch)
         /\ SharesDue(new, then, minted, epoch)
              = SharesDue(tickets, asked, minted, epoch)
                  - OwedTo(tickets[h], asked, minted, epoch) + OwedTo(k, asked, minted, epoch)
    <2> HIDE DEF tickets, asked, minted
    <2>1. Replaced(tickets, asked, minted, epoch, h, k, asked[epoch])
      BY <1>2, <1>6, TicketReplaced
    <2> QED BY <2>1 DEF Replaced
  <1>11. DueOf(d, t, epoch) = SharesDue(tickets, asked, minted, epoch)
         /\ DueOf(d, t, epoch) \in Nat
    BY <1>0 DEF DueOf, DeskFacts
  <1>12. DueOf(c, t, epoch) = SharesDue(new, then, minted, epoch)
    BY <1>1, <1>4 DEF DueOf
  <1>13. TicketsOK(c.depositTickets[t], c.epochDepositAssets[t], epoch)
    BY <1>1, <1>4, <1>10
  <1>14. DueOf(c, t, epoch) = DueOf(d, t, epoch) - amount
    <2> HIDE DEF new, then, tickets, asked, minted, was
    <2> QED BY <1>8, <1>9, <1>10, <1>11, <1>12 DEF was, tickets
  <1>15. DueOf(c, t, epoch) \in Nat
    <2>1. PricedOK(c.epochDepositShares[t])
      BY <1>1, <1>2
    <2> QED BY <2>1, <1>13, SharesDueIsNat DEF DueOf
  <1>16. BackedOK(c, t, epoch)
    <2>1. /\ d.seedShares[t] + DueOf(d, t, epoch) + (d.queueTail[t] - d.queueFilled[t])
               <= d.poolShares[t]
          /\ ~d.seeded[t] => d.seedShares[t] = 0
          /\ d.poolShares[t] \in Nat /\ d.seedShares[t] \in Nat
          /\ d.queueTail[t] \in Nat /\ d.queueFilled[t] \in Nat
          /\ d.queueFilled[t] <= d.queueTail[t]
      BY <1>0 DEF DeskFacts, SideOK, BackedOK
    <2>2. /\ c.poolShares[t] \in Nat
          /\ d.seedShares[t] + DueOf(c, t, epoch) + (d.queueTail[t] - d.queueFilled[t])
               <= c.poolShares[t]
      BY <2>1, <1>1, <1>9, <1>11, <1>14, <1>15
    <2> QED BY <2>1, <2>2, <1>1 DEF BackedOK
  <1>17. HeldOK(c.shares[t])
    <2>1. HeldOK(d.shares[t])
      BY <1>0 DEF DeskFacts, SideOK
    <2>2. d.shares[t][h] + amount \in Nat
      BY <2>1, <1>9 DEF HeldOK
    <2> QED BY <2>1, <2>2, <1>1, HeldMoves
  <1>18. SideOK(c, t, epoch)
    BY <1>0, <1>1, <1>13, <1>16, <1>17 DEF SideOK, DeskFacts
  <1>19. Reserved(c, t) = Reserved(d, t)
    BY <1>1 DEF Reserved
  <1>20. /\ d.pendingDepositAssets \in Nat /\ d.pendingRedemptionAssets \in Nat
         /\ d.epochStartedAt \in Nat /\ Reserved(d, t) \in Nat
    BY <1>0 DEF DeskFacts
  <1>21. /\ c.pendingDepositAssets - d.pendingDepositAssets
              = c.epochDepositAssets[t][epoch] - d.epochDepositAssets[t][epoch]
         /\ c.pendingDepositAssets \in Int /\ c.pendingRedemptionAssets \in Int
         /\ Reserved(c, t) + d.pendingRedemptionAssets
              <= c.pendingRedemptionAssets + Reserved(d, t)
         /\ c.epochStartedAt \in Nat
    BY <1>1, <1>3, <1>19, <1>20
  <1>22. DeskInv(c, epoch)
    BY <1>1, <1>18, <1>21, DeskMoves
  <1> QED BY <1>1, <1>20, <1>22 DEF DeskGoes

LEMMA ClaimSharesIsSound ==
    ASSUME NEW b, NEW d, DeskInv(d, b.epoch), NEW t \in Tranche, NEW h \in Holders,
           NEW time, CanClaimShares(b, d, t, h)
    PROVE  DeskGoes(d, SharesClaimed(d, t, h, time), b.epoch, 0, 0)
  <1> DEFINE was == d.depositTickets[t][h]
             e == b.epoch
             amount == OwedOn(was, d.epochDepositAssets[t], d.epochDepositShares[t])
             k == [epoch |-> was.epoch, assets |-> 0]
             w == IF t = "Junior" /\ JuniorLockPeriod > 0
                  THEN time + JuniorLockPeriod ELSE d.unlockAt[h]
             c == [d EXCEPT !.depositTickets[t][h] = k, !.shares[t][h] = d.shares[t][h] + amount,
                            !.poolShares[t] = d.poolShares[t] - amount, !.unlockAt[h] = w]
  <1>0. DeskShaped(d) /\ DeskFacts(d, t, e)
    BY DeskIsSound DEF DeskInv
  <1>1. was.epoch < e
    BY DEF CanClaimShares
  <1>2. IsDeposit(was, e) /\ e \in Epochs
    BY <1>0 DEF DeskFacts, SideOK, TicketsOK
  <1>3. [was EXCEPT !.assets = 0] = k
    <2>1. was = [epoch |-> was.epoch, assets |-> was.assets]
      BY <1>2 DEF IsDeposit
    <2> HIDE DEF was
    <2> QED BY <2>1
  <1>4. SharesOwed(d, t, h) = amount
    BY DEF SharesOwed, OwedOn
  <1>5. SharesClaimed(d, t, h, time) = c
    <2>1. SharesClaimed(d, t, h, time)
            = [d EXCEPT !.depositTickets[t][h] = [was EXCEPT !.assets = 0],
                        !.shares[t][h] = d.shares[t][h] + amount,
                        !.poolShares[t] = d.poolShares[t] - amount, !.unlockAt[h] = w]
      BY <1>4 DEF SharesClaimed
    <2> QED BY <2>1, <1>3
  <1>6. k.epoch = was.epoch /\ k.assets = 0 /\ k = [epoch |-> k.epoch, assets |-> k.assets]
    OBVIOUS
  <1> HIDE DEF k, w, amount
  <1>7. IsDeposit(k, e) /\ k.epoch < e
    BY <1>1, <1>2, <1>6 DEF IsDeposit
  <1>8. GivenBecomes(d, c, t, h, k, d.shares[t][h] + amount, d.poolShares[t] - amount)
    BY <1>0, GivenWritten
  <1> HIDE DEF c
  <1>9. DeskGoes(d, c, e, 0, 0)
    BY <1>1, <1>6, <1>7, <1>8, GivenKeeps DEF amount
  <1> QED BY <1>5, <1>9

---------------------------------------------------------------------------
(* Redemptions asked for. *)

QueueFields == {"shares", "poolShares", "queueTail", "redeemTickets", "redeemRequested"}

QueueBecomes(d, c, t, h, n, p, q, s) ==
    /\ OneSide(d, c, t) /\ Agrees(d, c, QueueFields)
    /\ c.shares[t] = [d.shares[t] EXCEPT ![h] = n]
    /\ c.poolShares[t] = p /\ c.queueTail[t] = q
    /\ c.redeemTickets[t] = [d.redeemTickets[t] EXCEPT ![h] = s]

LEMMA QueueWritten ==
    ASSUME NEW d, DeskShaped(d), NEW t \in Tranche, NEW h, NEW n, NEW p, NEW q, NEW s, NEW r
    PROVE  QueueBecomes(d, [d EXCEPT !.shares[t][h] = n, !.poolShares[t] = p,
                                     !.queueTail[t] = q, !.redeemTickets[t][h] = s,
                                     !.redeemRequested[t] = r], t, h, n, p, q, s)
  <1> DEFINE c == [d EXCEPT !.shares[t][h] = n, !.poolShares[t] = p,
                            !.queueTail[t] = q, !.redeemTickets[t][h] = s,
                            !.redeemRequested[t] = r]
             G == QueueFields
  <1>1. d = [f \in DeskFields |-> d[f]]
    BY DEF DeskShaped
  <1>2. /\ HasFields(c)
        /\ c.shares = [d.shares EXCEPT ![t] = [d.shares[t] EXCEPT ![h] = n]]
        /\ c.poolShares = [d.poolShares EXCEPT ![t] = p]
        /\ c.queueTail = [d.queueTail EXCEPT ![t] = q]
        /\ c.redeemTickets = [d.redeemTickets EXCEPT ![t] = [d.redeemTickets[t] EXCEPT ![h] = s]]
        /\ c.redeemRequested = [d.redeemRequested EXCEPT ![t] = r]
    BY <1>1 DEF DeskFields, SideFields, HasFields
  <1>3. Agrees(d, c, G)
    BY <1>1 DEF DeskFields, SideFields, Agrees, QueueFields
  <1> HIDE DEF c
  <1>4. WrittenAt(d, c, t, G)
    BY <1>2 DEF WrittenAt, QueueFields
  <1>5. G \cap SideFields \subseteq G /\ G \subseteq SideFields
    BY DEF SideFields, QueueFields
  <1>6. OneSide(d, c, t)
    BY <1>2, <1>3, <1>4, <1>5, WritesOneSide
  <1>7. /\ d.shares = [x \in Tranche |-> d.shares[x]]
        /\ d.poolShares = [x \in Tranche |-> d.poolShares[x]]
        /\ d.queueTail = [x \in Tranche |-> d.queueTail[x]]
        /\ d.redeemTickets = [x \in Tranche |-> d.redeemTickets[x]]
    BY DEF DeskShaped, SideFields
  <1>8. /\ c.shares[t] = [d.shares[t] EXCEPT ![h] = n]
        /\ c.poolShares[t] = p /\ c.queueTail[t] = q
        /\ c.redeemTickets[t] = [d.redeemTickets[t] EXCEPT ![h] = s]
    BY <1>2, <1>7
  <1> QED BY <1>3, <1>6, <1>8 DEF c, QueueBecomes

Joined(redeems, tail, filled, fills, h, amount) ==
    LET new == JoinedBy(redeems, h, Joining(fills, tail, amount))
    IN  /\ QueueOK(new, tail + amount, filled, fills)
        /\ SetAside(fills, Waiting(new)) = SetAside(fills, Waiting(redeems))

LEMMA QueueKeeps ==
    ASSUME NEW d, NEW epoch, DeskInv(d, epoch), NEW t \in Tranche, NEW h \in Holders,
           NEW amount \in Nat, amount <= d.shares[t][h],
           NEW c, QueueBecomes(d, c, t, h, d.shares[t][h] - amount, d.poolShares[t] + amount,
                               d.queueTail[t] + amount,
                               Append(d.redeemTickets[t][h],
                                      Joining(d.fills[t], d.queueTail[t], amount)))
    PROVE  DeskGoes(d, c, epoch, 0, 0)
  <1> DEFINE redeems == d.redeemTickets[t]
             tail == d.queueTail[t]
             filled == d.queueFilled[t]
             fills == d.fills[t]
             new == JoinedBy(redeems, h, Joining(fills, tail, amount))
  <1>0. DeskFacts(d, t, epoch)
    BY DeskIsSound
  <1>1. /\ OneSide(d, c, t)
        /\ c.shares[t] = [d.shares[t] EXCEPT ![h] = d.shares[t][h] - amount]
        /\ c.poolShares[t] = d.poolShares[t] + amount /\ c.queueTail[t] = tail + amount
        /\ c.redeemTickets[t] = new
        /\ c.seedShares = d.seedShares /\ c.seeded = d.seeded
        /\ c.depositTickets = d.depositTickets /\ c.epochDepositAssets = d.epochDepositAssets
        /\ c.epochDepositShares = d.epochDepositShares
        /\ c.queueFilled = d.queueFilled /\ c.fills = d.fills
        /\ c.pendingDepositAssets = d.pendingDepositAssets
        /\ c.pendingRedemptionAssets = d.pendingRedemptionAssets
        /\ c.epochStartedAt = d.epochStartedAt
    BY DEF QueueBecomes, Agrees, DeskFields, SideFields, QueueFields, JoinedBy
  <1>2. QueueOK(redeems, tail, filled, fills)
    BY <1>0 DEF DeskFacts, SideOK
  <1>3. Joined(redeems, tail, filled, fills, h, amount)
    <2> HIDE DEF redeems, tail, filled, fills
    <2> QED BY <1>2, QueueJoined DEF Joined
  <1>4. /\ QueueOK(c.redeemTickets[t], c.queueTail[t], c.queueFilled[t], c.fills[t])
        /\ Reserved(c, t) = Reserved(d, t)
    BY <1>1, <1>3 DEF Joined, Reserved
  <1>5. DueOf(c, t, epoch) = DueOf(d, t, epoch)
    BY <1>1 DEF DueOf
  <1>6. BackedOK(c, t, epoch)
    <2>1. /\ d.seedShares[t] + DueOf(d, t, epoch) + (d.queueTail[t] - d.queueFilled[t])
               <= d.poolShares[t]
          /\ ~d.seeded[t] => d.seedShares[t] = 0
          /\ d.poolShares[t] \in Nat /\ d.seedShares[t] \in Nat
          /\ d.queueTail[t] \in Nat /\ d.queueFilled[t] \in Nat
          /\ DueOf(d, t, epoch) \in Nat
      BY <1>0 DEF DeskFacts, SideOK, BackedOK
    <2>2. /\ c.poolShares[t] \in Nat
          /\ d.seedShares[t] + DueOf(d, t, epoch) + (c.queueTail[t] - d.queueFilled[t])
               <= c.poolShares[t]
      BY <2>1, <1>1
    <2> QED BY <2>1, <2>2, <1>1, <1>5 DEF BackedOK
  <1>7. HeldOK(c.shares[t])
    <2>1. HeldOK(d.shares[t])
      BY <1>0 DEF DeskFacts, SideOK
    <2>2. d.shares[t][h] - amount \in Nat
      BY <2>1 DEF HeldOK
    <2> QED BY <2>1, <2>2, <1>1, HeldMoves
  <1>8. SideOK(c, t, epoch)
    BY <1>0, <1>1, <1>4, <1>6, <1>7 DEF SideOK, DeskFacts
  <1>9. /\ d.pendingDepositAssets \in Nat /\ d.pendingRedemptionAssets \in Nat
        /\ d.epochStartedAt \in Nat /\ Reserved(d, t) \in Nat
        /\ d.epochDepositAssets[t][epoch] \in Nat
    BY <1>0 DEF DeskFacts
  <1>10. /\ c.pendingDepositAssets - d.pendingDepositAssets
              = c.epochDepositAssets[t][epoch] - d.epochDepositAssets[t][epoch]
         /\ c.pendingDepositAssets \in Int /\ c.pendingRedemptionAssets \in Int
         /\ Reserved(c, t) + d.pendingRedemptionAssets
              <= c.pendingRedemptionAssets + Reserved(d, t)
         /\ c.epochStartedAt \in Nat
    BY <1>1, <1>4, <1>9
  <1>11. DeskInv(c, epoch)
    BY <1>1, <1>8, <1>10, DeskMoves
  <1> QED BY <1>1, <1>9, <1>11 DEF DeskGoes

LEMMA RequestRedeemIsSound ==
    ASSUME NEW d, NEW epoch, DeskInv(d, epoch), NEW t \in Tranche, NEW h \in Holders,
           NEW amount \in Nat, NEW time, CanRequestRedeem(d, t, h, amount, time)
    PROVE  DeskGoes(d, RedeemRequested(d, t, h, amount), epoch, 0, 0)
  <1> DEFINE k == Joining(d.fills[t], d.queueTail[t], amount)
             s == Append(d.redeemTickets[t][h], k)
             n == d.shares[t][h] - amount
             p == d.poolShares[t] + amount
             q == d.queueTail[t] + amount
             r == d.redeemRequested[t] + amount
             c == [d EXCEPT !.shares[t][h] = n, !.poolShares[t] = p, !.queueTail[t] = q,
                            !.redeemTickets[t][h] = s, !.redeemRequested[t] = r]
  <1>1. RedeemRequested(d, t, h, amount) = c
    BY DEF RedeemRequested, Joining
  <1>2. DeskShaped(d) /\ amount <= d.shares[t][h]
    BY DEF DeskInv, CanRequestRedeem
  <1> HIDE DEF k, s, n, p, q, r
  <1>3. QueueBecomes(d, c, t, h, n, p, q, s)
    BY <1>2, QueueWritten
  <1> HIDE DEF c
  <1>4. DeskGoes(d, c, epoch, 0, 0)
    BY <1>2, <1>3, QueueKeeps DEF k, s, n, p, q
  <1> QED BY <1>1, <1>4

---------------------------------------------------------------------------
(* Redemptions paid. *)

PaidFields == {"redeemTickets", "pendingRedemptionAssets"}

PaidBecomes(d, c, t, s, m) ==
    /\ OneSide(d, c, t) /\ Agrees(d, c, PaidFields)
    /\ c.redeemTickets[t] = s /\ c.pendingRedemptionAssets = m

LEMMA PaidWritten ==
    ASSUME NEW d, DeskShaped(d), NEW t \in Tranche, NEW h, NEW i, NEW k, NEW m
    PROVE  PaidBecomes(d, [d EXCEPT !.redeemTickets[t][h][i] = k,
                                    !.pendingRedemptionAssets = m],
                       t, PaidBy(d.redeemTickets[t], h, i, k), m)
  <1> DEFINE c == [d EXCEPT !.redeemTickets[t][h][i] = k, !.pendingRedemptionAssets = m]
             s == PaidBy(d.redeemTickets[t], h, i, k)
             G == {"redeemTickets"}
  <1>1. d = [f \in DeskFields |-> d[f]]
    BY DEF DeskShaped
  <1>2. /\ HasFields(c)
        /\ c.redeemTickets = [d.redeemTickets EXCEPT ![t] = s]
        /\ c.pendingRedemptionAssets = m
    BY <1>1 DEF DeskFields, SideFields, HasFields, PaidBy
  <1>3. Agrees(d, c, PaidFields)
    BY <1>1 DEF DeskFields, SideFields, Agrees, PaidFields
  <1> HIDE DEF c, s
  <1>4. WrittenAt(d, c, t, G)
    BY <1>2 DEF WrittenAt
  <1>5. PaidFields \cap SideFields \subseteq G /\ G \subseteq SideFields
    BY DEF SideFields, PaidFields
  <1>6. OneSide(d, c, t)
    BY <1>2, <1>3, <1>4, <1>5, WritesOneSide
  <1>7. d.redeemTickets = [x \in Tranche |-> d.redeemTickets[x]]
    BY DEF DeskShaped, SideFields
  <1>8. c.redeemTickets[t] = s
    BY <1>2, <1>7
  <1> QED BY <1>2, <1>3, <1>6, <1>8 DEF c, s, PaidBecomes

Settled(redeems, tail, filled, fills, h, i, claim) ==
    LET new == PaidBy(redeems, h, i, claim.ticket)
    IN  /\ QueueOK(new, tail, filled, fills)
        /\ claim.assets + SetAside(fills, Waiting(new)) <= SetAside(fills, Waiting(redeems))

LEMMA ClaimRedemptionIsSound ==
    ASSUME NEW d, NEW epoch, DeskInv(d, epoch), NEW t \in Tranche, NEW h \in Holders,
           NEW i \in DOMAIN d.redeemTickets[t][h], NEW steps \in Nat
    PROVE  LET claim == Claim(d.fills[t], d.redeemTickets[t][h][i], steps)
           IN  /\ claim.assets \in Nat
               /\ DeskGoes(d, RedemptionClaimed(d, t, h, i, claim), epoch, 0, -claim.assets)
  <1> DEFINE redeems == d.redeemTickets[t]
             tail == d.queueTail[t]
             filled == d.queueFilled[t]
             fills == d.fills[t]
             ticket == redeems[h][i]
             claim == Claim(fills, ticket, steps)
             m == d.pendingRedemptionAssets - claim.assets
             s == PaidBy(redeems, h, i, claim.ticket)
             c == RedemptionClaimed(d, t, h, i, claim)
  <1>0. DeskShaped(d) /\ DeskFacts(d, t, epoch)
    BY DeskIsSound DEF DeskInv
  <1>1. QueueOK(redeems, tail, filled, fills)
    BY <1>0 DEF DeskFacts, SideOK
  <1>2. /\ redeems[h] \in Seq(RedeemTicket) /\ i \in 1 .. Len(redeems[h])
        /\ FillsOK(fills)
    BY <1>1 DEF QueueOK
  <1>3. TicketOK(fills, ticket) /\ ticket \in RedeemTicket
    BY <1>1, <1>2 DEF QueueOK
  <1>4. ticket = [hi |-> ticket.hi, claimedTo |-> ticket.claimedTo, cursor |-> ticket.cursor]
    BY <1>3 DEF RedeemTicket
  <1>c. c = [d EXCEPT !.redeemTickets[t][h][i] = claim.ticket, !.pendingRedemptionAssets = m]
    BY DEF RedemptionClaimed
  <1> HIDE DEF redeems, tail, filled, fills, ticket, c
  <1>5. Found(fills, ticket, claim)
    BY <1>2, <1>3, <1>4, ClaimPays
  <1> HIDE DEF claim
  <1>6. claim.assets \in Nat
    BY <1>5 DEF Found
  <1>7. Settled(redeems, tail, filled, fills, h, i, claim)
    BY <1>1, <1>2, <1>5, QueuePaid DEF Settled, ticket
  <1>8. PaidBecomes(d, c, t, s, m)
    <2> HIDE DEF m
    <2> QED BY <1>0, <1>c, PaidWritten DEF redeems
  <1>9. /\ OneSide(d, c, t) /\ c.redeemTickets[t] = s /\ c.pendingRedemptionAssets = m
        /\ c.poolShares = d.poolShares /\ c.seedShares = d.seedShares /\ c.seeded = d.seeded
        /\ c.depositTickets = d.depositTickets /\ c.epochDepositAssets = d.epochDepositAssets
        /\ c.epochDepositShares = d.epochDepositShares /\ c.queueTail = d.queueTail
        /\ c.queueFilled = d.queueFilled /\ c.fills = d.fills /\ c.shares = d.shares
        /\ c.pendingDepositAssets = d.pendingDepositAssets
        /\ c.epochStartedAt = d.epochStartedAt
    <2> HIDE DEF s, m
    <2> QED BY <1>8 DEF PaidBecomes, Agrees, DeskFields, SideFields, PaidFields
  <1>10. /\ QueueOK(c.redeemTickets[t], c.queueTail[t], c.queueFilled[t], c.fills[t])
         /\ claim.assets + Reserved(c, t) <= Reserved(d, t)
    BY <1>7, <1>9 DEF Settled, Reserved, redeems, tail, filled, fills
  <1>11. DueOf(c, t, epoch) = DueOf(d, t, epoch)
    BY <1>9 DEF DueOf
  <1>12. BackedOK(c, t, epoch)
    BY <1>0, <1>9, <1>11 DEF DeskFacts, SideOK, BackedOK
  <1>13. SideOK(c, t, epoch)
    BY <1>0, <1>9, <1>10, <1>12 DEF SideOK, DeskFacts
  <1>14. /\ d.pendingDepositAssets \in Nat /\ d.pendingRedemptionAssets \in Nat
         /\ d.epochStartedAt \in Nat /\ Reserved(d, t) \in Nat
         /\ d.epochDepositAssets[t][epoch] \in Nat
    BY <1>0 DEF DeskFacts
  <1>r. Reserved(c, t) \in Nat
    BY <1>10, SetAsideIsNat DEF Reserved, QueueOK
  <1>15. /\ c.pendingDepositAssets - d.pendingDepositAssets
              = c.epochDepositAssets[t][epoch] - d.epochDepositAssets[t][epoch]
         /\ c.pendingDepositAssets \in Int /\ c.pendingRedemptionAssets \in Int
         /\ Reserved(c, t) + d.pendingRedemptionAssets
              <= c.pendingRedemptionAssets + Reserved(d, t)
         /\ c.epochStartedAt \in Nat
    BY <1>6, <1>9, <1>10, <1>14, <1>r
  <1>16. DeskInv(c, epoch)
    BY <1>9, <1>13, <1>15, DeskMoves
  <1>17. DeskGoes(d, c, epoch, 0, -claim.assets)
    BY <1>6, <1>9, <1>14, <1>16 DEF DeskGoes
  <1> QED BY <1>6, <1>17 DEF c, claim, fills, ticket, redeems

---------------------------------------------------------------------------
(* A close, on the desk: deposits are priced ... *)

SettleGoes(d, c, t, epoch) ==
    /\ OneSide(d, c, t) /\ SideOK(c, t, epoch + 1)
    /\ c.epochDepositAssets = d.epochDepositAssets
    /\ c.pendingDepositAssets = d.pendingDepositAssets - d.epochDepositAssets[t][epoch]
    /\ c.pendingRedemptionAssets = d.pendingRedemptionAssets
    /\ Reserved(c, t) = Reserved(d, t) /\ c.epochStartedAt = d.epochStartedAt

PricedFields == {"pendingDepositAssets", "epochDepositShares", "poolShares"}

PricedBecomes(d, c, t, e, m, p, n) ==
    /\ OneSide(d, c, t) /\ Agrees(d, c, PricedFields)
    /\ c.epochDepositShares[t] = [d.epochDepositShares[t] EXCEPT ![e] = m]
    /\ c.poolShares[t] = p /\ c.pendingDepositAssets = n

LEMMA PricedWritten ==
    ASSUME NEW d, DeskShaped(d), NEW t \in Tranche, NEW e, NEW m, NEW p, NEW n
    PROVE  PricedBecomes(d, [d EXCEPT !.pendingDepositAssets = n,
                                      !.epochDepositShares[t][e] = m,
                                      !.poolShares[t] = p], t, e, m, p, n)
  <1> DEFINE c == [d EXCEPT !.pendingDepositAssets = n, !.epochDepositShares[t][e] = m,
                            !.poolShares[t] = p]
             G == {"epochDepositShares", "poolShares"}
  <1>1. d = [f \in DeskFields |-> d[f]]
    BY DEF DeskShaped
  <1>2. /\ HasFields(c)
        /\ c.epochDepositShares
             = [d.epochDepositShares EXCEPT ![t] = [d.epochDepositShares[t] EXCEPT ![e] = m]]
        /\ c.poolShares = [d.poolShares EXCEPT ![t] = p]
        /\ c.pendingDepositAssets = n
    BY <1>1 DEF DeskFields, SideFields, HasFields
  <1>3. Agrees(d, c, PricedFields)
    BY <1>1 DEF DeskFields, SideFields, Agrees, PricedFields
  <1> HIDE DEF c
  <1>4. WrittenAt(d, c, t, G)
    BY <1>2 DEF WrittenAt
  <1>5. PricedFields \cap SideFields \subseteq G /\ G \subseteq SideFields
    BY DEF SideFields, PricedFields
  <1>6. OneSide(d, c, t)
    BY <1>2, <1>3, <1>4, <1>5, WritesOneSide
  <1>7. /\ d.epochDepositShares = [x \in Tranche |-> d.epochDepositShares[x]]
        /\ d.poolShares = [x \in Tranche |-> d.poolShares[x]]
    BY DEF DeskShaped, SideFields
  <1>8. /\ c.epochDepositShares[t] = [d.epochDepositShares[t] EXCEPT ![e] = m]
        /\ c.poolShares[t] = p
    BY <1>2, <1>7
  <1> QED BY <1>2, <1>3, <1>6, <1>8 DEF c, PricedBecomes

Priced(tickets, asked, minted, epoch, m) ==
    LET new == PricedAt(minted, asked, epoch, m)
    IN  /\ TicketsOK(tickets, asked, epoch + 1)
        /\ PricedOK(new)
        /\ SharesDue(tickets, asked, new, epoch + 1)
             <= SharesDue(tickets, asked, minted, epoch) + MintedFor(asked, epoch, m)

LEMMA EpochIsPriced ==
    ASSUME NEW d, NEW t, NEW epoch, SideOK(d, t, epoch), epoch + 1 \in Epochs, NEW m \in Nat
    PROVE  Priced(d.depositTickets[t], d.epochDepositAssets[t], d.epochDepositShares[t],
                  epoch, m)
  <1> DEFINE tickets == d.depositTickets[t]
             asked == d.epochDepositAssets[t]
             minted == d.epochDepositShares[t]
  <1>1. TicketsOK(tickets, asked, epoch) /\ PricedOK(minted)
    BY DEF SideOK
  <1> HIDE DEF tickets, asked, minted
  <1>2. Priced(tickets, asked, minted, epoch, m)
    BY <1>1, EpochPriced DEF Priced
  <1> QED BY <1>2 DEF tickets, asked, minted

LEMMA NothingToSettle ==
    ASSUME NEW d, DeskShaped(d), NEW t \in Tranche, NEW epoch, SideOK(d, t, epoch),
           epoch + 1 \in Epochs, d.epochDepositAssets[t][epoch] = 0,
           d.pendingDepositAssets \in Int
    PROVE  SettleGoes(d, d, t, epoch)
  <1> DEFINE asked == d.epochDepositAssets[t]
             minted == d.epochDepositShares[t]
  <1>1. OneSide(d, d, t)
    BY DEF OneSide, SameSide
  <1>2. Priced(d.depositTickets[t], asked, minted, epoch, 0)
    BY EpochIsPriced
  <1>3. PricedAt(minted, asked, epoch, 0) = minted /\ MintedFor(asked, epoch, 0) = 0
    BY DEF PricedAt, MintedFor
  <1>4. /\ TicketsOK(d.depositTickets[t], asked, epoch + 1)
        /\ DueOf(d, t, epoch + 1) <= DueOf(d, t, epoch) + 0
    <2> HIDE DEF asked, minted
    <2>1. /\ TicketsOK(d.depositTickets[t], asked, epoch + 1)
          /\ SharesDue(d.depositTickets[t], asked, minted, epoch + 1)
               <= SharesDue(d.depositTickets[t], asked, minted, epoch) + 0
      BY <1>2, <1>3 DEF Priced
    <2> QED BY <2>1 DEF DueOf, asked, minted
  <1>5. DueOf(d, t, epoch) \in Nat /\ DueOf(d, t, epoch + 1) \in Nat
    BY <1>4, SharesDueIsNat DEF DueOf, SideOK
  <1>6. BackedOK(d, t, epoch + 1)
    <2>1. /\ d.seedShares[t] + DueOf(d, t, epoch) + (d.queueTail[t] - d.queueFilled[t])
               <= d.poolShares[t]
          /\ ~d.seeded[t] => d.seedShares[t] = 0
          /\ d.poolShares[t] \in Nat /\ d.seedShares[t] \in Nat
          /\ d.queueTail[t] \in Nat /\ d.queueFilled[t] \in Nat
      BY DEF SideOK, BackedOK, QueueOK
    <2>2. d.seedShares[t] + DueOf(d, t, epoch + 1) + (d.queueTail[t] - d.queueFilled[t])
            <= d.poolShares[t]
      BY <2>1, <1>4, <1>5
    <2> QED BY <2>1, <2>2 DEF BackedOK
  <1>7. SideOK(d, t, epoch + 1)
    BY <1>4, <1>6 DEF SideOK
  <1> QED BY <1>1, <1>7 DEF SettleGoes

LEMMA DepositsSettle ==
    ASSUME NEW d, DeskShaped(d), NEW t \in Tranche, NEW epoch, SideOK(d, t, epoch),
           epoch + 1 \in Epochs, d.epochDepositAssets[t][epoch] # 0, NEW m \in Nat, NEW c,
           PricedBecomes(d, c, t, epoch, m, d.poolShares[t] + m,
                         d.pendingDepositAssets - d.epochDepositAssets[t][epoch])
    PROVE  SettleGoes(d, c, t, epoch)
  <1> DEFINE asked == d.epochDepositAssets[t]
             minted == d.epochDepositShares[t]
             new == PricedAt(minted, asked, epoch, m)
  <1>1. /\ OneSide(d, c, t) /\ c.epochDepositShares[t] = [minted EXCEPT ![epoch] = m]
        /\ c.poolShares[t] = d.poolShares[t] + m
        /\ c.pendingDepositAssets = d.pendingDepositAssets - asked[epoch]
        /\ c.seedShares = d.seedShares /\ c.seeded = d.seeded
        /\ c.depositTickets = d.depositTickets /\ c.epochDepositAssets = d.epochDepositAssets
        /\ c.redeemTickets = d.redeemTickets /\ c.queueTail = d.queueTail
        /\ c.queueFilled = d.queueFilled /\ c.fills = d.fills /\ c.shares = d.shares
        /\ c.pendingRedemptionAssets = d.pendingRedemptionAssets
        /\ c.epochStartedAt = d.epochStartedAt
    BY DEF PricedBecomes, Agrees, DeskFields, SideFields, PricedFields
  <1>2. Priced(d.depositTickets[t], asked, minted, epoch, m)
    BY EpochIsPriced
  <1>3. new = c.epochDepositShares[t] /\ MintedFor(asked, epoch, m) = m
    BY <1>1 DEF PricedAt, MintedFor
  <1>4. /\ TicketsOK(c.depositTickets[t], c.epochDepositAssets[t], epoch + 1)
        /\ PricedOK(c.epochDepositShares[t])
        /\ DueOf(c, t, epoch + 1) <= DueOf(d, t, epoch) + m
    <2>1. /\ TicketsOK(d.depositTickets[t], asked, epoch + 1) /\ PricedOK(new)
          /\ SharesDue(d.depositTickets[t], asked, new, epoch + 1)
               <= SharesDue(d.depositTickets[t], asked, minted, epoch) + m
      <3> HIDE DEF asked, minted
      <3> QED BY <1>2, <1>3 DEF Priced
    <2> HIDE DEF new
    <2> QED BY <2>1, <1>1, <1>3 DEF DueOf
  <1>5. DueOf(d, t, epoch) \in Nat /\ DueOf(c, t, epoch + 1) \in Nat
    BY <1>4, SharesDueIsNat DEF DueOf, SideOK
  <1>6. BackedOK(c, t, epoch + 1)
    <2>1. /\ d.seedShares[t] + DueOf(d, t, epoch) + (d.queueTail[t] - d.queueFilled[t])
               <= d.poolShares[t]
          /\ ~d.seeded[t] => d.seedShares[t] = 0
          /\ d.poolShares[t] \in Nat /\ d.seedShares[t] \in Nat
          /\ d.queueTail[t] \in Nat /\ d.queueFilled[t] \in Nat
      BY DEF SideOK, BackedOK, QueueOK
    <2>2. /\ c.poolShares[t] \in Nat
          /\ d.seedShares[t] + DueOf(c, t, epoch + 1) + (d.queueTail[t] - d.queueFilled[t])
               <= c.poolShares[t]
      BY <2>1, <1>1, <1>4, <1>5
    <2> QED BY <2>1, <2>2, <1>1 DEF BackedOK
  <1>7. SideOK(c, t, epoch + 1)
    BY <1>1, <1>4, <1>6 DEF SideOK
  <1>8. Reserved(c, t) = Reserved(d, t)
    BY <1>1 DEF Reserved
  <1> QED BY <1>1, <1>7, <1>8 DEF SettleGoes

---------------------------------------------------------------------------
(* ... the queues are filled ... *)

FillGoes(d, c, t, epoch, net) ==
    /\ OneSide(d, c, t) /\ SideOK(c, t, epoch)
    /\ c.epochDepositAssets = d.epochDepositAssets
    /\ c.pendingDepositAssets = d.pendingDepositAssets
    /\ c.pendingRedemptionAssets = d.pendingRedemptionAssets + net
    /\ Reserved(c, t) <= Reserved(d, t) + net /\ c.epochStartedAt = d.epochStartedAt

FilledFields == {"queueFilled", "poolShares", "pendingRedemptionAssets", "fills"}

FilledBecomes(d, c, t, q, p, n, s) ==
    /\ OneSide(d, c, t) /\ Agrees(d, c, FilledFields)
    /\ c.queueFilled[t] = q /\ c.poolShares[t] = p
    /\ c.pendingRedemptionAssets = n /\ c.fills[t] = s

LEMMA FilledWritten ==
    ASSUME NEW d, DeskShaped(d), NEW t \in Tranche, NEW q, NEW p, NEW n, NEW s
    PROVE  FilledBecomes(d, [d EXCEPT !.queueFilled[t] = q, !.poolShares[t] = p,
                                      !.pendingRedemptionAssets = n, !.fills[t] = s],
                         t, q, p, n, s)
  <1> DEFINE c == [d EXCEPT !.queueFilled[t] = q, !.poolShares[t] = p,
                            !.pendingRedemptionAssets = n, !.fills[t] = s]
             G == {"queueFilled", "poolShares", "fills"}
  <1>1. d = [f \in DeskFields |-> d[f]]
    BY DEF DeskShaped
  <1>2. /\ HasFields(c)
        /\ c.queueFilled = [d.queueFilled EXCEPT ![t] = q]
        /\ c.poolShares = [d.poolShares EXCEPT ![t] = p]
        /\ c.fills = [d.fills EXCEPT ![t] = s]
        /\ c.pendingRedemptionAssets = n
    BY <1>1 DEF DeskFields, SideFields, HasFields
  <1>3. Agrees(d, c, FilledFields)
    BY <1>1 DEF DeskFields, SideFields, Agrees, FilledFields
  <1> HIDE DEF c
  <1>4. WrittenAt(d, c, t, G)
    BY <1>2 DEF WrittenAt
  <1>5. FilledFields \cap SideFields \subseteq G /\ G \subseteq SideFields
    BY DEF SideFields, FilledFields
  <1>6. OneSide(d, c, t)
    BY <1>2, <1>3, <1>4, <1>5, WritesOneSide
  <1>7. /\ d.queueFilled = [x \in Tranche |-> d.queueFilled[x]]
        /\ d.poolShares = [x \in Tranche |-> d.poolShares[x]]
        /\ d.fills = [x \in Tranche |-> d.fills[x]]
    BY DEF DeskShaped, SideFields
  <1>8. c.queueFilled[t] = q /\ c.poolShares[t] = p /\ c.fills[t] = s
    BY <1>2, <1>7
  <1> QED BY <1>2, <1>3, <1>6, <1>8 DEF c, FilledBecomes

LEMMA NothingToFill ==
    ASSUME NEW d, DeskShaped(d), NEW t \in Tranche, NEW epoch, SideOK(d, t, epoch),
           d.pendingRedemptionAssets \in Nat
    PROVE  FillGoes(d, d, t, epoch, 0)
  <1>1. OneSide(d, d, t)
    BY DEF OneSide, SameSide
  <1>2. Reserved(d, t) \in Nat
    BY SetAsideIsNat DEF SideOK, QueueOK, Reserved
  <1> QED BY <1>1, <1>2 DEF FillGoes

Served(redeems, tail, filled, fills, x, net) ==
    LET new == Append(fills, NewFill(filled, x, net))
    IN  /\ QueueOK(redeems, tail, filled + x, new)
        /\ SetAside(new, Waiting(redeems)) <= SetAside(fills, Waiting(redeems)) + net

LEMMA QueueFills ==
    ASSUME NEW d, DeskShaped(d), NEW t \in Tranche, NEW epoch, SideOK(d, t, epoch),
           NEW x \in Nat, x > 0, x <= d.queueTail[t] - d.queueFilled[t], NEW net \in Nat,
           NEW c, FilledBecomes(d, c, t, d.queueFilled[t] + x, d.poolShares[t] - x,
                                d.pendingRedemptionAssets + net,
                                Append(d.fills[t], NewFill(d.queueFilled[t], x, net)))
    PROVE  FillGoes(d, c, t, epoch, net)
  <1> DEFINE redeems == d.redeemTickets[t]
             tail == d.queueTail[t]
             filled == d.queueFilled[t]
             fills == d.fills[t]
             new == Append(fills, NewFill(filled, x, net))
  <1>1. /\ OneSide(d, c, t) /\ c.queueFilled[t] = filled + x
        /\ c.poolShares[t] = d.poolShares[t] - x
        /\ c.pendingRedemptionAssets = d.pendingRedemptionAssets + net
        /\ c.fills[t] = new
        /\ c.seedShares = d.seedShares /\ c.seeded = d.seeded
        /\ c.depositTickets = d.depositTickets /\ c.epochDepositAssets = d.epochDepositAssets
        /\ c.epochDepositShares = d.epochDepositShares
        /\ c.redeemTickets = d.redeemTickets /\ c.queueTail = d.queueTail
        /\ c.shares = d.shares
        /\ c.pendingDepositAssets = d.pendingDepositAssets
        /\ c.epochStartedAt = d.epochStartedAt
    BY DEF FilledBecomes, Agrees, DeskFields, SideFields, FilledFields
  <1>2. QueueOK(redeems, tail, filled, fills) /\ x <= tail - filled
    BY DEF SideOK
  <1>3. Served(redeems, tail, filled, fills, x, net)
    <2> HIDE DEF redeems, tail, filled, fills
    <2> QED BY <1>2, QueueFilled DEF Served
  <1>4. /\ QueueOK(c.redeemTickets[t], c.queueTail[t], c.queueFilled[t], c.fills[t])
        /\ Reserved(c, t) <= Reserved(d, t) + net
    BY <1>1, <1>3 DEF Served, Reserved
  <1>5. DueOf(c, t, epoch) = DueOf(d, t, epoch) /\ DueOf(d, t, epoch) \in Nat
    BY <1>1, SharesDueIsNat DEF DueOf, SideOK
  <1>6. BackedOK(c, t, epoch)
    <2>1. /\ d.seedShares[t] + DueOf(d, t, epoch) + (tail - filled) <= d.poolShares[t]
          /\ ~d.seeded[t] => d.seedShares[t] = 0
          /\ d.poolShares[t] \in Nat /\ d.seedShares[t] \in Nat
          /\ tail \in Nat /\ filled \in Nat
      BY DEF SideOK, BackedOK, QueueOK
    <2>2. /\ c.poolShares[t] \in Nat
          /\ d.seedShares[t] + DueOf(d, t, epoch) + (tail - (filled + x)) <= c.poolShares[t]
      <3> DEFINE seed == d.seedShares[t]
                 due == DueOf(d, t, epoch)
                 held == d.poolShares[t]
      <3>1. seed + due + (tail - filled) <= held /\ x <= tail - filled
        BY <1>2, <2>1
      <3>2. seed \in Nat /\ due \in Nat /\ held \in Nat /\ tail \in Nat /\ filled \in Nat
        BY <1>5, <2>1
      <3>3. c.poolShares[t] = held - x
        BY <1>1
      <3> HIDE DEF tail, filled, seed, due, held
      <3>4. held - x \in Nat /\ seed + due + (tail - (filled + x)) <= held - x
        BY <3>1, <3>2
      <3> QED BY <3>3, <3>4 DEF seed, due
    <2> QED BY <2>1, <2>2, <1>1, <1>5 DEF BackedOK
  <1>7. SideOK(c, t, epoch)
    BY <1>1, <1>4, <1>6 DEF SideOK
  <1> QED BY <1>1, <1>4, <1>7 DEF FillGoes

---------------------------------------------------------------------------
(* ... and the next epoch begins. *)

Restarted(d, time) ==
    [d EXCEPT !.epochStartedAt = time, !.redeemRequested = [t \in Tranche |-> 0]]

AlmostSame(d, c) == \A f \in SideFields \ {"redeemRequested"} : c[f] = d[f]

LEMMA DeskCloses ==
    ASSUME NEW d, NEW epoch, DeskInv(d, epoch), epoch + 1 \in Epochs,
           NEW d1, SettleGoes(d, d1, "Senior", epoch),
           NEW d2, SettleGoes(d1, d2, "Junior", epoch),
           NEW n3 \in Nat, NEW d3, FillGoes(d2, d3, "Senior", epoch + 1, n3),
           NEW n4 \in Nat, NEW d4, FillGoes(d3, d4, "Junior", epoch + 1, n4),
           NEW time \in Nat
    PROVE  LET c == Restarted(d4, time)
           IN  /\ DeskInv(c, epoch + 1)
               /\ c.pendingDepositAssets = 0
               /\ c.pendingRedemptionAssets = d.pendingRedemptionAssets + n3 + n4
  <1> DEFINE c == Restarted(d4, time)
             next == epoch + 1
  <1>t. /\ "Senior" \in Tranche /\ "Junior" \in Tranche /\ "Senior" # "Junior"
        /\ \A t \in Tranche : t = "Senior" \/ t = "Junior"
    BY DEF Tranche
  <1>1. /\ SameSide(d, d1, "Junior") /\ SameSide(d1, d2, "Senior")
        /\ SameSide(d2, d3, "Junior") /\ SameSide(d3, d4, "Senior")
        /\ DeskShaped(d4)
    BY <1>t DEF SettleGoes, FillGoes, OneSide
  <1>2. SideOK(d1, "Senior", next) /\ SideOK(d2, "Junior", next)
        /\ SideOK(d3, "Senior", next) /\ SideOK(d4, "Junior", next)
    BY DEF SettleGoes, FillGoes
  <1>3. SideOK(d4, "Senior", next) /\ Reserved(d4, "Senior") = Reserved(d3, "Senior")
    BY <1>1, <1>2, OtherSideStays
  <1>4. /\ Reserved(d1, "Senior") = Reserved(d, "Senior")
        /\ Reserved(d2, "Junior") = Reserved(d1, "Junior")
        /\ Reserved(d3, "Senior") <= Reserved(d2, "Senior") + n3
        /\ Reserved(d4, "Junior") <= Reserved(d3, "Junior") + n4
    BY DEF SettleGoes, FillGoes
  <1>5. /\ Reserved(d1, "Junior") = Reserved(d, "Junior")
        /\ Reserved(d2, "Senior") = Reserved(d1, "Senior")
        /\ Reserved(d3, "Junior") = Reserved(d2, "Junior")
    BY <1>1 DEF SameSide, SideFields, Reserved
  <1>6. /\ Reserved(d, "Senior") \in Nat /\ Reserved(d, "Junior") \in Nat
        /\ Reserved(d4, "Senior") \in Nat /\ Reserved(d4, "Junior") \in Nat
    <2>1. /\ SideOK(d, "Senior", epoch) /\ SideOK(d, "Junior", epoch)
          /\ SideOK(d4, "Senior", next) /\ SideOK(d4, "Junior", next)
      BY <1>2, <1>3 DEF DeskInv
    <2> QED BY <2>1, SetAsideIsNat DEF SideOK, QueueOK, Reserved
  <1>7. /\ d.pendingRedemptionAssets \in Nat
        /\ Reserved(d, "Senior") + Reserved(d, "Junior") <= d.pendingRedemptionAssets
        /\ d4.pendingRedemptionAssets = d.pendingRedemptionAssets + n3 + n4
    BY DEF DeskInv, RedemptionsOK, SettleGoes, FillGoes
  <1>8. d4.pendingRedemptionAssets \in Nat
        /\ Reserved(d4, "Senior") + Reserved(d4, "Junior") <= d4.pendingRedemptionAssets
    BY <1>3, <1>4, <1>5, <1>6, <1>7
  <1>9. d4.pendingDepositAssets = 0 /\ d4.epochDepositAssets = d.epochDepositAssets
    <2>1. /\ d.epochDepositAssets["Senior"][epoch] \in Nat
          /\ d.epochDepositAssets["Junior"][epoch] \in Nat
          /\ d.pendingDepositAssets
               = d.epochDepositAssets["Senior"][epoch] + d.epochDepositAssets["Junior"][epoch]
      BY DEF DeskInv, SideOK, TicketsOK
    <2> QED BY <2>1 DEF SettleGoes, FillGoes
  <1>10. /\ d4.epochDepositAssets["Senior"][next] = 0
         /\ d4.epochDepositAssets["Junior"][next] = 0
    <2>1. /\ TicketsOK(d.depositTickets["Senior"], d.epochDepositAssets["Senior"], epoch)
          /\ TicketsOK(d.depositTickets["Junior"], d.epochDepositAssets["Junior"], epoch)
      BY DEF DeskInv, SideOK
    <2>2. epoch \in Nat /\ next > epoch
      BY <2>1, PoolParamsAssumption DEF TicketsOK, Epochs
    <2> QED BY <2>1, <2>2, <1>9 DEF TicketsOK
  <1>11. /\ DeskShaped(c) /\ AlmostSame(d4, c)
         /\ c.pendingDepositAssets = d4.pendingDepositAssets
         /\ c.pendingRedemptionAssets = d4.pendingRedemptionAssets
         /\ c.epochStartedAt = time
    BY <1>1 DEF DeskShaped, DeskFields, SideFields, Restarted, AlmostSame
  <1> HIDE DEF c
  <1>12. SideOK(c, "Senior", next) /\ SideOK(c, "Junior", next)
    <2>1. ASSUME NEW t \in Tranche, SideOK(d4, t, next) PROVE SideOK(c, t, next)
      <3>1. DueOf(c, t, next) = DueOf(d4, t, next)
        BY <1>11 DEF AlmostSame, SideFields, DueOf
      <3>2. BackedOK(c, t, next)
        BY <2>1, <1>11, <3>1 DEF AlmostSame, SideFields, BackedOK, SideOK
      <3> QED BY <2>1, <1>11, <3>2 DEF AlmostSame, SideFields, SideOK
    <2> QED BY <2>1, <1>2, <1>3, <1>t
  <1>13. RedemptionsOK(c)
    BY <1>8, <1>11 DEF RedemptionsOK, Reserved, AlmostSame, SideFields
  <1>14. c.epochDepositAssets = d4.epochDepositAssets
    BY <1>11 DEF AlmostSame, SideFields
  <1>15. DeskInv(c, next)
    BY <1>9, <1>10, <1>11, <1>12, <1>13, <1>14 DEF DeskInv
  <1> QED BY <1>7, <1>9, <1>11, <1>15 DEF c

---------------------------------------------------------------------------
(* The book and the desk together. *)

\* The money of lenders that the balance holds beside the booked cash is the
\* money the desk says it keeps for them.
Core(b, d, views) ==
    /\ BookInv(b) /\ Told(b, views) /\ DeskInv(d, b.epoch)
    /\ Lenders(b, views) = d.pendingDepositAssets + d.pendingRedemptionAssets

LEMMA CoreMoves ==
    ASSUME NEW b, NEW d, NEW views, Core(b, d, views), NEW c, Moves(b, c),
           NEW e, NEW x \in Int, NEW y \in Int, DeskGoes(d, e, b.epoch, x, y),
           (c.balance - b.balance) - (c.bookedCash - b.bookedCash) = x + y
    PROVE  Core(c, e, views)
  <1>1. BookInv(b) /\ Told(b, views) /\ DeskInv(d, b.epoch)
    BY DEF Core
  <1>2. /\ BookInv(c) /\ Told(c, views) /\ c.epoch = b.epoch
        /\ Lenders(c, views) = Lenders(b, views) + (c.balance - b.balance)
                                                 - (c.bookedCash - b.bookedCash)
    BY <1>1, MovesKeepTheBook
  <1>3. /\ b.balance \in Int /\ b.bookedCash \in Int
        /\ c.balance \in Int /\ c.bookedCash \in Int
    BY <1>1, <1>2 DEF BookInv, Funds
  <1>4. "Senior" \in Tranche
    BY DEF Tranche
  <1>5. d.pendingDepositAssets \in Nat /\ d.pendingRedemptionAssets \in Nat
    BY <1>1, <1>4, DeskIsSound DEF DeskFacts
  <1>6. Lenders(c, views) = e.pendingDepositAssets + e.pendingRedemptionAssets
    BY <1>2, <1>3, <1>5 DEF Core, DeskGoes
  <1> QED BY <1>1, <1>2, <1>6 DEF Core, DeskGoes

\* A desk nobody touched.
LEMMA DeskStays ==
    ASSUME NEW d, NEW epoch, DeskInv(d, epoch)
    PROVE  DeskGoes(d, d, epoch, 0, 0)
  <1>1. "Senior" \in Tranche
    BY DEF Tranche
  <1>2. d.pendingDepositAssets \in Nat /\ d.pendingRedemptionAssets \in Nat
    BY <1>1, DeskIsSound DEF DeskFacts
  <1> QED BY <1>2 DEF DeskGoes

LEMMA CoreKeeps ==
    ASSUME NEW b, NEW d, NEW views, Core(b, d, views), NEW c, Keeps(b, c, views)
    PROVE  Core(c, d, views)
  BY DEF Core, Keeps

LEMMA TrancheSharesAreNat ==
    ASSUME NEW d, NEW t, HeldOK(d.shares[t]), d.poolShares[t] \in Nat
    PROVE  TrancheShares(d, t) \in Nat
  <1> DEFINE s == d.shares[t]
  <1>1. \A h \in Holders : s[h] \in Nat
    BY DEF HeldOK
  <1> HIDE DEF s
  <1>2. SumOver(s, Holders) \in Nat
    BY <1>1, LendersAssumption, SumIsNat
  <1> QED BY <1>2 DEF TrancheShares, s

LEMMA SharesForIsNat ==
    ASSUME NEW b, BookInv(b), NEW d, NEW t \in Tranche, HeldOK(d.shares[t]),
           d.poolShares[t] \in Nat, NEW amount \in Nat
    PROVE  SharesFor(b, d, t, amount) \in Nat
  <1> DEFINE n == TrancheShares(d, t) + VirtualShares
             a == b.assets[t] + 1
  <1>1. n \in Nat
    BY TrancheSharesAreNat, TrancheParamsAssumption
  <1>2. b.assets[t] \in Nat
    BY DEF BookInv, Claimants, Tranche
  <1>3. a \in Nat /\ a > 0
    BY <1>2
  <1> HIDE DEF n, a
  <1>4. amount * n \in Nat
    BY <1>1, Z3
  <1>5. (amount * n) \div a \in Nat
    BY <1>3, <1>4, Quotient
  <1> QED BY <1>5 DEF SharesFor, n, a

---------------------------------------------------------------------------
(* The steps of the owner and of the lenders. *)

LEMMA SeedHolds ==
    ASSUME NEW b, NEW d, NEW views, Core(b, d, views), NEW t \in Tranche, NEW amount \in Nat,
           CanSeed(d, t, amount)
    PROVE  Core(SeededBook(b, t, amount), SeededDesk(b, d, t, amount), views)
  <1> DEFINE c == SeededBook(b, t, amount)
             e == SeededDesk(b, d, t, amount)
  <1>1. BookInv(b) /\ DeskInv(d, b.epoch)
    BY DEF Core
  <1>2. /\ b.assets[t] \in Nat /\ b.bookedCash \in Nat /\ b.balance \in Int
    BY <1>1 DEF BookInv, Claimants, Funds, Tranche
  <1>3. ClaimBecomes(b, c, t, b.assets[t] + amount, b.bookedCash + amount, b.balance + amount)
    BY DEF ClaimBecomes, SeededBook
  <1> DEFINE n == b.assets[t] + amount
             cash == b.bookedCash + amount
             kept == b.balance + amount
  <1>n. n \in Nat /\ cash \in Nat /\ kept \in Int
    BY <1>2
  <1> HIDE DEF c
  <1>4. Moves(b, c) /\ c.bookedCash = b.bookedCash + amount /\ c.balance = b.balance + amount
    <2>1. ClaimBecomes(b, c, t, n, cash, kept)
      BY <1>3
    <2> HIDE DEF n, cash, kept
    <2>2. ClaimMoved(b, c, t, n, cash, kept)
      BY <1>1, <1>n, <2>1, ClaimMoves
    <2> QED BY <2>2 DEF cash, kept, ClaimMoved
  <1>5. SharesFor(b, d, t, amount) \in Nat
    <2>1. HeldOK(d.shares[t]) /\ d.poolShares[t] \in Nat
      BY <1>1, DeskIsSound DEF DeskFacts, SideOK
    <2> QED BY <1>1, <2>1, SharesForIsNat
  <1>6. DeskGoes(d, e, b.epoch, 0, 0)
    BY <1>1, <1>5, SeedIsSound
  <1> HIDE DEF e
  <1>7. (c.balance - b.balance) - (c.bookedCash - b.bookedCash) = 0 + 0
    BY <1>2, <1>4
  <1> QED BY <1>4, <1>6, <1>7, CoreMoves DEF c, e

LEMMA ReserveHolds ==
    ASSUME NEW b, NEW d, NEW views, Core(b, d, views), NEW amount \in Nat
    PROVE  Core(ReserveFunded(b, amount), d, views)
  <1> DEFINE c == ReserveFunded(b, amount)
  <1>1. BookInv(b) /\ DeskInv(d, b.epoch)
    BY DEF Core
  <1>2. /\ b.bookedCash \in Nat /\ b.balance \in Int
    BY <1>1 DEF BookInv, Funds
  <1>3. Moves(b, c) /\ c.bookedCash = b.bookedCash + amount /\ c.balance = b.balance + amount
    BY <1>1, ReserveMoves
  <1> HIDE DEF c
  <1>4. (c.balance - b.balance) - (c.bookedCash - b.bookedCash) = 0 + 0
    BY <1>2, <1>3
  <1>5. DeskGoes(d, d, b.epoch, 0, 0)
    BY <1>1, DeskStays
  <1> QED BY <1>3, <1>4, <1>5, CoreMoves DEF c

\* What enters or leaves by the token alone is the lenders'.
LEMMA BalanceHolds ==
    ASSUME NEW b, NEW d, NEW views, Core(b, d, views), NEW n \in Int, NEW e,
           NEW x \in Int, NEW y \in Int, DeskGoes(d, e, b.epoch, x, y),
           n = b.balance + x + y
    PROVE  Core([b EXCEPT !.balance = n], e, views)
  <1> DEFINE c == [b EXCEPT !.balance = n]
  <1>1. BookInv(b)
    BY DEF Core
  <1>2. /\ b.bookedCash \in Nat /\ b.balance \in Int
    BY <1>1 DEF BookInv, Funds
  <1>3. Moves(b, c) /\ c.bookedCash = b.bookedCash /\ c.balance = n
    BY <1>1, BalanceMoves
  <1> HIDE DEF c
  <1>4. (c.balance - b.balance) - (c.bookedCash - b.bookedCash) = x + y
    BY <1>2, <1>3
  <1> QED BY <1>3, <1>4, CoreMoves DEF c

LEMMA DepositHolds ==
    ASSUME NEW b, NEW d, NEW views, Core(b, d, views), NEW t \in Tranche, NEW h \in Holders,
           NEW amount \in Nat, CanDeposit(b, d, t, h, amount)
    PROVE  Core([b EXCEPT !.balance = @ + amount], Deposited(b, d, t, h, amount), views)
  <1> DEFINE e == Deposited(b, d, t, h, amount)
             n == b.balance + amount
  <1>1. BookInv(b) /\ DeskInv(d, b.epoch)
    BY DEF Core
  <1>2. DeskGoes(d, e, b.epoch, amount, 0)
    BY <1>1, DepositIsSound
  <1>3. b.balance \in Int
    BY <1>1 DEF BookInv, Funds
  <1>4. n \in Int /\ n = b.balance + amount + 0 /\ amount \in Int
    BY <1>3
  <1> HIDE DEF e, n
  <1>5. Core([b EXCEPT !.balance = n], e, views)
    BY <1>2, <1>4, BalanceHolds
  <1> QED BY <1>5 DEF e, n

LEMMA CancelHolds ==
    ASSUME NEW b, NEW d, NEW views, Core(b, d, views), NEW t \in Tranche, NEW h \in Holders,
           CanCancelDeposit(b, d, t, h)
    PROVE  Core([b EXCEPT !.balance = @ - d.depositTickets[t][h].assets],
                DepositCancelled(b, d, t, h), views)
  <1> DEFINE e == DepositCancelled(b, d, t, h)
             amount == d.depositTickets[t][h].assets
             n == b.balance - amount
  <1>1. BookInv(b) /\ DeskInv(d, b.epoch)
    BY DEF Core
  <1>2. DeskGoes(d, e, b.epoch, -amount, 0)
    BY <1>1, CancelIsSound
  <1>a. amount \in Nat
    BY <1>1, CancelIsSound
  <1>3. b.balance \in Int
    BY <1>1 DEF BookInv, Funds
  <1> HIDE DEF e, amount
  <1>4. n \in Int /\ n = b.balance + (-amount) + 0 /\ -amount \in Int
    BY <1>3, <1>a
  <1> HIDE DEF n
  <1>5. Core([b EXCEPT !.balance = n], e, views)
    BY <1>2, <1>4, BalanceHolds
  <1> QED BY <1>5 DEF e, n, amount

LEMMA ClaimSharesHolds ==
    ASSUME NEW b, NEW d, NEW views, Core(b, d, views), NEW t \in Tranche, NEW h \in Holders,
           NEW time, CanClaimShares(b, d, t, h)
    PROVE  Core(b, SharesClaimed(d, t, h, time), views)
  <1>1. BookInv(b) /\ DeskInv(d, b.epoch)
    BY DEF Core
  <1>2. DeskGoes(d, SharesClaimed(d, t, h, time), b.epoch, 0, 0)
    BY <1>1, ClaimSharesIsSound
  <1>3. Moves(b, b) /\ b.balance \in Int /\ b.bookedCash \in Int
    BY <1>1, MovesNothing DEF BookInv, Funds
  <1>4. (b.balance - b.balance) - (b.bookedCash - b.bookedCash) = 0 + 0
    BY <1>3
  <1> QED BY <1>2, <1>3, <1>4, CoreMoves

LEMMA RequestRedeemHolds ==
    ASSUME NEW b, NEW d, NEW views, Core(b, d, views), NEW t \in Tranche, NEW h \in Holders,
           NEW amount \in Nat, NEW time, CanRequestRedeem(d, t, h, amount, time)
    PROVE  Core(b, RedeemRequested(d, t, h, amount), views)
  <1>1. BookInv(b) /\ DeskInv(d, b.epoch)
    BY DEF Core
  <1>2. DeskGoes(d, RedeemRequested(d, t, h, amount), b.epoch, 0, 0)
    BY <1>1, RequestRedeemIsSound
  <1>3. Moves(b, b) /\ b.balance \in Int /\ b.bookedCash \in Int
    BY <1>1, MovesNothing DEF BookInv, Funds
  <1>4. (b.balance - b.balance) - (b.bookedCash - b.bookedCash) = 0 + 0
    BY <1>3
  <1> QED BY <1>2, <1>3, <1>4, CoreMoves

LEMMA ClaimRedemptionHolds ==
    ASSUME NEW b, NEW d, NEW views, Core(b, d, views), NEW t \in Tranche, NEW h \in Holders,
           NEW i \in DOMAIN d.redeemTickets[t][h], NEW steps \in Nat
    PROVE  LET claim == Claim(d.fills[t], d.redeemTickets[t][h][i], steps)
           IN  Core([b EXCEPT !.balance = @ - claim.assets],
                    RedemptionClaimed(d, t, h, i, claim), views)
  <1> DEFINE claim == Claim(d.fills[t], d.redeemTickets[t][h][i], steps)
             e == RedemptionClaimed(d, t, h, i, claim)
             amount == claim.assets
             n == b.balance - amount
             x == 0
             y == -amount
  <1>1. BookInv(b) /\ DeskInv(d, b.epoch)
    BY DEF Core
  <1>2. DeskGoes(d, e, b.epoch, x, y)
    BY <1>1, ClaimRedemptionIsSound
  <1>a. amount \in Nat
    BY <1>1, ClaimRedemptionIsSound
  <1>3. b.balance \in Int
    BY <1>1 DEF BookInv, Funds
  <1> HIDE DEF e, amount
  <1>4. n \in Int /\ n = b.balance + x + y /\ x \in Int /\ y \in Int
    BY <1>3, <1>a
  <1> HIDE DEF n, x, y
  <1>5. Core([b EXCEPT !.balance = n], e, views)
    BY <1>2, <1>4, BalanceHolds
  <1> QED BY <1>5 DEF e, n, amount

---------------------------------------------------------------------------
(* The steps of the plans. *)

LEMMA FrontHolds ==
    ASSUME NEW b, NEW d, NEW views, Core(b, d, views), NEW k \in Plans, CanFront(b, k)
    PROVE  Core(Fronted(b, k), d, views)
  <1>1. Keeps(b, Fronted(b, k), views)
    BY FrontedKeeps DEF Core
  <1> QED BY <1>1, CoreKeeps

LEMMA RecogniseHolds ==
    ASSUME NEW b, NEW d, NEW views, Core(b, d, views), NEW k \in Plans
    PROVE  Core(Recognised(b, k, views[k]), d, views)
  <1>0. BookInv(b) /\ Told(b, views)
    BY DEF Core
  <1>1. b.books[k].open \in BOOLEAN
    BY <1>0 DEF BookInv, Papers, PaperOK
  <1>2. CASE b.books[k].open = TRUE
    <2>1. Keeps(b, Recognised(b, k, views[k]), views)
      BY <1>0, <1>2, RecognisedKeeps
    <2> QED BY <2>1, CoreKeeps
  <1>3. CASE b.books[k].open = FALSE
    BY <1>3 DEF Recognised
  <1> QED BY <1>1, <1>2, <1>3

LEMMA MarkHolds ==
    ASSUME NEW b, NEW d, NEW views, Core(b, d, views), NEW n \in Nat
    PROVE  Core(MarkedUpTo(b, n, views), d, views)
  <1>1. Keeps(b, MarkedUpTo(b, n, views), views)
    BY WalkKeeps DEF Core
  <1> QED BY <1>1, CoreKeeps

\* What a plan may show next.
Shows(w, v) ==
    /\ w.outstanding \in 0 .. v.outstanding /\ w.late \in BOOLEAN
    /\ w.forwarded \in Int /\ v.forwarded <= w.forwarded

LEMMA PlanHolds ==
    ASSUME NEW b, NEW d, NEW views, Core(b, d, views), views = [j \in Plans |-> views[j]],
           NEW k \in Plans, b.books[k].fronted = TRUE, NEW w, Shows(w, views[k])
    PROVE  Core([b EXCEPT !.balance = @ + (w.forwarded - views[k].forwarded)], d,
                [views EXCEPT ![k] = w])
  <1> DEFINE v == views[k]
             new == [views EXCEPT ![k] = w]
             more == w.forwarded - v.forwarded
             n == b.balance + more
             c == [b EXCEPT !.balance = n]
             f == Unrecognised(b, views)
             g == Unrecognised(b, new)
  <1>0. BookInv(b) /\ Told(b, views) /\ DeskInv(d, b.epoch)
    BY DEF Core
  <1>1. new = [j \in Plans |-> IF j = k THEN w ELSE views[j]]
    OBVIOUS
  <1> HIDE DEF new
  <1>2. new[k] = w /\ \A j \in Plans : j # k => new[j] = views[j]
    BY <1>1
  <1>3. Tells(b, k, v) /\ b.books[k].recognisedInflow \in Nat
    BY <1>0 DEF Told, BookInv, Papers, PaperOK
  <1>4. /\ v.forwarded \in Nat /\ v.outstanding \in Nat /\ w.forwarded \in Nat
        /\ more \in Nat /\ w.outstanding \in Nat
    BY <1>3 DEF Tells, Shows
  <1>5. Tells(b, k, w)
    <2>1. w.outstanding <= v.outstanding /\ w.late \in BOOLEAN
      BY <1>4 DEF Shows
    <2>2. b.books[k].recognisedInflow <= w.forwarded
      BY <1>3, <1>4 DEF Tells, Shows
    <2>3. b.books[k].open => w.outstanding <= b.books[k].carrying
      <3>1. b.books[k].carrying \in Nat
        BY <1>0 DEF BookInv, Papers, PaperOK
      <3> QED BY <1>3, <1>4, <2>1, <3>1 DEF Tells
    <2> QED BY <1>4, <2>1, <2>2, <2>3 DEF Tells
  <1>6. Told(b, new)
    <2> SUFFICES ASSUME NEW j \in Plans PROVE Tells(b, j, new[j])
      BY DEF Told
    <2>1. CASE j = k
      BY <1>2, <1>5, <2>1
    <2>2. CASE j # k
      BY <1>0, <1>2, <2>2 DEF Told
    <2> QED BY <2>1, <2>2
  <1>7. SumOver(g, Plans) = SumOver(f, Plans) + more /\ SumOver(f, Plans) \in Int
    <2>1. \A j \in Plans : /\ f[j] = views[j].forwarded - b.books[j].recognisedInflow
                           /\ g[j] = new[j].forwarded - b.books[j].recognisedInflow
      BY DEF Unrecognised
    <2>2. \A j \in Plans : views[j].forwarded \in Nat /\ b.books[j].recognisedInflow \in Nat
      BY <1>0 DEF Told, Tells, BookInv, Papers, PaperOK
    <2>3. g[k] = f[k] + more /\ f[k] \in Int
      BY <1>2, <1>4, <2>1, <2>2
    <2>4. \A j \in Plans : f[j] \in Int /\ g[j] \in Int /\ (j # k => f[j] = g[j])
      BY <1>2, <1>4, <2>1, <2>2, <2>3
    <2>5. IsFiniteSet(Plans)
      BY PoolPartiesAssumption
    <2> HIDE DEF f, g, more
    <2>6. OnlyAt(f, g, k, Plans)
      BY <2>4 DEF OnlyAt
    <2>7. SumOver(g, Plans) = SumOver(f, Plans) - f[k] + g[k]
      BY <2>5, <2>6, SumMoves
    <2>8. SumOver(f, Plans) \in Int
      BY <2>4, <2>5, SumIsInt
    <2> QED BY <1>4, <2>3, <2>7, <2>8
  <1>8. b.balance \in Int /\ b.bookedCash \in Int
    BY <1>0 DEF BookInv, Funds
  <1>9. Lenders(b, new) = Lenders(b, views) - more
    <2> DEFINE p == SumOver(f, Plans)
               q == SumOver(g, Plans)
    <2>1. Lenders(b, new) = b.balance - b.bookedCash - q
          /\ Lenders(b, views) = b.balance - b.bookedCash - p
      BY DEF Lenders
    <2>2. q = p + more /\ p \in Int
      BY <1>7
    <2> HIDE DEF p, q, more
    <2> QED BY <1>4, <1>8, <2>1, <2>2
  <1>10. Moves(b, c) /\ c.balance = n /\ c.bookedCash = b.bookedCash
    <2>1. n \in Int
      BY <1>4, <1>8
    <2> HIDE DEF n
    <2> QED BY <1>0, <2>1, BalanceMoves
  <1> HIDE DEF c
  <1>11. /\ BookInv(c) /\ Told(c, new) /\ c.epoch = b.epoch
         /\ Lenders(c, new) = Lenders(b, new) + (c.balance - b.balance)
                                              - (c.bookedCash - b.bookedCash)
    BY <1>0, <1>6, <1>10, MovesKeepTheBook
  <1>12. Lenders(b, views) \in Int
    <2>1. "Senior" \in Tranche
      BY DEF Tranche
    <2>2. d.pendingDepositAssets \in Nat /\ d.pendingRedemptionAssets \in Nat
      BY <1>0, <2>1, DeskIsSound DEF DeskFacts
    <2> QED BY <2>2 DEF Core
  <1>13. Lenders(c, new) = Lenders(b, views)
    BY <1>4, <1>8, <1>9, <1>10, <1>11, <1>12
  <1>14. Core(c, d, new)
    BY <1>0, <1>11, <1>13 DEF Core
  <1> QED BY <1>14 DEF c, n, more, v, new

---------------------------------------------------------------------------
(* The venue. *)

PositionOK(p) ==
    p = [shares |-> p.shares, assets |-> p.assets] /\ p.shares \in Nat /\ p.assets \in Nat

LEMMA RedeemableIsThere ==
    ASSUME NEW p, PositionOK(p)
    PROVE  RedeemableValue(p) \in 0 .. p.assets
  <1> DEFINE n == p.shares
             a == p.assets
             s == n + VenueVirtualShares
             x == n * (a + 1)
  <1>1. n \in Nat /\ a \in Nat /\ VenueVirtualShares \in Nat \ {0}
    BY TrancheParamsAssumption DEF PositionOK
  <1>2. s \in Nat /\ s > 0 /\ n < s /\ a + 1 \in Nat /\ a + 1 > 0
    BY <1>1
  <1>3. RedeemableValue(p) = IF n = 0 THEN 0 ELSE x \div s
    BY DEF RedeemableValue
  <1> HIDE DEF n, a, s
  <1>4. x \in Nat /\ x < (a + 1) * s
    <2> DEFINE m == a + 1
    <2>1. m \in Nat /\ m > 0
      BY <1>2
    <2> HIDE DEF m
    <2>2. n * m \in Nat /\ n * m < m * s
      BY <1>1, <1>2, <2>1, Z3
    <2> QED BY <2>2 DEF m
  <1> HIDE DEF x
  <1>5. x \div s \in Nat
    BY <1>2, <1>4, Quotient
  <1>6. x \div s <= a
    BY <1>1, <1>2, <1>4, QuotientIsLeast
  <1> QED BY <1>1, <1>3, <1>5, <1>6 DEF a

LEMMA VenueTakes ==
    ASSUME NEW p, PositionOK(p), NEW amount \in Nat
    PROVE  VenueTake(p, amount) \in 0 .. p.assets
  <1> DEFINE r == RedeemableValue(p)
  <1>1. r \in 0 .. p.assets /\ p.assets \in Nat
    BY RedeemableIsThere DEF PositionOK
  <1> HIDE DEF r
  <1>2. Lesser(amount, r) \in 0 .. p.assets
    BY <1>1 DEF Lesser
  <1> QED BY <1>2 DEF VenueTake, r

LEMMA PositionDeposits ==
    ASSUME NEW p, PositionOK(p), NEW amount \in Nat
    PROVE  PositionOK(VenueDeposit(p, amount))
  <1> DEFINE x == amount * (p.shares + VenueVirtualShares)
             s == p.assets + 1
             q == x \div s
  <1>1. p.shares \in Nat /\ p.assets \in Nat /\ VenueVirtualShares \in Nat
    BY TrancheParamsAssumption DEF PositionOK
  <1>2. x \in Nat
    <2> DEFINE y == p.shares + VenueVirtualShares
    <2>1. y \in Nat
      BY <1>1
    <2> HIDE DEF y
    <2>2. amount * y \in Nat
      BY <2>1, Z3
    <2> QED BY <2>2 DEF y
  <1>3. s \in Nat /\ s > 0
    BY <1>1
  <1>4. VenueDeposit(p, amount) = [shares |-> p.shares + q, assets |-> p.assets + amount]
    BY DEF VenueDeposit
  <1> HIDE DEF x, s
  <1>5. q \in Nat
    BY <1>2, <1>3, Quotient
  <1> HIDE DEF q
  <1>6. p.shares + q \in Nat /\ p.assets + amount \in Nat
    BY <1>1, <1>5
  <1> QED BY <1>4, <1>6 DEF PositionOK

LEMMA PositionWithdraws ==
    ASSUME NEW p, PositionOK(p), NEW take \in 0 .. p.assets
    PROVE  PositionOK(VenueWithdraw(p, take))
  <1> DEFINE x == take * (p.shares + VenueVirtualShares)
             s == p.assets + 1
             q == x \div s
             out == Lesser(q, p.shares)
  <1>1. p.shares \in Nat /\ p.assets \in Nat /\ VenueVirtualShares \in Nat /\ take \in Nat
    BY TrancheParamsAssumption DEF PositionOK
  <1>2. x \in Nat
    <2> DEFINE y == p.shares + VenueVirtualShares
    <2>1. y \in Nat
      BY <1>1
    <2> HIDE DEF y
    <2>2. take * y \in Nat
      BY <1>1, <2>1, Z3
    <2> QED BY <2>2 DEF y
  <1>3. s \in Nat /\ s > 0
    BY <1>1
  <1>4. VenueWithdraw(p, take) = [shares |-> p.shares - out, assets |-> p.assets - take]
    BY DEF VenueWithdraw
  <1> HIDE DEF x, s
  <1>5. q \in Nat
    BY <1>2, <1>3, Quotient
  <1> HIDE DEF q
  <1>6. out \in 0 .. p.shares
    BY <1>1, <1>5 DEF Lesser
  <1> HIDE DEF out
  <1>7. p.shares - out \in Nat /\ p.assets - take \in Nat
    BY <1>1, <1>6
  <1> QED BY <1>4, <1>7 DEF PositionOK

\* Cash goes to the venue or comes back from it, and the balance with it.
LEMMA BufferHolds ==
    ASSUME NEW b, NEW d, NEW views, Core(b, d, views), NEW cash \in Nat, NEW out \in Nat,
           NEW kept \in Int, NEW c, BufferBecomes(b, c, cash, out, kept),
           kept - b.balance = cash - b.bookedCash
    PROVE  Core(c, d, views)
  <1>1. BookInv(b) /\ DeskInv(d, b.epoch)
    BY DEF Core
  <1>2. BufferMoved(b, c, cash, out, kept)
    BY <1>1, BufferMoves
  <1>3. b.balance \in Int /\ b.bookedCash \in Int
    BY <1>1 DEF BookInv, Funds
  <1>4. (c.balance - b.balance) - (c.bookedCash - b.bookedCash) = 0 + 0
    BY <1>2, <1>3 DEF BufferMoved
  <1>5. DeskGoes(d, d, b.epoch, 0, 0) /\ Moves(b, c)
    BY <1>1, <1>2, DeskStays DEF BufferMoved
  <1> QED BY <1>4, <1>5, CoreMoves

LEMMA DeployHolds ==
    ASSUME NEW b, NEW d, NEW views, Core(b, d, views), NEW amount \in Nat,
           amount <= b.bookedCash
    PROVE  Core(BufferDeployed(b, amount), d, views)
  <1> DEFINE cash == b.bookedCash - amount
             out == b.deployedAssets + amount
             kept == b.balance - amount
             c == BufferDeployed(b, amount)
  <1>1. b.bookedCash \in Nat /\ b.deployedAssets \in Nat /\ b.balance \in Int
    BY DEF Core, BookInv, Funds
  <1>2. /\ cash \in Nat /\ out \in Nat /\ kept \in Int
        /\ kept - b.balance = cash - b.bookedCash
    BY <1>1
  <1>3. BufferBecomes(b, c, cash, out, kept)
    BY DEF BufferBecomes, BufferDeployed
  <1> HIDE DEF cash, out, kept, c
  <1>4. Core(c, d, views)
    BY <1>2, <1>3, BufferHolds
  <1> QED BY <1>4 DEF c

LEMMA RecallHolds ==
    ASSUME NEW b, NEW d, NEW views, Core(b, d, views), NEW got \in Nat
    PROVE  Core(BufferRecalled(b, got), d, views)
  <1> DEFINE cash == b.bookedCash + got
             out == Less(b.deployedAssets, got)
             kept == b.balance + got
             c == BufferRecalled(b, got)
  <1>1. b.bookedCash \in Nat /\ b.deployedAssets \in Nat /\ b.balance \in Int
    BY DEF Core, BookInv, Funds
  <1>2. /\ cash \in Nat /\ out \in Nat /\ kept \in Int
        /\ kept - b.balance = cash - b.bookedCash
    BY <1>1 DEF Less
  <1>3. BufferBecomes(b, c, cash, out, kept)
    BY DEF BufferBecomes, BufferRecalled
  <1> HIDE DEF cash, out, kept, c
  <1>4. Core(c, d, views)
    BY <1>2, <1>3, BufferHolds
  <1> QED BY <1>4 DEF c

LEMMA VenueHolds ==
    ASSUME NEW b, NEW d, NEW views, Core(b, d, views), NEW value \in Nat
    PROVE  Core(VenueSynced(b, value), d, views) /\ VenueSynced(b, value).epoch = b.epoch
  <1> DEFINE c == VenueSynced(b, value)
  <1>1. BookInv(b) /\ DeskInv(d, b.epoch) /\ Told(b, views)
    BY DEF Core
  <1>2. Moves(b, c) /\ c.bookedCash = b.bookedCash /\ c.balance = b.balance
    BY <1>1, VenueMoves
  <1>3. b.balance \in Int /\ b.bookedCash \in Int
    BY <1>1 DEF BookInv, Funds
  <1> HIDE DEF c
  <1>4. (c.balance - b.balance) - (c.bookedCash - b.bookedCash) = 0 + 0
    BY <1>2, <1>3
  <1>5. DeskGoes(d, d, b.epoch, 0, 0)
    BY <1>1, DeskStays
  <1>6. Core(c, d, views)
    BY <1>2, <1>4, <1>5, CoreMoves
  <1>7. c.epoch = b.epoch
    BY <1>2 DEF Moves, SameCounts
  <1> QED BY <1>6, <1>7 DEF c

---------------------------------------------------------------------------
(* The price of a share. *)

\* A quotient does not fall when it does not fall cross-multiplied.
LEMMA PriceGrows ==
    ASSUME NEW a \in Nat, NEW n \in Nat, n > 0, NEW c \in Nat, NEW m \in Nat, m > 0,
           a * m <= c * n
    PROVE  (a * Scale) \div n <= (c * Scale) \div m
  <1> DEFINE x == a * Scale
             y == c * Scale
             q == x \div n
  <1>1. Scale \in Nat /\ Scale > 0
    BY TrancheParamsAssumption
  <1>2. x \in Nat /\ y \in Nat
    BY <1>1, Z3
  <1>3. q \in Nat /\ q * n <= x
    <2> HIDE DEF x
    <2> QED BY <1>2, Quotient
  <1>4. q * m <= y
    <2> HIDE DEF q
    <2> DEFINE u == q * m
    <2>1. u \in Nat
      BY <1>3, Z3
    <2>2. u * n = (q * n) * m
      BY <1>3, Z3
    <2>3. (q * n) * m <= x * m
      <3> DEFINE z == q * n
      <3>1. z \in Nat /\ z <= x
        BY <1>3, Z3
      <3> HIDE DEF z, x
      <3>2. z * m <= x * m
        BY <1>2, <3>1, Z3
      <3> QED BY <3>2 DEF z
    <2>4. x * m = (a * m) * Scale
      BY <1>1, Z3
    <2>5. (a * m) * Scale <= (c * n) * Scale
      <3> DEFINE z == a * m
                 w == c * n
      <3>1. z \in Nat /\ w \in Nat /\ z <= w
        BY Z3
      <3> HIDE DEF z, w
      <3>2. z * Scale <= w * Scale
        BY <1>1, <3>1, Z3
      <3> QED BY <3>2 DEF z, w
    <2>6. (c * n) * Scale = y * n
      BY <1>1, Z3
    <2>7. u * n <= y * n
      <3> DEFINE e == u * n
                 f == x * m
                 g == y * n
                 h == (q * n) * m
                 i == (a * m) * Scale
                 j == (c * n) * Scale
      <3>1. e \in Nat /\ f \in Nat /\ g \in Nat
        <4> HIDE DEF x, y, u
        <4> QED BY <1>2, <2>1, Z3
      <3>2. e = h /\ h <= f /\ f = i /\ i <= j /\ j = g
        BY <2>2, <2>3, <2>4, <2>5, <2>6
      <3> HIDE DEF e, f, g, h, i, j
      <3>3. e <= g
        BY <3>1, <3>2
      <3> QED BY <3>3 DEF e, g
    <2> HIDE DEF u, y
    <2>8. u <= y
      BY <1>2, <2>1, <2>7, Z3
    <2> QED BY <2>8 DEF u
  <1> HIDE DEF q, x, y
  <1>5. q <= y \div m
    BY <1>2, <1>3, <1>4, QuotientIsMost
  <1> QED BY <1>5 DEF q, x, y

\* Shares minted at the price, rounded down, leave it where it was or above.
LEMMA MintingKeepsPrice ==
    ASSUME NEW a \in Nat, a > 0, NEW n \in Nat, n > 0, NEW amount \in Nat,
           NEW minted \in Nat, minted <= (amount * n) \div a
    PROVE  (a * Scale) \div n <= ((a + amount) * Scale) \div (n + minted)
  <1> DEFINE x == amount * n
             c == a + amount
             m == n + minted
  <1>1. x \in Nat
    BY Z3
  <1>2. minted * a <= x
    <2> HIDE DEF x
    <2> DEFINE q == x \div a
    <2>1. q \in Nat /\ q * a <= x /\ minted <= q
      BY <1>1, Quotient DEF x
    <2> HIDE DEF q
    <2>2. minted * a <= q * a /\ minted * a \in Nat /\ q * a \in Nat
      BY <2>1, Z3
    <2> QED BY <1>1, <2>1, <2>2
  <1>3. a * m = a * n + minted * a
    BY Z3
  <1>4. c * n = a * n + x
    BY Z3
  <1>5. a * n \in Nat /\ minted * a \in Nat
    BY Z3
  <1>6. a * m <= c * n
    <2> DEFINE u == a * n
               v == minted * a
               w == a * m
               y == c * n
    <2>1. u \in Nat /\ v \in Nat /\ v <= x /\ w = u + v /\ y = u + x
      BY <1>2, <1>3, <1>4, <1>5
    <2> HIDE DEF u, v, w, x, y
    <2>2. w <= y
      BY <1>1, <2>1
    <2> QED BY <2>2 DEF w, y
  <1>7. c \in Nat /\ m \in Nat /\ m > 0
    OBVIOUS
  <1> HIDE DEF c, m
  <1>8. (a * Scale) \div n <= (c * Scale) \div m
    BY <1>6, <1>7, PriceGrows
  <1> QED BY <1>8 DEF c, m

\* Shares burned for no more than the price leave it where it was or above.
LEMMA BurningKeepsPrice ==
    ASSUME NEW a \in Nat, NEW n \in Nat, NEW filled \in Nat, filled < n,
           NEW net \in Nat, net <= a,
           net <= (filled * ((a * Scale) \div n)) \div Scale
    PROVE  (a * Scale) \div n <= ((a - net) * Scale) \div (n - filled)
  <1> DEFINE x == a * Scale
             price == x \div n
             y == filled * price
             c == a - net
             m == n - filled
  <1>1. Scale \in Nat /\ Scale > 0 /\ n > 0
    BY TrancheParamsAssumption
  <1>2. x \in Nat
    BY <1>1, Z3
  <1>3. price \in Nat /\ price * n <= x
    <2> HIDE DEF x
    <2> QED BY <1>1, <1>2, Quotient
  <1>4. y \in Nat
    <2> HIDE DEF price
    <2> QED BY <1>3, Z3
  <1>5. net * Scale <= y
    <2> DEFINE q == y \div Scale
    <2>1. net <= q
      OBVIOUS
    <2> HIDE DEF y
    <2>2. q \in Nat /\ q * Scale <= y
      BY <1>1, <1>4, Quotient
    <2> HIDE DEF q
    <2>3. net * Scale \in Nat /\ q * Scale \in Nat /\ net * Scale <= q * Scale
      BY <1>1, <2>1, <2>2, Z3
    <2> QED BY <1>4, <2>2, <2>3
  <1>6. net * n <= filled * a
    <2> DEFINE u == net * n
               v == filled * a
    <2>1. u \in Nat /\ v \in Nat
      BY <1>1, Z3
    <2>2. u * Scale = (net * Scale) * n
      BY <1>1, Z3
    <2>3. (net * Scale) * n <= y * n
      <3> DEFINE z == net * Scale
      <3>1. z \in Nat /\ z <= y
        BY <1>1, <1>5, Z3
      <3> HIDE DEF z, y
      <3>2. z * n <= y * n
        BY <1>1, <1>4, <3>1, Z3
      <3> QED BY <3>2 DEF z
    <2>4. y * n = filled * (price * n)
      <3> HIDE DEF price
      <3> QED BY <1>1, <1>3, Z3
    <2>5. filled * (price * n) <= filled * x
      <3> DEFINE z == price * n
      <3>1. z \in Nat /\ z <= x
        <4> HIDE DEF price
        <4> QED BY <1>1, <1>3, Z3
      <3> HIDE DEF z, x, price
      <3>2. filled * z <= filled * x
        BY <1>2, <3>1, Z3
      <3> QED BY <3>2 DEF z
    <2>6. filled * x = v * Scale
      BY <1>1, Z3
    <2>7. u * Scale <= v * Scale
      <3> DEFINE e == u * Scale
                 f == (net * Scale) * n
                 g == y * n
                 h == filled * (price * n)
                 i == filled * x
                 j == v * Scale
      <3>1. e \in Nat /\ g \in Nat /\ i \in Nat
        <4> HIDE DEF u, x, y
        <4> QED BY <1>1, <1>2, <1>4, <2>1, Z3
      <3>2. e = f /\ f <= g /\ g = h /\ h <= i /\ i = j
        BY <2>2, <2>3, <2>4, <2>5, <2>6
      <3> HIDE DEF e, f, g, h, i, j
      <3>3. e <= j
        BY <3>1, <3>2
      <3> QED BY <3>3 DEF e, j
    <2> HIDE DEF u, v
    <2>8. u <= v
      BY <1>1, <2>1, <2>7, Z3
    <2> QED BY <2>8 DEF u, v
  <1>7. a * m = a * n - filled * a
    BY Z3
  <1>8. c * n = a * n - net * n
    BY Z3
  <1>9. a * n \in Nat /\ filled * a \in Nat /\ net * n \in Nat
    BY Z3
  <1>10. a * m <= c * n
    <2> DEFINE u == a * n
               v == filled * a
               w == net * n
               o == a * m
               p == c * n
    <2>1. u \in Nat /\ v \in Nat /\ w \in Nat /\ w <= v /\ o = u - v /\ p = u - w
      BY <1>6, <1>7, <1>8, <1>9
    <2> HIDE DEF u, v, w, o, p
    <2>2. o <= p
      BY <2>1
    <2> QED BY <2>2 DEF o, p
  <1>11. c \in Nat /\ m \in Nat /\ m > 0
    OBVIOUS
  <1> HIDE DEF c, m
  <1>12. (a * Scale) \div n <= (c * Scale) \div m
    BY <1>1, <1>10, <1>11, PriceGrows
  <1> QED BY <1>12 DEF c, m

LEMMA NavIsNat ==
    ASSUME NEW b, BookInv(b), NEW d, NEW t \in Tranche, HeldOK(d.shares[t]),
           d.poolShares[t] \in Nat
    PROVE  NavPerShare(b, d, t) \in Nat
  <1> DEFINE n == TrancheShares(d, t) + VirtualShares
             a == b.assets[t] + 1
  <1>1. n \in Nat /\ n > 0
    BY TrancheSharesAreNat, TrancheParamsAssumption
  <1>2. b.assets[t] \in Nat
    BY DEF BookInv, Claimants, Tranche
  <1>3. a \in Nat /\ Scale \in Nat
    BY <1>2, TrancheParamsAssumption
  <1> HIDE DEF n, a
  <1>4. a * Scale \in Nat
    BY <1>3, Z3
  <1>5. (a * Scale) \div n \in Nat
    BY <1>1, <1>4, Quotient
  <1> QED BY <1>5 DEF NavPerShare, n, a

\* The price of `t` does not fall, and that of the other tranche stays.
PriceKept(b, d, c, e, t) ==
    /\ NavPerShare(b, d, t) \in Nat /\ NavPerShare(c, e, t) \in Nat
    /\ NavPerShare(b, d, t) <= NavPerShare(c, e, t)
    /\ \A u \in Tranche : u # t => NavPerShare(c, e, u) = NavPerShare(b, d, u)

ClaimIs(b, c, t, x) == c.assets = [b.assets EXCEPT ![t] = x]

\* Only one tranche's claim and shares move.
LEMMA OtherPriceStays ==
    ASSUME NEW b, NEW d, NEW c, NEW e, NEW t \in Tranche, NEW x,
           Shaped(b), Claimants(b), ClaimIs(b, c, t, x), OneSide(d, e, t)
    PROVE  \A u \in Tranche : u # t => NavPerShare(c, e, u) = NavPerShare(b, d, u)
  <1> SUFFICES ASSUME NEW u \in Tranche, u # t
               PROVE  NavPerShare(c, e, u) = NavPerShare(b, d, u)
    OBVIOUS
  <1>1. c.assets[u] = b.assets[u]
    BY DEF Claimants, Tranche, ClaimIs
  <1>2. "poolShares" \in SideFields /\ "shares" \in SideFields
    BY DEF SideFields
  <1>3. e["poolShares"][u] = d["poolShares"][u] /\ e["shares"][u] = d["shares"][u]
    BY <1>2 DEF OneSide, SameSide
  <1>4. e.poolShares[u] = d.poolShares[u] /\ e.shares[u] = d.shares[u]
    BY <1>3
  <1> QED BY <1>1, <1>4 DEF NavPerShare, TrancheShares

LEMMA SamePriceIsKept ==
    ASSUME NEW b, BookInv(b), NEW d, NEW t \in Tranche, HeldOK(d.shares[t]),
           d.poolShares[t] \in Nat
    PROVE  PriceKept(b, d, b, d, t)
  <1>1. NavPerShare(b, d, t) \in Nat
    BY NavIsNat
  <1> QED BY <1>1 DEF PriceKept

\* `c` over `m` shares is no lower a price than `a` over `n`.
AtLeast(a, n, c, m) == (a * Scale) \div n <= (c * Scale) \div m

\* What moves when a tranche's deposits are priced or its queue is paid.
LEMMA TradeKeepsPrice ==
    ASSUME NEW b, BookInv(b), NEW d, NEW t \in Tranche, HeldOK(d.shares[t]),
           d.poolShares[t] \in Nat, NEW c, NEW e, NEW x \in Nat, NEW p \in Nat,
           ClaimIs(b, c, t, x), OneSide(d, e, t),
           e.poolShares[t] = p, e.shares[t] = d.shares[t],
           AtLeast(b.assets[t] + 1, TrancheShares(d, t) + VirtualShares,
                   x + 1, TrancheShares(d, t) + VirtualShares + (p - d.poolShares[t]))
    PROVE  PriceKept(b, d, c, e, t)
  <1>1. Shaped(b) /\ Claimants(b) /\ b.assets[t] \in Nat
    BY DEF BookInv, Claimants, Tranche
  <1>2. c.assets[t] = x
    BY <1>1 DEF Claimants, Tranche, ClaimIs
  <1>3. SumOver(d.shares[t], Holders) \in Nat
    <2> DEFINE s == d.shares[t]
    <2>1. \A h \in Holders : s[h] \in Nat
      BY DEF HeldOK
    <2> HIDE DEF s
    <2>2. SumOver(s, Holders) \in Nat
      BY <2>1, LendersAssumption, SumIsNat
    <2> QED BY <2>2 DEF s
  <1> DEFINE held == SumOver(d.shares[t], Holders)
             was == d.poolShares[t]
             n == was + held + VirtualShares
             m == p + held + VirtualShares
             y == b.assets[t] + 1
             z == x + 1
  <1>4. VirtualShares \in Nat /\ Scale \in Nat
    BY TrancheParamsAssumption
  <1>5. TrancheShares(d, t) + VirtualShares = n
    BY DEF TrancheShares
  <1>6. TrancheShares(e, t) + VirtualShares = m
    BY DEF TrancheShares
  <1>7. n + (p - was) = m
    <2> HIDE DEF held
    <2> QED BY <1>3, <1>4 DEF held
  <1>8. NavPerShare(b, d, t) = (y * Scale) \div n
    <2> HIDE DEF n
    <2> QED BY <1>5 DEF NavPerShare
  <1>9. NavPerShare(c, e, t) = (z * Scale) \div m
    <2> HIDE DEF m
    <2> QED BY <1>2, <1>6 DEF NavPerShare
  <1>10. (y * Scale) \div n <= (z * Scale) \div m
    <2>1. AtLeast(y, n, z, m)
      <3> HIDE DEF n, m
      <3> QED BY <1>5, <1>7
    <2> HIDE DEF n, m, y, z
    <2> QED BY <2>1 DEF AtLeast
  <1>11. (y * Scale) \div n \in Nat
    <2> HIDE DEF n, y
    <2>1. NavPerShare(b, d, t) \in Nat
      BY NavIsNat
    <2> QED BY <1>8, <2>1
  <1>12. (z * Scale) \div m \in Nat
    <2>1. z * Scale \in Nat
      <3>1. z \in Nat
        OBVIOUS
      <3> HIDE DEF z
      <3> QED BY <1>4, <3>1, Z3
    <2>2. m \in Nat /\ m > 0
      <3>1. VirtualShares > 0
        BY TrancheParamsAssumption
      <3> HIDE DEF held
      <3> QED BY <1>3, <1>4, <3>1 DEF held
    <2> HIDE DEF m, z
    <2> QED BY <2>1, <2>2, Quotient
  <1> HIDE DEF n, m, y, z
  <1>13. \A u \in Tranche : u # t => NavPerShare(c, e, u) = NavPerShare(b, d, u)
    BY <1>1, OtherPriceStays
  <1> QED BY <1>8, <1>9, <1>10, <1>11, <1>12, <1>13 DEF PriceKept

---------------------------------------------------------------------------
(* The close: deposits are settled ... *)

Settles(b, d, q, views, t) ==
    /\ SettleGoes(d, q.desk, t, b.epoch)
    /\ BookInv(q.book) /\ Told(q.book, views) /\ q.book.epoch = b.epoch
    /\ Lenders(q.book, views) = Lenders(b, views) - d.epochDepositAssets[t][b.epoch]
    /\ PriceKept(b, d, q.book, q.desk, t) /\ q.desk.queueFilled = d.queueFilled

LEMMA SettleHolds ==
    ASSUME NEW b, BookInv(b), NEW views, Told(b, views), NEW d, DeskShaped(d),
           NEW t \in Tranche, SideOK(d, t, b.epoch), d.pendingDepositAssets \in Int,
           b.epoch + 1 \in Epochs, Lenders(b, views) \in Int
    PROVE  Settles(b, d, SettleDeposits(b, d, t), views, t)
  <1> DEFINE amount == d.epochDepositAssets[t][b.epoch]
             minted == SharesFor(b, d, t, amount)
             q == SettleDeposits(b, d, t)
             epoch == b.epoch
  <1>1. /\ amount \in Nat /\ HeldOK(d.shares[t]) /\ d.poolShares[t] \in Nat
    BY DEF SideOK, TicketsOK, BackedOK
  <1>2. CASE amount = 0
    <2>1. q = [book |-> b, desk |-> d]
      BY <1>2 DEF SettleDeposits
    <2>2. q.book = b /\ q.desk = d
      BY <2>1
    <2> HIDE DEF q
    <2>3. SettleGoes(d, d, t, epoch)
      BY <1>2, NothingToSettle
    <2>4. Lenders(b, views) = Lenders(b, views) - amount
      BY <1>2
    <2>5. PriceKept(b, d, b, d, t)
      BY <1>1, SamePriceIsKept
    <2> QED BY <2>2, <2>3, <2>4, <2>5 DEF q, Settles
  <1>3. CASE amount # 0
    <2> DEFINE n == b.assets[t] + amount
               cash == b.bookedCash + amount
               kept == b.balance
               c == [b EXCEPT !.bookedCash = @ + amount, !.assets[t] = @ + amount]
               p == d.poolShares[t] + minted
               left == d.pendingDepositAssets - amount
               e == [d EXCEPT !.pendingDepositAssets = @ - amount,
                              !.epochDepositShares[t][b.epoch] = minted,
                              !.poolShares[t] = @ + minted]
    <2>1. q = [book |-> c, desk |-> e]
      BY <1>3 DEF SettleDeposits
    <2>2. q.book = c /\ q.desk = e
      BY <2>1
    <2>3. minted \in Nat
      BY <1>1, SharesForIsNat
    <2>4. /\ b.assets[t] \in Nat /\ b.bookedCash \in Nat /\ b.balance \in Int
          /\ b = [f \in BookFields |-> b[f]]
      BY DEF BookInv, Claimants, Funds, Tranche, Shaped
    <2>5. n \in Nat /\ cash \in Nat /\ kept \in Int
      BY <1>1, <2>4
    <2>6. ClaimBecomes(b, c, t, n, cash, kept)
      <3>1. c = [b EXCEPT !.bookedCash = cash, !.assets[t] = n, !.balance = kept]
        BY <2>4 DEF BookFields
      <3> QED BY <3>1 DEF ClaimBecomes
    <2>7. PricedBecomes(d, e, t, epoch, minted, p, left)
      <3>1. e = [d EXCEPT !.pendingDepositAssets = left,
                          !.epochDepositShares[t][b.epoch] = minted, !.poolShares[t] = p]
        OBVIOUS
      <3> HIDE DEF e, left, minted, p, amount
      <3>2. PricedBecomes(d, [d EXCEPT !.pendingDepositAssets = left,
                                       !.epochDepositShares[t][epoch] = minted,
                                       !.poolShares[t] = p], t, epoch, minted, p, left)
        BY PricedWritten
      <3> QED BY <3>1, <3>2
    <2> HIDE DEF c, e, q
    <2>8. SettleGoes(d, e, t, epoch)
      <3>1. PricedBecomes(d, e, t, epoch, minted, d.poolShares[t] + minted,
                          d.pendingDepositAssets - d.epochDepositAssets[t][epoch])
        BY <2>7
      <3> HIDE DEF minted
      <3> QED BY <1>3, <2>3, <3>1, DepositsSettle
    <2>9. /\ Moves(b, c) /\ c.bookedCash = b.bookedCash + amount /\ c.balance = b.balance
          /\ ClaimIs(b, c, t, n)
      <3> HIDE DEF n, cash, kept
      <3>1. ClaimMoved(b, c, t, n, cash, kept)
        BY <2>5, <2>6, ClaimMoves
      <3> QED BY <3>1 DEF cash, kept, ClaimMoved, ClaimIs
    <2>10. /\ BookInv(c) /\ Told(c, views) /\ c.epoch = b.epoch
           /\ Lenders(c, views) = Lenders(b, views) + (c.balance - b.balance)
                                                    - (c.bookedCash - b.bookedCash)
      BY <2>9, MovesKeepTheBook
    <2>11. Lenders(c, views) = Lenders(b, views) - amount
      <3> DEFINE was == Lenders(b, views)
                 is == Lenders(c, views)
      <3>1. is = was + (c.balance - b.balance) - (c.bookedCash - b.bookedCash) /\ was \in Int
        BY <2>10
      <3> HIDE DEF was, is, amount
      <3>2. is = was - amount
        BY <1>1, <2>4, <2>9, <3>1
      <3> QED BY <3>2 DEF was, is
    <2>12. /\ OneSide(d, e, t) /\ e.poolShares[t] = p /\ e.shares = d.shares
           /\ e.queueFilled = d.queueFilled
      <3>1. "shares" \in DeskFields \ PricedFields /\ "queueFilled" \in DeskFields \ PricedFields
        BY DEF DeskFields, SideFields, PricedFields
      <3>2. e["shares"] = d["shares"] /\ e["queueFilled"] = d["queueFilled"]
        BY <2>7, <3>1 DEF PricedBecomes, Agrees
      <3> QED BY <2>7, <3>2 DEF PricedBecomes
    <2>13. PriceKept(b, d, c, e, t)
      <3> DEFINE a == b.assets[t] + 1
                 shares == TrancheShares(d, t) + VirtualShares
                 was == d.poolShares[t]
                 x == n + 1
                 y == shares + (p - was)
      <3>1. shares \in Nat /\ shares > 0
        BY <1>1, TrancheSharesAreNat, TrancheParamsAssumption
      <3>2. minted = (amount * shares) \div a
        BY DEF SharesFor
      <3>3. a \in Nat /\ a > 0 /\ was \in Nat
        BY <1>1, <2>4
      <3>4. x = a + amount
        BY <1>1, <2>4
      <3>5. y = shares + minted
        <4> HIDE DEF shares, minted, was
        <4> QED BY <2>3, <3>1, <3>3 DEF was
      <3>6. (a * Scale) \div shares <= ((a + amount) * Scale) \div (shares + minted)
        <4>1. minted <= (amount * shares) \div a
          <5>1. minted \in Nat
            BY <2>3
          <5> QED BY <3>2, <5>1
        <4> HIDE DEF shares, minted, a, amount
        <4> QED BY <1>1, <2>3, <3>1, <3>3, <4>1, MintingKeepsPrice DEF amount
      <3>7. AtLeast(a, shares, x, y)
        <4> HIDE DEF shares, minted, a, amount, x, y
        <4> QED BY <3>4, <3>5, <3>6 DEF AtLeast
      <3>8. p \in Nat
        <4> HIDE DEF minted
        <4> QED BY <1>1, <2>3
      <3> HIDE DEF n, p, minted
      <3>9. e.shares[t] = d.shares[t]
        BY <2>12
      <3> QED BY <1>1, <2>5, <2>9, <2>12, <3>7, <3>8, <3>9, TradeKeepsPrice
    <2> QED BY <2>2, <2>8, <2>10, <2>11, <2>12, <2>13 DEF q, Settles
  <1> QED BY <1>2, <1>3

---------------------------------------------------------------------------
(* ... and the queues are filled out of free cash. *)

LEMMA SpendableIsThere ==
    ASSUME NEW b, BookInv(b), NEW t \in Tranche
    PROVE  /\ Spendable(b, t) \in Nat
           /\ Spendable(b, t) <= b.bookedCash /\ Spendable(b, t) <= b.assets[t]
  <1> DEFINE own == Lesser(b.bookedCash, b.assets[t])
             all == TotalAssets(b)
             floor == (all * MinSubordinationBps) \div Bps
             free == Less(b.assets["Junior"], floor)
  <1>1. /\ b.bookedCash \in Nat /\ b.assets[t] \in Nat /\ b.assets["Junior"] \in Nat
        /\ all \in Nat
    BY DEF BookInv, Claimants, Funds, Tranche, TotalAssets
  <1>2. own \in Nat /\ own <= b.bookedCash /\ own <= b.assets[t]
    BY <1>1 DEF Lesser
  <1>3. floor \in Nat
    <2> HIDE DEF all
    <2>1. MinSubordinationBps \in Nat /\ Bps \in Nat /\ Bps > 0
      BY PoolParamsAssumption
    <2>2. all * MinSubordinationBps \in Nat
      BY <1>1, <2>1, Z3
    <2> QED BY <2>1, <2>2, Quotient
  <1>4. free \in Nat
    <2> HIDE DEF floor
    <2> QED BY <1>1, <1>3 DEF Less
  <1>5. Spendable(b, t) = own \/ Spendable(b, t) = Lesser(own, free)
    BY DEF Spendable
  <1> HIDE DEF own, free
  <1> QED BY <1>1, <1>2, <1>4, <1>5 DEF Lesser

\* What a fill pays is within what could be spent, whatever rounds and
\* whatever the fee.
LEMMA FillIsPayable ==
    ASSUME NEW spend \in Nat, NEW price \in Nat, price > 0, NEW filled \in Nat,
           filled <= (spend * Scale) \div price, NEW feeBps \in 0 .. Bps
    PROVE  LET gross == (filled * price) \div Scale
               net == gross - (gross * feeBps) \div Bps
           IN  net \in Nat /\ net <= spend
  <1> DEFINE gross == (filled * price) \div Scale
             fee == (gross * feeBps) \div Bps
             most == (spend * Scale) \div price
  <1>0. Scale \in Nat /\ Scale > 0 /\ Bps \in Nat /\ Bps > 0 /\ feeBps \in Nat /\ feeBps <= Bps
    BY TrancheParamsAssumption, PoolParamsAssumption
  <1>1. spend * Scale \in Nat
    BY <1>0, Z3
  <1>2. most \in Nat /\ most * price <= spend * Scale
    BY <1>1, Quotient
  <1>3. filled * price \in Nat /\ filled * price <= spend * Scale
    <2>1. filled <= most
      OBVIOUS
    <2> HIDE DEF most
    <2>2. filled * price \in Nat /\ filled * price <= most * price
      BY <1>2, <2>1, Z3
    <2>3. most * price \in Nat
      BY <1>2, Z3
    <2> QED BY <1>1, <1>2, <2>2, <2>3
  <1>4. gross \in Nat /\ gross <= spend
    <2> DEFINE x == filled * price
               y == spend * Scale
    <2>1. x \in Nat /\ y \in Nat /\ x <= y
      BY <1>1, <1>3
    <2> HIDE DEF x, y
    <2>2. x \div Scale \in Nat /\ x \div Scale <= y \div Scale
      BY <1>0, <2>1, Quotient, QuotientGrows
    <2>3. y \div Scale = spend
      BY <1>0, ShareOfAll DEF y
    <2> QED BY <2>2, <2>3 DEF x
  <1> HIDE DEF gross
  <1>5. fee \in 0 .. gross
    BY <1>0, <1>4, ShareIsWithin
  <1> HIDE DEF fee
  <1>6. gross - fee \in Nat /\ gross - fee <= spend
    BY <1>4, <1>5
  <1> QED BY <1>6 DEF gross, fee

AboveFloor(b) ==
    b.assets["Junior"] >= (TotalAssets(b) * MinSubordinationBps) \div Bps

FloorKept(d, c, e) == e.queueFilled["Junior"] # d.queueFilled["Junior"] => AboveFloor(c)

\* What junior may spend stops at its share of what the whole pool had.
LEMMA SpendingKeepsFloor ==
    ASSUME NEW b, BookInv(b), NEW net \in Nat, net <= Spendable(b, "Junior"),
           Spendable(b, "Junior") > 0, NEW c, NEW n, n = b.assets["Junior"] - net,
           n \in Nat, ClaimIs(b, c, "Junior", n), c.reserve = b.reserve
    PROVE  AboveFloor(c)
  <1> DEFINE own == Lesser(b.bookedCash, b.assets["Junior"])
             junior == b.assets["Junior"]
             all == TotalAssets(b)
             left == TotalAssets(c)
             floor == (all * MinSubordinationBps) \div Bps
             after == (left * MinSubordinationBps) \div Bps
             free == Less(junior, floor)
  <1>1. /\ Claimants(b) /\ b.bookedCash \in Nat /\ junior \in Nat
        /\ b.assets["Senior"] \in Nat /\ b.reserve \in Nat
    BY DEF BookInv, Claimants, Funds, Tranche
  <1>2. c.assets["Junior"] = n /\ c.assets["Senior"] = b.assets["Senior"]
    BY <1>1 DEF ClaimIs, Claimants, Tranche
  <1>3. all \in Nat /\ left \in Nat /\ left <= all
    BY <1>1, <1>2 DEF TotalAssets
  <1>4. MinSubordinationBps \in Nat /\ Bps \in Nat /\ Bps > 0
    BY PoolParamsAssumption
  <1> HIDE DEF all, left, junior
  <1>5. floor \in Nat /\ after \in Nat /\ after <= floor
    <2> DEFINE x == left * MinSubordinationBps
               y == all * MinSubordinationBps
    <2>1. x \in Nat /\ y \in Nat /\ x <= y
      BY <1>3, <1>4, Z3
    <2> HIDE DEF x, y
    <2>2. x \div Bps \in Nat /\ y \div Bps \in Nat /\ x \div Bps <= y \div Bps
      BY <1>4, <2>1, Quotient, QuotientGrows
    <2> QED BY <2>2 DEF x, y
  <1>6. CASE MinSubordinationBps = 0
    <2>1. after = 0
      <3>1. left * 0 = 0
        BY <1>3
      <3>2. after = 0 \div Bps
        BY <1>6, <3>1
      <3> HIDE DEF after
      <3> QED BY <1>4, <3>2, Z3
    <2> HIDE DEF after
    <2>2. c.assets["Junior"] >= after
      BY <1>2, <2>1
    <2> QED BY <2>2 DEF AboveFloor, after, left
  <1>7. CASE MinSubordinationBps # 0
    <2>1. Spendable(b, "Junior") = Lesser(own, free)
      <3>1. MinSubordinationBps > 0
        BY <1>4, <1>7
      <3> QED BY <3>1 DEF Spendable, all, junior
    <2>2. own \in Nat
      BY <1>1 DEF Lesser, junior
    <2> HIDE DEF own, after, floor
    <2>3. free > 0 /\ net <= free
      <3>1. free \in Nat
        BY <1>1, <1>5 DEF Less
      <3> HIDE DEF free
      <3> QED BY <2>1, <2>2, <3>1 DEF Lesser
    <2>4. net <= junior - floor
      BY <1>1, <1>5, <2>3 DEF Less
    <2>5. n >= after
      <3>1. n = junior - net
        BY DEF junior
      <3> QED BY <1>1, <1>5, <2>4, <3>1
    <2>6. c.assets["Junior"] >= after
      BY <1>2, <2>5
    <2> QED BY <2>6 DEF AboveFloor, after, left
  <1> QED BY <1>6, <1>7

FillServes(b, d, q, views, t, epoch, net) ==
    /\ FillGoes(d, q.desk, t, epoch, net)
    /\ BookInv(q.book) /\ Told(q.book, views) /\ q.book.epoch = b.epoch
    /\ Lenders(q.book, views) = Lenders(b, views) + net
    /\ PriceKept(b, d, q.book, q.desk, t) /\ FloorKept(d, q.book, q.desk)

LEMMA FillHolds ==
    ASSUME NEW b, BookInv(b), NEW views, Told(b, views), NEW d, DeskShaped(d),
           NEW t \in Tranche, NEW epoch, SideOK(d, t, epoch),
           d.pendingRedemptionAssets \in Nat, Lenders(b, views) \in Int,
           NEW feeBps \in 0 .. Bps
    PROVE  \E net \in Nat : FillServes(b, d, FillQueue(b, d, t, feeBps), views, t, epoch, net)
  <1> DEFINE queued == d.queueTail[t] - d.queueFilled[t]
             price == NavPerShare(b, d, t)
             spend == Spendable(b, t)
             most == (spend * Scale) \div price
             filled == SharesFilled(b, d, t)
             gross == (filled * price) \div Scale
             net == gross - (gross * feeBps) \div Bps
             q == FillQueue(b, d, t, feeBps)
             c == [b EXCEPT !.assets[t] = @ - net, !.bookedCash = @ - net]
             e == [d EXCEPT
                     !.queueFilled[t] = @ + filled,
                     !.poolShares[t] = @ - filled,
                     !.pendingRedemptionAssets = @ + net,
                     !.fills[t] = Append(@, [filledTo |-> d.queueFilled[t] + filled,
                                             sharesFilled |-> filled,
                                             assetsAllocated |-> net])]
  <1>0. q = IF filled = 0 THEN [book |-> b, desk |-> d] ELSE [book |-> c, desk |-> e]
    BY DEF FillQueue
  <1>f. filled = IF price = 0 THEN 0 ELSE Lesser(most, queued)
    BY DEF SharesFilled
  <1>1. /\ HeldOK(d.shares[t]) /\ d.poolShares[t] \in Nat
        /\ d.queueTail[t] \in Nat /\ d.queueFilled[t] \in Nat
        /\ d.queueFilled[t] <= d.queueTail[t]
    BY DEF SideOK, BackedOK, QueueOK
  <1>2. CASE filled = 0
    <2>1. q = [book |-> b, desk |-> d]
      <3> HIDE DEF filled, q, c, e
      <3> QED BY <1>0, <1>2
    <2>2. q.book = b /\ q.desk = d
      BY <2>1
    <2> HIDE DEF q
    <2>3. FillGoes(d, d, t, epoch, 0)
      BY NothingToFill
    <2>4. PriceKept(b, d, b, d, t) /\ FloorKept(d, b, d)
      BY <1>1, SamePriceIsKept DEF FloorKept
    <2>5. FillServes(b, d, q, views, t, epoch, 0)
      BY <2>2, <2>3, <2>4 DEF FillServes
    <2> QED BY <2>5 DEF q
  <1>3. CASE filled # 0
    <2> DEFINE n == b.assets[t] - net
               cash == b.bookedCash - net
               kept == b.balance
               x == d.queueFilled[t] + filled
               p == d.poolShares[t] - filled
               due == d.pendingRedemptionAssets + net
               s == Append(d.fills[t], NewFill(d.queueFilled[t], filled, net))
    <2>1. q = [book |-> c, desk |-> e]
      <3> HIDE DEF filled, q, c, e
      <3> QED BY <1>0, <1>3
    <2>2. q.book = c /\ q.desk = e
      BY <2>1
    <2>3. price \in Nat /\ price > 0
      <3>1. price \in Nat
        BY <1>1, NavIsNat
      <3>2. price # 0
        <4> HIDE DEF price, most, queued, filled
        <4> QED BY <1>3, <1>f
      <3> HIDE DEF price
      <3> QED BY <3>1, <3>2
    <2>4. /\ spend \in Nat /\ spend <= b.bookedCash /\ spend <= b.assets[t]
      BY SpendableIsThere
    <2>5. most \in Nat
      <3> HIDE DEF spend, price
      <3>1. Scale \in Nat
        BY TrancheParamsAssumption
      <3>2. spend * Scale \in Nat
        BY <2>4, <3>1, Z3
      <3> QED BY <2>3, <3>2, Quotient
    <2>6. filled \in Nat /\ filled > 0 /\ filled <= most /\ filled <= queued
      <3>1. filled = Lesser(most, queued) /\ queued \in Nat
        <4> HIDE DEF price, most, filled
        <4> QED BY <1>1, <1>f, <2>3
      <3> HIDE DEF most, queued
      <3> QED BY <1>3, <2>5, <3>1 DEF Lesser
    <2>7. net \in Nat /\ net <= spend
      <3>1. filled <= (spend * Scale) \div price
        BY <2>6
      <3> HIDE DEF spend, price, filled
      <3> QED BY <2>3, <2>4, <2>6, <3>1, FillIsPayable
    <2> HIDE DEF price, spend, most
    <2>8. /\ b.assets[t] \in Nat /\ b.bookedCash \in Nat /\ b.balance \in Int
          /\ b = [f \in BookFields |-> b[f]]
      BY DEF BookInv, Claimants, Funds, Tranche, Shaped
    <2>9. n \in Nat /\ cash \in Nat /\ kept \in Int
      <3> HIDE DEF net
      <3> QED BY <2>4, <2>7, <2>8
    <2>10. ClaimBecomes(b, c, t, n, cash, kept)
      <3> HIDE DEF net
      <3>1. c = [b EXCEPT !.bookedCash = cash, !.assets[t] = n, !.balance = kept]
        BY <2>8 DEF BookFields
      <3> QED BY <3>1 DEF ClaimBecomes
    <2>11. FilledBecomes(d, e, t, x, p, due, s)
      <3>1. e = [d EXCEPT !.queueFilled[t] = x, !.poolShares[t] = p,
                          !.pendingRedemptionAssets = due, !.fills[t] = s]
        BY DEF NewFill
      <3> HIDE DEF e, x, p, due, s
      <3>2. FilledBecomes(d, [d EXCEPT !.queueFilled[t] = x, !.poolShares[t] = p,
                                       !.pendingRedemptionAssets = due, !.fills[t] = s],
                          t, x, p, due, s)
        BY FilledWritten
      <3> QED BY <3>1, <3>2
    <2> HIDE DEF c, e, q
    <2>12. FillGoes(d, e, t, epoch, net)
      <3>1. FilledBecomes(d, e, t, d.queueFilled[t] + filled, d.poolShares[t] - filled,
                          d.pendingRedemptionAssets + net,
                          Append(d.fills[t], NewFill(d.queueFilled[t], filled, net)))
        BY <2>11
      <3>2. filled <= d.queueTail[t] - d.queueFilled[t]
        BY <2>6
      <3> HIDE DEF filled, net
      <3> QED BY <2>6, <2>7, <3>1, <3>2, QueueFills
    <2>13. /\ Moves(b, c) /\ c.bookedCash = b.bookedCash - net /\ c.balance = b.balance
           /\ ClaimIs(b, c, t, n) /\ c.reserve = b.reserve
      <3> HIDE DEF n, cash, kept
      <3>1. ClaimMoved(b, c, t, n, cash, kept)
        BY <2>9, <2>10, ClaimMoves
      <3> QED BY <3>1 DEF cash, kept, ClaimMoved, ClaimIs
    <2>14. /\ BookInv(c) /\ Told(c, views) /\ c.epoch = b.epoch
           /\ Lenders(c, views) = Lenders(b, views) + (c.balance - b.balance)
                                                    - (c.bookedCash - b.bookedCash)
      BY <2>13, MovesKeepTheBook
    <2>15. Lenders(c, views) = Lenders(b, views) + net
      <3> DEFINE was == Lenders(b, views)
                 is == Lenders(c, views)
      <3>1. is = was + (c.balance - b.balance) - (c.bookedCash - b.bookedCash) /\ was \in Int
        BY <2>14
      <3> HIDE DEF was, is, net
      <3>2. is = was + net
        BY <2>7, <2>8, <2>13, <3>1
      <3> QED BY <3>2 DEF was, is
    <2>16. /\ OneSide(d, e, t) /\ e.poolShares[t] = p /\ e.shares = d.shares
      <3>1. "shares" \in DeskFields \ FilledFields
        BY DEF DeskFields, SideFields, FilledFields
      <3>2. e["shares"] = d["shares"]
        BY <2>11, <3>1 DEF FilledBecomes, Agrees
      <3> QED BY <2>11, <3>2 DEF FilledBecomes
    <2>17. p \in Nat
      <3>1. /\ d.seedShares[t] \in Nat /\ DueOf(d, t, epoch) \in Nat
            /\ d.seedShares[t] + DueOf(d, t, epoch) + queued <= d.poolShares[t]
        BY SharesDueIsNat DEF SideOK, BackedOK, DueOf
      <3>2. queued \in Nat
        BY <1>1
      <3> HIDE DEF filled, queued
      <3> QED BY <1>1, <2>6, <3>1, <3>2
    <2>18. PriceKept(b, d, c, e, t)
      <3> DEFINE a == b.assets[t] + 1
                 shares == TrancheShares(d, t) + VirtualShares
                 was == d.poolShares[t]
                 z == n + 1
                 y == shares + (p - was)
      <3>1. shares \in Nat /\ TrancheShares(d, t) \in Nat /\ VirtualShares \in Nat
            /\ VirtualShares > 0
        BY <1>1, TrancheSharesAreNat, TrancheParamsAssumption
      <3>2. was \in Nat /\ was <= TrancheShares(d, t)
        <4>1. SumOver(d.shares[t], Holders) \in Nat
          <5> DEFINE held == d.shares[t]
          <5>1. \A h \in Holders : held[h] \in Nat
            BY <1>1 DEF HeldOK
          <5> HIDE DEF held
          <5>2. SumOver(held, Holders) \in Nat
            BY <5>1, LendersAssumption, SumIsNat
          <5> QED BY <5>2 DEF held
        <4> QED BY <1>1, <4>1 DEF TrancheShares
      <3>3. filled < shares /\ y = shares - filled
        <4>1. p = was - filled
          OBVIOUS
        <4>2. filled \in Nat /\ p \in Nat
          BY <2>6, <2>17
        <4>3. filled <= was
          <5> HIDE DEF filled, p, was
          <5> QED BY <3>2, <4>1, <4>2
        <4>4. was < shares
          BY <3>1, <3>2
        <4> HIDE DEF filled, p, was, shares
        <4> QED BY <3>1, <3>2, <4>1, <4>2, <4>3, <4>4 DEF was
      <3>4. a \in Nat /\ net <= a /\ z = a - net
        <4> HIDE DEF net
        <4> QED BY <2>4, <2>7, <2>8
      <3>5. net <= (filled * ((a * Scale) \div shares)) \div Scale
        <4>1. price = (a * Scale) \div shares
          BY DEF price, NavPerShare
        <4>2. net <= gross
          <5>1. gross \in Nat
            <6>1. filled * price \in Nat
              <7> HIDE DEF filled, price
              <7> QED BY <2>3, <2>6, Z3
            <6>2. Scale \in Nat /\ Scale > 0
              BY TrancheParamsAssumption
            <6> DEFINE o == filled * price
            <6> HIDE DEF o
            <6>3. o \div Scale \in Nat
              BY <6>1, <6>2, Quotient DEF o
            <6> QED BY <6>3 DEF o
          <5> HIDE DEF gross
          <5>2. (gross * feeBps) \div Bps \in 0 .. gross
            <6>1. Bps \in Nat /\ Bps > 0 /\ feeBps \in Nat /\ feeBps <= Bps
              BY PoolParamsAssumption
            <6> QED BY <5>1, <6>1, ShareIsWithin
          <5> DEFINE fee == (gross * feeBps) \div Bps
          <5> HIDE DEF fee
          <5>3. gross - fee <= gross
            BY <5>1, <5>2 DEF fee
          <5> QED BY <5>3 DEF fee
        <4> DEFINE u == filled * price
        <4>3. gross = u \div Scale
          OBVIOUS
        <4>4. u = filled * ((a * Scale) \div shares)
          <5> HIDE DEF filled, price, shares, a
          <5> QED BY <4>1
        <4> HIDE DEF net, gross, u
        <4> QED BY <4>2, <4>3, <4>4
      <3>6. AtLeast(a, shares, z, y)
        <4>1. net \in Nat /\ filled \in Nat
          BY <2>6, <2>7
        <4> HIDE DEF net, filled, a, shares, z, y
        <4>2. (a * Scale) \div shares <= ((a - net) * Scale) \div (shares - filled)
          BY <3>1, <3>3, <3>4, <3>5, <4>1, BurningKeepsPrice
        <4> QED BY <3>3, <3>4, <4>2 DEF AtLeast
      <3> HIDE DEF n, p
      <3>7. e.shares[t] = d.shares[t]
        BY <2>16
      <3> QED BY <1>1, <2>9, <2>13, <2>16, <2>17, <3>6, <3>7, TradeKeepsPrice
    <2>19. FloorKept(d, c, e)
      <3>1. CASE t = "Junior"
        <4>1. spend > 0
          <5>1. most > 0
            <6> HIDE DEF filled
            <6> QED BY <2>5, <2>6
          <5>2. CASE spend = 0
            <6>1. 0 * Scale = 0 /\ 0 \div price = 0
              <7>1. Scale \in Nat
                BY TrancheParamsAssumption
              <7> QED BY <2>3, <7>1, Z3
            <6>2. most = 0
              <7>1. most = (0 * Scale) \div price
                BY <5>2 DEF most
              <7> QED BY <6>1, <7>1
            <6> QED BY <5>1, <6>2
          <5> QED BY <2>4, <5>2
        <4>2. n = b.assets["Junior"] - net /\ n \in Nat /\ ClaimIs(b, c, "Junior", n)
          BY <2>9, <2>13, <3>1
        <4>3. spend = Spendable(b, "Junior")
          BY <3>1 DEF spend
        <4> HIDE DEF n, net
        <4>4. AboveFloor(c)
          BY <2>7, <2>13, <4>1, <4>2, <4>3, SpendingKeepsFloor
        <4> QED BY <4>4 DEF FloorKept
      <3>2. CASE t = "Senior"
        <4>1. "queueFilled" \in SideFields /\ "Junior" \in Tranche /\ "Junior" # t
          BY <3>2 DEF SideFields, Tranche
        <4>2. e["queueFilled"]["Junior"] = d["queueFilled"]["Junior"]
          BY <2>16, <4>1 DEF OneSide, SameSide
        <4> QED BY <4>2 DEF FloorKept
      <3> QED BY <3>1, <3>2 DEF Tranche
    <2> HIDE DEF net
    <2>20. FillServes(b, d, q, views, t, epoch, net)
      BY <2>2, <2>12, <2>14, <2>15, <2>18, <2>19 DEF FillServes
    <2> QED BY <2>7, <2>20 DEF q
  <1> QED BY <1>2, <1>3

LEMMA FeeIsBps ==
    ASSUME NEW b, NEW d
    PROVE  FeeBps(b, d) \in 0 .. Bps
  <1>1. LiquidityFeeBps \in 0 .. Bps /\ 0 \in 0 .. Bps
    BY TrancheParamsAssumption, PoolParamsAssumption
  <1> QED BY <1>1 DEF FeeBps

Fair(b, d, c, e) ==
    /\ \A u \in Tranche : NavPerShare(b, d, u) <= NavPerShare(c, e, u)
    /\ FloorKept(d, c, e)

LEMMA SamePrices ==
    ASSUME NEW b, NEW d, NEW c, NEW e, c.assets = b.assets, e.poolShares = d.poolShares,
           e.shares = d.shares
    PROVE  \A u \in Tranche : NavPerShare(c, e, u) = NavPerShare(b, d, u)
  BY DEF NavPerShare, TrancheShares

\* Four trades in turn are fair if each is: deposits priced in one tranche and
\* then in the other, queues paid in one and then in the other.
LEMMA TradesAreFair ==
    ASSUME NEW b0, NEW b1, NEW b2, NEW b3, NEW b4, NEW d0, NEW d1, NEW d2, NEW d3, NEW d4,
           PriceKept(b0, d0, b1, d1, "Senior"), PriceKept(b1, d1, b2, d2, "Junior"),
           PriceKept(b2, d2, b3, d3, "Senior"), PriceKept(b3, d3, b4, d4, "Junior"),
           d1.queueFilled = d0.queueFilled, d2.queueFilled = d1.queueFilled,
           d3.queueFilled["Junior"] = d2.queueFilled["Junior"],
           FloorKept(d3, b4, d4)
    PROVE  Fair(b0, d0, b4, d4)
  <1>1. "Senior" \in Tranche /\ "Junior" \in Tranche /\ "Senior" # "Junior"
    BY DEF Tranche
  <1>2. NavPerShare(b0, d0, "Senior") <= NavPerShare(b4, d4, "Senior")
    <2> DEFINE p0 == NavPerShare(b0, d0, "Senior")
               p1 == NavPerShare(b1, d1, "Senior")
               p2 == NavPerShare(b2, d2, "Senior")
               p3 == NavPerShare(b3, d3, "Senior")
               p4 == NavPerShare(b4, d4, "Senior")
    <2>1. p0 \in Nat /\ p1 \in Nat /\ p0 <= p1 /\ p2 = p1
      BY <1>1 DEF PriceKept
    <2>2. p3 \in Nat /\ p2 <= p3 /\ p4 = p3
      BY <1>1 DEF PriceKept
    <2> HIDE DEF p0, p1, p2, p3, p4
    <2>3. p0 <= p4
      BY <2>1, <2>2
    <2> QED BY <2>3 DEF p0, p4
  <1>3. NavPerShare(b0, d0, "Junior") <= NavPerShare(b4, d4, "Junior")
    <2> DEFINE p0 == NavPerShare(b0, d0, "Junior")
               p1 == NavPerShare(b1, d1, "Junior")
               p2 == NavPerShare(b2, d2, "Junior")
               p3 == NavPerShare(b3, d3, "Junior")
               p4 == NavPerShare(b4, d4, "Junior")
    <2>1. p1 = p0 /\ p1 \in Nat /\ p2 \in Nat /\ p1 <= p2
      BY <1>1 DEF PriceKept
    <2>2. p3 = p2 /\ p4 \in Nat /\ p3 <= p4
      BY <1>1 DEF PriceKept
    <2> HIDE DEF p0, p1, p2, p3, p4
    <2>3. p0 <= p4
      BY <2>1, <2>2
    <2> QED BY <2>3 DEF p0, p4
  <1>4. FloorKept(d0, b4, d4)
    BY DEF FloorKept
  <1> QED BY <1>2, <1>3, <1>4 DEF Fair, Tranche

\* The whole close: the fields of every party move on to the next epoch, and
\* nobody who stays is worse off.
LEMMA CloseHolds ==
    ASSUME NEW b, NEW d, NEW views, Core(b, d, views), NEW time \in Nat,
           time >= d.epochStartedAt + EpochLength, b.epoch + 1 \in Epochs
    PROVE  /\ Core(ClosedEpoch(b, d, time).book, ClosedEpoch(b, d, time).desk, views)
           /\ Fair(b, d, ClosedEpoch(b, d, time).book, ClosedEpoch(b, d, time).desk)
  <1> DEFINE elapsed == time - d.epochStartedAt
             b0 == SeniorAccruedTo(b, elapsed)
             feeBps == FeeBps(b0, d)
             q1 == SettleDeposits(b0, d, "Senior")
             q2 == SettleDeposits(q1.book, q1.desk, "Junior")
             q3 == FillQueue(q2.book, q2.desk, "Senior", feeBps)
             q4 == FillQueue(q3.book, q3.desk, "Junior", feeBps)
             c == [q4.book EXCEPT !.epoch = @ + 1, !.markedThisEpoch = 0, !.markCursor = 0]
             e == Restarted(q4.desk, time)
             epoch == b.epoch
             next == epoch + 1
  <1>1. ClosedEpoch(b, d, time).book = c /\ ClosedEpoch(b, d, time).desk = e
    BY DEF ClosedEpoch, Restarted
  <1>2. BookInv(b) /\ Told(b, views) /\ DeskInv(d, epoch)
        /\ Lenders(b, views) = d.pendingDepositAssets + d.pendingRedemptionAssets
    BY DEF Core
  <1>t. "Senior" \in Tranche /\ "Junior" \in Tranche /\ "Senior" # "Junior"
    BY DEF Tranche
  <1>3. /\ d.pendingDepositAssets \in Nat /\ d.pendingRedemptionAssets \in Nat
        /\ d.epochStartedAt \in Nat /\ SideOK(d, "Senior", epoch) /\ SideOK(d, "Junior", epoch)
        /\ DeskShaped(d)
        /\ d.epochDepositAssets["Senior"][epoch] \in Nat
        /\ d.epochDepositAssets["Junior"][epoch] \in Nat
        /\ d.pendingDepositAssets
             = d.epochDepositAssets["Senior"][epoch] + d.epochDepositAssets["Junior"][epoch]
    BY <1>2, <1>t, DeskIsSound DEF DeskFacts, DeskInv
  <1>4. elapsed \in Nat
    <2>1. time >= d.epochStartedAt + EpochLength /\ EpochLength \in Nat
      BY TrancheParamsAssumption
    <2> QED BY <1>3, <2>1
  <1>5. /\ BookInv(b0) /\ Told(b0, views) /\ b0.epoch = epoch
        /\ Lenders(b0, views) = Lenders(b, views) /\ b0.assets = b.assets
    <2> HIDE DEF elapsed
    <2>1. /\ Moves(b, b0) /\ b0.bookedCash = b.bookedCash /\ b0.balance = b.balance
          /\ b0.assets = b.assets
      BY <1>2, <1>4, AccrualMoves
    <2> HIDE DEF b0
    <2>2. /\ BookInv(b0) /\ Told(b0, views) /\ b0.epoch = b.epoch
          /\ Lenders(b0, views) = Lenders(b, views) + (b0.balance - b.balance)
                                                    - (b0.bookedCash - b.bookedCash)
      BY <1>2, <2>1, MovesKeepTheBook
    <2>3. b.balance \in Int /\ b.bookedCash \in Int /\ Lenders(b, views) \in Int
      BY <1>2, <1>3 DEF BookInv, Funds
    <2>4. Lenders(b0, views) = Lenders(b, views)
      BY <2>1, <2>2, <2>3
    <2> QED BY <2>1, <2>2, <2>4
  <1>6. feeBps \in 0 .. Bps
    BY FeeIsBps
  <1> HIDE DEF b0, feeBps
  <1> DEFINE s == d.epochDepositAssets["Senior"][epoch]
             j == d.epochDepositAssets["Junior"][epoch]
  <1>7. Lenders(b0, views) = s + j + d.pendingRedemptionAssets /\ Lenders(b0, views) \in Int
    BY <1>2, <1>3, <1>5
  <1>8. Settles(b0, d, q1, views, "Senior")
    BY <1>t, <1>3, <1>5, <1>7, SettleHolds
  <1> HIDE DEF q1
  <1>9. /\ SettleGoes(d, q1.desk, "Senior", epoch)
        /\ BookInv(q1.book) /\ Told(q1.book, views) /\ q1.book.epoch = epoch
        /\ Lenders(q1.book, views) = j + d.pendingRedemptionAssets
    <2>1. /\ SettleGoes(d, q1.desk, "Senior", epoch)
          /\ BookInv(q1.book) /\ Told(q1.book, views) /\ q1.book.epoch = epoch
          /\ Lenders(q1.book, views) = Lenders(b0, views) - s
      BY <1>5, <1>8 DEF Settles
    <2>2. Lenders(q1.book, views) = j + d.pendingRedemptionAssets
      <3> DEFINE is == Lenders(b0, views)
                 due == d.pendingRedemptionAssets
      <3>1. is = s + j + due /\ Lenders(q1.book, views) = is - s
        BY <1>7, <2>1
      <3>2. s \in Nat /\ j \in Nat /\ due \in Nat
        BY <1>3
      <3> HIDE DEF is, s, j, due
      <3>3. Lenders(q1.book, views) = j + due
        BY <3>1, <3>2
      <3> QED BY <3>3 DEF due
    <2> QED BY <2>1, <2>2
  <1>10. /\ DeskShaped(q1.desk) /\ SideOK(q1.desk, "Junior", epoch)
         /\ q1.desk.epochDepositAssets["Junior"][epoch] = j
         /\ q1.desk.pendingDepositAssets \in Int
         /\ q1.desk.pendingRedemptionAssets = d.pendingRedemptionAssets
    <2>1. OneSide(d, q1.desk, "Senior")
      BY <1>9 DEF SettleGoes
    <2>2. DeskShaped(q1.desk) /\ SameSide(d, q1.desk, "Junior")
      BY <1>t, <2>1 DEF OneSide
    <2>3. SideOK(q1.desk, "Junior", epoch)
          /\ q1.desk.epochDepositAssets["Junior"] = d.epochDepositAssets["Junior"]
      BY <1>3, <2>2, OtherSideStays
    <2>4. q1.desk.pendingDepositAssets \in Int
      BY <1>3, <1>9 DEF SettleGoes
    <2>5. q1.desk.pendingRedemptionAssets = d.pendingRedemptionAssets
      BY <1>9 DEF SettleGoes
    <2> QED BY <2>2, <2>3, <2>4, <2>5
  <1>11. Settles(q1.book, q1.desk, q2, views, "Junior")
    <2> DEFINE bk == q1.book
               dk == q1.desk
    <2>1. /\ BookInv(bk) /\ Told(bk, views) /\ DeskShaped(dk) /\ SideOK(dk, "Junior", bk.epoch)
          /\ dk.pendingDepositAssets \in Int /\ bk.epoch + 1 \in Epochs
          /\ Lenders(bk, views) \in Int
      BY <1>3, <1>9, <1>10
    <2>2. q2 = SettleDeposits(bk, dk, "Junior")
      OBVIOUS
    <2> HIDE DEF bk, dk, q2
    <2>3. Settles(bk, dk, SettleDeposits(bk, dk, "Junior"), views, "Junior")
      BY <1>t, <2>1, SettleHolds
    <2> QED BY <2>2, <2>3 DEF bk, dk
  <1> HIDE DEF q2
  <1>12. /\ SettleGoes(q1.desk, q2.desk, "Junior", epoch)
         /\ BookInv(q2.book) /\ Told(q2.book, views) /\ q2.book.epoch = epoch
         /\ Lenders(q2.book, views) = d.pendingRedemptionAssets
    <2>1. /\ SettleGoes(q1.desk, q2.desk, "Junior", epoch)
          /\ BookInv(q2.book) /\ Told(q2.book, views) /\ q2.book.epoch = epoch
          /\ Lenders(q2.book, views) = Lenders(q1.book, views) - j
      BY <1>9, <1>10, <1>11 DEF Settles
    <2>2. Lenders(q2.book, views) = d.pendingRedemptionAssets
      <3> DEFINE due == d.pendingRedemptionAssets
      <3>1. Lenders(q2.book, views) = (j + due) - j /\ j \in Nat /\ due \in Nat
        BY <1>3, <1>9, <2>1
      <3> HIDE DEF j, due
      <3>2. Lenders(q2.book, views) = due
        BY <3>1
      <3> QED BY <3>2 DEF due
    <2> QED BY <2>1, <2>2
  <1>13. /\ DeskShaped(q2.desk) /\ SideOK(q2.desk, "Senior", next)
         /\ q2.desk.pendingRedemptionAssets = d.pendingRedemptionAssets
    <2>1. SideOK(q1.desk, "Senior", next) /\ OneSide(q1.desk, q2.desk, "Junior")
          /\ q2.desk.pendingRedemptionAssets = q1.desk.pendingRedemptionAssets
      BY <1>9, <1>12 DEF SettleGoes
    <2>2. DeskShaped(q2.desk) /\ SameSide(q1.desk, q2.desk, "Senior")
      BY <1>t, <2>1 DEF OneSide
    <2>3. SideOK(q2.desk, "Senior", next)
      BY <2>1, <2>2, OtherSideStays
    <2> QED BY <1>10, <2>1, <2>2, <2>3
  <1>14. \E net \in Nat : FillServes(q2.book, q2.desk, q3, views, "Senior", next, net)
    <2> DEFINE bk == q2.book
               dk == q2.desk
    <2>1. /\ BookInv(bk) /\ Told(bk, views) /\ DeskShaped(dk) /\ SideOK(dk, "Senior", next)
          /\ dk.pendingRedemptionAssets \in Nat /\ Lenders(bk, views) \in Int
      BY <1>3, <1>12, <1>13
    <2>2. q3 = FillQueue(bk, dk, "Senior", feeBps)
      OBVIOUS
    <2> HIDE DEF bk, dk, q3, next
    <2>3. \E net \in Nat : FillServes(bk, dk, FillQueue(bk, dk, "Senior", feeBps), views,
                                   "Senior", next, net)
      BY <1>t, <1>6, <2>1, FillHolds
    <2> QED BY <2>2, <2>3 DEF bk, dk
  <1> HIDE DEF q3
  <1>15. PICK n3 \in Nat : FillServes(q2.book, q2.desk, q3, views, "Senior", next, n3)
    BY <1>14
  <1>16. /\ FillGoes(q2.desk, q3.desk, "Senior", next, n3)
         /\ BookInv(q3.book) /\ Told(q3.book, views) /\ q3.book.epoch = epoch
         /\ Lenders(q3.book, views) = d.pendingRedemptionAssets + n3
    BY <1>12, <1>15 DEF FillServes
  <1>17. /\ DeskShaped(q3.desk) /\ SideOK(q3.desk, "Junior", next)
         /\ q3.desk.pendingRedemptionAssets = d.pendingRedemptionAssets + n3
    <2>1. SideOK(q2.desk, "Junior", next)
      BY <1>12 DEF SettleGoes
    <2>2. OneSide(q2.desk, q3.desk, "Senior")
          /\ q3.desk.pendingRedemptionAssets = q2.desk.pendingRedemptionAssets + n3
      BY <1>16 DEF FillGoes
    <2>3. DeskShaped(q3.desk) /\ SameSide(q2.desk, q3.desk, "Junior")
      BY <1>t, <2>2 DEF OneSide
    <2>4. SideOK(q3.desk, "Junior", next)
      BY <2>1, <2>3, OtherSideStays
    <2> QED BY <1>13, <2>2, <2>3, <2>4
  <1>18. \E net \in Nat : FillServes(q3.book, q3.desk, q4, views, "Junior", next, net)
    <2> DEFINE bk == q3.book
               dk == q3.desk
    <2>1. /\ BookInv(bk) /\ Told(bk, views) /\ DeskShaped(dk) /\ SideOK(dk, "Junior", next)
          /\ dk.pendingRedemptionAssets \in Nat /\ Lenders(bk, views) \in Int
      BY <1>3, <1>16, <1>17
    <2>2. q4 = FillQueue(bk, dk, "Junior", feeBps)
      OBVIOUS
    <2> HIDE DEF bk, dk, q4, next
    <2>3. \E net \in Nat : FillServes(bk, dk, FillQueue(bk, dk, "Junior", feeBps), views,
                                   "Junior", next, net)
      BY <1>t, <1>6, <2>1, FillHolds
    <2> QED BY <2>2, <2>3 DEF bk, dk
  <1> HIDE DEF q4
  <1>19. PICK n4 \in Nat : FillServes(q3.book, q3.desk, q4, views, "Junior", next, n4)
    BY <1>18
  <1>20. /\ FillGoes(q3.desk, q4.desk, "Junior", next, n4)
         /\ BookInv(q4.book) /\ Told(q4.book, views) /\ q4.book.epoch = epoch
         /\ Lenders(q4.book, views) = d.pendingRedemptionAssets + n3 + n4
    BY <1>16, <1>19 DEF FillServes
  <1>21. /\ DeskInv(e, next) /\ e.pendingDepositAssets = 0
         /\ e.pendingRedemptionAssets = d.pendingRedemptionAssets + n3 + n4
    <2> DEFINE d1 == q1.desk
               d2 == q2.desk
               d3 == q3.desk
               d4 == q4.desk
    <2>1. /\ SettleGoes(d, d1, "Senior", epoch) /\ SettleGoes(d1, d2, "Junior", epoch)
          /\ FillGoes(d2, d3, "Senior", epoch + 1, n3)
          /\ FillGoes(d3, d4, "Junior", epoch + 1, n4)
      BY <1>9, <1>12, <1>16, <1>20
    <2>2. epoch + 1 \in Epochs /\ e = Restarted(d4, time)
      OBVIOUS
    <2> HIDE DEF d1, d2, d3, d4, epoch, e
    <2>3. /\ DeskInv(Restarted(d4, time), epoch + 1)
          /\ Restarted(d4, time).pendingDepositAssets = 0
          /\ Restarted(d4, time).pendingRedemptionAssets = d.pendingRedemptionAssets + n3 + n4
      BY <1>2, <2>1, <2>2, DeskCloses
    <2> QED BY <2>2, <2>3
  <1> HIDE DEF e
  <1>22. /\ BookInv(c) /\ Told(c, views) /\ Lenders(c, views) = Lenders(q4.book, views)
         /\ c.epoch = next
    <2> DEFINE bk == q4.book
    <2>1. BookInv(bk) /\ Told(bk, views) /\ bk.epoch + 1 \in Epochs /\ bk.epoch = epoch
      BY <1>20
    <2>2. c = [bk EXCEPT !.epoch = @ + 1, !.markedThisEpoch = 0, !.markCursor = 0]
      OBVIOUS
    <2> HIDE DEF bk, c
    <2>3. /\ BookInv(c) /\ Told(c, views) /\ Lenders(c, views) = Lenders(bk, views)
          /\ c.epoch = bk.epoch + 1
      BY <2>1, <2>2, EpochMoves
    <2> QED BY <2>1, <2>3 DEF bk
  <1> HIDE DEF c
  <1>23. Lenders(c, views) = e.pendingDepositAssets + e.pendingRedemptionAssets
    BY <1>3, <1>20, <1>21, <1>22
  <1>24. Core(c, e, views)
    BY <1>21, <1>22, <1>23 DEF Core
  <1>25. Fair(b0, d, q4.book, q4.desk)
    <2> DEFINE b1 == q1.book
               b2 == q2.book
               b3 == q3.book
               b4 == q4.book
               d1 == q1.desk
               d2 == q2.desk
               d3 == q3.desk
               d4 == q4.desk
    <2>1. PriceKept(b0, d, b1, d1, "Senior") /\ d1.queueFilled = d.queueFilled
      BY <1>8 DEF Settles
    <2>2. PriceKept(b1, d1, b2, d2, "Junior") /\ d2.queueFilled = d1.queueFilled
      BY <1>11 DEF Settles
    <2>3. PriceKept(b2, d2, b3, d3, "Senior") /\ OneSide(d2, d3, "Senior")
      BY <1>15, <1>16 DEF FillServes, FillGoes
    <2>4. PriceKept(b3, d3, b4, d4, "Junior") /\ FloorKept(d3, b4, d4)
      BY <1>19 DEF FillServes
    <2> HIDE DEF b1, b2, b3, b4, d1, d2, d3, d4
    <2>5. d3["queueFilled"]["Junior"] = d2["queueFilled"]["Junior"]
      <3>1. "queueFilled" \in SideFields
        BY DEF SideFields
      <3> QED BY <1>t, <2>3, <3>1 DEF OneSide, SameSide
    <2>6. Fair(b0, d, b4, d4)
      BY <2>1, <2>2, <2>3, <2>4, <2>5, TradesAreFair
    <2> QED BY <2>6 DEF b4, d4
  <1>26. \A u \in Tranche : NavPerShare(b0, d, u) = NavPerShare(b, d, u)
    BY <1>5, SamePrices
  <1>27. /\ c.assets = q4.book.assets /\ c.reserve = q4.book.reserve
         /\ e.poolShares = q4.desk.poolShares /\ e.shares = q4.desk.shares
         /\ e.queueFilled = q4.desk.queueFilled
    <2> DEFINE bk == q4.book
               dk == q4.desk
    <2>1. Shaped(bk) /\ DeskShaped(dk)
      BY <1>20 DEF BookInv, FillGoes, OneSide
    <2>2. c = [bk EXCEPT !.epoch = bk.epoch + 1, !.markedThisEpoch = 0, !.markCursor = 0]
      BY DEF c
    <2>3. e = Restarted(dk, time)
      BY DEF e
    <2> HIDE DEF bk, dk
    <2>4. c.assets = bk.assets /\ c.reserve = bk.reserve
      BY <2>1, <2>2 DEF Shaped, BookFields
    <2>5. /\ e.poolShares = dk.poolShares /\ e.shares = dk.shares
          /\ e.queueFilled = dk.queueFilled
      BY <2>1, <2>3 DEF DeskShaped, DeskFields, SideFields, Restarted
    <2> QED BY <2>4, <2>5 DEF bk, dk
  <1>28. \A u \in Tranche : NavPerShare(c, e, u) = NavPerShare(q4.book, q4.desk, u)
    BY <1>27, SamePrices
  <1>29. Fair(b, d, c, e)
    <2>1. \A u \in Tranche : NavPerShare(b, d, u) <= NavPerShare(c, e, u)
      BY <1>25, <1>26, <1>28 DEF Fair
    <2>2. FloorKept(d, c, e)
      BY <1>25, <1>27 DEF Fair, FloorKept, AboveFloor, TotalAssets
    <2> QED BY <2>1, <2>2 DEF Fair
  <1> QED BY <1>1, <1>24, <1>29

---------------------------------------------------------------------------
(* Where the pool starts. *)

LEMMA NothingInTheBook ==
    ASSUME NEW b, b = NewLoanBook
    PROVE  BookInv(b)
  <1>1. /\ b.reserve = 0 /\ b.assets = [t \in Tranche |-> 0]
        /\ b.bookedCash = 0 /\ b.deployedAssets = 0 /\ b.seniorAccrued = 0
        /\ b.epoch = 1 /\ b.markCursor = 0 /\ b.balance = 0
        /\ b.bookedReceivables = 0 /\ b.deferredIncome = 0 /\ b.totalProvisioned = 0
        /\ b.provisionedAt = [e \in Epochs |-> 0]
        /\ b.provisions = [k \in Plans |-> NoProvision]
        /\ b.books = [k \in Plans |-> NoBook]
        /\ b.merchantExposure = [m \in Merchants |-> 0]
        /\ b.corridorExposure = [c \in Corridors |-> 0]
        /\ b.openPlanList = <<>> /\ b.openPlanSlot = [k \in Plans |-> 0]
        /\ b.openPlans = 0 /\ b.markedThisEpoch = 0 /\ b.unmarkedDelinquencies = 0
    BY DEF NewLoanBook
  <1>2. b = [f \in BookFields |-> b[f]]
    BY DEF NewLoanBook, BookFields
  <1>e. 0 \in Epochs /\ 1 \in Epochs
    BY PoolParamsAssumption DEF Epochs
  <1> HIDE DEF NewLoanBook
  <1>3. \A k \in Plans : b.books[k] = NoBook /\ b.provisions[k] = NoProvision
    BY <1>1
  <1>4. Shaped(b)
    <2>1. IsPaper(NoBook)
      BY DEF IsPaper, NoBook, PaperFields
    <2>2. b.books = [k \in Plans |-> b.books[k]]
      BY <1>1
    <2> QED BY <1>2, <1>3, <2>1, <2>2 DEF Shaped
  <1>5. Claimants(b) /\ Funds(b)
    <2>1. "Junior" \in Tranche /\ "Senior" \in Tranche
      BY DEF Tranche
    <2>2. b.assets = [t \in Tranche |-> b.assets[t]] /\ b.assets["Junior"] = 0
          /\ b.assets["Senior"] = 0
      BY <1>1, <2>1
    <2> QED BY <1>1, <1>e, <2>2 DEF Claimants, Funds
  <1>6. Papers(b)
    <2>1. PaperOK(NoBook, 1)
      BY DEF PaperOK, NoBook
    <2> QED BY <1>1, <1>3, <2>1 DEF Papers
  <1>z. ASSUME NEW f, f = [k \in Plans |-> 0]
        PROVE  SumOver(f, Plans) = 0
    BY <1>z, PoolPartiesAssumption, SumOfZeros
  <1>7. /\ NoBook.carrying = 0 /\ NoBook.deferredIncome = 0 /\ NoBook.open = FALSE
        /\ NoProvision.amount = 0 /\ IsHeld(NoProvision)
    <2>1. HasHeldFields(NoProvision)
      BY DEF HasHeldFields, HeldFields, NoProvision
    <2>2. 0 \in Epochs
      BY <1>e
    <2> QED BY <2>1, <2>2 DEF NoBook, NoProvision, IsHeld
  <1>8. Sums(b)
    <2>1. CarryingIn(b) = [k \in Plans |-> 0] /\ DeferredIn(b) = [k \in Plans |-> 0]
      BY <1>3, <1>7 DEF CarryingIn, DeferredIn
    <2>2. /\ \A m \in Merchants : WithMerchant(b, m) = [k \in Plans |-> 0]
          /\ \A c \in Corridors : InCorridor(b, c) = [k \in Plans |-> 0]
      BY <1>3, <1>7 DEF WithMerchant, InCorridor
    <2>3. /\ SumOver(CarryingIn(b), Plans) = 0 /\ SumOver(DeferredIn(b), Plans) = 0
      BY <1>z, <2>1
    <2>4. /\ \A m \in Merchants : SumOver(WithMerchant(b, m), Plans) = 0
          /\ \A c \in Corridors : SumOver(InCorridor(b, c), Plans) = 0
      BY <1>z, <2>2
    <2> QED BY <1>1, <2>3, <2>4 DEF Sums
  <1>9. Provided(b)
    <2>1. HeldIn(b) = [k \in Plans |-> 0]
      BY <1>3, <1>7 DEF HeldIn
    <2>2. \A e \in Epochs : HeldAt(b, e) = [k \in Plans |-> 0]
      BY <1>3, <1>7 DEF HeldAt
    <2>3. SumOver(HeldIn(b), Plans) = 0 /\ \A e \in Epochs : SumOver(HeldAt(b, e), Plans) = 0
      BY <1>z, <2>1, <2>2
    <2>4. b.provisions = [k \in Plans |-> b.provisions[k]]
      BY <1>1
    <2> QED BY <1>1, <1>3, <1>7, <2>3, <2>4 DEF Provided
  <1>10. OnlyOpenHeld(b)
    BY <1>3, <1>7 DEF OnlyOpenHeld
  <1>11. Counted(b)
    <2>1. OpenOf(b) = {} /\ MarkedOf(b) = {} /\ UnmarkedOf(b) = {}
      BY <1>3, <1>7 DEF OpenOf, MarkedOf, UnmarkedOf
    <2>2. Cardinality({}) = 0
      BY FS_EmptySet
    <2>3. Slotted(b.openPlanList, b.openPlanSlot, {})
      <3>1. b.openPlanSlot = [k \in Plans |-> b.openPlanSlot[k]]
        BY <1>1
      <3>2. b.openPlanList = <<>> /\ Len(<<>>) = 0 /\ <<>> \in Seq(Plans)
        BY <1>1
      <3> QED BY <3>1, <3>2 DEF Slotted
    <2>4. b.openPlans = Len(b.openPlanList)
      BY <1>1
    <2> QED BY <1>1, <2>1, <2>2, <2>3, <2>4 DEF Counted
  <1> QED BY <1>4, <1>5, <1>6, <1>8, <1>9, <1>10, <1>11 DEF BookInv

LEMMA NobodyAtTheDesk ==
    ASSUME NEW d, d = NewDesk(1)
    PROVE  /\ DeskInv(d, 1) /\ d.pendingDepositAssets = 0 /\ d.pendingRedemptionAssets = 0
  <1>1. /\ d = [f \in DeskFields |-> d[f]]
        /\ \A f \in SideFields : d[f] = [t \in Tranche |-> d[f][t]]
    <2>1. d = [f \in DeskFields |-> d[f]]
      BY DEF NewDesk, DeskFields, SideFields
    <2>2. /\ d.depositTickets = [t \in Tranche |-> [h \in Holders |-> [epoch |-> 0, assets |-> 0]]]
          /\ d.epochDepositAssets = [t \in Tranche |-> [x \in Epochs |-> 0]]
          /\ d.epochDepositShares = [t \in Tranche |-> [x \in Epochs |-> 0]]
          /\ d.seeded = [t \in Tranche |-> FALSE]
          /\ d.redeemTickets = [t \in Tranche |-> [h \in Holders |-> <<>>]]
          /\ d.queueTail = [t \in Tranche |-> 0] /\ d.queueFilled = [t \in Tranche |-> 0]
          /\ d.fills = [t \in Tranche |-> <<>>] /\ d.redeemRequested = [t \in Tranche |-> 0]
          /\ d.shares = [t \in Tranche |-> [h \in Holders |-> 0]]
          /\ d.poolShares = [t \in Tranche |-> 0] /\ d.seedShares = [t \in Tranche |-> 0]
      BY DEF NewDesk
    <2> HIDE DEF NewDesk
    <2>3. ASSUME NEW f \in SideFields PROVE \E v : d[f] = [t \in Tranche |-> v]
      <3>1. CASE f \in {"queueTail", "queueFilled", "redeemRequested", "poolShares", "seedShares"}
        <4>1. d[f] = [t \in Tranche |-> 0]
          BY <2>2, <3>1
        <4> QED BY <4>1
      <3>2. CASE f \in {"epochDepositAssets", "epochDepositShares"}
        <4>1. d[f] = [t \in Tranche |-> [x \in Epochs |-> 0]]
          BY <2>2, <3>2
        <4> QED BY <4>1
      <3>3. CASE f = "shares"
        <4>1. d[f] = [t \in Tranche |-> [h \in Holders |-> 0]]
          BY <2>2, <3>3
        <4> QED BY <4>1
      <3>4. CASE f = "fills"
        <4>1. d[f] = [t \in Tranche |-> <<>>]
          BY <2>2, <3>4
        <4> QED BY <4>1
      <3>5. CASE f = "redeemTickets"
        <4>1. d[f] = [t \in Tranche |-> [h \in Holders |-> <<>>]]
          BY <2>2, <3>5
        <4> QED BY <4>1
      <3>6. CASE f = "seeded"
        <4>1. d[f] = [t \in Tranche |-> FALSE]
          BY <2>2, <3>6
        <4> QED BY <4>1
      <3>7. CASE f = "depositTickets"
        <4>1. d[f] = [t \in Tranche |-> [h \in Holders |-> [epoch |-> 0, assets |-> 0]]]
          BY <2>2, <3>7
        <4> QED BY <4>1
      <3> QED BY <3>1, <3>2, <3>3, <3>4, <3>5, <3>6, <3>7 DEF SideFields
    <2>4. ASSUME NEW f \in SideFields PROVE d[f] = [t \in Tranche |-> d[f][t]]
      <3>1. PICK v : d[f] = [t \in Tranche |-> v]
        BY <2>3
      <3> QED BY <3>1
    <2> QED BY <2>1, <2>4
  <1>2. /\ d.pendingDepositAssets = 0 /\ d.pendingRedemptionAssets = 0
        /\ d.epochStartedAt = 1
    BY DEF NewDesk
  <1>3. DeskShaped(d)
    BY <1>1 DEF DeskShaped
  <1>e. 1 \in Epochs /\ \A x \in Epochs : x \in Nat
    BY PoolParamsAssumption DEF Epochs
  <1>z. SumOver([h \in Holders |-> 0], Holders) = 0
    BY LendersAssumption, SumOfZeros
  <1>4. ASSUME NEW t \in Tranche
        PROVE  SideOK(d, t, 1) /\ Reserved(d, t) = 0 /\ d.epochDepositAssets[t][1] = 0
    <2>1. /\ d.depositTickets[t] = [h \in Holders |-> [epoch |-> 0, assets |-> 0]]
          /\ d.epochDepositAssets[t] = [x \in Epochs |-> 0]
          /\ d.epochDepositShares[t] = [x \in Epochs |-> 0]
          /\ d.seeded[t] = FALSE
          /\ d.redeemTickets[t] = [h \in Holders |-> <<>>]
          /\ d.queueTail[t] = 0 /\ d.queueFilled[t] = 0 /\ d.fills[t] = <<>>
          /\ d.shares[t] = [h \in Holders |-> 0]
          /\ d.poolShares[t] = 0 /\ d.seedShares[t] = 0
      BY DEF NewDesk
    <2> DEFINE tickets == d.depositTickets[t]
               asked == d.epochDepositAssets[t]
               minted == d.epochDepositShares[t]
               redeems == d.redeemTickets[t]
               fills == d.fills[t]
    <2>2. TicketsOK(tickets, asked, 1)
      <3>1. \A h \in Holders : tickets[h] = [epoch |-> 0, assets |-> 0]
        BY <2>1
      <3>2. \A h \in Holders : IsDeposit(tickets[h], 1)
        BY <3>1 DEF IsDeposit
      <3>3. AskedNow(tickets, 1) = [h \in Holders |-> 0]
        BY <3>1 DEF AskedNow, AskedBy
      <3>4. asked[1] = SumOver(AskedNow(tickets, 1), Holders)
        BY <1>e, <1>z, <2>1, <3>3
      <3>5. /\ tickets = [h \in Holders |-> tickets[h]]
            /\ asked = [x \in Epochs |-> asked[x]]
            /\ \A x \in Epochs : asked[x] = 0
        BY <2>1
      <3> HIDE DEF tickets, asked
      <3> QED BY <1>e, <3>2, <3>4, <3>5 DEF TicketsOK
    <2>3. PricedOK(minted)
      BY <2>1 DEF PricedOK
    <2>4. HeldOK(d.shares[t])
      BY <2>1 DEF HeldOK
    <2>5. fills = <<>> /\ Len(fills) = 0 /\ FillsOK(fills) /\ Edge(fills, 0) = 0
      <3>0. <<>> \in Seq(Fill) /\ Len(<<>>) = 0
        OBVIOUS
      <3>1. fills = <<>> /\ Len(fills) = 0 /\ fills \in Seq(Fill)
        BY <2>1, <3>0
      <3> HIDE DEF fills
      <3>2. 1 .. Len(fills) = {} /\ \A i \in 0 .. Len(fills) : i = 0
        BY <3>1
      <3> QED BY <3>1, <3>2 DEF FillsOK, Edge
    <2>6. /\ redeems = [h \in Holders |-> redeems[h]]
          /\ \A h \in Holders : redeems[h] = <<>> /\ redeems[h] \in Seq(RedeemTicket)
               /\ 1 .. Len(redeems[h]) = {}
      <3>0. <<>> \in Seq(RedeemTicket) /\ 1 .. Len(<<>>) = {}
        OBVIOUS
      <3>1. redeems = [h \in Holders |-> <<>>]
        BY <2>1
      <3> HIDE DEF redeems
      <3>2. redeems = [h \in Holders |-> redeems[h]] /\ \A h \in Holders : redeems[h] = <<>>
        BY <3>1
      <3> QED BY <3>0, <3>2
    <2>7. QueueOK(redeems, 0, 0, fills)
      <3> HIDE DEF redeems, fills
      <3>1. Apart(redeems)
        BY <2>6 DEF Apart
      <3> QED BY <2>5, <2>6, <3>1 DEF QueueOK
    <2>8. Reserved(d, t) = 0
      <3>1. Worths(fills, Waiting(redeems)) = [j \in {} |-> 0]
        <4> HIDE DEF redeems, fills
        <4>1. 1 .. Len(fills) = {}
          BY <2>5
        <4> QED BY <4>1 DEF Worths
      <3>2. 1 .. Len(fills) = {}
        BY <2>5
      <3>3. SumOver(Worths(fills, Waiting(redeems)), {}) = 0
        BY SumOfNothing
      <3> HIDE DEF redeems, fills
      <3>4. SetAside(fills, Waiting(redeems)) = 0
        BY <3>2, <3>3 DEF SetAside
      <3> QED BY <3>4 DEF Reserved, redeems, fills
    <2>9. DueOf(d, t, 1) = 0
      <3>1. \A h \in Holders : OwedTo(tickets[h], asked, minted, 1) = 0
        BY <1>e, <2>1, PoolParamsAssumption DEF OwedTo, OwedOn, Epochs
      <3>2. OwedNow(tickets, asked, minted, 1) = [h \in Holders |-> 0]
        <4> HIDE DEF tickets, asked, minted
        <4> QED BY <3>1 DEF OwedNow
      <3> HIDE DEF tickets, asked, minted
      <3>3. SharesDue(tickets, asked, minted, 1) = 0
        BY <1>z, <3>2 DEF SharesDue
      <3> QED BY <3>3 DEF DueOf, tickets, asked, minted
    <2>10. BackedOK(d, t, 1)
      BY <2>1, <2>9 DEF BackedOK
    <2>11. SideOK(d, t, 1)
      BY <2>1, <2>2, <2>3, <2>4, <2>7, <2>10 DEF SideOK
    <2>12. d.epochDepositAssets[t][1] = 0
      BY <1>e, <2>1
    <2> QED BY <2>8, <2>11, <2>12
  <1> HIDE DEF NewDesk
  <1>5. "Junior" \in Tranche /\ "Senior" \in Tranche
    BY DEF Tranche
  <1> QED BY <1>2, <1>3, <1>4, <1>5 DEF DeskInv, RedemptionsOK

LEMMA CoreStarts ==
    ASSUME NEW b, b = NewLoanBook, NEW d, d = NewDesk(1),
           NEW views, views = [k \in Plans |-> Opening(Terms[k])]
    PROVE  Core(b, d, views)
  <1>1. BookInv(b)
    BY NothingInTheBook
  <1>2. /\ DeskInv(d, 1) /\ d.pendingDepositAssets = 0 /\ d.pendingRedemptionAssets = 0
    BY NobodyAtTheDesk
  <1>3. /\ b.epoch = 1 /\ b.balance = 0 /\ b.bookedCash = 0
        /\ b.books = [k \in Plans |-> NoBook]
    BY DEF NewLoanBook
  <1>4. \A k \in Plans : /\ views[k] = Opening(Terms[k]) /\ b.books[k] = NoBook
                         /\ Terms[k].principal \in Nat
    BY <1>3, PoolTermsAssumption
  <1>5. Told(b, views)
    <2> SUFFICES ASSUME NEW k \in Plans PROVE Tells(b, k, views[k])
      BY DEF Told
    <2>1. /\ views[k].outstanding = Terms[k].principal /\ views[k].forwarded = 0
          /\ views[k].late = FALSE
      BY <1>4 DEF Opening
    <2>2. /\ b.books[k].recognisedInflow = 0 /\ b.books[k].open = FALSE
      BY <1>4 DEF NoBook
    <2>3. views[k].outstanding \in Nat /\ views[k].late \in BOOLEAN /\ views[k].forwarded \in Nat
      <3>1. views[k].outstanding \in Nat /\ views[k].forwarded \in Nat
        BY <1>4, <2>1
      <3>2. views[k].late \in BOOLEAN
        BY <2>1, Zenon
      <3> QED BY <3>1, <3>2
    <2>4. views[k] = Opening(Terms[k])
      BY <1>4
    <2>5. b.books[k].recognisedInflow <= views[k].forwarded
      BY <2>1, <2>2
    <2>6. b.books[k].open => views[k].outstanding <= b.books[k].carrying
      BY <2>2
    <2> QED BY <2>3, <2>4, <2>5, <2>6, Zenon DEF Tells
  <1>6. Lenders(b, views) = 0
    <2>1. Unrecognised(b, views) = [k \in Plans |-> 0]
      BY <1>4 DEF Unrecognised, Opening, NoBook
    <2>2. SumOver(Unrecognised(b, views), Plans) = 0
      BY <2>1, PoolPartiesAssumption, SumOfZeros
    <2> QED BY <1>3, <2>2 DEF Lenders
  <1> QED BY <1>1, <1>2, <1>3, <1>5, <1>6 DEF Core

---------------------------------------------------------------------------
(* The inductive invariant of the pool, and its steps. *)

PoolInv ==
    /\ Core(book, desk, view)
    /\ view = [k \in Plans |-> view[k]]
    /\ positions = [x \in Venues |-> positions[x]]
    /\ \A x \in Venues : PositionOK(positions[x])
    /\ venue \in Venues \cup {NoVenue}
    /\ now \in Nat

LEMMA PoolStarts == Init => PoolInv
  <1> SUFFICES ASSUME Init PROVE PoolInv
    OBVIOUS
  <1>1. Core(book, desk, view)
    BY CoreStarts DEF Init
  <1>2. view = [k \in Plans |-> view[k]]
    BY DEF Init
  <1>3. /\ positions = [x \in Venues |-> positions[x]]
        /\ \A x \in Venues : PositionOK(positions[x])
    BY DEF Init, PositionOK
  <1> QED BY <1>1, <1>2, <1>3 DEF Init, PoolInv

\* A step that touches neither the venues nor the plans' views nor the clock.
LEMMA BooksStep ==
    ASSUME PoolInv, Core(book', desk', view), UNCHANGED <<venue, positions, view, now>>
    PROVE  PoolInv'
  BY DEF PoolInv

LEMMA VenuesStep ==
    ASSUME PoolInv, NEW x \in Venues, NEW p, PositionOK(p)
    PROVE  LET new == [positions EXCEPT ![x] = p]
           IN  new = [y \in Venues |-> new[y]] /\ \A y \in Venues : PositionOK(new[y])
  <1> DEFINE new == [positions EXCEPT ![x] = p]
  <1>1. positions = [y \in Venues |-> positions[y]] /\ \A y \in Venues : PositionOK(positions[y])
    BY DEF PoolInv
  <1>2. new = [y \in Venues |-> IF y = x THEN p ELSE positions[y]]
    BY <1>1
  <1> HIDE DEF new
  <1>3. new = [y \in Venues |-> new[y]]
    BY <1>2
  <1>4. \A y \in Venues : PositionOK(new[y])
    BY <1>1, <1>2
  <1> QED BY <1>3, <1>4 DEF new

LEMMA InputsAreNat ==
    /\ SeedAmounts \subseteq Nat /\ ReserveAmounts \subseteq Nat /\ YieldAmounts \subseteq Nat
    /\ DepositAmounts \subseteq Nat /\ RedeemAmounts \subseteq Nat /\ BufferAmounts \subseteq Nat
    /\ MarkLimits \subseteq Nat /\ ClaimSteps \subseteq Nat
  BY PoolInputsAssumption

LEMMA SeedStep ==
    ASSUME PoolInv, NEW t \in Tranche, NEW amount \in SeedAmounts, Seed(t, amount)
    PROVE  PoolInv'
  <1>1. Core(book, desk, view) /\ amount \in Nat /\ CanSeed(desk, t, amount)
    BY InputsAreNat DEF PoolInv, Seed
  <1>2. Core(SeededBook(book, t, amount), SeededDesk(book, desk, t, amount), view)
    BY <1>1, SeedHolds
  <1>3. Core(book', desk', view) /\ UNCHANGED <<venue, positions, view, now>>
    BY <1>2 DEF Seed
  <1> QED BY <1>3, BooksStep

LEMMA FundReserveStep ==
    ASSUME PoolInv, NEW amount \in ReserveAmounts, FundReserve(amount)
    PROVE  PoolInv'
  <1>1. Core(book, desk, view) /\ amount \in Nat
    BY InputsAreNat DEF PoolInv
  <1>2. Core(ReserveFunded(book, amount), desk, view)
    BY <1>1, ReserveHolds
  <1>3. Core(book', desk', view) /\ UNCHANGED <<venue, positions, view, now>>
    BY <1>2 DEF FundReserve
  <1> QED BY <1>3, BooksStep

LEMMA LenderSteps ==
    ASSUME PoolInv, NEW t \in Tranche, NEW h \in Holders,
           \/ \E amount \in DepositAmounts : RequestDeposit(t, h, amount)
           \/ CancelDeposit(t, h)
           \/ ClaimShares(t, h)
           \/ \E amount \in RedeemAmounts : RequestRedeem(t, h, amount)
           \/ \E index \in DOMAIN desk.redeemTickets[t][h], steps \in ClaimSteps :
                ClaimRedemption(t, h, index, steps)
    PROVE  PoolInv'
  <1>0. Core(book, desk, view)
    BY DEF PoolInv
  <1>1. ASSUME NEW amount \in DepositAmounts, RequestDeposit(t, h, amount)
        PROVE  PoolInv'
    <2>1. amount \in Nat /\ CanDeposit(book, desk, t, h, amount)
      BY <1>1, InputsAreNat DEF RequestDeposit
    <2>2. Core([book EXCEPT !.balance = @ + amount], Deposited(book, desk, t, h, amount), view)
      BY <1>0, <2>1, DepositHolds
    <2>3. Core(book', desk', view) /\ UNCHANGED <<venue, positions, view, now>>
      BY <1>1, <2>2 DEF RequestDeposit
    <2> QED BY <2>3, BooksStep
  <1>2. ASSUME CancelDeposit(t, h) PROVE PoolInv'
    <2>1. CanCancelDeposit(book, desk, t, h)
      BY <1>2 DEF CancelDeposit
    <2>2. Core([book EXCEPT !.balance = @ - desk.depositTickets[t][h].assets],
               DepositCancelled(book, desk, t, h), view)
      BY <1>0, <2>1, CancelHolds
    <2>3. Core(book', desk', view) /\ UNCHANGED <<venue, positions, view, now>>
      BY <1>2, <2>2 DEF CancelDeposit
    <2> QED BY <2>3, BooksStep
  <1>3. ASSUME ClaimShares(t, h) PROVE PoolInv'
    <2>1. CanClaimShares(book, desk, t, h)
      BY <1>3 DEF ClaimShares
    <2>2. Core(book, SharesClaimed(desk, t, h, now), view)
      BY <1>0, <2>1, ClaimSharesHolds
    <2>3. Core(book', desk', view) /\ UNCHANGED <<venue, positions, view, now>>
      BY <1>3, <2>2 DEF ClaimShares
    <2> QED BY <2>3, BooksStep
  <1>4. ASSUME NEW amount \in RedeemAmounts, RequestRedeem(t, h, amount)
        PROVE  PoolInv'
    <2>1. amount \in Nat /\ CanRequestRedeem(desk, t, h, amount, now)
      BY <1>4, InputsAreNat DEF RequestRedeem
    <2>2. Core(book, RedeemRequested(desk, t, h, amount), view)
      BY <1>0, <2>1, RequestRedeemHolds
    <2>3. Core(book', desk', view) /\ UNCHANGED <<venue, positions, view, now>>
      BY <1>4, <2>2 DEF RequestRedeem
    <2> QED BY <2>3, BooksStep
  <1>5. ASSUME NEW index \in DOMAIN desk.redeemTickets[t][h], NEW steps \in ClaimSteps,
               ClaimRedemption(t, h, index, steps)
        PROVE  PoolInv'
    <2> DEFINE claim == Claim(desk.fills[t], desk.redeemTickets[t][h][index], steps)
    <2>1. steps \in Nat
      BY InputsAreNat
    <2>2. Core([book EXCEPT !.balance = @ - claim.assets],
               RedemptionClaimed(desk, t, h, index, claim), view)
      BY <1>0, <2>1, ClaimRedemptionHolds
    <2>3. /\ desk' = RedemptionClaimed(desk, t, h, index, claim)
          /\ book' = [book EXCEPT !.balance = @ - claim.assets]
          /\ UNCHANGED <<venue, positions, view, now>>
      BY <1>5 DEF ClaimRedemption
    <2> HIDE DEF claim
    <2>4. Core(book', desk', view)
      BY <2>2, <2>3
    <2> QED BY <2>3, <2>4, BooksStep
  <1> QED BY <1>1, <1>2, <1>3, <1>4, <1>5

LEMMA LoanSteps ==
    ASSUME PoolInv, NEW k \in Plans, Front(k) \/ Recognise(k)
    PROVE  PoolInv'
  <1>0. Core(book, desk, view)
    BY DEF PoolInv
  <1>1. ASSUME Front(k) PROVE PoolInv'
    <2>1. Core(Fronted(book, k), desk, view)
      BY <1>0, <1>1, FrontHolds DEF Front
    <2>2. Core(book', desk', view) /\ UNCHANGED <<venue, positions, view, now>>
      BY <1>1, <2>1 DEF Front
    <2> QED BY <2>2, BooksStep
  <1>2. ASSUME Recognise(k) PROVE PoolInv'
    <2>1. Core(Recognised(book, k, view[k]), desk, view)
      BY <1>0, RecogniseHolds
    <2>2. Core(book', desk', view) /\ UNCHANGED <<venue, positions, view, now>>
      BY <1>2, <2>1 DEF Recognise
    <2> QED BY <2>2, BooksStep
  <1> QED BY <1>1, <1>2

\* One way for a plan to move.
PlanShows(k, state, late, outstanding, forwarded) ==
    LET w == [state |-> state, outstanding |-> outstanding,
              forwarded |-> forwarded, late |-> late]
    IN  /\ Follows(Terms[k], view[k], w)
        /\ late => k \in LatePlans
        /\ view' = [view EXCEPT ![k] = w]
        /\ book' = [book EXCEPT !.balance = @ + forwarded - view[k].forwarded]

LEMMA PlanStep ==
    ASSUME PoolInv, NEW k \in Plans, PlanMoves(k)
    PROVE  PoolInv'
  <1>0. Core(book, desk, view) /\ view = [j \in Plans |-> view[j]] /\ book.books[k].fronted
    BY DEF PoolInv, PlanMoves
  <1>1. PICK state \in PlanStates[k], late \in BOOLEAN,
             outstanding \in 0 .. view[k].outstanding,
             forwarded \in view[k].forwarded .. Terms[k].principal + Terms[k].extras :
          PlanShows(k, state, late, outstanding, forwarded)
    BY DEF PlanMoves, PlanShows
  <1>u. UNCHANGED <<desk, venue, positions, now>>
    BY DEF PlanMoves
  <1> DEFINE w == [state |-> state, outstanding |-> outstanding,
                   forwarded |-> forwarded, late |-> late]
  <1>2. /\ BookInv(book) /\ view[k].forwarded \in Nat /\ book.balance \in Int
    BY <1>0 DEF Core, Told, Tells, BookInv, Funds
  <1>3. /\ w.outstanding = outstanding /\ w.forwarded = forwarded /\ w.late = late
    OBVIOUS
  <1>4. forwarded \in Int /\ view[k].forwarded <= forwarded
    BY <1>2
  <1> HIDE DEF w
  <1>5. Shows(w, view[k])
    <2>1. w.outstanding \in 0 .. view[k].outstanding
      BY <1>3
    <2>2. w.late \in BOOLEAN
      BY <1>3
    <2>3. w.forwarded \in Int /\ view[k].forwarded <= w.forwarded
      BY <1>3, <1>4
    <2> QED BY <2>1, <2>2, <2>3 DEF Shows
  <1>6. book.books[k].fronted = TRUE
    <2>1. book.books[k].fronted \in BOOLEAN
      BY <1>2 DEF BookInv, Papers, PaperOK
    <2> QED BY <1>0, <2>1
  <1>7. Core([book EXCEPT !.balance = @ + (w.forwarded - view[k].forwarded)], desk,
             [view EXCEPT ![k] = w])
    BY <1>0, <1>5, <1>6, PlanHolds
  <1>8. book' = [book EXCEPT !.balance = @ + (w.forwarded - view[k].forwarded)]
        /\ view' = [view EXCEPT ![k] = w]
    <2>1. view' = [view EXCEPT ![k] = w]
      BY <1>1 DEF w, PlanShows
    <2>2. book' = [book EXCEPT !.balance = @ + (forwarded - view[k].forwarded)]
      BY <1>1 DEF PlanShows
    <2>3. w.forwarded = forwarded
      BY <1>3
    <2> QED BY <2>1, <2>2, <2>3
  <1>9. view' = [j \in Plans |-> view'[j]]
    <2> DEFINE new == view'
    <2>1. new = [view EXCEPT ![k] = w] /\ view = [j \in Plans |-> view[j]]
      BY <1>0, <1>8
    <2> HIDE DEF new
    <2>2. new = [j \in Plans |-> IF j = k THEN w ELSE view[j]]
      BY <2>1
    <2>3. new = [j \in Plans |-> new[j]]
      BY <2>2
    <2> QED BY <2>3 DEF new
  <1>10. Core(book', desk', view')
    BY <1>7, <1>8, <1>u
  <1> QED BY <1>9, <1>10, <1>u DEF PoolInv

LEMMA MarkEpochStep ==
    ASSUME PoolInv, NEW limit \in MarkLimits, MarkEpoch(limit)
    PROVE  PoolInv'
  <1>1. Core(book, desk, view) /\ limit \in Nat
    BY InputsAreNat DEF PoolInv
  <1>2. Core(MarkedUpTo(book, limit, view), desk, view)
    BY <1>1, MarkHolds
  <1>3. Core(book', desk', view) /\ UNCHANGED <<venue, positions, view, now>>
    BY <1>2 DEF MarkEpoch
  <1> QED BY <1>3, BooksStep

LEMMA SyncedHolds ==
    ASSUME PoolInv
    PROVE  Core(Synced, desk, view) /\ Synced.epoch = book.epoch
  <1>0. Core(book, desk, view)
    BY DEF PoolInv
  <1>1. CASE venue = NoVenue
    BY <1>0, <1>1 DEF Synced
  <1>2. CASE venue # NoVenue
    <2> DEFINE value == RedeemableValue(positions[venue])
    <2>1. PositionOK(positions[venue])
      BY <1>2 DEF PoolInv
    <2>2. value \in 0 .. positions[venue].assets
      BY <2>1, RedeemableIsThere
    <2>3. value \in Nat
      BY <2>2
    <2>4. Synced = VenueSynced(book, value)
      BY <1>2 DEF Synced
    <2> HIDE DEF value
    <2>5. Core(VenueSynced(book, value), desk, view)
          /\ VenueSynced(book, value).epoch = book.epoch
      BY <1>0, <2>3, VenueHolds
    <2> QED BY <2>4, <2>5
  <1> QED BY <1>1, <1>2

LEMMA CloseStep ==
    ASSUME PoolInv, CloseEpoch
    PROVE  PoolInv'
  <1>1. Core(Synced, desk, view) /\ Synced.epoch = book.epoch
    BY SyncedHolds
  <1>2. /\ book.epoch < MaxEpoch /\ CanCloseEpoch(book, desk, now)
        /\ book' = ClosedEpoch(Synced, desk, now).book
        /\ desk' = ClosedEpoch(Synced, desk, now).desk
        /\ UNCHANGED <<venue, positions, view, now>>
    BY DEF CloseEpoch
  <1>3. book.epoch + 1 \in Epochs /\ now \in Nat
    <2>1. book.epoch \in Epochs /\ now \in Nat
      BY DEF PoolInv, Core, BookInv, Funds
    <2> QED BY <1>2, <2>1, PoolParamsAssumption DEF Epochs
  <1>4. now >= desk.epochStartedAt + EpochLength
    BY <1>2 DEF CanCloseEpoch
  <1> DEFINE s == Synced
  <1>5. Core(s, desk, view) /\ s.epoch + 1 \in Epochs
    BY <1>1, <1>3
  <1>6. book' = ClosedEpoch(s, desk, now).book /\ desk' = ClosedEpoch(s, desk, now).desk
    BY <1>2
  <1> HIDE DEF s
  <1>7. Core(ClosedEpoch(s, desk, now).book, ClosedEpoch(s, desk, now).desk, view)
    BY <1>3, <1>4, <1>5, CloseHolds
  <1>8. Core(book', desk', view)
    BY <1>6, <1>7
  <1> QED BY <1>2, <1>8, BooksStep

LEMMA SetVenueStep ==
    ASSUME PoolInv, NEW x \in Venues \cup {NoVenue}, SetVenue(x)
    PROVE  PoolInv'
  BY DEF PoolInv, SetVenue

\* What is deployed is in the cash.
LEMMA DeployableIsThere ==
    ASSUME NEW b, NEW d, NEW views, Core(b, d, views)
    PROVE  DeployableBuffer(b, d) \in Nat /\ DeployableBuffer(b, d) <= b.bookedCash
  <1> DEFINE all == TotalAssets(b)
             floor == (all * BufferFloorBps) \div Bps
             kept == floor + d.pendingRedemptionAssets
  <1>1. BookInv(b) /\ d.pendingRedemptionAssets \in Nat
    BY DEF Core, DeskInv, RedemptionsOK
  <1>2. b.bookedCash \in Nat /\ all \in Nat
    BY <1>1 DEF BookInv, Claimants, Funds, TotalAssets
  <1>3. floor \in Nat
    <2> HIDE DEF all
    <2>1. BufferFloorBps \in Nat /\ Bps \in Nat /\ Bps > 0
      BY PoolParamsAssumption, TrancheParamsAssumption
    <2>2. all * BufferFloorBps \in Nat
      BY <1>2, <2>1, Z3
    <2> QED BY <2>1, <2>2, Quotient
  <1>4. kept \in Nat
    <2> HIDE DEF floor
    <2> QED BY <1>1, <1>3
  <1>5. DeployableBuffer(b, d) = Less(b.bookedCash, kept)
    BY DEF DeployableBuffer
  <1> HIDE DEF kept
  <1> QED BY <1>2, <1>4, <1>5 DEF Less

LEMMA DeployStep ==
    ASSUME PoolInv, NEW requested \in BufferAmounts, DeployBuffer(requested)
    PROVE  PoolInv'
  <1> DEFINE amount == Lesser(requested, DeployableBuffer(book, desk))
  <1>1. /\ venue # NoVenue
        /\ book' = BufferDeployed(book, amount)
        /\ positions' = [positions EXCEPT ![venue] = VenueDeposit(positions[venue], amount)]
        /\ UNCHANGED <<desk, venue, view, now>>
    BY DEF DeployBuffer
  <1>2. Core(book, desk, view) /\ venue \in Venues /\ PositionOK(positions[venue])
    BY <1>1 DEF PoolInv
  <1>3. amount \in Nat /\ amount <= book.bookedCash
    <2>1. requested \in Nat
      BY InputsAreNat
    <2>2. DeployableBuffer(book, desk) \in Nat
          /\ DeployableBuffer(book, desk) <= book.bookedCash
      BY <1>2, DeployableIsThere
    <2>3. book.bookedCash \in Nat
      BY <1>2 DEF Core, BookInv, Funds
    <2> QED BY <2>1, <2>2, <2>3 DEF Lesser
  <1> HIDE DEF amount
  <1>4. Core(book', desk', view')
    <2>1. Core(BufferDeployed(book, amount), desk, view)
      BY <1>2, <1>3, DeployHolds
    <2> QED BY <1>1, <2>1
  <1> DEFINE p == VenueDeposit(positions[venue], amount)
  <1>5. PositionOK(p)
    BY <1>2, <1>3, PositionDeposits
  <1>6. positions' = [positions EXCEPT ![venue] = p]
    BY <1>1
  <1> HIDE DEF p
  <1>7. /\ positions' = [y \in Venues |-> positions'[y]]
        /\ \A y \in Venues : PositionOK(positions'[y])
    BY <1>2, <1>5, <1>6, VenuesStep
  <1> QED BY <1>1, <1>4, <1>7 DEF PoolInv

LEMMA RecallStep ==
    ASSUME PoolInv, NEW requested \in BufferAmounts, RecallBuffer(requested)
    PROVE  PoolInv'
  <1> DEFINE got == VenueTake(positions[venue], requested)
  <1>1. /\ venue # NoVenue
        /\ book' = BufferRecalled(book, got)
        /\ positions' = [positions EXCEPT ![venue] = VenueWithdraw(positions[venue], got)]
        /\ UNCHANGED <<desk, venue, view, now>>
    BY DEF RecallBuffer
  <1>2. Core(book, desk, view) /\ venue \in Venues /\ PositionOK(positions[venue])
    BY <1>1 DEF PoolInv
  <1>3. got \in 0 .. positions[venue].assets /\ got \in Nat
    <2>1. requested \in Nat
      BY InputsAreNat
    <2>2. got \in 0 .. positions[venue].assets
      BY <1>2, <2>1, VenueTakes
    <2> QED BY <2>2
  <1> HIDE DEF got
  <1>4. Core(book', desk', view')
    <2>1. Core(BufferRecalled(book, got), desk, view)
      BY <1>2, <1>3, RecallHolds
    <2> QED BY <1>1, <2>1
  <1> DEFINE p == VenueWithdraw(positions[venue], got)
  <1>5. PositionOK(p)
    BY <1>2, <1>3, PositionWithdraws
  <1>6. positions' = [positions EXCEPT ![venue] = p]
    BY <1>1
  <1> HIDE DEF p
  <1>7. /\ positions' = [y \in Venues |-> positions'[y]]
        /\ \A y \in Venues : PositionOK(positions'[y])
    BY <1>2, <1>5, <1>6, VenuesStep
  <1> QED BY <1>1, <1>4, <1>7 DEF PoolInv

LEMMA SyncStep ==
    ASSUME PoolInv, SyncVenue
    PROVE  PoolInv'
  <1>1. Core(Synced, desk, view)
    BY SyncedHolds
  <1>2. book' = Synced /\ UNCHANGED <<desk, venue, positions, view, now>>
    BY DEF SyncVenue
  <1>3. Core(book', desk', view)
    BY <1>1, <1>2
  <1> QED BY <1>2, <1>3, BooksStep

LEMMA YieldStep ==
    ASSUME PoolInv, NEW x \in Venues, NEW amount \in YieldAmounts, PayYield(x, amount)
    PROVE  PoolInv'
  <1> DEFINE p == [positions[x] EXCEPT !.assets = @ + amount]
  <1>1. /\ positions' = [positions EXCEPT ![x] = p]
        /\ UNCHANGED <<book, desk, venue, view, now>>
    BY DEF PayYield
  <1>2. PositionOK(p)
    <2> DEFINE q == positions[x]
    <2>1. PositionOK(q) /\ amount \in Nat
      BY InputsAreNat DEF PoolInv
    <2>2. p = [q EXCEPT !.assets = q.assets + amount]
      OBVIOUS
    <2> HIDE DEF p, q
    <2> QED BY <2>1, <2>2 DEF PositionOK
  <1> HIDE DEF p
  <1>3. /\ positions' = [y \in Venues |-> positions'[y]]
        /\ \A y \in Venues : PositionOK(positions'[y])
    BY <1>1, <1>2, VenuesStep
  <1> QED BY <1>1, <1>3 DEF PoolInv

LEMMA PoolSteps == PoolInv /\ [Next]_vars => PoolInv'
  <1> SUFFICES ASSUME PoolInv, [Next]_vars PROVE PoolInv'
    OBVIOUS
  <1>1. ASSUME NEW t \in Tranche, NEW amount \in SeedAmounts, Seed(t, amount)
        PROVE  PoolInv'
    BY <1>1, SeedStep
  <1>2. ASSUME NEW amount \in ReserveAmounts, FundReserve(amount)
        PROVE  PoolInv'
    BY <1>2, FundReserveStep
  <1>3. CASE Lend
    BY <1>3, LenderSteps DEF Lend
  <1>4. CASE Borrow
    BY <1>4, LoanSteps, PlanStep DEF Borrow
  <1>5. ASSUME NEW limit \in MarkLimits, MarkEpoch(limit)
        PROVE  PoolInv'
    BY <1>5, MarkEpochStep
  <1>6. CASE CloseEpoch
    BY <1>6, CloseStep
  <1>7. ASSUME NEW x \in Venues \cup {NoVenue}, SetVenue(x)
        PROVE  PoolInv'
    BY <1>7, SetVenueStep
  <1>8. ASSUME NEW amount \in BufferAmounts, DeployBuffer(amount) \/ RecallBuffer(amount)
        PROVE  PoolInv'
    BY <1>8, DeployStep, RecallStep
  <1>9. CASE SyncVenue
    BY <1>9, SyncStep
  <1>10. ASSUME NEW x \in Venues, NEW amount \in YieldAmounts, PayYield(x, amount)
         PROVE  PoolInv'
    BY <1>10, YieldStep
  <1>11. CASE Tick
    BY <1>11 DEF Tick, PoolInv
  <1>12. CASE UNCHANGED vars
    BY <1>12 DEF vars, PoolInv
  <1> QED BY <1>1, <1>2, <1>3, <1>4, <1>5, <1>6, <1>7, <1>8, <1>9, <1>10, <1>11, <1>12 DEF Next

\* The book and the desk never part, whatever the owner, the lenders, the
\* plans, the venue and the cranks do and in whatever order.
THEOREM PoolHolds == Spec => []PoolInv
  <1>1. Init => PoolInv
    BY PoolStarts
  <1>2. PoolInv /\ [Next]_vars => PoolInv'
    BY PoolSteps
  <1> QED BY <1>1, <1>2, PTL DEF Spec

---------------------------------------------------------------------------
(* What the invariant promises. *)

LEMMA UnitsAreBooked ==
    ASSUME PoolInv
    PROVE  /\ EveryUnitIsBooked
           /\ book.balance >= book.bookedCash + desk.pendingDepositAssets
                                + desk.pendingRedemptionAssets
  <1> DEFINE f == Unrecognised(book, view)
             s == SumOver(f, Plans)
  <1>1. /\ BookInv(book) /\ Told(book, view) /\ DeskInv(desk, book.epoch)
        /\ Lenders(book, view) = desk.pendingDepositAssets + desk.pendingRedemptionAssets
    BY DEF PoolInv, Core
  <1>2. /\ book.balance \in Int /\ book.bookedCash \in Nat
        /\ desk.pendingDepositAssets \in Nat /\ desk.pendingRedemptionAssets \in Nat
    <2>1. "Senior" \in Tranche
      BY DEF Tranche
    <2> QED BY <1>1, <2>1, DeskIsSound DEF BookInv, Funds, DeskFacts
  <1>3. s \in Nat
    <2>1. \A k \in Plans : f[k] \in Nat
      BY <1>1 DEF Unrecognised, Told, Tells, BookInv, Papers, PaperOK
    <2> HIDE DEF f
    <2> QED BY <2>1, PoolPartiesAssumption, SumIsNat
  <1>4. Lenders(book, view) = book.balance - book.bookedCash - s
    BY DEF Lenders
  <1>5. f = [k \in Plans |-> Unbooked(k)]
    BY DEF Unrecognised, Unbooked
  <1>6. SumOver([k \in Plans |-> Unbooked(k)], Plans) = s
    BY <1>5
  <1> HIDE DEF f, s
  <1>7. /\ book.balance = book.bookedCash + desk.pendingDepositAssets
                            + desk.pendingRedemptionAssets + s
        /\ book.balance >= book.bookedCash + desk.pendingDepositAssets
                             + desk.pendingRedemptionAssets
    BY <1>1, <1>2, <1>3, <1>4
  <1> QED BY <1>6, <1>7 DEF EveryUnitIsBooked

LEMMA SharesAreThere ==
    ASSUME PoolInv
    PROVE  SharesAreCovered
  <1> SUFFICES ASSUME NEW t \in Tranche
               PROVE  LET waiting == {h \in Holders : CanClaimShares(book, desk, t, h)}
                      IN  desk.poolShares[t] >=
                            desk.seedShares[t]
                              + SumOver([h \in Holders |-> SharesOwed(desk, t, h)], waiting)
                              + (desk.queueTail[t] - desk.queueFilled[t])
    BY DEF SharesAreCovered
  <1> DEFINE epoch == book.epoch
             tickets == desk.depositTickets[t]
             asked == desk.epochDepositAssets[t]
             minted == desk.epochDepositShares[t]
             waiting == {h \in Holders : CanClaimShares(book, desk, t, h)}
             f == [h \in Holders |-> SharesOwed(desk, t, h)]
             g == [h \in Holders |-> IF h \in waiting THEN f[h] ELSE 0]
  <1>1. SideOK(desk, t, epoch)
    BY DeskIsSound DEF PoolInv, Core, DeskFacts
  <1>2. TicketsOK(tickets, asked, epoch) /\ PricedOK(minted)
    BY <1>1 DEF SideOK
  <1>3. ASSUME NEW h \in Holders
        PROVE  /\ f[h] = OwedOn(tickets[h], asked, minted) /\ f[h] \in Int
               /\ g[h] = OwedTo(tickets[h], asked, minted, epoch)
    <2> DEFINE k == tickets[h]
               o == OwedOn(k, asked, minted)
    <2>1. f[h] = o
      BY DEF SharesOwed, OwedOn
    <2>2. /\ k.assets \in Nat /\ k.epoch \in Nat /\ k.epoch \in Epochs
          /\ asked[k.epoch] \in Nat /\ minted[k.epoch] \in Nat
      <3>1. IsDeposit(k, epoch) /\ epoch \in Epochs
        BY <1>2 DEF TicketsOK
      <3>2. k.epoch \in Epochs
        BY <3>1, EpochsAre
      <3> QED BY <1>2, <3>1, <3>2 DEF TicketsOK, PricedOK, IsDeposit
    <2>3. o \in Nat
      <3> HIDE DEF k, asked, minted
      <3> QED BY <2>2, OwedOnIsNat
    <2>4. h \in waiting <=> k.assets > 0 /\ k.epoch < epoch
      BY DEF CanClaimShares
    <2>5. k.assets = 0 => o = 0
      <3> HIDE DEF k, asked, minted
      <3> QED BY <2>2, NothingOwed
    <2>6. OwedTo(k, asked, minted, epoch) = IF k.epoch < epoch THEN o ELSE 0
      BY DEF OwedTo
    <2>7. g[h] = IF h \in waiting THEN f[h] ELSE 0
      OBVIOUS
    <2> HIDE DEF f, g, waiting, o
    <2>8. g[h] = OwedTo(k, asked, minted, epoch)
      <3> HIDE DEF k, asked, minted
      <3> QED BY <2>1, <2>2, <2>3, <2>4, <2>5, <2>6, <2>7
    <2> QED BY <2>1, <2>3, <2>8 DEF o
  <1>4. g = OwedNow(tickets, asked, minted, epoch)
    <2> DEFINE o == OwedNow(tickets, asked, minted, epoch)
    <2>1. o = [h \in Holders |-> OwedTo(tickets[h], asked, minted, epoch)]
      BY DEF OwedNow
    <2>2. g = [h \in Holders |-> g[h]]
      <3>1. g = [h \in Holders |-> IF h \in waiting THEN f[h] ELSE 0]
        OBVIOUS
      <3> HIDE DEF g, f, waiting
      <3> QED BY <3>1
    <2>3. \A h \in Holders : g[h] = OwedTo(tickets[h], asked, minted, epoch)
      BY <1>3
    <2> HIDE DEF g, f, waiting, tickets, asked, minted
    <2>4. g = [h \in Holders |-> OwedTo(tickets[h], asked, minted, epoch)]
      BY <2>2, <2>3
    <2> QED BY <2>1, <2>4
  <1>5. SumOver(f, waiting) = SumOver(g, Holders)
    <2>1. waiting \in SUBSET Holders /\ IsFiniteSet(Holders)
      BY LendersAssumption
    <2>2. \A h \in Holders : f[h] \in Int
      BY <1>3
    <2> HIDE DEF waiting, f
    <2> QED BY <2>1, <2>2, SumOfPart
  <1>6. SumOver(f, waiting) = DueOf(desk, t, epoch)
    <2> HIDE DEF f, g, waiting
    <2> QED BY <1>4, <1>5 DEF DueOf, SharesDue
  <1>7. /\ desk.seedShares[t] + DueOf(desk, t, epoch)
             + (desk.queueTail[t] - desk.queueFilled[t]) <= desk.poolShares[t]
        /\ desk.seedShares[t] \in Nat /\ desk.poolShares[t] \in Nat
        /\ desk.queueTail[t] \in Nat /\ desk.queueFilled[t] \in Nat
    BY <1>1 DEF SideOK, BackedOK, QueueOK
  <1>8. DueOf(desk, t, epoch) \in Nat
    BY <1>2, SharesDueIsNat DEF DueOf
  <1> DEFINE due == SumOver(f, waiting)
  <1>9. due = DueOf(desk, t, epoch)
    BY <1>6
  <1> HIDE DEF due
  <1>10. desk.poolShares[t] >= desk.seedShares[t] + due
                                 + (desk.queueTail[t] - desk.queueFilled[t])
    BY <1>7, <1>8, <1>9
  <1> QED BY <1>10 DEF due

LEMMA ClaimsAreSetAside ==
    ASSUME PoolInv
    PROVE  RedemptionsAreCovered
  <1> DEFINE cs == ClaimablesOf(desk.redeemTickets["Senior"], desk.fills["Senior"])
             cj == ClaimablesOf(desk.redeemTickets["Junior"], desk.fills["Junior"])
             c == [h \in Holders |-> Claimable("Senior", h) + Claimable("Junior", h)]
  <1>1. DeskInv(desk, book.epoch)
    BY DEF PoolInv, Core
  <1>2. ASSUME NEW t \in Tranche
        PROVE  LET redeems == desk.redeemTickets[t]
                   fills == desk.fills[t]
               IN  /\ \A h \in Holders : /\ Claimable(t, h) = ClaimableBy(redeems, fills, h)
                                         /\ ClaimableBy(redeems, fills, h) \in Nat
                   /\ SumOver(ClaimablesOf(redeems, fills), Holders) <= Reserved(desk, t)
    <2> DEFINE redeems == desk.redeemTickets[t]
               fills == desk.fills[t]
    <2>1. QueueOK(redeems, desk.queueTail[t], desk.queueFilled[t], fills)
      BY <1>1, DeskIsSound DEF DeskFacts, SideOK
    <2>2. /\ \A h \in Holders : ClaimableBy(redeems, fills, h) \in Nat
          /\ SumOver(ClaimablesOf(redeems, fills), Holders) <= SetAside(fills, Waiting(redeems))
      <3> HIDE DEF redeems, fills
      <3> QED BY <2>1, QueueIsCovered
    <2>3. ASSUME NEW h \in Holders PROVE Claimable(t, h) = ClaimableBy(redeems, fills, h)
      <3> DEFINE tickets == redeems[h]
      <3>1. tickets \in Seq(RedeemTicket)
        BY <2>1 DEF QueueOK
      <3>2. DOMAIN tickets = 1 .. Len(tickets)
        <4> HIDE DEF tickets
        <4> QED BY <3>1
      <3>3. Claimable(t, h)
              = SumOver([i \in DOMAIN tickets |->
                           Claim(fills, tickets[i], Len(fills) + 1).assets], DOMAIN tickets)
        BY DEF Claimable
      <3>4. ClaimableBy(redeems, fills, h)
              = SumOver([i \in 1 .. Len(tickets) |->
                           Claim(fills, tickets[i], Len(fills) + 1).assets], 1 .. Len(tickets))
        BY DEF ClaimableBy, ClaimsOf
      <3> HIDE DEF tickets, fills
      <3> QED BY <3>2, <3>3, <3>4
    <2> QED BY <2>2, <2>3 DEF Reserved
  <1>3. "Senior" \in Tranche /\ "Junior" \in Tranche
    BY DEF Tranche
  <1>4. \A h \in Holders :
          /\ cs[h] = Claimable("Senior", h) /\ cj[h] = Claimable("Junior", h)
          /\ cs[h] \in Int /\ cj[h] \in Int
    <2>1. \A h \in Holders :
            /\ Claimable("Senior", h)
                 = ClaimableBy(desk.redeemTickets["Senior"], desk.fills["Senior"], h)
            /\ ClaimableBy(desk.redeemTickets["Senior"], desk.fills["Senior"], h) \in Nat
      BY <1>2, <1>3
    <2>2. \A h \in Holders :
            /\ Claimable("Junior", h)
                 = ClaimableBy(desk.redeemTickets["Junior"], desk.fills["Junior"], h)
            /\ ClaimableBy(desk.redeemTickets["Junior"], desk.fills["Junior"], h) \in Nat
      BY <1>2, <1>3
    <2> QED BY <2>1, <2>2 DEF ClaimablesOf
  <1>5. SumOver(cs, Holders) <= Reserved(desk, "Senior")
    BY <1>2, <1>3
  <1>6. SumOver(cj, Holders) <= Reserved(desk, "Junior")
    BY <1>2, <1>3
  <1>7. \A h \in Holders : c[h] = Claimable("Senior", h) + Claimable("Junior", h)
    OBVIOUS
  <1> HIDE DEF cs, cj, c
  <1>8. \A h \in Holders : cs[h] \in Int /\ cj[h] \in Int /\ c[h] = cs[h] + cj[h]
    BY <1>4, <1>7
  <1>9. SumOver(c, Holders) = SumOver(cs, Holders) + SumOver(cj, Holders)
    BY <1>8, LendersAssumption, SumAdds
  <1>10. SumOver(cs, Holders) \in Int /\ SumOver(cj, Holders) \in Int
    BY <1>4, LendersAssumption, SumIsInt
  <1>11. /\ Reserved(desk, "Senior") + Reserved(desk, "Junior") <= desk.pendingRedemptionAssets
         /\ desk.pendingRedemptionAssets \in Nat
    BY <1>1 DEF DeskInv, RedemptionsOK
  <1>12. Reserved(desk, "Senior") \in Nat /\ Reserved(desk, "Junior") \in Nat
    BY <1>1, <1>3, DeskIsSound DEF DeskFacts
  <1>13. SumOver(c, Holders) <= desk.pendingRedemptionAssets
    BY <1>5, <1>6, <1>9, <1>10, <1>11, <1>12
  <1> QED BY <1>13 DEF RedemptionsAreCovered, c

\* Every lender, in, on the way in or on the way out, is covered: each unit of
\* the token balance is somebody's on the books, the pool's own tranche shares
\* cover the seed, the shares priced and unclaimed and the shares queued, and
\* what the queues can claim is set aside.
THEOREM LendersAreAlwaysCovered == Spec => []LendersAreCovered
  <1>1. PoolInv => LendersAreCovered
    BY UnitsAreBooked, SharesAreThere, ClaimsAreSetAside DEF LendersAreCovered
  <1> QED BY <1>1, PoolHolds, PTL

CashIsThere ==
    book.balance >= book.bookedCash + desk.pendingDepositAssets
                      + desk.pendingRedemptionAssets

\* The token balance never falls below the cash the pool believes it has and
\* the money it keeps for lenders on their way in and out: no payment of the
\* pool can fail for want of funds.
THEOREM CashIsAlwaysThere == Spec => []CashIsThere
  <1>1. PoolInv => CashIsThere
    BY UnitsAreBooked DEF CashIsThere
  <1> QED BY <1>1, PoolHolds, PTL

LEMMA TotalsAreSums ==
    ASSUME PoolInv
    PROVE  TotalsMatchThePaper
  <1> DEFINE b == book
             carrying == [k \in Plans |-> book.books[k].carrying]
             deferred == [k \in Plans |-> book.books[k].deferredIncome]
             held == [k \in Plans |-> book.provisions[k].amount]
  <1>1. Papers(b) /\ Sums(b) /\ Provided(b) /\ OnlyOpenHeld(b)
    BY DEF PoolInv, Core, BookInv
  <1>2. \A k \in Plans :
          /\ carrying[k] = b.books[k].carrying /\ deferred[k] = b.books[k].deferredIncome
          /\ held[k] = b.provisions[k].amount
          /\ carrying[k] \in Int /\ deferred[k] \in Int /\ held[k] \in Int
          /\ ~b.books[k].open => carrying[k] = 0 /\ deferred[k] = 0 /\ held[k] = 0
    BY <1>1 DEF Papers, PaperOK, Provided, IsHeld, OnlyOpenHeld
  <1>3. OpenPaper \in SUBSET Plans /\ \A k \in Plans : k \in OpenPaper <=> b.books[k].open
    BY DEF OpenPaper
  <1>4. ASSUME NEW f, \A k \in Plans : f[k] \in Int, NEW P \in SUBSET Plans, NEW g,
               g = [k \in Plans |-> IF k \in P THEN f[k] ELSE 0]
        PROVE  SumOver(f, P) = SumOver(g, Plans)
    BY <1>4, PoolPartiesAssumption, SumOfPart
  <1>5. b.bookedReceivables = Carrying(OpenPaper)
    <2>1. CarryingIn(b) = [k \in Plans |-> IF k \in OpenPaper THEN carrying[k] ELSE 0]
      <3> HIDE DEF carrying, deferred, held
      <3> QED BY <1>2, <1>3 DEF CarryingIn
    <2> DEFINE g == CarryingIn(b)
    <2>2. SumOver(carrying, OpenPaper) = SumOver(g, Plans)
      <3> HIDE DEF carrying, g
      <3> QED BY <1>2, <1>3, <1>4, <2>1 DEF g
    <2>3. Carrying(OpenPaper) = SumOver(carrying, OpenPaper)
      BY DEF Carrying
    <2> QED BY <1>1, <2>2, <2>3 DEF Sums
  <1>6. b.deferredIncome = SumOver(deferred, OpenPaper)
    <2>1. DeferredIn(b) = [k \in Plans |-> IF k \in OpenPaper THEN deferred[k] ELSE 0]
      <3> HIDE DEF carrying, deferred, held
      <3> QED BY <1>2, <1>3 DEF DeferredIn
    <2> DEFINE g == DeferredIn(b)
    <2>2. SumOver(deferred, OpenPaper) = SumOver(g, Plans)
      <3> HIDE DEF deferred, g
      <3> QED BY <1>2, <1>3, <1>4, <2>1 DEF g
    <2> QED BY <1>1, <2>2 DEF Sums
  <1>7. ASSUME NEW m \in Merchants
        PROVE  b.merchantExposure[m] = Carrying({k \in OpenPaper : Terms[k].merchant = m})
    <2> DEFINE P == {k \in OpenPaper : Terms[k].merchant = m}
               g == WithMerchant(b, m)
    <2>1. P \in SUBSET Plans /\ \A k \in Plans : k \in P <=> k \in OpenPaper /\ Terms[k].merchant = m
      BY <1>3
    <2>2. WithMerchant(b, m) = [k \in Plans |-> IF k \in P THEN carrying[k] ELSE 0]
      <3> HIDE DEF P, carrying, deferred, held
      <3> QED BY <1>2, <1>3, <2>1 DEF WithMerchant
    <2>3. SumOver(carrying, P) = SumOver(g, Plans)
      <3> HIDE DEF carrying, g, P
      <3> QED BY <1>2, <1>4, <2>1, <2>2 DEF g
    <2>4. Carrying(P) = SumOver(carrying, P)
      BY DEF Carrying
    <2>5. b.merchantExposure[m] = SumOver(WithMerchant(b, m), Plans)
      BY <1>1 DEF Sums
    <2> HIDE DEF carrying
    <2> QED BY <2>3, <2>4, <2>5
  <1>8. ASSUME NEW c \in Corridors
        PROVE  b.corridorExposure[c] = Carrying({k \in OpenPaper : Terms[k].corridor = c})
    <2> DEFINE P == {k \in OpenPaper : Terms[k].corridor = c}
               g == InCorridor(b, c)
    <2>1. P \in SUBSET Plans /\ \A k \in Plans : k \in P <=> k \in OpenPaper /\ Terms[k].corridor = c
      BY <1>3
    <2>2. InCorridor(b, c) = [k \in Plans |-> IF k \in P THEN carrying[k] ELSE 0]
      <3> HIDE DEF P, carrying, deferred, held
      <3> QED BY <1>2, <1>3, <2>1 DEF InCorridor
    <2>3. SumOver(carrying, P) = SumOver(g, Plans)
      <3> HIDE DEF carrying, g, P
      <3> QED BY <1>2, <1>4, <2>1, <2>2 DEF g
    <2>4. Carrying(P) = SumOver(carrying, P)
      BY DEF Carrying
    <2>5. b.corridorExposure[c] = SumOver(InCorridor(b, c), Plans)
      BY <1>1 DEF Sums
    <2> HIDE DEF carrying
    <2> QED BY <2>3, <2>4, <2>5
  <1>9. b.totalProvisioned = SumOver(held, OpenPaper)
    <2>1. HeldIn(b) = [k \in Plans |-> IF k \in OpenPaper THEN held[k] ELSE 0]
      <3> HIDE DEF carrying, deferred, held
      <3> QED BY <1>2, <1>3 DEF HeldIn
    <2> DEFINE g == HeldIn(b)
    <2>2. SumOver(held, OpenPaper) = SumOver(g, Plans)
      <3> HIDE DEF held, g
      <3> QED BY <1>2, <1>3, <1>4, <2>1 DEF g
    <2> QED BY <1>1, <2>2 DEF Provided
  <1>10. ASSUME NEW e \in Epochs
         PROVE  b.provisionedAt[e] = SumOver(held, {k \in OpenPaper : b.provisions[k].epoch = e})
    <2> DEFINE P == {k \in OpenPaper : b.provisions[k].epoch = e}
               g == HeldAt(b, e)
    <2>1. P \in SUBSET Plans /\ \A k \in Plans : k \in P <=> k \in OpenPaper /\ b.provisions[k].epoch = e
      BY <1>3
    <2>2. HeldAt(b, e) = [k \in Plans |-> IF k \in P THEN held[k] ELSE 0]
      <3> HIDE DEF P, carrying, deferred, held
      <3> QED BY <1>2, <1>3, <2>1 DEF HeldAt
    <2>3. SumOver(held, P) = SumOver(g, Plans)
      <3> HIDE DEF held, g, P
      <3> QED BY <1>2, <1>4, <2>1, <2>2 DEF g
    <2>4. b.provisionedAt[e] = SumOver(HeldAt(b, e), Plans)
      BY <1>1 DEF Provided
    <2> HIDE DEF held
    <2> QED BY <2>3, <2>4
  <1> QED BY <1>5, <1>6, <1>7, <1>8, <1>9, <1>10 DEF TotalsMatchThePaper

LEMMA ListIsExact ==
    ASSUME PoolInv
    PROVE  OpenListIsExact
  <1> DEFINE list == book.openPlanList
             slot == book.openPlanSlot
  <1>1. Counted(book) /\ Papers(book)
    BY DEF PoolInv, Core, BookInv
  <1>2. OpenPaper = OpenOf(book)
    BY DEF OpenPaper, OpenOf
  <1>3. /\ list \in Seq(Plans)
        /\ \A i \in 1 .. Len(list) : list[i] \in OpenPaper
        /\ \A k \in OpenPaper : slot[k] + 1 \in 1 .. Len(list) /\ list[slot[k] + 1] = k
    BY <1>1, <1>2 DEF Counted, Slotted
  <1>4. DOMAIN list = 1 .. Len(list)
    BY <1>3
  <1> HIDE DEF list, slot
  <1>5. {list[i] : i \in DOMAIN list} = OpenPaper
    <2>1. \A k \in OpenPaper : \E i \in DOMAIN list : list[i] = k
      BY <1>3, <1>4
    <2>2. \A i \in DOMAIN list : list[i] \in OpenPaper
      BY <1>3, <1>4
    <2> QED BY <2>1, <2>2
  <1>6. /\ {k \in OpenPaper : book.books[k].markedEpoch = book.epoch} = MarkedOf(book)
        /\ {k \in OpenPaper : book.books[k].unmarked} = UnmarkedOf(book)
    BY DEF OpenPaper, MarkedOf, UnmarkedOf
  <1>7. /\ book.openPlans = Len(list)
        /\ book.markedThisEpoch
             = Cardinality({k \in OpenPaper : book.books[k].markedEpoch = book.epoch})
        /\ book.unmarkedDelinquencies
             = Cardinality({k \in OpenPaper : book.books[k].unmarked})
    BY <1>1, <1>6 DEF Counted, list
  <1> QED BY <1>3, <1>5, <1>7 DEF OpenListIsExact, list, slot

\* Every total the pool quotes is the sum of its open plans, and the list it
\* cranks and the counters it closes an epoch on are exact, although none of
\* them is ever recomputed: two of the three parts of TheBookIsExact.
THEOREM BookStaysExact == Spec => [](TotalsMatchThePaper /\ OpenListIsExact)
  <1>1. PoolInv => TotalsMatchThePaper /\ OpenListIsExact
    BY TotalsAreSums, ListIsExact
  <1> QED BY <1>1, PoolHolds, PTL

---------------------------------------------------------------------------
(* Who pays for a close. *)

\* Income takes from no tranche.
LEMMA DistributeAdds ==
    ASSUME NEW b, Shaped(b), Claimants(b), Accruals(b), NEW amount \in Nat,
           NEW u \in Tranche
    PROVE  /\ Distribute(b, amount).assets[u] \in Nat
           /\ b.assets[u] <= Distribute(b, amount).assets[u]
  <1> DEFINE gap == Less(ReserveTarget(b), b.reserve)
             toReserve == Lesser(amount, gap)
             toSenior == IF b.assets["Senior"] > 0
                         THEN Lesser(amount - toReserve, b.seniorAccrued) ELSE 0
             residual == amount - toReserve - toSenior
             heir == IF b.assets["Junior"] > 0 THEN "Junior"
                     ELSE IF b.assets["Senior"] > 0 THEN "Senior" ELSE "reserve"
             c == Distribute(b, amount)
  <1>1. c = [b EXCEPT
              !.reserve = @ + toReserve + (IF heir = "reserve" THEN residual ELSE 0),
              !.seniorAccrued = @ - toSenior,
              !.assets = [t \in Tranche |->
                  b.assets[t] + (IF t = "Senior" THEN toSenior ELSE 0)
                              + (IF t = heir THEN residual ELSE 0)]]
    BY DEF Distribute
  <1>2. ReserveTarget(b) \in Int /\ b.reserve \in Nat /\ b.assets[u] \in Nat
    BY PoolParamsAssumption DEF ReserveTarget, TotalAssets, Claimants, Tranche
  <1>3. gap \in Nat
    BY <1>2 DEF Less
  <1> HIDE DEF gap
  <1>4. toReserve \in 0 .. amount
    BY <1>3 DEF Lesser
  <1> HIDE DEF toReserve
  <1>5. toSenior \in 0 .. (amount - toReserve)
    BY <1>4 DEF Lesser, Accruals
  <1> HIDE DEF toSenior
  <1>6. residual \in Nat
    BY <1>4, <1>5
  <1> HIDE DEF residual, heir, c
  <1>7. c.assets = [t \in Tranche |->
                  b.assets[t] + (IF t = "Senior" THEN toSenior ELSE 0)
                              + (IF t = heir THEN residual ELSE 0)]
    BY <1>1 DEF Shaped, BookFields
  <1> DEFINE x == IF u = "Senior" THEN toSenior ELSE 0
             y == IF u = heir THEN residual ELSE 0
  <1>8. x \in Nat /\ y \in Nat
    BY <1>4, <1>5, <1>6
  <1>9. c.assets[u] = b.assets[u] + x + y
    BY <1>7
  <1> HIDE DEF x, y
  <1>10. c.assets[u] \in Nat /\ b.assets[u] <= c.assets[u]
    BY <1>2, <1>8, <1>9
  <1> QED BY <1>10 DEF c

\* More behind the same shares.
LEMMA RicherIsDearer ==
    ASSUME NEW b, NEW c, NEW d, NEW u \in Tranche, HeldOK(d.shares[u]),
           d.poolShares[u] \in Nat, b.assets[u] \in Nat, c.assets[u] \in Nat,
           b.assets[u] <= c.assets[u]
    PROVE  NavPerShare(b, d, u) <= NavPerShare(c, d, u)
  <1> DEFINE n == TrancheShares(d, u) + VirtualShares
             x == b.assets[u] + 1
             y == c.assets[u] + 1
  <1>1. n \in Nat /\ n > 0
    BY TrancheSharesAreNat, TrancheParamsAssumption
  <1>2. x \in Nat /\ y \in Nat /\ x <= y
    OBVIOUS
  <1> HIDE DEF n, x, y
  <1>3. x * n <= y * n
    BY <1>1, <1>2, Z3
  <1>4. (x * Scale) \div n <= (y * Scale) \div n
    BY <1>1, <1>2, <1>3, PriceGrows
  <1> QED BY <1>4 DEF NavPerShare, n, x, y

LEMMA SidesAreHeld ==
    ASSUME NEW d, NEW epoch, DeskInv(d, epoch), NEW u \in Tranche
    PROVE  HeldOK(d.shares[u]) /\ d.poolShares[u] \in Nat
  BY DEF DeskInv, SideOK, BackedOK, Tranche

\* Marking a venue that gained, or kept, its value lowers no price.
LEMMA GainLowersNoPrice ==
    ASSUME NEW b, BookInv(b), NEW d, NEW epoch, DeskInv(d, epoch), NEW value \in Nat,
           value >= b.deployedAssets, NEW u \in Tranche
    PROVE  NavPerShare(b, d, u) <= NavPerShare(VenueSynced(b, value), d, u)
  <1> DEFINE moved == [b EXCEPT !.deployedAssets = value]
             gain == value - b.deployedAssets
             c == VenueSynced(b, value)
  <1>1. Shaped(b) /\ b.bookedCash \in Nat /\ b.balance \in Int /\ b.deployedAssets \in Nat
    BY DEF BookInv, Funds
  <1>2. moved = [b EXCEPT !.bookedCash = b.bookedCash, !.deployedAssets = value,
                          !.balance = b.balance]
    BY <1>1 DEF Shaped, BookFields
  <1>3. c = Distribute(moved, gain) /\ gain \in Nat
    BY <1>1 DEF VenueSynced
  <1>a. moved.assets = b.assets
    BY <1>1 DEF Shaped, BookFields
  <1> HIDE DEF moved, gain
  <1>4. BookInv(moved)
    <2>1. BufferBecomes(b, moved, b.bookedCash, value, b.balance)
      BY <1>2 DEF BufferBecomes
    <2>2. BufferMoved(b, moved, b.bookedCash, value, b.balance)
      BY <1>1, <2>1, BufferMoves
    <2> QED BY <2>2, BookMoves DEF BufferMoved, Moves
  <1>5. Shaped(moved) /\ Claimants(moved) /\ Accruals(moved)
    BY <1>4 DEF BookInv, Funds, Accruals
  <1> HIDE DEF c
  <1>6. c.assets[u] \in Nat /\ moved.assets[u] <= c.assets[u]
    BY <1>3, <1>5, DistributeAdds
  <1>7. b.assets[u] \in Nat /\ b.assets[u] <= c.assets[u]
    BY <1>a, <1>6 DEF BookInv, Claimants, Tranche
  <1>8. HeldOK(d.shares[u]) /\ d.poolShares[u] \in Nat
    BY SidesAreHeld
  <1>9. NavPerShare(b, d, u) <= NavPerShare(c, d, u)
    BY <1>6, <1>7, <1>8, RicherIsDearer
  <1> QED BY <1>9 DEF c

LEMMA SyncedPrice ==
    ASSUME PoolInv, Synced.deployedAssets >= book.deployedAssets, NEW u \in Tranche
    PROVE  NavPerShare(book, desk, u) <= NavPerShare(Synced, desk, u)
  <1>0. BookInv(book) /\ DeskInv(desk, book.epoch)
    BY DEF PoolInv, Core
  <1>1. CASE venue = NoVenue
    <2>1. HeldOK(desk.shares[u]) /\ desk.poolShares[u] \in Nat
      BY <1>0, SidesAreHeld
    <2>2. NavPerShare(book, desk, u) \in Nat
      BY <1>0, <2>1, NavIsNat
    <2>3. Synced = book
      BY <1>1 DEF Synced
    <2> HIDE DEF Synced
    <2>4. NavPerShare(Synced, desk, u) = NavPerShare(book, desk, u)
      BY <2>3
    <2> QED BY <2>2, <2>4
  <1>2. CASE venue # NoVenue
    <2> DEFINE value == RedeemableValue(positions[venue])
    <2>1. PositionOK(positions[venue])
      BY <1>2 DEF PoolInv
    <2>2. value \in 0 .. positions[venue].assets
      BY <2>1, RedeemableIsThere
    <2>3. value \in Nat
      BY <2>2
    <2>4. Synced = VenueSynced(book, value)
      BY <1>2 DEF Synced
    <2> HIDE DEF value
    <2>5. VenueSynced(book, value).deployedAssets = value
      BY <1>0, <2>3, VenueMoves
    <2>6. value >= book.deployedAssets
      BY <2>4, <2>5
    <2>7. NavPerShare(book, desk, u) <= NavPerShare(VenueSynced(book, value), desk, u)
      BY <1>0, <2>3, <2>6, GainLowersNoPrice
    <2> QED BY <2>4, <2>7
  <1> QED BY <1>1, <1>2

LEMMA CloseIsFair ==
    ASSUME PoolInv, CloseEpoch
    PROVE  Fair(Synced, desk, book', desk')
  <1>1. Core(Synced, desk, view) /\ Synced.epoch = book.epoch
    BY SyncedHolds
  <1>2. /\ book.epoch < MaxEpoch /\ CanCloseEpoch(book, desk, now)
        /\ book' = ClosedEpoch(Synced, desk, now).book
        /\ desk' = ClosedEpoch(Synced, desk, now).desk
    BY DEF CloseEpoch
  <1>3. book.epoch + 1 \in Epochs /\ now \in Nat
    <2>1. book.epoch \in Epochs /\ now \in Nat
      BY DEF PoolInv, Core, BookInv, Funds
    <2> QED BY <1>2, <2>1, PoolParamsAssumption DEF Epochs
  <1>4. now >= desk.epochStartedAt + EpochLength
    BY <1>2 DEF CanCloseEpoch
  <1> DEFINE s == Synced
  <1>5. Core(s, desk, view) /\ s.epoch + 1 \in Epochs
    BY <1>1, <1>3
  <1>6. book' = ClosedEpoch(s, desk, now).book /\ desk' = ClosedEpoch(s, desk, now).desk
    BY <1>2
  <1> HIDE DEF s
  <1>7. Fair(s, desk, ClosedEpoch(s, desk, now).book, ClosedEpoch(s, desk, now).desk)
    BY <1>3, <1>4, <1>5, CloseHolds
  <1>8. Fair(s, desk, book', desk')
    BY <1>6, <1>7
  <1> QED BY <1>8 DEF s

LEMMA CloseLowersNoPrice ==
    ASSUME PoolInv, CloseEpoch, Synced.deployedAssets >= book.deployedAssets,
           NEW u \in Tranche
    PROVE  NavPerShare(book', desk', u) >= NavPerShare(book, desk, u)
  <1> DEFINE p == NavPerShare(book, desk, u)
             q == NavPerShare(Synced, desk, u)
             r == NavPerShare(book', desk', u)
  <1>1. p <= q
    BY SyncedPrice
  <1>2. q <= r
    BY CloseIsFair DEF Fair
  <1>3. p \in Nat
    <2>1. BookInv(book) /\ DeskInv(desk, book.epoch)
      BY DEF PoolInv, Core
    <2>2. HeldOK(desk.shares[u]) /\ desk.poolShares[u] \in Nat
      BY <2>1, SidesAreHeld
    <2> QED BY <2>1, <2>2, NavIsNat
  <1>4. q \in Nat
    <2>1. Core(Synced, desk, view)
      BY SyncedHolds
    <2> DEFINE s == Synced
    <2>2. BookInv(s) /\ DeskInv(desk, s.epoch)
      BY <2>1 DEF Core
    <2> HIDE DEF s
    <2>3. HeldOK(desk.shares[u]) /\ desk.poolShares[u] \in Nat
      BY <2>2, SidesAreHeld
    <2>4. NavPerShare(s, desk, u) \in Nat
      BY <2>2, <2>3, NavIsNat
    <2> QED BY <2>4 DEF s
  <1>5. r \in Nat
    <2>1. Core(book', desk', view')
      BY CloseStep DEF PoolInv
    <2> DEFINE c == book'
               e == desk'
    <2>2. BookInv(c) /\ DeskInv(e, c.epoch)
      BY <2>1 DEF Core
    <2> HIDE DEF c, e
    <2>3. HeldOK(e.shares[u]) /\ e.poolShares[u] \in Nat
      BY <2>2, SidesAreHeld
    <2>4. NavPerShare(c, e, u) \in Nat
      BY <2>2, <2>3, NavIsNat
    <2> QED BY <2>4 DEF c, e
  <1> HIDE DEF p, q, r
  <1>6. r >= p
    BY <1>1, <1>2, <1>3, <1>4, <1>5
  <1> QED BY <1>6 DEF p, r

\* Neither the epoch nor how far the queues are paid.
Paused == book'.epoch = book.epoch /\ desk'.queueFilled = desk.queueFilled

LEMMA BookIsShaped ==
    ASSUME PoolInv
    PROVE  DOMAIN book = BookFields /\ "epoch" \in DOMAIN book
  <1>1. Shaped(book)
    BY DEF PoolInv, Core, BookInv
  <1> QED BY <1>1 DEF Shaped, BookFields

LEMMA DeskIsShaped ==
    ASSUME PoolInv
    PROVE  DOMAIN desk = DeskFields /\ "queueFilled" \in DOMAIN desk
  <1>1. DeskShaped(desk)
    BY DEF PoolInv, Core, DeskInv
  <1> QED BY <1>1 DEF DeskShaped, DeskFields, SideFields

LEMMA LendersPause ==
    ASSUME PoolInv, NEW t \in Tranche, NEW h \in Holders,
           \/ \E amount \in DepositAmounts : RequestDeposit(t, h, amount)
           \/ CancelDeposit(t, h)
           \/ ClaimShares(t, h)
           \/ \E amount \in RedeemAmounts : RequestRedeem(t, h, amount)
           \/ \E index \in DOMAIN desk.redeemTickets[t][h], steps \in ClaimSteps :
                ClaimRedemption(t, h, index, steps)
    PROVE  Paused
  <1>0. "epoch" \in DOMAIN book /\ "queueFilled" \in DOMAIN desk
    BY BookIsShaped, DeskIsShaped
  <1>1. ASSUME NEW amount \in DepositAmounts, RequestDeposit(t, h, amount)
        PROVE  Paused
    BY <1>0, <1>1 DEF RequestDeposit, Deposited, Paused
  <1>2. ASSUME CancelDeposit(t, h) PROVE Paused
    BY <1>0, <1>2 DEF CancelDeposit, DepositCancelled, Paused
  <1>3. ASSUME ClaimShares(t, h) PROVE Paused
    BY <1>0, <1>3 DEF ClaimShares, SharesClaimed, Paused
  <1>4. ASSUME NEW amount \in RedeemAmounts, RequestRedeem(t, h, amount)
        PROVE  Paused
    BY <1>0, <1>4 DEF RequestRedeem, RedeemRequested, Paused
  <1>5. ASSUME NEW index \in DOMAIN desk.redeemTickets[t][h], NEW steps \in ClaimSteps,
               ClaimRedemption(t, h, index, steps)
        PROVE  Paused
    BY <1>0, <1>5 DEF ClaimRedemption, RedemptionClaimed, Paused
  <1> QED BY <1>1, <1>2, <1>3, <1>4, <1>5

LEMMA LoansPause ==
    ASSUME PoolInv, NEW k \in Plans, Front(k) \/ Recognise(k) \/ PlanMoves(k)
    PROVE  Paused
  <1>0. BookInv(book) /\ Told(book, view) /\ "epoch" \in DOMAIN book
    BY BookIsShaped DEF PoolInv, Core
  <1>1. ASSUME Front(k) PROVE Paused
    <2>1. Keeps(book, Fronted(book, k), view)
      BY <1>0, <1>1, FrontedKeeps DEF Front
    <2> QED BY <1>1, <2>1 DEF Front, Keeps, Paused
  <1>2. ASSUME Recognise(k) PROVE Paused
    <2>0. book' = Recognised(book, k, view[k]) /\ desk' = desk
      BY <1>2 DEF Recognise
    <2>1. CASE book.books[k].open = TRUE
      <3>1. Keeps(book, Recognised(book, k, view[k]), view)
        BY <1>0, <2>1, RecognisedKeeps
      <3> QED BY <2>0, <3>1 DEF Keeps, Paused
    <2>2. CASE ~book.books[k].open
      <3>1. Recognised(book, k, view[k]) = book
        BY <2>2 DEF Recognised
      <3> QED BY <2>0, <3>1 DEF Paused
    <2>3. book.books[k].open \in BOOLEAN
      BY <1>0 DEF BookInv, Papers, PaperOK
    <2> QED BY <2>1, <2>2, <2>3
  <1>3. ASSUME PlanMoves(k) PROVE Paused
    <2>1. PICK n : book' = [book EXCEPT !.balance = n]
      BY <1>3 DEF PlanMoves
    <2>2. desk' = desk
      BY <1>3 DEF PlanMoves
    <2> QED BY <1>0, <2>1, <2>2 DEF Paused
  <1> QED BY <1>1, <1>2, <1>3

LEMMA OnlyClosesMove ==
    ASSUME PoolInv, [Next]_vars
    PROVE  CloseEpoch \/ Paused
  <1>0. "epoch" \in DOMAIN book /\ "queueFilled" \in DOMAIN desk
    BY BookIsShaped, DeskIsShaped
  <1>1. ASSUME NEW t \in Tranche, NEW amount \in SeedAmounts, Seed(t, amount)
        PROVE  Paused
    BY <1>0, <1>1 DEF Seed, SeededBook, SeededDesk, Paused
  <1>2. ASSUME NEW amount \in ReserveAmounts, FundReserve(amount)
        PROVE  Paused
    BY <1>0, <1>2 DEF FundReserve, ReserveFunded, Paused
  <1>3. ASSUME Lend PROVE Paused
    BY <1>3, LendersPause DEF Lend
  <1>4. ASSUME Borrow PROVE Paused
    BY <1>4, LoansPause DEF Borrow
  <1>5. ASSUME NEW limit \in MarkLimits, MarkEpoch(limit)
        PROVE  Paused
    <2>1. BookInv(book) /\ Told(book, view) /\ limit \in Nat
      BY InputsAreNat DEF PoolInv, Core
    <2>2. Keeps(book, MarkedUpTo(book, limit, view), view)
      BY <2>1, WalkKeeps
    <2> QED BY <1>5, <2>2 DEF MarkEpoch, Keeps, Paused
  <1>6. ASSUME NEW x \in Venues \cup {NoVenue}, SetVenue(x)
        PROVE  Paused
    BY <1>6 DEF SetVenue, Paused
  <1>7. ASSUME NEW amount \in BufferAmounts, DeployBuffer(amount)
        PROVE  Paused
    BY <1>0, <1>7 DEF DeployBuffer, BufferDeployed, Paused
  <1>8. ASSUME NEW amount \in BufferAmounts, RecallBuffer(amount)
        PROVE  Paused
    BY <1>0, <1>8 DEF RecallBuffer, BufferRecalled, Paused
  <1>9. ASSUME SyncVenue PROVE Paused
    <2>1. book' = Synced /\ desk' = desk
      BY <1>9 DEF SyncVenue
    <2>2. Synced.epoch = book.epoch
      BY SyncedHolds
    <2> QED BY <2>1, <2>2 DEF Paused
  <1>10. ASSUME NEW x \in Venues, NEW amount \in YieldAmounts, PayYield(x, amount)
         PROVE  Paused
    BY <1>10 DEF PayYield, Paused
  <1>11. ASSUME Tick PROVE Paused
    BY <1>11 DEF Tick, Paused
  <1>12. ASSUME UNCHANGED vars PROVE Paused
    BY <1>12 DEF vars, Paused
  <1> QED BY <1>1, <1>2, <1>3, <1>4, <1>5, <1>6, <1>7, <1>8, <1>9, <1>10, <1>11, <1>12 DEF Next

\* A close prices lenders in and out at the price it finds: it lowers neither
\* tranche's price per share unless the venue lost money, and it stops paying
\* junior out where junior's share of the pool would fall below its floor
\* (TranchedCreditPool.closeEpoch, _settleDeposits, _fillQueue, _spendable).
THEOREM PoolClosesAreFair == Spec => ClosesAreFair
  <1>1. PoolInv /\ [Next]_vars =>
          (book'.epoch # book.epoch /\ Synced.deployedAssets >= book.deployedAssets
             => \A t \in Tranche :
                  NavPerShare(book', desk', t) >= NavPerShare(book, desk, t))
    BY OnlyClosesMove, CloseLowersNoPrice DEF Paused
  <1>2. PoolInv /\ [Next]_vars =>
          (desk'.queueFilled["Junior"] > desk.queueFilled["Junior"]
             => book'.assets["Junior"] >= (TotalAssets(book') * MinSubordinationBps) \div Bps)
    <2> SUFFICES ASSUME PoolInv, [Next]_vars,
                        desk'.queueFilled["Junior"] > desk.queueFilled["Junior"]
                 PROVE  AboveFloor(book')
      BY DEF AboveFloor
    <2>1. desk.queueFilled["Junior"] \in Nat
      BY DEF PoolInv, Core, DeskInv, SideOK, QueueOK
    <2>2. desk'.queueFilled["Junior"] # desk.queueFilled["Junior"]
      BY <2>1
    <2>3. CloseEpoch
      BY <2>2, OnlyClosesMove DEF Paused
    <2> QED BY <2>2, <2>3, CloseIsFair DEF Fair, FloorKept
  <1> QED BY <1>1, <1>2, PoolHolds,
             PTL DEF Spec, ClosesAreFair, CloseNeverDilutes, JuniorIsNotPaidThroughItsFloor

\* Wherever the cursor of markEpoch was left and whatever recognition closes on
\* the way, two rounds of the open list complete the mark phase: no order of
\* swap-removals makes the walk pass a plan by for ever (markEpoch, _close).
THEOREM MarkPhaseAlwaysCompletes == Spec => []MarkPhaseCompletes
  <1>1. PoolInv => MarkPhaseCompletes
    BY WalkEnds DEF PoolInv, Core, MarkPhaseCompletes
  <1> QED BY <1>1, PoolHolds, PTL

\* What a plan shows has a status, a debt, what it forwarded and whether it is late.
IsView(v) == v = [f \in {"state", "outstanding", "forwarded", "late"} |-> v[f]]

Viewed ==
    /\ view = [k \in Plans |-> view[k]]
    /\ \A k \in Plans : IsView(view[k])

LEMMA OnlyPlansMoveTheirViews ==
    ASSUME [Next]_vars
    PROVE  view' = view \/ \E k \in Plans : PlanMoves(k)
  <1>1. CASE Next
    <2>1. CASE \E t \in Tranche, amount \in SeedAmounts : Seed(t, amount)
      BY <2>1 DEF Seed
    <2>2. CASE \E amount \in ReserveAmounts : FundReserve(amount)
      BY <2>2 DEF FundReserve
    <2>3. CASE Lend
      BY <2>3 DEF Lend, RequestDeposit, CancelDeposit, ClaimShares, RequestRedeem,
                  ClaimRedemption
    <2>4. CASE Borrow
      BY <2>4 DEF Borrow, Front, Recognise
    <2>5. CASE \E limit \in MarkLimits : MarkEpoch(limit)
      BY <2>5 DEF MarkEpoch
    <2>6. CASE CloseEpoch
      BY <2>6 DEF CloseEpoch
    <2>7. CASE \E x \in Venues \cup {NoVenue} : SetVenue(x)
      BY <2>7 DEF SetVenue
    <2>8. CASE \E amount \in BufferAmounts : DeployBuffer(amount) \/ RecallBuffer(amount)
      BY <2>8 DEF DeployBuffer, RecallBuffer
    <2>9. CASE SyncVenue
      BY <2>9 DEF SyncVenue
    <2>10. CASE \E x \in Venues, amount \in YieldAmounts : PayYield(x, amount)
      BY <2>10 DEF PayYield
    <2>11. CASE Tick
      BY <2>11 DEF Tick
    <2> QED BY <1>1, <2>1, <2>2, <2>3, <2>4, <2>5, <2>6, <2>7, <2>8, <2>9, <2>10, <2>11
            DEF Next
  <1>2. CASE UNCHANGED vars
    BY <1>2 DEF vars
  <1> QED BY <1>1, <1>2

LEMMA ViewsKeepTheirShape == Spec => []Viewed
  <1>1. Init => Viewed
    <2> SUFFICES ASSUME Init PROVE Viewed
      OBVIOUS
    <2>1. view = [k \in Plans |-> Opening(Terms[k])]
      BY DEF Init
    <2>2. \A k \in Plans : IsView(Opening(Terms[k]))
      BY DEF IsView, Opening
    <2> QED BY <2>1, <2>2 DEF Viewed
  <1>2. Viewed /\ [Next]_vars => Viewed'
    <2> SUFFICES ASSUME Viewed, [Next]_vars PROVE Viewed'
      OBVIOUS
    <2>1. CASE view' = view
      BY <2>1 DEF Viewed
    <2>2. ASSUME NEW k \in Plans, PlanMoves(k) PROVE Viewed'
      <3>1. \E w : IsView(w) /\ view' = [view EXCEPT ![k] = w]
        <4>1. PICK state, outstanding, forwarded, late :
                view' = [view EXCEPT ![k] =
                  [state |-> state, outstanding |-> outstanding,
                   forwarded |-> forwarded, late |-> late]]
          BY <2>2 DEF PlanMoves
        <4> DEFINE w == [state |-> state, outstanding |-> outstanding,
                         forwarded |-> forwarded, late |-> late]
        <4>2. IsView(w)
          BY DEF IsView
        <4> QED BY <4>1, <4>2
      <3>2. PICK w : IsView(w) /\ view' = [view EXCEPT ![k] = w]
        BY <3>1
      <3> QED BY <3>2 DEF Viewed
    <2> QED BY <2>1, <2>2, OnlyPlansMoveTheirViews
  <1> QED BY <1>1, <1>2, PTL DEF Spec

LEMMA WhatIsOpenIsReadable ==
    ASSUME PoolInv, NEW k \in OpenPaper
    PROVE  /\ k \in Plans /\ book.books[k].open = TRUE
           /\ Readable(book, k, view[k])
  <1>1. BookInv(book) /\ Told(book, view)
    BY DEF PoolInv, Core
  <1>2. k \in Plans /\ book.books[k].open
    BY DEF OpenPaper
  <1>3. PaperOK(book.books[k], book.epoch) /\ Tells(book, k, view[k])
    BY <1>1, <1>2 DEF BookInv, Papers, Told
  <1>4. Readable(book, k, view[k])
    BY <1>2, <1>3 DEF PaperOK, Tells, Readable
  <1>5. book.books[k].open = TRUE
    BY <1>2, <1>3 DEF PaperOK
  <1> QED BY <1>2, <1>4, <1>5

\* However often and in whatever order recognise() sees the states of a plan,
\* nothing is booked twice: a second call on an unmoved plan changes nothing,
\* rounding included, and a cure gives back what the delinquency took.
THEOREM RecognitionIsAlwaysExact == Spec => []RecognitionIsExact
  <1>1. PoolInv /\ Viewed => RecognitionIsExact
    <2> SUFFICES ASSUME PoolInv, Viewed PROVE RecognitionIsExact
      OBVIOUS
    <2>1. BookInv(book)
      BY DEF PoolInv, Core
    <2>2. RecogniseIsIdempotent
      <3> SUFFICES ASSUME NEW k \in OpenPaper
                   PROVE  LET once == Recognised(book, k, view[k])
                          IN  Recognised(once, k, view[k]) = once
        BY DEF RecogniseIsIdempotent
      <3> DEFINE seen == view[k]
                 once == Recognised(book, k, seen)
      <3>1. k \in Plans /\ book.books[k].open = TRUE /\ Readable(book, k, seen)
        BY WhatIsOpenIsReadable
      <3>2. once = Recognised(book, k, seen)
        OBVIOUS
      <3> HIDE DEF seen, once
      <3>3. Recognised(once, k, seen) = once
        BY <2>1, <3>1, <3>2, RecognisedOnce
      <3> QED BY <3>3 DEF once, seen
    <2>3. ASSUME NEW k \in OpenPaper
          PROVE  LET calm  == [view[k] EXCEPT !.state = "Active", !.late = FALSE]
                     here  == Recognised(book, k, calm)
                     there == Recognised(here, k, [calm EXCEPT !.state = "Delinquent"])
                 IN  Nav(Recognised(there, k, calm)) = Nav(here)
      <3> DEFINE seen == view[k]
                 calm == [view[k] EXCEPT !.state = "Active", !.late = FALSE]
                 ill == [calm EXCEPT !.state = "Delinquent"]
                 here == Recognised(book, k, calm)
                 there == Recognised(here, k, ill)
                 back == Recognised(there, k, calm)
      <3>1. k \in Plans /\ book.books[k].open = TRUE /\ Readable(book, k, seen)
        BY WhatIsOpenIsReadable
      <3>2. IsView(seen)
        BY <3>1 DEF Viewed
      <3>3. calm = [seen EXCEPT !.state = "Active", !.late = FALSE]
        OBVIOUS
      <3> HIDE DEF seen, calm
      <3>4. /\ calm.state = "Active" /\ calm.late = FALSE
            /\ calm.outstanding = seen.outstanding /\ calm.forwarded = seen.forwarded
            /\ "state" \in DOMAIN calm
        BY <3>2, <3>3 DEF IsView
      <3>5. /\ ill.state = "Delinquent" /\ ill.late = calm.late
            /\ ill.outstanding = calm.outstanding /\ ill.forwarded = calm.forwarded
        BY <3>4
      <3>6. Readable(book, k, calm)
        BY <3>1, <3>4 DEF Readable
      <3> HIDE DEF ill, here, there, back
      <3>7. SameNav(here, back)
        BY <2>1, <3>1, <3>4, <3>5, <3>6, CureLeavesNoTrace DEF here, there, back
      <3>8. Nav(back) = Nav(here)
        BY <3>7 DEF SameNav, Nav
      <3> QED BY <3>8 DEF calm, ill, here, there, back
    <2> QED BY <2>2, <2>3 DEF RecognitionIsExact, CureReleasesWhatDelinquencyTook
  <1> QED BY <1>1, PoolHolds, ViewsKeepTheirShape, PTL
=============================================================================
