------------------------ MODULE MCTranchedCreditPool ------------------------
(***************************************************************************)
(* Small pools.  Shares are divided by four instead of by ten thousand and *)
(* prices are in hundredths, so that every rounding the source does is     *)
(* still there and happens on small numbers.                               *)
(***************************************************************************)
EXTENDS TranchedCreditPool, TLC

CONSTANTS p1, p2, p3, m1, c1, c2, h1, h2, v1

\* A plan whose bounties cost money and whose discount is earned as it pays,
\* a smaller one at par, and one with a discount and no bounties; one
\* merchant, two corridors.
MCTerms ==
    [k \in Plans |->
        CASE k = p1 -> [principal |-> 3, bounties |-> 1, extras |-> 0, mdr |-> 1,
                        escrow |-> 0, merchant |-> m1, corridor |-> c1]
          [] k = p2 -> [principal |-> 1, bounties |-> 0, extras |-> 0, mdr |-> 0,
                        escrow |-> 0, merchant |-> m1, corridor |-> c2]
          [] k = p3 -> [principal |-> 2, bounties |-> 0, extras |-> 0, mdr |-> 1,
                        escrow |-> 0, merchant |-> m1, corridor |-> c1]]

\* Of the states of a plan the pool tells apart being delinquent, being one
\* that closes the book, and anything else.  Pending stands for the last, and
\* Defaulted, which may leave anything or nothing owed, for the closing ones.
MCPlanStates ==
    [k \in Plans |-> IF k = p1 THEN {"Pending", "Delinquent", "Defaulted"}
                     ELSE IF k = p2 THEN {"Defaulted"} ELSE {"Pending", "Defaulted"}]

\* Lenders are interchangeable.
LenderSymmetry == Permutations(Holders)
=============================================================================
