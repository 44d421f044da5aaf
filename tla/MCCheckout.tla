----------------------------- MODULE MCCheckout -----------------------------
(***************************************************************************)
(* One merchant, two sales and two payout destinations.                    *)
(***************************************************************************)
EXTENDS Checkout

CONSTANTS p1, p2, m1, c1

\* A sale whose discount is earned as it is repaid, and one at par.
MCTerms ==
    [k \in Plans |->
        IF k = p1
        THEN [principal |-> 2, bounties |-> 0, extras |-> 0, mdr |-> 1, escrow |-> 0,
              merchant |-> m1, corridor |-> c1]
        ELSE [principal |-> 2, bounties |-> 0, extras |-> 0, mdr |-> 0, escrow |-> 0,
              merchant |-> m1, corridor |-> c1]]
=============================================================================
