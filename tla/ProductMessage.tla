--------------------------- MODULE ProductMessage ---------------------------
(***************************************************************************)
(* packages/checkout-embed, messaging.ts: the line on a product page.  Its *)
(* schedule is written at once; the buyer's limit is read from the chain   *)
(* and filled in later, by which time the merchant's page may have drawn   *)
(* the message again, for another cart or another wallet.                  *)
(***************************************************************************)
EXTENDS PlanCore

CONSTANTS
    Renders,            \* calls of messaging() on one element
    Wallets, Figures    \* who may be connected; what the router may answer

ASSUME MessageAssumption == Figures \subseteq Nat

VARIABLES
    shown,              \* the render the element holds, a set of at most one
    render,             \* per call: its wallet, whether it reads, its detail line
    headroom,           \* what maxPrincipalFor answers now, per wallet
    answered            \* every figure it has answered, per wallet

messageVars == <<shown, render, headroom, answered>>

\* The copy for "no figure", whichever of its reasons it has.
AVAILABILITY == {}
Unrendered == [wallet |-> {}, reading |-> FALSE, detail |-> AVAILABILITY]

Rendering ==
    [wallet : {{}} \cup {{w} : w \in Wallets}, reading : BOOLEAN,
     detail : {AVAILABILITY} \cup {{limit} : limit \in Figures}]

splitOf(total, count) ==
    [base |-> total \div count, first |-> (total \div count) + (total % count)]

\* limitFor: the router's figure, or zero for a read that failed.
limitFor(wallet) == {headroom[w] : w \in wallet} \cup {0}

\* messaging(): the element's contents are replaced, and with a wallet connected
\* the read begins.
Messaging(r, wallet) ==
    /\ r \notin shown /\ render[r] = Unrendered
    /\ shown' = {r}
    /\ render' = [render EXCEPT ![r].wallet = wallet, ![r].reading = wallet # {}]
    /\ UNCHANGED <<headroom, answered>>

\* The line of the render that asked, on the page or not.
Filled(r, detail) == [render EXCEPT ![r].detail = detail]

\* The answer fills that line, and a zero leaves it as it is.
LimitArrives(r) ==
    /\ render[r].reading
    /\ \E limit \in limitFor(render[r].wallet) :
          LET filled == IF limit > 0 THEN Filled(r, {limit}) ELSE render
          IN  render' = [filled EXCEPT ![r].reading = FALSE]
    /\ UNCHANGED <<shown, headroom, answered>>

HeadroomMoves ==
    /\ \E w \in Wallets, figure \in Figures :
          /\ headroom' = [headroom EXCEPT ![w] = figure]
          /\ answered' = [answered EXCEPT ![w] = @ \cup {figure}]
    /\ UNCHANGED <<shown, render>>

MessageInit ==
    /\ shown = {}
    /\ render = [r \in Renders |-> Unrendered]
    /\ headroom \in [Wallets -> Figures]
    /\ answered = [w \in Wallets |-> {headroom[w]}]

MessageNext ==
    \/ \E r \in Renders, wallet \in {{}} \cup {{w} : w \in Wallets} : Messaging(r, wallet)
    \/ \E r \in Renders : LimitArrives(r)
    \/ HeadroomMoves

MessageSpec == MessageInit /\ [][MessageNext]_messageVars

-----------------------------------------------------------------------------
\* The page shows no figure but one the router gave for the very wallet the last
\* render was for, whichever read came back last, and never a zero.
FigureIsTheBuyers ==
    \A r \in shown : \A limit \in render[r].detail :
        limit > 0 /\ \E w \in render[r].wallet : limit \in answered[w]

\* Its schedule is the one a plan of that total would be collected by.
ScheduleIsThePlans ==
    \A total \in Figures, count \in 1 .. 4 :
        LET split == splitOf(total, count) IN
        SplitInstallments(total, count)
           = [i \in 0 .. count - 1 |-> IF i = 0 THEN split.first ELSE split.base]

MessageIsHonest ==
    render \in [Renders -> Rendering] /\ FigureIsTheBuyers /\ ScheduleIsThePlans
=============================================================================
