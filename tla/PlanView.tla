------------------------------ MODULE PlanView ------------------------------
(***************************************************************************)
(* The abstract plan: any history of views that keeps the promise.  Terms  *)
(* whose first due date is long past make a plan that is late from birth.  *)
(***************************************************************************)
EXTENDS PlanPromise

CONSTANT Terms
VARIABLE view

Init == \E late \in BOOLEAN : view = [Opening(Terms) EXCEPT !.late = late]

Next == Follows(Terms, view, view')

Spec == Init /\ [][Next]_view
=============================================================================
