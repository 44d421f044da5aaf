------------------------------ MODULE MCKeeper ------------------------------
(***************************************************************************)
(* The plan of MCInstallmentPlan, two checks with a jittered second due    *)
(* date, under one keeper and its rivals.                                  *)
(***************************************************************************)
EXTENDS MCInstallmentPlan, Keeper
=============================================================================
