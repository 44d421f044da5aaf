--------------------------- MODULE MCEpochKeeper ---------------------------
(***************************************************************************)
(* The small pools of MCTranchedCreditPool under the epoch job.            *)
(***************************************************************************)
EXTENDS MCTranchedCreditPool, EpochKeeper
=============================================================================
