----------------------------- MODULE MCIndexer -----------------------------
(***************************************************************************)
(* The indexer over one plane at a time: settlements with their poller, or *)
(* one of the books.  The plane is chosen in the initial state.            *)
(***************************************************************************)
EXTENDS SettlementIndex, BookIndex

CONSTANTS S1, S2

MCSubjects == <<S1, S2>>
MCPlanes == {"settlements", "lenders", "paper", "passport", "pauses", "pledges",
             "merchants", "readings"}
MCBlocksIn == [lenders |-> 6, paper |-> 5, passport |-> 5, pauses |-> 6, pledges |-> 5,
               merchants |-> 5, readings |-> 3, settlements |-> 4]

MCIndexerInit ==
    /\ SettlementInit
    /\ plane \in Planes
    /\ book = IF plane = "settlements" THEN <<>> ELSE PlaneInit[plane]

MCIndexerNext ==
    \/ /\ plane = "settlements"
       /\ ChainStep /\ blockNumber < BlocksIn[plane]
       /\ UNCHANGED bookVars
    \/ plane = "settlements" /\ (pollDispatched \/ Sign \/ Ask) /\ UNCHANGED bookVars
    \/ PlaneStep /\ UNCHANGED <<chainSide, poller>>
    \/ HandleLog /\ UNCHANGED bookVars

MCIndexerSpec == MCIndexerInit /\ [][MCIndexerNext]_<<settlementVars, bookVars>>
=============================================================================
