---------------------------- MODULE IndexerCore ----------------------------
(***************************************************************************)
(* The pipeline every surface reads through: contracts append logs to the  *)
(* chain, and the indexer hands them to their handlers one at a time, in   *)
(* order, behind the chain by as much as it happens to be.  A handler that *)
(* throws stops the indexer where it is.                                   *)
(***************************************************************************)
EXTENDS IndexerHandlers, EventSchema, Sequences

CONSTANTS MaxBlocks,   \* bound: blocks with a log that matters
          MaxLag       \* bound: logs the indexer may be behind when the chain moves

VARIABLES log,         \* every log the chain has emitted, in order
          blockNumber, \* blocks so far; the clock of the chain's timestamps
          applied,     \* how many logs have been handled
          tables,      \* the indexer's database
          halted       \* a handler threw

indexer == <<applied, tables, halted>>
chain == <<log, blockNumber>>

IndexerInit ==
    /\ log = <<>>
    /\ blockNumber = 0
    /\ applied = 0
    /\ tables = EmptyTables
    /\ halted = FALSE

\* A log as a contract writes it, before its block gives it a place.
Raw(contract, address, name, args) ==
    [contract |-> contract, address |-> address, name |-> name, args |-> args]

Placed(raw, number, index, sender, views) ==
    [contract |-> raw.contract, name |-> raw.name, args |-> raw.args, views |-> views,
     log |-> [address |-> raw.address, logIndex |-> index],
     block |-> [number |-> number, timestamp |-> number, miner |-> Zero],
     transaction |-> [hash |-> number, from |-> sender]]

\* One transaction in a block of its own; a plan deployed in it can be read.
Transaction(sender, raws, views) ==
    /\ blockNumber < MaxBlocks
    /\ Len(log) - applied <= MaxLag
    /\ blockNumber' = blockNumber + 1
    /\ log' = log \o [k \in 1..Len(raws) |->
                        Placed(raws[k], blockNumber + 1, k - 1, sender, views)]

\* Arc's own event, which the protocol's schema does not version.
NATIVE_TRANSFER_ABI == {Ev("NativeTransferEmitter", "Transfer", {"from", "to"}, {"value"})}

\* The source a log comes from is subscribed to with an event of its name; a model
\* may leave out fields that no handler reads.
Decodes(e) ==
    \E d \in NATIVE_TRANSFER_ABI \cup AbiForContract(e.contract) :
        /\ e.contract \in CONTRACT_ABIS \cup {"NativeTransferEmitter"}
        /\ d.contract = e.contract /\ d.name = e.name
        /\ DOMAIN e.args \subseteq d.indexed \cup d.plain

\* A log the schema has no definition for reaches no handler.
Answered(e) == IF Decodes(e) THEN Handled(tables, e) ELSE tables

\* One log, one handler, one write; or the handler throws and nothing moves.
Handle ==
    /\ ~halted
    /\ applied < Len(log)
    /\ \E next \in {Answered(log[applied + 1])} :
         IF \E table \in DOMAIN next : next[table] = Thrown
           THEN halted' = TRUE /\ UNCHANGED <<applied, tables>>
           ELSE /\ tables' = next
                /\ applied' = applied + 1
                /\ UNCHANGED halted
    /\ UNCHANGED chain

CaughtUp == applied = Len(log)
=============================================================================
