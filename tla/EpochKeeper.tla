---------------------------- MODULE EpochKeeper ----------------------------
(***************************************************************************)
(* packages/keeper/src/epoch.ts: the epoch crank as a job that is run      *)
(* again and again against the pool.  A run reads the pool, walks the mark *)
(* phase in batches, reads again and closes; between any two of its calls  *)
(* plans move, other people turn the same cranks, and the RPC may fail.    *)
(***************************************************************************)
EXTENDS TranchedCreditPool

CONSTANTS BatchSize,    \* plans per markEpoch
          MaxFailures   \* bound: calls the RPC refuses

ASSUME EpochJobAssumption == BatchSize \in Nat \ {0} /\ MaxFailures \in Nat

VARIABLES job,       \* the run under way
          failures   \* refused calls so far

jobVars == <<vars, job, failures>>

Idle == [at |-> "idle", now |-> 0, batches |-> 0]

\* The five reads, at one block.
readStatus(at) ==
    [now |-> at, endsAt |-> desk.epochStartedAt + EpochLength, openPlans |-> book.openPlans,
     markComplete |-> MarkComplete(book), unmarkedDelinquencies |-> book.unmarkedDelinquencies]

\* Mutant of planEpoch: a last batch that is not full is not counted.
planEpochOfFullBatches(status) ==
    LET due == status.now >= status.endsAt
        remaining == IF status.markComplete THEN 0 ELSE status.openPlans
    IN  [due |-> due, batches |-> remaining \div BatchSize,
         closable |-> due /\ status.unmarkedDelinquencies = 0]

planEpoch(status) ==
    LET due == status.now >= status.endsAt
        remaining == IF status.markComplete THEN 0 ELSE status.openPlans
    IN  [due |-> due, batches |-> (remaining + BatchSize - 1) \div BatchSize,
         closable |-> due /\ status.unmarkedDelinquencies = 0]

\* The run's clock is the block's when it began, for both of its readings.
BeginRun ==
    LET planned == planEpoch(readStatus(now)) IN
    /\ job.at = "idle"
    /\ planned.due
    /\ job' = [at |-> "marking", now |-> now, batches |-> planned.batches]
    /\ UNCHANGED <<vars, failures>>

MarkBatch ==
    /\ job.at = "marking" /\ job.batches > 0
    /\ MarkEpoch(BatchSize)
    /\ job' = [job EXCEPT !.batches = @ - 1]
    /\ UNCHANGED failures

\* The second reading: the pass stops here when the close would refuse.
Reread ==
    LET revised == planEpoch(readStatus(job.now)) IN
    /\ job.at = "marking" /\ job.batches = 0
    /\ job' = IF revised.closable THEN [job EXCEPT !.at = "closing"] ELSE Idle
    /\ UNCHANGED <<vars, failures>>

CloseIfItWill ==
    /\ job.at = "closing"
    /\ IF CanCloseEpoch(book, desk, now) /\ book.epoch < MaxEpoch
         THEN CloseEpoch ELSE UNCHANGED vars
    /\ job' = Idle
    /\ UNCHANGED failures

\* A refused call ends the run: caught around the writes, thrown by a reading.
CallFails ==
    /\ failures < MaxFailures
    /\ failures' = failures + 1
    /\ job.at # "idle"
    /\ job' = Idle
    /\ UNCHANGED vars

EpochJob == BeginRun \/ MarkBatch \/ Reread \/ CloseIfItWill

JobInit == Init /\ job = Idle /\ failures = 0
JobNext ==
    \/ EpochJob
    \/ CallFails
    \/ Next /\ UNCHANGED <<job, failures>>

\* When the job has anything to do.
JobIsReady == job.at # "idle" \/ planEpoch(readStatus(now)).due

\* Time passes and the job is scheduled for ever (weak fairness, with what
\* enables it spelled out); nobody else need come.
JobSpec ==
    /\ JobInit /\ [][JobNext]_jobVars
    /\ WF_jobVars(Tick /\ UNCHANGED <<job, failures>>)
    /\ []<>~JobIsReady \/ []<><<EpochJob>>_jobVars

\* Beside the job, somebody recognises a plan that has moved.
RecognisedSpec ==
    JobSpec /\ \A k \in Plans : []<>InStep(k) \/ []<><<Recognise(k)>>_vars

-----------------------------------------------------------------------------
\* The bound on epochs is reached, or the epoch is not over.
NothingToClose == book.epoch = MaxEpoch \/ ~planEpoch(readStatus(now)).due

EpochsClose == (\A k \in Plans : <>[](~view[k].late)) => []<>NothingToClose

\* The job is enough to close every epoch, whatever other cranks, loans and
\* refused calls come between its readings and its writes, once no plan has a
\* check left unmarked past its grace, if somebody recognises the plans that
\* move (RecognisedSpec).
EpochJobAlwaysCloses == EpochsClose

\* And what it closes on is there: with a venue that pays, no reading, batch or
\* close of the job leaves the lenders promised more than the pool holds.
EpochsCloseOnWhatThereIs == []ClaimsNeverExceedHoldings /\ EpochJobAlwaysCloses

\* epoch.ts: a close held up by unmarked delinquencies wants somebody to "crank
\* markMissed on them first", and nothing else: with every check past its grace
\* marked, the job closes every epoch by itself (JobSpec).
MarkingUnblocksTheClose == EpochsClose
=============================================================================
