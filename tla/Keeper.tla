------------------------------- MODULE Keeper -------------------------------
(***************************************************************************)
(* packages/keeper: one pass of the public keeper over a book.  The pass   *)
(* reads a plan in three calls, decides from what it read, and sends its   *)
(* cranks one by one; the contract, the token and everybody else move in   *)
(* between.  The plan modelled is one in the middle of the list: what the  *)
(* pass does to it decides whether the plans behind it are reached.        *)
(***************************************************************************)
EXTENDS InstallmentPlan, Sequences

CONSTANTS CrankCost,     \* gasPrice * gasEstimate, in units of the token
          MaxRivalMoves  \* bound: calls by anybody but this keeper

ASSUME KeeperAssumption == CrankCost \in Nat /\ MaxRivalMoves \in Nat

VARIABLES pass,    \* the pass under way
          rivals   \* calls by others so far

keeperVars == <<vars, pass, rivals>>

LOCAL INSTANCE SequencesExt

NoId(planId) == 0
Core == INSTANCE PlanCore WITH
    BPS <- Bps, JITTER_HALF_WIDTH <- JitterHalfWidth,
    AUTHORIZATION_WINDOW <- AuthorizationWindow, GRACE_WINDOW <- GraceWindow,
    BOUNTY_START_BPS <- BountyStartBps, BOUNTY_END_BPS <- BountyEndBps,
    BOUNTY_FLOOR <- BountyFloor, BOUNTY_CAP <- BountyCap, MARK_BOUNTY <- MarkBounty,
    ORIGINATION_DEFAULTS <- {}, NEGATIVE_MARK_TTL <- 0, BandEdges <- <<>>,
    IdNumber <- NoId

-----------------------------------------------------------------------------
\* actions.ts: what a snapshot is worth doing.
TERMINAL == {"Repaid", "Defaulted", "Cancelled", "Refunded"}
\* Mutant of SUSPENDED: a late plan is left alone too.
SuspendedOrLate == {"Disputed", "Hold", "SettledWithFeeOutstanding", "Delinquent"}

SUSPENDED == {"Disputed", "Hold", "SettledWithFeeOutstanding"}
isOpen(status) == status \in {"Pending", "Bounced"}

Whole == InstallmentCount   \* the index of a crank on the whole plan
Crank(kind, i, reward) == [kind |-> kind, index |-> i, reward |-> reward]

MarksFor(snapshot, at) ==
    {Crank("markExpired", i, MarkBounty) : i \in
        {j \in Index : isOpen(snapshot.checks[j].status) /\ at >= ValidBefore(j)}}
    \cup
    {Crank("markMissed", i, MarkBounty) : i \in
        {j \in Index : /\ isOpen(snapshot.checks[j].status)
                       /\ at < ValidBefore(j) /\ at > snapshot.checks[j].graceEndsAt}}

\* A funded check is proposed even when the same pass also marks it.
CollectsFor(snapshot, at) ==
    {Crank("collect", i, Core!CollectBounty(InstallmentAmount(i), at - DueDate(i), GraceWindow)) :
        i \in {j \in Index :
                 /\ isOpen(snapshot.checks[j].status)
                 /\ DueDate(j) <= at /\ at < ValidBefore(j)
                 /\ snapshot.state # "Blocked"
                 /\ snapshot.borrowerBalance >= InstallmentAmount(j)}}

\* Dearest first; the sort is stable, so ties keep the order of the loop.
Before(a, b) ==
    \/ a.reward > b.reward
    \/ a.reward = b.reward /\ a.index < b.index
    \/ a.reward = b.reward /\ a.index = b.index /\ a.kind # "collect"

planActions(snapshot, at) ==
    IF snapshot.state \in TERMINAL THEN <<>>
    ELSE IF snapshot.tokenPaused
    THEN IF snapshot.state = "HALTED" THEN <<>> ELSE <<Crank("halt", Whole, 0)>>
    ELSE IF snapshot.state = "HALTED" THEN <<Crank("resume", Whole, MarkBounty)>>
    ELSE IF snapshot.state \in SUSPENDED THEN <<>>
    ELSE SetToSortSeq(MarksFor(snapshot, at) \cup CollectsFor(snapshot, at), Before)

isProfitable(action) == action.reward # 0 /\ action.reward > CrankCost
worthwhile(actions) ==
    SelectSeq(actions, LAMBDA action : action.kind = "halt" \/ isProfitable(action))

\* execute(): two collects or more go first, as one batch.
batchableIndices(actions) ==
    {actions[k].index : k \in {j \in DOMAIN actions : actions[j].kind = "collect"}}
Ordered(actions) ==
    IF Cardinality(batchableIndices(actions)) <= 1 THEN actions
    ELSE <<Crank("collectBatch", Whole, 0)>>
         \o SelectSeq(actions, LAMBDA action : action.kind # "collect")

-----------------------------------------------------------------------------
\* keeper.ts: the snapshot, in the order of its reads.
NewPass ==
    [at |-> "idle", now |-> 0, state |-> "Pending", checks |-> <<>>, queue |-> <<>>,
     alone |-> TRUE]

StartPass ==
    /\ pass.at = "idle"
    /\ pass' = [NewPass EXCEPT !.at = "state", !.now = now]
    /\ UNCHANGED <<vars, rivals>>

ReadState ==
    /\ pass.at = "state"
    /\ pass' = [pass EXCEPT !.at = "checks", !.state = plan.state, !.alone = TRUE]
    /\ UNCHANGED <<vars, rivals>>

ReadChecks ==
    /\ pass.at = "checks"
    /\ pass' = [pass EXCEPT !.at = "token",
                            !.checks = [i \in Index |->
                                [status |-> plan.status[i],
                                 graceEndsAt |-> GraceEndsAt(plan, i, now)]]]
    /\ UNCHANGED <<vars, rivals>>

\* The last read, and the decision it completes.
ReadToken ==
    /\ pass.at = "token"
    /\ \E purse \in Purses :
        LET snapshot == [state |-> pass.state, checks |-> pass.checks,
                         tokenPaused |-> rail.paused, borrowerBalance |-> purse]
            queue == Ordered(worthwhile(planActions(snapshot, pass.now)))
        IN  pass' = [NewPass EXCEPT !.at = IF queue = <<>> THEN "behind" ELSE "send",
                                    !.queue = queue, !.alone = pass.alone]
    /\ UNCHANGED <<vars, rivals>>

\* What the contract would take; a call it refuses throws out of run().
Takes(action) ==
    CASE action.kind = "collect" -> CanCollect(plan, action.index, now)
      [] action.kind = "collectBatch" -> \A i \in Index : CanCollect(plan, i, now)
      [] action.kind = "markMissed" -> ~rail.paused /\ CanMarkMissed(plan, action.index, now)
      [] action.kind = "markExpired" -> ~rail.paused /\ CanMarkExpired(plan, action.index, now)
      [] action.kind = "halt" -> rail.paused /\ CanHalt(plan)
      [] action.kind = "resume" -> ~rail.paused /\ plan.state = "HALTED"

Sent(action) ==
    \/ action.kind = "collect" /\ Collect(action.index)
    \/ action.kind = "collectBatch" /\ CollectBatch(0, 1)
    \/ action.kind = "markMissed" /\ MarkMissed(action.index)
    \/ action.kind = "markExpired" /\ MarkExpired(action.index)
    \/ action.kind = "halt" /\ Halt
    \/ action.kind = "resume" /\ Resume

SendNext ==
    /\ pass.at = "send"
    /\ Sent(Head(pass.queue))
    /\ pass' = [pass EXCEPT !.queue = Tail(@),
                            !.at = IF Len(pass.queue) = 1 THEN "behind" ELSE "send"]
    /\ UNCHANGED rivals

Reverts ==
    /\ pass.at = "send"
    /\ ~Takes(Head(pass.queue))
    /\ pass' = [pass EXCEPT !.at = "thrown"]
    /\ UNCHANGED <<vars, rivals>>

\* The pass goes on to the plans behind this one, or it died here; either way
\* the next one starts from the beginning.
EndPass ==
    /\ pass.at \in {"behind", "thrown"}
    /\ pass' = NewPass
    /\ UNCHANGED <<vars, rivals>>

KeeperStep ==
    StartPass \/ ReadState \/ ReadChecks \/ ReadToken \/ SendNext \/ Reverts \/ EndPass

\* Time, the token's outages and their ends.
WorldMoves ==
    /\ Tick \/ Pause \/ Unpause
    /\ pass' = IF rail' = rail THEN pass ELSE [pass EXCEPT !.alone = FALSE]
    /\ UNCHANGED rivals

\* Any other call of the plan or the token, by anybody.
RivalMoves ==
    /\ rivals < MaxRivalMoves
    /\ rivals' = rivals + 1
    /\ Next
    /\ <<plan, rail.used, rail.blacklisted>>' # <<plan, rail.used, rail.blacklisted>>
    /\ pass' = [pass EXCEPT !.alone = FALSE]

KeeperInit == Init /\ pass = NewPass /\ rivals = 0
KeeperNext == KeeperStep \/ WorldMoves \/ RivalMoves

\* Time passes, outages end, and the keeper is run again and again.
KeeperSpec ==
    /\ KeeperInit /\ [][KeeperNext]_keeperVars
    /\ WF_keeperVars(Tick /\ WorldMoves)
    /\ WF_keeperVars(Unpause /\ WorldMoves)
    /\ WF_keeperVars(KeeperStep)

-----------------------------------------------------------------------------
\* One keeper running this code is enough for the collection guarantee of
\* InstallmentPlan: every check reaches an outcome, or the plan is charged off
\* and its marks pay nothing any more, whatever outages, bounces, rival cranks
\* and cancellations come between its reads and its sends.
TheKeeperAccountsForEveryCheck ==
    \A i \in Index : <>[](plan.status[i] \in Outcomes \/ plan.state = "Defaulted")

\* run() has no handler around a plan's cranks, so one that reverts ends the
\* pass; still no plan, and no rival at it, keeps passes from the plans behind.
PlansBehindAreReached == []<>(pass.at = "behind")

\* The package the keeper reckons with gives the contract's figures: the amounts on
\* the strip, the escrow for the marks, and the bounty at every moment.
StripTerms == [installmentCount |-> InstallmentCount, principal |-> Principal]
RecomputesTheContract ==
    /\ Core!MarkEscrow(InstallmentCount) = MarkEscrowFor
    /\ Core!InstallmentAmounts(StripTerms) = [i \in Index |-> InstallmentAmount(i)]
    /\ \A amount \in 0 .. Principal, elapsed \in 0 .. MaxTime :
          Core!CollectBounty(amount, elapsed, GraceWindow) = CollectBounty(amount, elapsed)

\* One keeper is enough, for this plan and the ones behind it, and it works from
\* the contract's own figures.
OneKeeperIsEnough ==
    TheKeeperAccountsForEveryCheck /\ PlansBehindAreReached /\ RecomputesTheContract

Undisturbed == pass.at = "send" /\ pass.alone /\ rail.used = Cleared(plan)

\* A crank the keeper sends to a plan nobody else has moved since it was read
\* pays at least what planActions reckoned, up to what the plan still owed.
\* (resume pays from what the marks leave of the escrow, which may be nothing.)
PaidWhatItReckoned ==
    [][ Undisturbed /\ pass'.queue = Tail(pass.queue) /\ plan' # plan
          /\ Head(pass.queue).kind \in {"collect", "markMissed", "markExpired"}
          /\ plan'.status[Head(pass.queue).index] # "Bounced"
        => plan'.keepers - plan.keepers
             >= Lesser(Head(pass.queue).reward, PayoffAmount(plan)) ]_keeperVars

-----------------------------------------------------------------------------
(* What the documentation says and the code does not do. *)

\* actions.ts: "Deliberately conservative about what it proposes. A crank that
\* reverts costs gas and pays nothing": with nobody else at the plan, no crank
\* of a pass reverts.
ProposedCranksDoNotRevert == pass.alone => pass.at # "thrown"
=============================================================================
