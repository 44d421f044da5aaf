----------------------------- MODULE Screening -----------------------------
(***************************************************************************)
(* services/origination/src/compliance.ts: the reconciler that writes a    *)
(* screening feed onto AllowlistCompliance.  A run reads the chain one     *)
(* account at a time and writes what differs, or has aged, in batches; the *)
(* feed moves on between its reads and its writes, and a read or a write   *)
(* that throws ends the run with the batches before it applied.            *)
(***************************************************************************)
EXTENDS Naturals, Sequences

CONSTANTS Screened, REFRESH_AFTER, SCREEN_FRESHNESS, BATCH_SIZE,
          FeedOrder,       \* the accounts, as the feed lists them
          ScreenDays,      \* bound: the days the model runs
          FeedMoves,    \* bound: changes of mind upstream
          LivePlans     \* the plans each borrower has open

ComplianceStatus == {"Unknown", "Clear", "Denied"}

\* The margin is a day and more, and the feed leaves nobody out.
ASSUME FreshnessAssumption ==
    /\ REFRESH_AFTER \in Nat \ {0} /\ SCREEN_FRESHNESS \in Nat
    /\ REFRESH_AFTER + 1 < SCREEN_FRESHNESS
    /\ BATCH_SIZE \in Nat \ {0} /\ ScreenDays \in Nat
ASSUME FeedAssumption ==
    FeedOrder \in Seq(Screened) /\ \A a \in Screened : \E i \in DOMAIN FeedOrder : FeedOrder[i] = a

VARIABLES feed,       \* upstream's latest word on each account
          chain,      \* AllowlistCompliance: status and screenedAt
          day, ranOn, \* today, and the last day a run finished
          run,        \* the run in progress
          changes     \* bound: feed moves so far

screenVars == <<feed, chain, day, ranOn, run, changes>>

-----------------------------------------------------------------------------
ComplianceRecord == [status : ComplianceStatus, screenedAt : 0 .. ScreenDays]
Update(a, status) == [account |-> a, status |-> status]
RunOf(stage, now, updates) ==
    [stage |-> stage, now |-> now, updates |-> updates, pending |-> <<>>,
     changed |-> {}, refreshed |-> {}, skipped |-> {}]
NoRun == RunOf("none", 0, <<>>)

Changed(update) == chain[update.account].status # update.status
\* Mutant of Aged: refreshed only once it is no longer fresh.
AgedOut(update, now) == now - chain[update.account].screenedAt >= SCREEN_FRESHNESS

Aged(update, now) == now - chain[update.account].screenedAt >= REFRESH_AFTER

\* reconcile() is handed the feed as it stood, and the time, once.
BeginRun ==
    /\ run.stage = "none" /\ ranOn < day
    /\ run' = RunOf("reading", day,
                    [i \in DOMAIN FeedOrder |-> Update(FeedOrder[i], feed[FeedOrder[i]])])
    /\ UNCHANGED <<feed, chain, day, ranOn, changes>>

\* Status and date of one account, read together; then its place in the result.
ReadAccount ==
    /\ run.stage = "reading" /\ run.updates # <<>>
    /\ LET update == Head(run.updates)
           left == [run EXCEPT !.updates = Tail(@)]
           toWrite == [left EXCEPT !.pending = Append(@, update)]
       IN  run' = IF Changed(update) THEN [toWrite EXCEPT !.changed = @ \cup {update}]
                  ELSE IF Aged(update, run.now) THEN [toWrite EXCEPT !.refreshed = @ \cup {update}]
                  ELSE [left EXCEPT !.skipped = @ \cup {update}]
    /\ UNCHANGED <<feed, chain, day, ranOn, changes>>
BeginWrites ==
    /\ run.stage = "reading" /\ run.updates = <<>>
    /\ run' = [run EXCEPT !.stage = "writing"]
    /\ UNCHANGED <<feed, chain, day, ranOn, changes>>

\* screenBatch dates every account of the batch by the block it lands in.
screenBatch(batch) ==
    [a \in Screened |->
        LET at == {i \in DOMAIN batch : batch[i].account = a}
        IN  IF at = {} THEN chain[a]
            ELSE [status |-> batch[CHOOSE i \in at : TRUE].status, screenedAt |-> day]]
BatchOf(pending) == SubSeq(pending, 1, IF Len(pending) < BATCH_SIZE THEN Len(pending) ELSE BATCH_SIZE)
WriteBatch ==
    /\ run.stage = "writing" /\ run.pending # <<>>
    /\ LET batch == BatchOf(run.pending) IN
       /\ chain' = screenBatch(batch)
       /\ run' = [run EXCEPT !.pending = SubSeq(@, Len(batch) + 1, Len(@))]
    /\ UNCHANGED <<feed, day, ranOn, changes>>
EndRun ==
    /\ run.stage = "writing" /\ run.pending = <<>>
    /\ run' = NoRun /\ ranOn' = day
    /\ UNCHANGED <<feed, chain, day, changes>>

\* A read or a batch throws: the call ends; what was written stays written.
RunThrows ==
    /\ run.stage # "none"
    /\ run' = NoRun
    /\ UNCHANGED <<feed, chain, day, ranOn, changes>>

\* The mid-strip queue: plans of the accounts just denied.
midStripDenials(updates) ==
    {[borrower |-> u.account, plans |-> LivePlans[u.account]] :
        u \in {v \in updates : v.status = "Denied" /\ LivePlans[v.account] # {}}}

-----------------------------------------------------------------------------
\* Upstream, and the calendar: a day ends with the run finished, or with one
\* run missed and never two in a row, which is what the refresh margin is for.
FeedDecides ==
    /\ changes < FeedMoves
    /\ \E a \in Screened :
        \E status \in ComplianceStatus \ {"Unknown", feed[a]} :
            feed' = [feed EXCEPT ![a] = status]
    /\ changes' = changes + 1
    /\ UNCHANGED <<chain, day, ranOn, run>>
NextDay ==
    /\ day < ScreenDays /\ run.stage = "none"
    /\ ranOn + 1 >= day
    /\ day' = day + 1
    /\ UNCHANGED <<feed, chain, ranOn, run, changes>>

ScreeningInit ==
    /\ feed \in [Screened -> {"Clear", "Denied"}]
    /\ chain = [a \in Screened |-> [status |-> feed[a], screenedAt |-> 0]]
    /\ day = 0 /\ ranOn = 0 /\ run = NoRun /\ changes = 0

ScreeningNext == \/ BeginRun \/ ReadAccount \/ BeginWrites \/ WriteBatch \/ EndRun
                 \/ RunThrows \/ FeedDecides \/ NextDay

ScreeningSpec == ScreeningInit /\ [][ScreeningNext]_screenVars

-----------------------------------------------------------------------------
\* CheckoutRouter, at origination: a screen older than SCREEN_FRESHNESS refuses.
ScreenStale(a) == day > chain[a].screenedAt + SCREEN_FRESHNESS

\* compliance.ts, "The margin absorbs a missed daily run": an account the feed
\* goes on reporting is never refused at checkout for the age of its screen.
AMissedRunIsAbsorbed == \A a \in Screened : ~ScreenStale(a)

\* When a run has written all it had to, every account it reports as changed or
\* refreshed was written that day with the status it was given, and whatever it
\* skipped already had that status and was recent.
AFinishedRunIsTheList ==
    run.stage = "writing" /\ run.pending = <<>> =>
        /\ \A u \in run.changed \cup run.refreshed \cup run.skipped :
                chain[u.account].status = u.status
        /\ \A u \in run.changed \cup run.refreshed : chain[u.account].screenedAt >= run.now
        /\ \A u \in run.skipped : run.now - chain[u.account].screenedAt < REFRESH_AFTER
        /\ \A u \in run.changed : u.status = "Denied" /\ LivePlans[u.account] # {} =>
                \E d \in midStripDenials(run.changed) : d.borrower = u.account

\* The chain's list is the feed's, and stays recent enough to be accepted.
TheListIsKept ==
    /\ chain \in [Screened -> ComplianceRecord]
    /\ AMissedRunIsAbsorbed /\ AFinishedRunIsTheList
=============================================================================
