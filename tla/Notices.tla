------------------------------ MODULE Notices -------------------------------
(***************************************************************************)
(* services/servicing: the notice ladder of a plan, the dispatch that      *)
(* sends what is due to every contact, the delivery log it writes, and     *)
(* what a borrower is told of their balance.  Dispatch awaits the log, the *)
(* transport and the log again; two of them may overlap, the transport and *)
(* the log may each fail, and the process may die between any two.         *)
(***************************************************************************)
EXTENDS Integers, Sequences, FiniteSets

LOCAL INSTANCE FiniteSetsExt
LOCAL INSTANCE SequencesExt
LOCAL INSTANCE Functions

CONSTANTS
    DueAt, Due,          \* index to due date and amount, of the one plan explored
    Horizon,             \* how far ahead a shortfall is looked for
    LEAD_TIMES,          \* how long before a due date its notices go out
    Contacts, Dispatchers,
    DurableLog,          \* TRUE for PgDeliveryLog, FALSE for the in-memory log
    NoticeTime, RecordBound, SendBound

ASSUME NoticesAssumption ==
    /\ LEAD_TIMES \subseteq Nat
    /\ DurableLog \in BOOLEAN

VARIABLES
    noticeLog,   \* operator.notice_delivery, in the order it was written
    accepted,    \* <<notice key, contact>> the transport took, with how often
    dispatcher,  \* what each dispatch holds
    disturbed,   \* history: keys whose send was overlapped, or lost its row
    noticeNow

noticeVars == <<noticeLog, accepted, dispatcher, disturbed, noticeNow>>

---------------------------------------------------------------------------
(* ladder.ts *)

\* A notice's key tells one from another and is the same on every run.
Notice(kind, index, lead, at) ==
    [kind |-> kind, installmentIndex |-> index, sendAt |-> at,
     key |-> [kind |-> kind, index |-> index, lead |-> lead]]

UpcomingNotice(index, lead) == Notice("upcoming", index, {lead}, DueAt[index] - lead)

LadderFor == {UpcomingNotice(i, lead) : i \in DOMAIN DueAt, lead \in LEAD_TIMES}

DueNotices(notices, now) == {n \in notices : n.sendAt <= now}

\* Mutant of WasSent: the latest attempt alone says whether it was sent.
WasSentLast(log, key) == log # <<>> /\ Last(log).key = key /\ Last(log).outcome = "sent"

\* A failed attempt is a row too, and does not count as having been sent.
WasSent(log, key) ==
    \E r \in DOMAIN log : log[r].key = key /\ log[r].outcome = "sent"

MissedNotices(notices, log, now) ==
    {n \in DueNotices(notices, now) : ~WasSent(log, n.key)}

\* The columns of operator.notice_delivery.
NoticeDelivery ==
    [key : {n.key : n \in LadderFor}, kind : {"upcoming"}, contact : Contacts,
     outcome : {"sent", "failed"}, at : Nat]

DeliveryRow(notice, contact, outcome, at) ==
    [key |-> notice.key, kind |-> notice.kind, contact |-> contact,
     outcome |-> outcome, at |-> at]

---------------------------------------------------------------------------
Quiet == [stage |-> "idle"]

Hands(d, to) == dispatcher' = [dispatcher EXCEPT ![d] = to]

NoticesInit ==
    /\ noticeLog = <<>>
    /\ accepted = [x \in {n.key : n \in LadderFor} \X Contacts |-> 0]
    /\ dispatcher = [d \in Dispatchers |-> Quiet]
    /\ disturbed = {}
    /\ noticeNow = 0

\* The call: its notices are in the ladder's order and its clock is one value.
BeginDispatch(d) ==
    /\ dispatcher[d] = Quiet
    /\ DueNotices(LadderFor, noticeNow) # {}
    /\ Hands(d, [stage |-> "ask", left |-> DueNotices(LadderFor, noticeNow), now |-> noticeNow])
    /\ UNCHANGED <<noticeLog, accepted, disturbed, noticeNow>>

\* The dispatches between an unanswered wasSent and the last row of that notice.
At(key) == {d \in Dispatchers : /\ dispatcher[d].stage \in {"send", "record"}
                                /\ dispatcher[d].notice.key = key}

Earliest(notices) == {n \in notices : \A m \in notices : n.sendAt <= m.sendAt}

\* wasSent: asked once a notice, before the first of its contacts.
AskWasSent(d, n) ==
    LET held == dispatcher[d]
        left == held.left \ {n}
        rest == IF left = {} THEN Quiet ELSE [held EXCEPT !.left = left]
    IN  /\ held.stage = "ask" /\ n \in Earliest(held.left)
        /\ Hands(d, IF WasSent(noticeLog, n.key) THEN rest
                    ELSE [stage |-> "send", notice |-> n, contacts |-> Contacts,
                          left |-> left, now |-> held.now])
        /\ disturbed' = disturbed \cup {k \in {n.key} : At(k) # {}}
        /\ UNCHANGED <<noticeLog, accepted, noticeNow>>

\* transport.send takes the notice or throws.
SendNotice(d, contact, takes) ==
    LET held == dispatcher[d]
        n == held.notice
    IN  /\ held.stage = "send" /\ contact \in held.contacts
        /\ takes => SumFunction(accepted) < SendBound
        /\ accepted' = IF takes THEN [accepted EXCEPT ![<<n.key, contact>>] = @ + 1] ELSE accepted
        /\ Hands(d, [held EXCEPT !.stage = "record", !.contacts = @ \ {contact}]
                      @@ [contact |-> contact,
                          outcome |-> IF takes THEN "sent" ELSE "failed"])
        /\ UNCHANGED <<noticeLog, disturbed, noticeNow>>

AfterContact(held) ==
    IF held.contacts # {}
    THEN [stage |-> "send", notice |-> held.notice, contacts |-> held.contacts,
          left |-> held.left, now |-> held.now]
    ELSE IF held.left # {} THEN [stage |-> "ask", left |-> held.left, now |-> held.now]
    ELSE Quiet

\* The row; one try covers the send and the record of it, so a "sent" that the
\* log refuses is recorded as a failure, and a refused failure ends the call.
RecordOutcome(d, writes) ==
    LET held == dispatcher[d] IN
    /\ held.stage = "record"
    /\ Len(noticeLog) < RecordBound
    /\ IF writes
       THEN /\ noticeLog' = Append(noticeLog,
                 DeliveryRow(held.notice, held.contact, held.outcome, held.now))
            /\ Hands(d, AfterContact(held))
            /\ UNCHANGED disturbed
       ELSE /\ Hands(d, IF held.outcome = "sent" THEN [held EXCEPT !.outcome = "failed"]
                        ELSE Quiet)
            /\ disturbed' = disturbed \cup {k \in {held.notice.key} : held.outcome = "sent"}
            /\ UNCHANGED noticeLog
    /\ UNCHANGED <<accepted, noticeNow>>

\* The process stops; what was taken and has no row yet is forgotten, and with
\* the in-memory log everything is.
DispatcherDies ==
    /\ \E d \in Dispatchers : dispatcher[d] # Quiet
    /\ dispatcher' = [d \in Dispatchers |-> Quiet]
    /\ noticeLog' = IF DurableLog THEN noticeLog ELSE <<>>
    /\ disturbed' = disturbed \cup
          {k \in {n.key : n \in LadderFor} :
              \/ ~DurableLog
              \/ \E d \in At(k) : dispatcher[d].stage = "record"
                                 /\ dispatcher[d].outcome = "sent"}
    /\ UNCHANGED <<accepted, noticeNow>>

NoticeTick ==
    /\ noticeNow < NoticeTime
    /\ noticeNow' = noticeNow + 1
    /\ UNCHANGED <<noticeLog, accepted, dispatcher, disturbed>>

NoticesNext ==
    \/ \E d \in Dispatchers :
            \/ BeginDispatch(d)
            \/ dispatcher[d].stage = "ask" /\ \E n \in dispatcher[d].left : AskWasSent(d, n)
            \/ \E c \in Contacts, takes \in BOOLEAN : SendNotice(d, c, takes)
            \/ \E writes \in BOOLEAN : RecordOutcome(d, writes)
    \/ DispatcherDies
    \/ NoticeTick

NoticesSpec == NoticesInit /\ [][NoticesNext]_noticeVars

---------------------------------------------------------------------------
(* balance.ts: what is short, what to top up, and whether to say so.       *)

DueWithin(balance, upcoming, horizon) ==
    {u \in upcoming : u.dueAt <= balance.at + horizon}

\* Installments are met from the collectable balance in the order they fall
\* due, and what the first leaves short is covered from elsewhere if it can be.
Shortfalls(balance, upcoming, horizon) ==
    LET inOrder == SetToSortSeq(DueWithin(balance, upcoming, horizon),
                                LAMBDA x, y : x.dueAt < y.dueAt)
        meet(held, u) ==
            IF held.remaining >= u.amount
            THEN [held EXCEPT !.remaining = @ - u.amount]
            ELSE LET missing == u.amount - held.remaining
                     covered == held.elsewhere >= missing
                 IN  [remaining |-> 0,
                      elsewhere |-> held.elsewhere - (IF covered THEN missing ELSE 0),
                      found |-> held.found \cup
                        {[index |-> u.index, dueAt |-> u.dueAt, amount |-> u.amount,
                          missing |-> missing, coveredByElsewhere |-> covered]}]
    IN  FoldLeft(meet, [remaining |-> balance.collectable,
                        elsewhere |-> balance.elsewhere, found |-> {}], inOrder).found

\* Sized to the whole horizon; nothing to offer when nothing is short.
SizeTopUp(balance, upcoming, horizon) ==
    LET found == Shortfalls(balance, upcoming, horizon)
        amount == MapThenSumSet(LAMBDA f : f.missing, found)
    IN  IF found = {} THEN {}
        ELSE {[amount |-> amount, by |-> Min({f.dueAt : f \in found}), shortfalls |-> found,
               source |-> IF balance.elsewhere >= amount THEN "gateway" ELSE "external"]}

NeedsAttention(balance, upcoming, horizon) == Shortfalls(balance, upcoming, horizon) # {}

\* GET /me/summary and /me/shortfalls: the borrower's own, at the moment asked.
Upcoming(now) == {[index |-> i, dueAt |-> DueAt[i], amount |-> Due[i]] :
                    i \in {j \in DOMAIN DueAt : DueAt[j] >= now}}

MeSummary(balance, now) ==
    [balance |-> balance, upcoming |-> Upcoming(now),
     attention |-> NeedsAttention(balance, Upcoming(now), Horizon),
     topUp |-> SizeTopUp(balance, Upcoming(now), Horizon)]

MeShortfalls(balance, now) == Shortfalls(balance, Upcoming(now), Horizon)

\* GET /ops/plans/:planId.
OpsPlan(now) ==
    [schedule |-> DueAt, deliveries |-> Len(noticeLog),
     missed |-> {n.key : n \in MissedNotices(LadderFor, noticeLog, now)}]

---------------------------------------------------------------------------
(* Properties. *)

\* The rows are what db/schema.ts says a row is.
NoticeTable == \A r \in DOMAIN noticeLog : noticeLog[r] \in NoticeDelivery

\* A notice the log calls sent was taken by the transport, for that contact,
\* and not before it was due, whatever overlaps, fails or dies.
SentMeansSent ==
    \A r \in DOMAIN noticeLog :
        LET row == noticeLog[r] IN
        row.outcome = "sent" =>
            /\ Cardinality({q \in DOMAIN noticeLog :
                  /\ noticeLog[q].outcome = "sent"
                  /\ noticeLog[q].key = row.key /\ noticeLog[q].contact = row.contact})
                 <= accepted[row.key, row.contact]
            /\ \E n \in LadderFor : n.key = row.key /\ n.sendAt <= row.at

\* The audit the log exists for: a notice that was due and is not shown as missed
\* reached somebody.
UnsentIsShownMissed ==
    \A n \in DueNotices(LadderFor, noticeNow) :
        n.key \notin OpsPlan(noticeNow).missed => \E c \in Contacts : accepted[n.key, c] > 0

\* The top-up a borrower is offered leaves nothing in the horizon short, and
\* any less of it leaves something short: not the next installment alone, and
\* never a sum of installments the balance already meets.
TopUpIsExact ==
    \A now \in 0 .. NoticeTime, c \in 0 .. 3, e \in 0 .. 1 :
        LET held == [collectable |-> c, elsewhere |-> e, at |-> now]
            short(more) == MeShortfalls([held EXCEPT !.collectable = c + more], now)
        IN  \A t \in MeSummary(held, now).topUp :
                /\ short(t.amount) = {}
                /\ short(t.amount - 1) # {}
                /\ \A f \in t.shortfalls : t.by <= f.dueAt

\* A scheduler that fires again, a transport that fails for one contact and not
\* for the other, a process that dies between two rows: a contact still takes a
\* notice once.  It takes it again only if two dispatches were at that notice
\* together, or one that had sent it never got its "sent" row in.
ToldOnceUndisturbed ==
    \A n \in LadderFor, c \in Contacts : n.key \notin disturbed => accepted[n.key, c] <= 1

\* What ladder.ts:227 says of every schedule, crash and replay.  It fails: the
\* log is asked before the send and written after it.
EachNoticeGoesOutOnce == \A n \in LadderFor, c \in Contacts : accepted[n.key, c] <= 1

\* A row that says sent was sent when due, once a contact unless the dispatch
\* was disturbed; what was not sent is shown missed; what is short is offered.
BorrowersAreTold ==
    /\ NoticeTable /\ SentMeansSent /\ UnsentIsShownMissed /\ ToldOnceUndisturbed
    /\ TopUpIsExact
=============================================================================
