------------------------------ MODULE Relayer ------------------------------
(***************************************************************************)
(* services/servicing/src/relayer.ts: the operator's own keeper.  A pass   *)
(* reads what is due and the floor, keeps what it may crank, and sends one *)
(* batch per plan through RelayerGate, which holds the floor on chain.     *)
(* Third parties, borrowers and governance move between its calls.         *)
(***************************************************************************)
EXTENDS Naturals, Sequences, FiniteSets

CONSTANTS PlansOf,          \* plan -> the due dates of its installments
          BatchSizes, Floors,
          GateTime,         \* bound: the clock
          GateMoves         \* bound: what the world does between calls

ASSUME RelayerAssumption ==
    /\ \A p \in DOMAIN PlansOf : \A i \in DOMAIN PlansOf[p] : PlansOf[p][i] \in Nat
    /\ Floors \subseteq Nat /\ BatchSizes \subseteq Nat \ {0}

VARIABLES status,           \* (plan, index) -> open or resolved
          funded,           \* plans whose borrower can be collected from
          defaulted,        \* plans collect() refuses outright
          floor,            \* ParameterRegistry's RELAYER_DELAY_FLOOR
          role,             \* whether the operator still holds RELAYER_ROLE
          seconds, moved,
          pass,             \* the pass in progress
          collections       \* every check collected, by whom and when

chainVars == <<status, funded, defaulted, floor, role, seconds, moved>>
relayerVars == <<chainVars, pass, collections>>

Refs == UNION {{<<p, i>> : i \in DOMAIN PlansOf[p]} : p \in DOMAIN PlansOf}
dueAt(ref) == PlansOf[ref[1]][ref[2]]
ASSUME RefsAssumption == IsFiniteSet(Refs)

-----------------------------------------------------------------------------
\* What a pass reads: the due list, and the floor from the gate itself.
DueInstallment(ref) ==
    [ref |-> ref, dueAt |-> dueAt(ref), settled |-> status[ref] = "resolved",
     funded |-> ref[1] \in funded]

\* Unsettled, funded, past the floor, oldest first, no more than the batch; the
\* sort is stable and the list in no known order, so a day's checks come in any.
Qualifies(d, config, now) == ~d.settled /\ d.funded /\ now >= d.dueAt + config.delayFloor
OldestFirst(due) ==
    {s \in [1 .. Cardinality(due) -> due] :
        \A m, n \in DOMAIN s : m < n => s[m] # s[n] /\ s[m].dueAt <= s[n].dueAt}
eligible(due, config, now) ==
    {SubSeq(s, 1, IF Len(s) < config.batchSize THEN Len(s) ELSE config.batchSize) :
        s \in OldestFirst({d \in due : Qualifies(d, config, now)})}

\* One entry per plan, in the order its first installment came.
batch(chosen) ==
    LET planOf(n) == chosen[n].ref[1]
        firsts == {n \in DOMAIN chosen : \A m \in 1 .. (n - 1) : planOf(m) # planOf(n)}
        nth(k) == CHOOSE n \in firsts : Cardinality({m \in firsts : m < n}) = k - 1
    IN  [k \in 1 .. Cardinality(firsts) |->
            [plan |-> planOf(nth(k)),
             indices |-> {chosen[n].ref[2] : n \in {m \in DOMAIN chosen :
                                                        planOf(m) = planOf(nth(k))}}]]

NoPass == [running |-> FALSE, work |-> <<>>, results |-> {}, asked |-> {}]

BeginPass ==
    /\ ~pass.running
    /\ \E size \in BatchSizes :
        \E chosen \in eligible({DueInstallment(r) : r \in Refs},
                               [delayFloor |-> floor, batchSize |-> size], seconds) :
            LET work == batch(chosen)
            IN  /\ work # <<>>
                /\ pass' = [running |-> TRUE, work |-> work, results |-> {},
                            asked |-> {work[k] : k \in DOMAIN work}]
    /\ UNCHANGED <<chainVars, collections>>

\* RelayerGate.collectBatch, then the plan's: one early or resolved index, or a
\* plan that is over, reverts the whole call.
earliestFor(ref) == dueAt(ref) + floor
\* Mutant of requireLate: due is late enough.
requireDue(ref) == seconds >= dueAt(ref)

requireLate(ref) == seconds >= earliestFor(ref)
Takes(item) ==
    /\ role
    /\ item.plan \notin defaulted
    /\ \A i \in item.indices : requireLate(<<item.plan, i>>) /\ status[<<item.plan, i>>] = "open"
Collected(refs, keeper) ==
    /\ status' = [r \in Refs |-> IF r \in refs THEN "resolved" ELSE status[r]]
    /\ collections' = collections \cup
         {[ref |-> r, keeper |-> keeper, at |-> seconds, floor |-> floor] : r \in refs}

\* A batch that lands clears what is funded; one that reverts is one failed
\* result, and the pass goes on.
Crank ==
    /\ pass.running /\ pass.work # <<>>
    /\ LET item == Head(pass.work)
           refs == {<<item.plan, i>> : i \in item.indices}
           ok == Takes(item)
       IN  /\ pass' = [pass EXCEPT !.work = Tail(@), !.results = @ \cup
                         {[plan |-> item.plan, indices |-> item.indices, ok |-> ok]}]
           /\ Collected(IF ok /\ item.plan \in funded THEN refs ELSE {}, "gate")
    /\ UNCHANGED <<funded, defaulted, floor, role, seconds, moved>>
EndPass ==
    /\ pass.running /\ pass.work = <<>>
    /\ pass' = NoPass
    /\ UNCHANGED <<chainVars, collections>>

-----------------------------------------------------------------------------
\* Anybody may collect once it is due; a balance comes and goes; a plan is
\* charged off; governance moves the floor or takes the role away.
ThirdPartyCollects ==
    /\ \E r \in Refs :
        /\ status[r] = "open" /\ r[1] \in funded /\ r[1] \notin defaulted /\ seconds >= dueAt(r)
        /\ Collected({r}, "market")
    /\ UNCHANGED <<funded, defaulted, floor, role, seconds, moved, pass>>
WorldMoves ==
    /\ moved < GateMoves
    /\ moved' = moved + 1
    /\ \/ /\ \E p \in DOMAIN PlansOf : funded' = IF p \in funded THEN funded \ {p} ELSE funded \cup {p}
          /\ UNCHANGED <<defaulted, floor, role>>
       \/ /\ \E p \in DOMAIN PlansOf \ defaulted : defaulted' = defaulted \cup {p}
          /\ UNCHANGED <<funded, floor, role>>
       \/ floor' \in Floors \ {floor} /\ UNCHANGED <<funded, defaulted, role>>
       \/ role' = FALSE /\ role /\ UNCHANGED <<funded, defaulted, floor>>
    /\ UNCHANGED <<status, seconds, pass, collections>>
GateTick ==
    /\ seconds < GateTime
    /\ seconds' = seconds + 1
    /\ UNCHANGED <<status, funded, defaulted, floor, role, moved, pass, collections>>

RelayerInit ==
    /\ status = [r \in Refs |-> "open"]
    /\ funded = DOMAIN PlansOf /\ defaulted = {}
    /\ floor \in Floors /\ role = TRUE /\ seconds = 0 /\ moved = 0
    /\ pass = NoPass /\ collections = {}

RelayerNext == BeginPass \/ Crank \/ EndPass \/ ThirdPartyCollects \/ WorldMoves \/ GateTick

RelayerSpec == RelayerInit /\ [][RelayerNext]_relayerVars
               /\ WF_relayerVars(BeginPass) /\ WF_relayerVars(Crank) /\ WF_relayerVars(EndPass)

-----------------------------------------------------------------------------
\* COLL-10: how much of the work the operator is not doing.
keeperShare ==
    LET byOperator == Cardinality({c \in collections : c.keeper = "gate"})
        total == Cardinality(collections)
    IN  [total |-> total, byOperator |-> byOperator, byThirdParty |-> total - byOperator,
         thirdPartyBps |-> IF total = 0 THEN 0
                           ELSE ((total - byOperator) * 20000 + total) \div (2 * total)]

\* relayer.ts: "the operator's collections all came from there and all came
\* late": every one waited out the floor in force when it landed, whatever the
\* floor was when the pass chose it, and no check is collected by two keepers,
\* so the measured share is a share of distinct checks.
OperatorCollectsLate ==
    /\ \A c \in collections : c.keeper = "gate" => c.at >= dueAt(c.ref) + c.floor
    /\ \A c, d \in collections : c.ref = d.ref => c = d
    /\ keeperShare.thirdPartyBps = 10000 <=>
            collections # {} /\ \A c \in collections : c.keeper = "market"

\* relayer.ts, "Never throws": a pass that ends has one answer for every plan it
\* set out to crank, whatever happened to the ones before.
APassAnswersForEveryPlan ==
    pass.running /\ pass.work = <<>> =>
        {[plan |-> r.plan, indices |-> r.indices] : r \in pass.results} = pass.asked

\* What the measurement of third-party collection rests on.
TheRelayerOnlyBacksUp == OperatorCollectsLate /\ APassAnswersForEveryPlan

-----------------------------------------------------------------------------
(* What the documentation says and the code does not do. *)

\* What a relayer that "stops servicing every other one" would break: the
\* operator's keeper comes in the end to every late, funded check of a live
\* plan, if nobody else does.  The oldest it cannot collect fill its batch.
Late(ref) == /\ status[ref] = "open" /\ ref[1] \in funded \ defaulted
             /\ role /\ seconds >= earliestFor(ref)
EveryLateCheckIsReached == \A ref \in Refs : Late(ref) ~> ~Late(ref)
=============================================================================
