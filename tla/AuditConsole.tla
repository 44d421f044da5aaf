---------------------------- MODULE AuditConsole ----------------------------
(***************************************************************************)
(* services/servicing: the operators' console.  Every capability is        *)
(* exercised by perform(): a check, the action, then an entry appended to  *)
(* a hash-chained log.  The append reads the tail, awaits, and inserts;    *)
(* Postgres refuses a second entry with the same predecessor, the map of a *)
(* development process does not.                                           *)
(***************************************************************************)
EXTENDS Integers, Sequences, FiniteSets, TLC

CONSTANTS
    Operators, Roles,      \* Roles: each operator's roles
    Commands,              \* requests that may be under way at once
    DurableAudit,          \* TRUE for PgAuditLog, FALSE for the in-memory log
    EntryBound

ASSUME AuditAssumption ==
    /\ Roles \in [Operators -> SUBSET {"readonly", "support", "risk", "admin"}]
    /\ DurableAudit \in BOOLEAN

VARIABLES
    audit,      \* operator.audit_entry, in the order it was written
    command,    \* what each request holds across its awaits
    done,       \* actions carried out: <<command number, capability, operator>>
    refused,    \* the commands of them whose entry was refused
    commands    \* commands made so far

auditVars == <<audit, command, done, refused, commands>>

---------------------------------------------------------------------------
(* console.ts *)

Capability ==
    {"plan.read", "plan.note", "notice.resend", "fee.waive", "parameter.set",
     "pause.trip", "pause.clear", "killswitch.read", "audit.read"}

GRANTS ==
    [readonly |-> {"plan.read", "killswitch.read", "audit.read"},
     support |-> {"plan.read", "plan.note", "notice.resend", "fee.waive", "audit.read"},
     risk |-> {"plan.read", "killswitch.read", "parameter.set", "pause.trip", "audit.read"},
     admin |-> Capability \ {"fee.waive"}]

Can(operator, capability) == \E role \in Roles[operator] : capability \in GRANTS[role]

GENESIS == <<>>

\* The hash of an entry is taken to be its preimage, the predecessor included.
AuditPreimage(entry) ==
    <<entry.previous, entry.seq, entry.operator, entry.capability, entry.reason>>

\* An entry with no reason throws.
CanChain(input) == input.reason # ""

ChainEntry(previous, seq, input) ==
    LET entry == [seq |-> seq, operator |-> input.operator, capability |-> input.capability,
                  number |-> input.number, reason |-> input.reason, previous |-> previous]
    IN  entry @@ [hash |-> AuditPreimage(entry)]

\* The columns of operator.audit_entry, the hash one of them.
AuditEntry(entry) ==
    /\ entry.seq \in Nat /\ entry.operator \in Operators
    /\ entry.capability \in Capability /\ entry.reason # ""
    /\ entry.hash = AuditPreimage(entry)

\* In sequence order, each entry names the one before it and hashes to itself.
VerifyChain(entries) ==
    \A i \in DOMAIN entries :
        /\ entries[i].previous = IF i = 1 THEN GENESIS ELSE entries[i - 1].hash
        /\ AuditPreimage(entries[i]) = entries[i].hash

\* The log in sequence order, as all() returns it.
All(log) == SortSeq(log, LAMBDA x, y : x.seq < y.seq)

Tail_(log) == All(log)[Len(log)]
Head_(log) == IF log = <<>> THEN GENESIS ELSE Tail_(log).hash

ForSubject(log, number) == SelectSeq(All(log), LAMBDA e : e.number = number)

---------------------------------------------------------------------------
(* The routes of api.ts, each one perform() on its own capability.         *)

Still == [stage |-> "idle"]

Holds(c, to) == command' = [command EXCEPT ![c] = to]

AuditInit ==
    /\ audit = <<>>
    /\ command = [c \in Commands |-> Still]
    /\ done = {}
    /\ refused = {}
    /\ commands = 0

\* guard() and perform() ask the same question before anything is done.
Authorize(c, operator, capability, reason) ==
    /\ command[c] = Still
    /\ commands < EntryBound
    /\ Can(operator, capability)
    /\ commands' = commands + 1
    /\ Holds(c, [stage |-> "act", operator |-> operator, capability |-> capability,
                 number |-> commands + 1, reason |-> reason])
    /\ UNCHANGED <<audit, done, refused>>

WaiveFee(c, o, reason) == Authorize(c, o, "fee.waive", reason)
ResendNotice(c, o, reason) == Authorize(c, o, "notice.resend", reason)
SetParameter(c, o, reason) == Authorize(c, o, "parameter.set", reason)
TripPause(c, o, reason) == Authorize(c, o, "pause.trip", reason)

\* The action is awaited; one that throws ends the command with no entry.
Act(c, succeeds) ==
    LET held == command[c] IN
    /\ held.stage = "act"
    /\ IF succeeds
       THEN /\ done' = done \cup {<<held.number, held.capability, held.operator>>}
            /\ Holds(c, [held EXCEPT !.stage = "tail"])
       ELSE Holds(c, Still) /\ UNCHANGED done
    /\ UNCHANGED <<audit, refused, commands>>

\* append: the tail is read.  The in-memory log takes its length later.
ReadTail(c) ==
    LET held == command[c] IN
    /\ held.stage = "tail"
    /\ IF CanChain(held)
       THEN /\ Holds(c, [held EXCEPT !.stage = "insert"]
                          @@ [previous |-> Head_(audit),
                              seq |-> IF audit = <<>> THEN 0 ELSE Tail_(audit).seq + 1])
            /\ UNCHANGED refused
       ELSE Holds(c, Still) /\ refused' = refused \cup {held.number}
    /\ UNCHANGED <<audit, done, commands>>

\* Mutant of Forks: nothing keeps two entries off one predecessor.
ForksByHash(log, entry) == \E i \in DOMAIN log : log[i].hash = entry.hash

\* The three unique columns of audit_entry.
Forks(log, entry) ==
    \E i \in DOMAIN log :
        \/ log[i].seq = entry.seq
        \/ log[i].previous = entry.previous
        \/ log[i].hash = entry.hash

InsertEntry(c) ==
    LET held == command[c]
        entry == ChainEntry(held.previous,
                            IF DurableAudit THEN held.seq ELSE Len(audit), held)
    IN  /\ held.stage = "insert"
        /\ IF DurableAudit /\ Forks(audit, entry)
           THEN refused' = refused \cup {held.number} /\ UNCHANGED audit
           ELSE audit' = Append(audit, entry) /\ UNCHANGED refused
        /\ Holds(c, Still)
        /\ UNCHANGED <<done, commands>>

ConsoleDies ==
    /\ \E c \in Commands : command[c] # Still
    /\ command' = [c \in Commands |-> Still]
    /\ refused' = refused \cup {command[c].number :
                     c \in {k \in Commands : command[k].stage \in {"tail", "insert"}}}
    /\ audit' = IF DurableAudit THEN audit ELSE <<>>
    /\ UNCHANGED <<done, commands>>

AuditNext ==
    \/ \E c \in Commands, o \in Operators, reason \in {"", "why"} :
            \/ WaiveFee(c, o, reason) \/ ResendNotice(c, o, reason)
            \/ SetParameter(c, o, reason) \/ TripPause(c, o, reason)
    \/ \E c \in Commands :
            \/ \E succeeds \in BOOLEAN : Act(c, succeeds)
            \/ ReadTail(c) \/ InsertEntry(c)
    \/ ConsoleDies

AuditSpec == AuditInit /\ [][AuditNext]_auditVars

\* GET /ops/audit: for whoever may read it, the log beside its verification.
OpsAudit(operator) ==
    IF Can(operator, "audit.read")
    THEN {[head |-> Head_(audit), integrity |-> VerifyChain(All(audit)), entries |-> All(audit)]}
    ELSE {}

---------------------------------------------------------------------------
(* Properties. *)

\* What a reader is served verifies, down to the head it is served under.
ReadersSeeTheChain ==
    DurableAudit => \A operator \in Operators : \A view \in OpsAudit(operator) :
        /\ view.integrity
        /\ view.entries # <<>> => view.head = view.entries[Len(view.entries)].hash

\* However appends race, the chain verifies: an entry is refused rather than
\* given a predecessor another entry has already claimed.
ChainVerifies == DurableAudit => VerifyChain(All(audit))

\* Each entry is of one action that was carried out, by an operator whose roles
\* grant it, and an action with no entry is one whose append is still to come
\* or was refused: the log invents nothing and loses nothing else.
LogTellsWhatWasDone ==
    /\ \A i \in DOMAIN audit :
          /\ AuditEntry(audit[i])
          /\ <<audit[i].number, audit[i].capability, audit[i].operator>> \in done
          /\ Can(audit[i].operator, audit[i].capability)
          /\ Len(ForSubject(audit, audit[i].number)) = 1
    /\ DurableAudit =>
         \A a \in done :
            \/ ForSubject(audit, a[1]) # <<>>
            \/ a[1] \in refused
            \/ \E c \in Commands :
                  command[c].stage \in {"tail", "insert"} /\ command[c].number = a[1]

\* The log can be relied on: it verifies, and it says what was done.
LogIsEvidence == ChainVerifies /\ LogTellsWhatWasDone /\ ReadersSeeTheChain
=============================================================================
