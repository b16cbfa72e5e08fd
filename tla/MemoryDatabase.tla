--------------------------- MODULE MemoryDatabase ---------------------------
(***************************************************************************)
(* transaction() and query() of db/postgres.ts over the in-memory store:   *)
(* one stack of snapshots for the whole process.  Its statements are       *)
(* answered in the same turn of the event loop, so a call runs to its end  *)
(* before the next turn, and callbacks interleave, at every statement they *)
(* await, when events of one packet started them.  The callbacks are those *)
(* of MailboxRepository and, in a turn of its own, a refresh that refuses  *)
(* an expired token: it has written before it throws (authService.ts:302). *)
(*                                                                         *)
(* The reference is MailboxRepository: what PostgreSQL does.               *)
(***************************************************************************)
EXTENDS MemoryStore

CONSTANTS
    Calls,      \* slots for calls in progress
    MaxCalls,   \* how many calls are made
    Limits      \* page sizes of the queries

ASSUME MemoryDatabaseAssumption ==
    /\ IsFiniteSet(Calls) /\ IsFiniteSet(Tokens)
    /\ {MaxId, MaxCalls} \subseteq Nat /\ Limits \subseteq Nat \ {0}

VARIABLES
    store, stack,
    call,       \* the calls in progress
    calls,      \* how many were made
    given,      \* the mailbox ids callers were told for each message
    promised,   \* history: what MailboxRepository makes of the calls that returned
    contended,  \* history: messages with two calls in progress at a time
    restarted,  \* history: messages whose record was assigned as a whole
    replaced    \* history: messages that were queued again

vars == <<store, stack, call, calls, given, promised, contended, restarted, replaced>>

history == <<promised, contended, restarted, replaced>>

Idle == [op |-> "none", next |-> 0, key |-> "none", id |-> 0]

\* how many statements each callback has; undecryptable is a plain query
Length == [queue |-> 2, attempt |-> 1, schedule |-> 2, fail |-> 2, deliver |-> 2,
           acknowledge |-> 2, read |-> 1, undecryptable |-> 1, refuse |-> 1]

Ops == DOMAIN Length

Transactional(op) == op \in Ops \ {"undecryptable"}

Open(c) == Transactional(call[c].op)

Init == /\ store = EmptyStore /\ stack = <<>>
        /\ call = [c \in Calls |-> Idle] /\ calls = 0
        /\ given = [m \in Messages |-> {}]
        /\ promised = [m \in Messages |-> [row |-> NoRow, record |-> NoRecord]]
        /\ contended = {} /\ restarted = {} /\ replaced = {}

-----------------------------------------------------------------------------
(* The statements of the callbacks, in their order.                        *)

Mailbox == "mailbox"
Deliveries == "message_deliveries"

Record(m, status) == [key |-> m, status |-> status]

Raised(n) == IF n < MaxRetries THEN n + 1 ELSE n

RowsExcept(s, table, key, settled) == {r \in Named(s, table, key) : r.status \notin settled}

WithId(s, id) == {r \in Rows(s, Mailbox) : r.id = id}

Queue(s, m, i) ==
    IF i = 1 THEN Insert(s, Mailbox, Record(m, "queued"), "none")
    ELSE Insert(s, Deliveries,
                [key |-> m, status |-> "queued", attempts |-> 0, retry |-> "past"], "update")

Attempt(s, m) ==
    LET rows == s.tables[Deliveries]
    IN With(s, Deliveries,
            [i \in DOMAIN rows |->
                IF rows[i].key = m
                THEN [rows[i] EXCEPT !.attempts = Raised(@), !.retry = "future"]
                ELSE rows[i]])

Schedule(s, m, i) ==
    IF i = 1
    THEN Update(s, Deliveries,
                RowsExcept(s, Deliveries, m, {"acknowledged", "read", "failed"}),
                [status |-> "queued", retry |-> "future"])
    ELSE Update(s, Mailbox, RowsExcept(s, Mailbox, m, {"acknowledged", "failed"}),
                [status |-> "queued"])

Fail(s, m, i) ==
    IF i = 1
    THEN Update(s, Deliveries, Named(s, Deliveries, m), [status |-> "failed", retry |-> "null"])
    ELSE Update(s, Mailbox, Named(s, Mailbox, m), [status |-> "failed"])

Deliver(s, m, id, i) ==
    IF i = 1 THEN Update(s, Mailbox, WithId(s, id), [status |-> "delivered"])
    ELSE Update(s, Deliveries, Named(s, Deliveries, m), [status |-> "delivered"])

Acknowledge(s, m, id, i) ==
    IF i = 1 THEN Delete(s, Mailbox, WithId(s, id) \cup Named(s, Mailbox, m))
    ELSE Insert(s, Deliveries, [key |-> m, status |-> "acknowledged", retry |-> "null"],
                "update")

Read(s, m) == Update(s, Deliveries, Named(s, Deliveries, m), [status |-> "read"])

Undecryptable(s, m) == Insert(s, Deliveries, Record(m, "decryption_failed"), "update")

Revoke(s, t) == Update(s, "refresh_tokens", Named(s, "refresh_tokens", t), [status |-> "revoked"])

Effect(s, c, i) ==
    LET m == c.key
    IN CASE c.op = "queue" -> Queue(s, m, i)
         [] c.op = "attempt" -> Attempt(s, m)
         [] c.op = "schedule" -> Schedule(s, m, i)
         [] c.op = "fail" -> Fail(s, m, i)
         [] c.op = "deliver" -> Deliver(s, m, c.id, i)
         [] c.op = "acknowledge" -> Acknowledge(s, m, c.id, i)
         [] c.op = "read" -> Read(s, m)
         [] c.op = "undecryptable" -> Undecryptable(s, m)
         [] c.op = "refuse" -> Revoke(s, m)

\* What MailboxRepository says the same calls do to their message.
Promise(c) ==
    LET m == c.key
        row == promised[m].row
        record == promised[m].record
        becomes(newRow, newRecord) ==
            [promised EXCEPT ![m] = [row |-> newRow, record |-> newRecord]]
    IN CASE c.op = "queue" -> IF Present(row) THEN promised
                              ELSE becomes(QueuedRow(c.id), QueuedRecord)
         [] c.op = "attempt" -> becomes(row, AttemptedRecord(record))
         [] c.op = "schedule" -> becomes(RescheduledRow(row), RescheduledRecord(record))
         [] c.op = "fail" -> becomes(FailedRow(row), FailedRecord(record))
         [] c.op = "deliver" -> becomes(DeliveredRow(row, c.id), DeliveredRecord(record))
         [] c.op = "acknowledge" -> becomes(AcknowledgedRow(row), AcknowledgedRecord(record))
         [] c.op = "read" -> becomes(row, ReadRecord(record))
         [] c.op = "undecryptable" -> becomes(row, UndecryptableRecord(record))

-----------------------------------------------------------------------------
(* A call begins, executes its statements one await at a time, and ends.   *)

Quiet == \A c \in Calls : call[c] = Idle

Refusing == \E c \in Calls : call[c].op = "refuse"

Begin(c, op, key, id) ==
    /\ call[c] = Idle /\ calls < MaxCalls /\ ~Refusing
    /\ calls' = calls + 1
    /\ call' = [call EXCEPT ![c] = [op |-> op, next |-> 1, key |-> key, id |-> id]]
    /\ stack' = IF Transactional(op) THEN Append(stack, store) ELSE stack
    /\ contended' = IF \E d \in Calls : call[d] # Idle /\ call[d].key = key
                    THEN contended \cup {key} ELSE contended
    /\ UNCHANGED <<store, given, promised, restarted, replaced>>

\* how many calls are about to take a serial number
Queueing == Cardinality({c \in Calls : call[c].op = "queue" /\ call[c].next = 1})

BeginQueue(c) ==
    /\ store.serial + Queueing < MaxId
    /\ \E m \in Messages : Begin(c, "queue", m, 0)

\* Callers know a message, and its mailbox id, from queueMessage.
BeginForMessage(c) ==
    \E op \in Ops \ {"queue", "refuse"}, m \in Messages : \E id \in given[m] :
        Begin(c, op, m, IF op \in {"deliver", "acknowledge"} THEN id ELSE 0)

BeginRefusal(c) == Quiet /\ \E t \in Tokens : Begin(c, "refuse", t, 0)

Restarts(c) == /\ c.op \in {"acknowledge", "undecryptable"}
               /\ Named(store, Deliveries, c.key) # {}

Replaces(c) == c.op = "queue" /\ c.next = 1 /\ Named(store, Mailbox, c.key) # {}

Statement(c) ==
    /\ call[c] # Idle
    /\ call[c].next <= Length[call[c].op]
    /\ store' = Effect(store, call[c], call[c].next)
    /\ call' = [call EXCEPT ![c].next = @ + 1,
                   ![c].id = IF call[c].op = "queue" /\ call[c].next = 1
                             THEN store'.serial ELSE @]
    /\ restarted' = IF Restarts(call[c]) THEN restarted \cup {call[c].key} ELSE restarted
    /\ replaced' = IF Replaces(call[c]) THEN replaced \cup {call[c].key} ELSE replaced
    /\ UNCHANGED <<stack, calls, given, promised, contended>>

\* mutant: a commit leaves its snapshot behind
SnapshotKept == stack

\* commitTransaction and rollbackTransaction pop whatever is on top.
SnapshotPopped == IF stack = <<>> THEN <<>> ELSE Front(stack)

\* mutant: the counters go back, the tables do not
CountersRestored == [store EXCEPT !.serial = IF stack = <<>> THEN @ ELSE Last(stack).serial]

Restored == IF stack = <<>> THEN store ELSE Last(stack)

Finished(c) == call[c] # Idle /\ call[c].next > Length[call[c].op]

Return(c) ==
    /\ Finished(c) /\ call[c].op # "refuse"
    /\ stack' = IF Open(c) THEN SnapshotPopped ELSE stack
    /\ call' = [call EXCEPT ![c] = Idle]
    /\ given' = IF call[c].op = "queue" THEN [given EXCEPT ![call[c].key] = @ \cup {call[c].id}]
                                        ELSE given
    /\ promised' = Promise(call[c])
    /\ UNCHANGED <<store, calls, contended, restarted, replaced>>

Throw(c) ==
    /\ Finished(c) /\ call[c].op = "refuse"
    /\ store' = Restored
    /\ stack' = SnapshotPopped
    /\ call' = [call EXCEPT ![c] = Idle]
    /\ UNCHANGED <<calls, given, history>>

\* The time of every retry that was scheduled comes, in a later turn.
TimePasses ==
    /\ Quiet
    /\ \E r \in Rows(store, Deliveries) : r.retry = "future"
    /\ store' = Update(store, Deliveries,
                       {r \in Rows(store, Deliveries) : r.retry = "future"}, [retry |-> "past"])
    /\ promised' = [m \in Messages |-> [promised[m] EXCEPT !.record.due = TRUE]]
    /\ UNCHANGED <<stack, call, calls, given, contended, restarted, replaced>>

Next == \/ \E c \in Calls : \/ BeginQueue(c) \/ BeginForMessage(c) \/ BeginRefusal(c)
                            \/ Statement(c) \/ Return(c) \/ Throw(c)
        \/ TimePasses

Spec == Init /\ [][Next]_vars

-----------------------------------------------------------------------------
MailboxRow == [key : Messages, status : RowStatus, id : 1 .. MaxId]

DeliveryRow == [key : Messages, status : RecordStatus, attempts : 0 .. MaxRetries,
                retry : Times]

TokenRow == [key : Tokens, status : {"valid", "revoked"}]

TypeOK ==
    /\ Rows(store, Mailbox) \subseteq MailboxRow
    /\ Rows(store, Deliveries) \subseteq DeliveryRow
    /\ Rows(store, "refresh_tokens") \subseteq TokenRow
    /\ store.serial \in 0 .. MaxId
    /\ calls \in 0 .. MaxCalls
    /\ call \in [Calls -> [op : Ops \cup {"none"}, next : 0 .. 3,
                           key : Messages \cup Tokens \cup {"none"}, id : 0 .. MaxId]]
    /\ given \in [Messages -> SUBSET (1 .. MaxId)]
    /\ promised \in [Messages -> [row : RowType, record : RecordType]]
    /\ contended \subseteq Messages /\ restarted \subseteq Messages /\ replaced \subseteq Messages

(* The constraints that PostgreSQL would enforce hold in the in-memory     *)
(* tables as well, whichever calls interleave: a key names one row, and so *)
(* does a mailbox id, also where a second INSERT took the place of a row.  *)
KeysAreUnique ==
    /\ \A t \in TableNames : \A i, j \in DOMAIN store.tables[t] :
           store.tables[t][i].key = store.tables[t][j].key => i = j
    /\ \A r, q \in Rows(store, Mailbox) : r.id = q.id => r = q
    /\ \A r \in Rows(store, Mailbox) : r.id <= store.serial

\* Each open transaction has one snapshot, and none is left of the others,
\* whatever the order in which overlapping ones begin and end.
SnapshotsAreOpen == Len(stack) = Cardinality({c \in Calls : Open(c)})

RowOf(m) == IF Named(store, Mailbox, m) = {} THEN NoRow
            ELSE LET r == CHOOSE r \in Named(store, Mailbox, m) : TRUE
                 IN [status |-> r.status, id |-> r.id]

RecordOf(m) == IF Named(store, Deliveries, m) = {} THEN NoRecord
               ELSE LET r == CHOOSE r \in Named(store, Deliveries, m) : TRUE
                    IN [status |-> r.status, attempts |-> r.attempts,
                        due |-> r.retry # "future"]

SameRow(m) == IF Present(promised[m].row) THEN RowOf(m) = promised[m].row
              ELSE Named(store, Mailbox, m) = {}

SameRecord(m) == \/ RecordOf(m) = promised[m].record
                 \/ RecordOf(m).status = "none" /\ promised[m].record.status = "none"
                 \/ m \in restarted /\ \E n \in 0 .. MaxRetries :
                        [RecordOf(m) EXCEPT !.attempts = n] = promised[m].record

(* Calls leave in memory what the same calls of MailboxRepository leave in *)
(* PostgreSQL, next to calls for other messages and to refreshes that are  *)
(* refused and undone.  Known differences: nothing locks the rows that two *)
(* calls for the same message share, a message queued twice replaces its   *)
(* row, and an upsert of the record starts attempt_count again.            *)
ImplementsRepository ==
    Quiet =>
        /\ \A m \in Messages \ (replaced \cup contended) : SameRow(m) /\ SameRecord(m)
        /\ \A r \in Rows(store, "refresh_tokens") : r.status = "valid"

Ids(rows) == {r.id : r \in rows}

PageOf(messages, limit) == Ids(Page({RowOf(m) : m \in messages}, limit))

(* The queries of the sweep and of a join find the messages, and the page  *)
(* of them, that SQL finds in the same tables, in every state that any     *)
(* interleaving leaves.  In memory d.status hides m.status, so this is not *)
(* so while a failed row has a record that became pending again.           *)
SelectsWhatSqlSelects ==
    \A limit \in Limits :
        /\ Ids(SelectPending(store, limit))
               = PageOf({m \in Messages : IsPending(RowOf(m), 0)}, limit)
        /\ (\A m \in Messages : RowOf(m).status = "failed" => RecordOf(m).status = "failed") =>
              /\ Ids(SelectCandidates(store, limit))
                     = PageOf({m \in Messages : IsCandidate(RowOf(m), RecordOf(m))}, limit)
              /\ Ids(SelectExhausted(store, limit))
                     = PageOf({m \in Messages : IsExhausted(RowOf(m), RecordOf(m))}, limit)
=============================================================================
