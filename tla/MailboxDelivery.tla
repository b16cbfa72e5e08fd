-------------------------- MODULE MailboxDelivery --------------------------
(***************************************************************************)
(* Delivery of direct messages: the socket handlers, acknowledgement       *)
(* timers and retry sweep of hichat-server/src/socket/chatSocket.ts, run   *)
(* by every server process of a deployment over one Postgres and one       *)
(* Redis, and the receiving client of hichat/src/hooks/useChatMessages.ts. *)
(*                                                                         *)
(* A handler runs from one await to the next without interruption, so a    *)
(* handler in progress is a job with a label (the await it is suspended    *)
(* at) and what it remembers across it; one action is the code from one    *)
(* await to the next.  The jobs of all processes interleave.               *)
(***************************************************************************)
EXTENDS MailboxRepository, Sequences, Functions

CONSTANTS
    Messages,       \* client-chosen message ids
    Users,          \* accounts
    To,             \* the recipient of each message
    Devices,        \* browsers that receive
    Owner,          \* the account a device is signed in to
    Nodes,          \* server processes; each also names its own retry sweep
    Workers,        \* slots for asynchronous handlers in progress
    Offline,        \* where a device is that has no connection
    Undecryptable,  \* messages whose decryption may fail
    Optional,       \* client events that are sent at the user's leisure
    Faults,         \* kinds of fault, and of rare client event, that may occur
    PendingLimit,   \* LIMIT of the replay of a join
    PageLimit,      \* LIMIT of the sweep's queries and of a resumption
    RecentLimit,    \* RECENT_DELIVERED_CACHE_LIMIT
    MaxSends,       \* bound: how often the sender submits a message
    MaxFaults       \* bound: how many of those occur

Procs == Nodes \cup Workers

Events == {"ack", "read", "decryption_error"}

ASSUME ConstantsAssumption ==
    /\ To \in [Messages -> Users]
    /\ Owner \in [Devices -> Users]
    /\ Nodes \cap Workers = {}
    /\ Offline \notin Nodes
    /\ Undecryptable \subseteq Messages
    /\ PendingLimit \in Nat \ {0}
    /\ PageLimit \in Nat \ {0}
    /\ RecentLimit \in Nat \ {0}
    /\ MaxSends \in Nat
    /\ MaxFaults \in Nat

VARIABLES
    mailbox,     \* table mailbox, by message
    record,      \* table message_deliveries, by message
    lastId,      \* the serial of mailbox.id
    timers,      \* inFlightAckTimers of each process
    recent,      \* recentDeliveredMessageIds of each process, oldest first
    job,         \* handlers in progress
    conn,        \* the process a device's socket is connected to
    flushed,     \* devices whose socket has mailboxFlushed set
    registered,  \* devices whose socket is in presence:user_sockets
    stale,       \* devices with a closed socket still in presence:user_sockets
    down,        \* receive_direct_message events on their way to a device
    up,          \* events on their way from a device
    processed,   \* processedMsgIdsRef of the page open on a device
    decrypted,   \* messages a device's Signal session has decrypted
    received,    \* history: messages some device has begun to process
    sends,       \* how often a message was submitted
    faults       \* how many events of Faults have occurred

database == <<mailbox, record, lastId>>
memory   == <<timers, recent>>
sockets  == <<conn, flushed>>
presence == <<registered, stale>>
channels == <<down, up>>
client   == <<processed, decrypted, received>>
bounds   == <<sends, faults>>

vars == <<database, memory, job, sockets, presence, channels, client, bounds>>

-----------------------------------------------------------------------------
(* Jobs.                                                                   *)

Entry == [id : Nat, msg : Messages]   \* a mailbox row a handler remembers

Labels == {"idle", "queue", "lookup", "attempt", "mark", "emit", "arm",
           "pending", "exhausted", "fail", "candidates", "dispatch",
           "ack", "remember", "timeout", "expire"}

Kinds == {"none", "send", "join", "resume", "sweep", "ack", "timer"}

JobFields ==
    [at     : Labels,
     kind   : Kinds,
     node   : Nodes \cup {Offline},
     rows   : SUBSET Entry,      \* rows still to be handled
     batch  : SUBSET Entry,      \* retryDispatches
     devs   : SUBSET Devices,    \* sockets to emit to
     users  : SUBSET Users,      \* onlineUserIds; the account to replay to
     tries  : 0 .. MaxRetries]   \* currentAttempts

\* at these labels a handler works on no row yet
RowlessLabels == {"idle", "pending", "exhausted", "candidates"}

JobType == {j \in JobFields : j.at \in RowlessLabels \/ j.rows # {}}

Idle == [at |-> "idle", kind |-> "none", node |-> Offline, rows |-> {},
         batch |-> {}, devs |-> {}, users |-> {}, tries |-> 0]

Job(kind, label, n, rows) ==
    [Idle EXCEPT !.kind = kind, !.at = label, !.node = n, !.rows = rows]

At(p, label) == job[p].at = label

\* how a handler goes on
Become(p, j) == job' = [job EXCEPT ![p] = j]

Goto(p, label) == Become(p, [job[p] EXCEPT !.at = label])

Finish(p) == Become(p, Idle)

Current(p) == Least(job[p].rows)

Rest(p) == job[p].rows \ {Current(p)}

\* the loop `for (const msg of ...)` goes on with the next row or ends
NextRow(p, again) ==
    Become(p, IF Rest(p) = {} THEN Idle
              ELSE [job[p] EXCEPT !.at = again, !.rows = Rest(p)])

\* PresenceService.getUserSockets: closed sockets count as well
Sockets(u) == {d \in registered \cup stale : Owner[d] = u}

OpenSockets(u) == {d \in registered : Owner[d] = u}

OnlineUsers == {Owner[d] : d \in registered \cup stale}

\* io.to(socketId).emit: nothing is sent to a closed socket
Sent(ds, m) == [d \in Devices |-> IF d \in ds THEN Append(down[d], m) ELSE down[d]]

Armed(n, m) == [timers EXCEPT ![n] = @ \cup {m}]

\* markMessageDelivered: evict the oldest id when the cache is full, then add
Remembered(cache, m) ==
    LET kept == IF Len(cache) >= RecentLimit THEN Tail(cache) ELSE cache
    IN  IF m \in Range(kept) THEN kept ELSE Append(kept, m)

\* mutant: a message that was merely dispatched counts as delivered
AlreadyDispatched(n, m) ==
    \/ m \in Range(recent[n])
    \/ record[m].status \in {"delivered", "acknowledged", "read"}

AlreadyDelivered(n, m) ==
    \/ m \in Range(recent[n])
    \/ record[m].status \in {"acknowledged", "read"}

Init ==
    /\ mailbox = [m \in Messages |-> NoRow]
    /\ record = [m \in Messages |-> NoRecord]
    /\ lastId = 0
    /\ timers = [n \in Nodes |-> {}]
    /\ recent = [n \in Nodes |-> <<>>]
    /\ job = [p \in Procs |-> Idle]
    /\ conn = [d \in Devices |-> Offline]
    /\ flushed = {}
    /\ registered = {}
    /\ stale = {}
    /\ down = [d \in Devices |-> <<>>]
    /\ up = [d \in Devices |-> <<>>]
    /\ processed = [d \in Devices |-> {}]
    /\ decrypted = [d \in Devices |-> {}]
    /\ received = {}
    /\ sends = [m \in Messages |-> 0]
    /\ faults = 0

\* Every occurrence of a rare event uses up the bound MaxFaults.
Fault(kind) ==
    /\ kind \in Faults
    /\ faults < MaxFaults
    /\ faults' = faults + 1

-----------------------------------------------------------------------------
(* send_direct_message                                                     *)

\* Answers "already_delivered" and stops, or goes on to queue the message.
SendBegin(p, n, m) ==
    /\ At(p, "idle")
    /\ sends[m] < MaxSends
    /\ sends' = [sends EXCEPT ![m] = @ + 1]
    /\ Become(p, IF AlreadyDelivered(n, m) THEN Idle
                 ELSE Job("send", "queue", n, {[id |-> 0, msg |-> m]}))
    /\ UNCHANGED <<database, memory, sockets, presence, channels, client, faults>>

\* A row is still there: the UNIQUE constraint fails, "queued_mailbox" is
\* answered and the handler stops.
SendDuplicate(p) ==
    /\ At(p, "queue")
    /\ Present(mailbox[Current(p).msg])
    /\ Finish(p)
    /\ UNCHANGED <<database, memory, sockets, presence, channels, client, bounds>>

SendQueue(p) ==
    LET m == Current(p).msg IN
    /\ At(p, "queue")
    /\ ~Present(mailbox[m])
    /\ lastId' = lastId + 1
    /\ mailbox' = [mailbox EXCEPT ![m] = QueuedRow(lastId + 1)]
    /\ record' = [record EXCEPT ![m] = QueuedRecord]
    /\ Become(p, [job[p] EXCEPT !.at = "lookup",
                                !.rows = {[id |-> lastId + 1, msg |-> m]}])
    /\ UNCHANGED <<memory, sockets, presence, channels, client, bounds>>

SendLookup(p) ==
    LET u == To[Current(p).msg] IN
    /\ At(p, "lookup")
    /\ Become(p, IF Sockets(u) = {} THEN Idle
                 ELSE [job[p] EXCEPT !.at = "attempt", !.devs = OpenSockets(u)])
    /\ UNCHANGED <<database, memory, sockets, presence, channels, client, bounds>>

SendEmit(p) ==
    LET m == Current(p).msg IN
    /\ At(p, "emit")
    /\ job[p].kind = "send"
    /\ down' = Sent(job[p].devs, m)
    /\ timers' = Armed(job[p].node, m)
    /\ Finish(p)
    /\ UNCHANGED <<database, recent, sockets, presence, up, client, bounds>>

-----------------------------------------------------------------------------
(* incrementAttempt then markDelivered: two transactions, shared by the    *)
(* live dispatch, the replay and the sweep.                                *)

Attempt(p) ==
    LET m == Current(p).msg IN
    /\ At(p, "attempt")
    /\ record' = [record EXCEPT ![m] = AttemptedRecord(@)]
    /\ Goto(p, "mark")
    /\ UNCHANGED <<mailbox, lastId, memory, sockets, presence, channels, client, bounds>>

\* The sweep collects what it marked and dispatches it after the loop.
AfterMark(p) ==
    IF job[p].kind # "sweep" THEN [job[p] EXCEPT !.at = "emit"]
    ELSE IF Rest(p) # {}
    THEN [job[p] EXCEPT !.at = "attempt", !.rows = Rest(p),
                        !.batch = @ \cup {Current(p)}]
    ELSE [job[p] EXCEPT !.at = "dispatch", !.rows = job[p].batch \cup {Current(p)},
                        !.batch = {}]

Mark(p) ==
    LET e == Current(p) IN
    /\ At(p, "mark")
    /\ mailbox' = [mailbox EXCEPT ![e.msg] = DeliveredRow(@, e.id)]
    /\ record' = [record EXCEPT ![e.msg] = DeliveredRecord(@)]
    /\ Become(p, AfterMark(p))
    /\ UNCHANGED <<lastId, memory, sockets, presence, channels, client, bounds>>

-----------------------------------------------------------------------------
(* join, switch_room, resume_delivery and deliverPendingMailbox            *)

\* join: markOnline, then the replay, once per connection.  The handler would start after
\* the payload's lastAckedMessageId, which no client of the repository sends.
Join(p, d) ==
    /\ At(p, "idle")
    /\ conn[d] # Offline
    /\ d \notin flushed
    /\ registered' = registered \cup {d}
    /\ flushed' = flushed \cup {d}
    /\ Become(p, [Job("join", "pending", conn[d], {})
                   EXCEPT !.devs = {d}, !.users = {Owner[d]}])
    /\ UNCHANGED <<database, memory, conn, stale, channels, client, bounds>>

\* switch_room, or a further join: markOnline only.
Refresh(d) ==
    /\ conn[d] # Offline
    /\ d \in flushed
    /\ d \notin registered
    /\ registered' = registered \cup {d}
    /\ UNCHANGED <<database, memory, job, sockets, stale, channels, client, bounds>>

\* The client asks for a replay; how often is bounded with the faults.
Resume(p, d) ==
    /\ At(p, "idle")
    /\ Fault("resume")
    /\ conn[d] # Offline
    /\ Become(p, [Job("resume", "pending", conn[d], {})
                   EXCEPT !.devs = {d}, !.users = {Owner[d]}])
    /\ UNCHANGED <<database, memory, sockets, presence, channels, client, sends>>

Rows(ms) == {[id |-> mailbox[m].id, msg |-> m] : m \in ms}

PendingRows(u, after) ==
    Rows({m \in Messages : To[m] = u /\ IsPending(mailbox[m], after)})

ReplayRows(u, kind, after) ==
    Page(PendingRows(u, after),
         IF kind = "join" THEN PendingLimit ELSE PageLimit)

\* The last message the client names counts only while its row is there; the
\* query for that row and the query for those after it are one read here.
ResumePoints(u, kind) ==
    {0} \cup {mailbox[m].id : m \in {x \in received :
                 kind = "resume" /\ To[x] = u /\ Present(mailbox[x])}}

ReplayRead(p) ==
    /\ At(p, "pending")
    /\ \E u \in job[p].users : \E after \in ResumePoints(u, job[p].kind) :
         LET rows == ReplayRows(u, job[p].kind, after) IN
         Become(p, IF rows = {} THEN Idle
                   ELSE [job[p] EXCEPT !.at = "attempt", !.rows = rows])
    /\ UNCHANGED <<database, memory, sockets, presence, channels, client, bounds>>

\* socket.emit, then `await emitToUser(sender)`.
ReplayEmit(p) ==
    /\ At(p, "emit")
    /\ job[p].kind \in {"join", "resume"}
    /\ down' = Sent(job[p].devs, Current(p).msg)
    /\ Goto(p, "arm")
    /\ UNCHANGED <<database, memory, sockets, presence, up, client, bounds>>

\* armAckTimer after that await, for the replay and for the sweep.
Arm(p) ==
    /\ At(p, "arm")
    /\ timers' = Armed(job[p].node, Current(p).msg)
    /\ NextRow(p, IF job[p].kind = "sweep" THEN "dispatch" ELSE "attempt")
    /\ UNCHANGED <<database, recent, sockets, presence, channels, client, bounds>>

-----------------------------------------------------------------------------
(* The retry sweep; job[n] is not idle while isSweepRunning.               *)

SweepTick(n) ==
    /\ At(n, "idle")
    /\ Become(n, [Job("sweep", "exhausted", n, {}) EXCEPT !.users = OnlineUsers])
    /\ UNCHANGED <<database, memory, sockets, presence, channels, client, bounds>>

Exhausted == {m \in Messages : IsExhausted(mailbox[m], record[m])}

Candidates == {m \in Messages : IsCandidate(mailbox[m], record[m])}

Found(ms) == Page(Rows(ms), PageLimit)

FailNext(n, rows) ==
    [job[n] EXCEPT !.at = IF rows = {} THEN "candidates" ELSE "fail", !.rows = rows]

SweepFindExhausted(n) ==
    LET rows == Found(Exhausted) IN
    /\ At(n, "exhausted")
    /\ Become(n, FailNext(n, rows))
    /\ UNCHANGED <<database, memory, sockets, presence, channels, client, bounds>>

SweepFail(n) ==
    LET m == Current(n).msg IN
    /\ At(n, "fail")
    /\ mailbox' = [mailbox EXCEPT ![m] = FailedRow(@)]
    /\ record' = [record EXCEPT ![m] = FailedRecord(@)]
    /\ Become(n, FailNext(n, Rest(n)))
    /\ UNCHANGED <<lastId, memory, sockets, presence, channels, client, bounds>>

\* The LIMIT comes before the test that the recipient is online.
SweepFindCandidates(n) ==
    LET rows == {e \in Found(Candidates) : To[e.msg] \in job[n].users} IN
    /\ At(n, "candidates")
    /\ Become(n, IF rows = {} THEN Idle
                 ELSE [job[n] EXCEPT !.at = "attempt", !.rows = rows])
    /\ UNCHANGED <<database, memory, sockets, presence, channels, client, bounds>>

\* The sockets are read again; a recipient that has none by now is skipped.
SweepSkip(n) ==
    /\ At(n, "dispatch")
    /\ Sockets(To[Current(n).msg]) = {}
    /\ NextRow(n, "dispatch")
    /\ UNCHANGED <<database, memory, sockets, presence, channels, client, bounds>>

SweepDispatch(n) ==
    LET u == To[Current(n).msg] IN
    /\ At(n, "dispatch")
    /\ Sockets(u) # {}
    /\ down' = Sent(OpenSockets(u), Current(n).msg)
    /\ Goto(n, "arm")
    /\ UNCHANGED <<database, memory, sockets, presence, up, client, bounds>>

-----------------------------------------------------------------------------
(* ack_direct_message, read_direct_message, signal_decryption_error        *)

Incoming(d, type) == up[d] # <<>> /\ Head(up[d]).type = type

\* The handler starts: clearAckTimer in this process only.
AckBegin(p, d) ==
    LET m == Head(up[d]).msg IN
    /\ At(p, "idle")
    /\ Incoming(d, "ack")
    /\ up' = [up EXCEPT ![d] = Tail(@)]
    /\ timers' = [timers EXCEPT ![conn[d]] = @ \ {m}]
    /\ Become(p, Job("ack", "ack", conn[d], {[id |-> 0, msg |-> m]}))
    /\ UNCHANGED <<database, recent, sockets, presence, down, client, bounds>>

AckCommit(p) ==
    LET m == Current(p).msg IN
    /\ At(p, "ack")
    /\ mailbox' = [mailbox EXCEPT ![m] = AcknowledgedRow(@)]
    /\ record' = [record EXCEPT ![m] = AcknowledgedRecord(@)]
    /\ Goto(p, "remember")
    /\ UNCHANGED <<lastId, memory, sockets, presence, channels, client, bounds>>

AckRemember(p) ==
    /\ At(p, "remember")
    /\ recent' = [recent EXCEPT ![job[p].node] = Remembered(@, Current(p).msg)]
    /\ Finish(p)
    /\ UNCHANGED <<database, timers, sockets, presence, channels, client, bounds>>

\* One transaction each, on whatever status the record has by then.
HandleRead(d) ==
    /\ Incoming(d, "read")
    /\ up' = [up EXCEPT ![d] = Tail(@)]
    /\ record' = [record EXCEPT ![Head(up[d]).msg] = ReadRecord(@)]
    /\ UNCHANGED <<mailbox, lastId, memory, job, sockets, presence, down, client, bounds>>

HandleDecryptionError(d) ==
    /\ Incoming(d, "decryption_error")
    /\ up' = [up EXCEPT ![d] = Tail(@)]
    /\ record' = [record EXCEPT ![Head(up[d]).msg] = UndecryptableRecord(@)]
    /\ UNCHANGED <<mailbox, lastId, memory, job, sockets, presence, down, client, bounds>>

-----------------------------------------------------------------------------
(* The acknowledgement timer and handleAckTimeout                          *)

TimerFires(p, n, m) ==
    /\ At(p, "idle")
    /\ m \in timers[n]
    /\ timers' = [timers EXCEPT ![n] = @ \ {m}]
    /\ Become(p, Job("timer", "timeout", n, {[id |-> 0, msg |-> m]}))
    /\ UNCHANGED <<database, recent, sockets, presence, channels, client, bounds>>

TimeoutRead(p) ==
    LET attempts == record[Current(p).msg].attempts IN
    /\ At(p, "timeout")
    /\ Become(p, [job[p] EXCEPT !.at = "expire",
                                !.tries = IF attempts = 0 THEN 1 ELSE attempts])
    /\ UNCHANGED <<database, memory, sockets, presence, channels, client, bounds>>

\* Acts on what TimeoutRead saw, not on what the tables hold by now.
TimeoutFail(p) ==
    LET m == Current(p).msg IN
    /\ At(p, "expire")
    /\ job[p].tries >= MaxRetries
    /\ mailbox' = [mailbox EXCEPT ![m] = FailedRow(@)]
    /\ record' = [record EXCEPT ![m] = FailedRecord(@)]
    /\ Finish(p)
    /\ UNCHANGED <<lastId, memory, sockets, presence, channels, client, bounds>>

TimeoutReschedule(p) ==
    LET m == Current(p).msg IN
    /\ At(p, "expire")
    /\ job[p].tries < MaxRetries
    /\ mailbox' = [mailbox EXCEPT ![m] = RescheduledRow(@)]
    /\ record' = [record EXCEPT ![m] = RescheduledRecord(@)]
    /\ Finish(p)
    /\ UNCHANGED <<lastId, memory, sockets, presence, channels, client, bounds>>

\* next_retry_at passes.
RetryDue(m) ==
    /\ record[m].status \in {"queued", "delivered"}
    /\ ~record[m].due
    /\ record' = [record EXCEPT ![m].due = TRUE]
    /\ UNCHANGED <<mailbox, lastId, memory, job, sockets, presence, channels, client, bounds>>

-----------------------------------------------------------------------------
(* The receiving client                                                    *)

Tell(d, type, m) == up' = [up EXCEPT ![d] = Append(@, [type |-> type, msg |-> m])]

Connect(d, n) ==
    /\ conn[d] = Offline
    /\ conn' = [conn EXCEPT ![d] = n]
    /\ UNCHANGED <<database, memory, job, flushed, presence, channels, client, bounds>>

\* handleReceiveDirectMessage on an id this page has already processed.
ReceiveAgain(d) ==
    LET m == Head(down[d]) IN
    /\ down[d] # <<>>
    /\ m \in processed[d]
    /\ down' = [down EXCEPT ![d] = Tail(@)]
    /\ Tell(d, "ack", m)
    /\ UNCHANGED <<database, memory, job, sockets, presence, client, bounds>>

\* The id counts as processed before decryption is tried.
Take(d, m) ==
    /\ down[d] # <<>>
    /\ m = Head(down[d])
    /\ m \notin processed[d]
    /\ down' = [down EXCEPT ![d] = Tail(@)]
    /\ processed' = [processed EXCEPT ![d] = @ \cup {m}]
    /\ received' = received \cup {m}

\* The await of the decryption and what follows it are one step.
Receive(d, m) ==
    /\ Take(d, m)
    /\ m \notin decrypted[d]
    /\ decrypted' = [decrypted EXCEPT ![d] = @ \cup {m}]
    /\ Tell(d, "ack", m)
    /\ UNCHANGED <<database, memory, job, sockets, presence, bounds>>

\* decryptMessage throws, a ratchet key being used up or the session out of
\* step: the error is logged and nothing is sent.  A page without a key store
\* does not decrypt at all, which leaves the same behind.
ReceiveUndecryptable(d, m) ==
    /\ Take(d, m)
    /\ m \in decrypted[d] \cup Undecryptable
    /\ UNCHANGED <<database, memory, job, sockets, presence, up, decrypted, bounds>>

\* The user opens the conversation.
SendRead(d, m) ==
    /\ "read" \in Optional
    /\ conn[d] # Offline
    /\ m \in processed[d] \cap decrypted[d]
    /\ [type |-> "read", msg |-> m] \notin Range(up[d])
    /\ Tell(d, "read", m)
    /\ UNCHANGED <<database, memory, job, sockets, presence, down, client, bounds>>

\* A client may report a failed decryption; the repository's own never does.
SendDecryptionError(d, m) ==
    /\ "decryption_error" \in Optional
    /\ conn[d] # Offline
    /\ m \in processed[d] \ decrypted[d]
    /\ [type |-> "decryption_error", msg |-> m] \notin Range(up[d])
    /\ Tell(d, "decryption_error", m)
    /\ UNCHANGED <<database, memory, job, sockets, presence, down, client, bounds>>

-----------------------------------------------------------------------------
(* Faults                                                                  *)

\* The sockets of ds close: what is in flight is lost, jobs have no one to
\* emit to, and presence does not know yet.
Close(ds) ==
    /\ conn' = [d \in Devices |-> IF d \in ds THEN Offline ELSE conn[d]]
    /\ flushed' = flushed \ ds
    /\ registered' = registered \ ds
    /\ stale' = stale \cup (registered \cap ds)
    /\ down' = [d \in Devices |-> IF d \in ds THEN <<>> ELSE down[d]]
    /\ up' = [d \in Devices |-> IF d \in ds THEN <<>> ELSE up[d]]

WithoutDevices(j, ds) == [j EXCEPT !.devs = @ \ ds]

Disconnect(d) ==
    /\ Fault("disconnect")
    /\ conn[d] # Offline
    /\ Close({d})
    /\ job' = [p \in Procs |-> WithoutDevices(job[p], {d})]
    /\ UNCHANGED <<database, memory, client, sends>>

\* The page is reloaded: processedMsgIdsRef is lost, the Signal session in
\* IndexedDB is not.
Reload(d) ==
    /\ Fault("reload")
    /\ conn[d] # Offline
    /\ Close({d})
    /\ job' = [p \in Procs |-> WithoutDevices(job[p], {d})]
    /\ processed' = [processed EXCEPT ![d] = {}]
    /\ UNCHANGED <<database, memory, decrypted, received, sends>>

\* markOffline, the cleanup or the TTL removes a closed socket.
Forget(d) ==
    /\ d \in stale
    /\ stale' = stale \ {d}
    /\ UNCHANGED <<database, memory, job, sockets, registered, channels, client, bounds>>

\* The 60 s TTL of presence:user_sockets runs out on a connected user.
Expire(u) ==
    /\ Fault("expire")
    /\ Sockets(u) # {}
    /\ registered' = {d \in registered : Owner[d] # u}
    /\ stale' = {d \in stale : Owner[d] # u}
    /\ UNCHANGED <<database, memory, job, sockets, channels, client, sends>>

\* A query of Postgres or Redis rejects: the handler's catch ends it.
Abort(p) ==
    /\ Fault("abort")
    /\ ~At(p, "idle")
    /\ Finish(p)
    /\ UNCHANGED <<database, memory, sockets, presence, channels, client, sends>>

\* A server process dies, with its timers, its cache and its handlers.
Crash(n) ==
    LET ds == {d \in Devices : conn[d] = n} IN
    /\ Fault("crash")
    /\ Close(ds)
    /\ timers' = [timers EXCEPT ![n] = {}]
    /\ recent' = [recent EXCEPT ![n] = <<>>]
    /\ job' = [p \in Procs |-> IF job[p].node = n THEN Idle
                               ELSE WithoutDevices(job[p], ds)]
    /\ UNCHANGED <<database, client, sends>>

-----------------------------------------------------------------------------
Handler(p) ==
    \/ SendDuplicate(p) \/ SendQueue(p) \/ SendLookup(p) \/ SendEmit(p)
    \/ Attempt(p) \/ Mark(p)
    \/ ReplayRead(p) \/ ReplayEmit(p) \/ Arm(p)
    \/ AckCommit(p) \/ AckRemember(p)
    \/ TimeoutRead(p) \/ TimeoutFail(p) \/ TimeoutReschedule(p)

Sweep(n) ==
    \/ SweepTick(n) \/ SweepFindExhausted(n) \/ SweepFail(n)
    \/ SweepFindCandidates(n) \/ SweepSkip(n) \/ SweepDispatch(n)

Start(p) ==
    \/ \E d \in Devices : Join(p, d) \/ Resume(p, d) \/ AckBegin(p, d)
    \/ \E n \in Nodes, m \in Messages : SendBegin(p, n, m) \/ TimerFires(p, n, m)

Client(d) ==
    \/ \E n \in Nodes : Connect(d, n)
    \/ Refresh(d) \/ HandleRead(d) \/ HandleDecryptionError(d)
    \/ ReceiveAgain(d)
    \/ \E m \in Messages : \/ Receive(d, m) \/ ReceiveUndecryptable(d, m)
                           \/ SendRead(d, m) \/ SendDecryptionError(d, m)

Environment ==
    \/ \E d \in Devices : Disconnect(d) \/ Reload(d) \/ Forget(d)
    \/ \E u \in Users : Expire(u)
    \/ \E p \in Procs : Abort(p)
    \/ \E n \in Nodes : Crash(n)
    \/ \E m \in Messages : RetryDue(m)

Next ==
    \/ \E p \in Procs : Handler(p)
    \/ \E p \in Workers : Start(p)
    \/ \E n \in Nodes : Sweep(n)
    \/ \E d \in Devices : Client(d)
    \/ Environment

Spec == Init /\ [][Next]_vars

(* Handlers run on, timers and the sweep fire, due times pass, and a       *)
(* recipient that is away comes back and joins.                            *)
Fairness ==
    /\ \A p \in Procs : WF_vars(Handler(p))
    /\ \A n \in Nodes : WF_vars(Sweep(n))
    /\ \A p \in Workers : /\ \A d \in Devices : /\ WF_vars(Join(p, d))
                                               /\ WF_vars(AckBegin(p, d))
                         /\ \A n \in Nodes, m \in Messages :
                                WF_vars(TimerFires(p, n, m))
    /\ \A d \in Devices : /\ WF_vars(\E n \in Nodes : Connect(d, n))
                          /\ WF_vars(\E m \in Messages : Receive(d, m))
                          /\ WF_vars(ReceiveAgain(d))
    /\ \A m \in Messages : WF_vars(RetryDue(m))

FairSpec == Spec /\ Fairness

-----------------------------------------------------------------------------
(* Safety                                                                  *)

DatabaseOK == /\ mailbox \in [Messages -> RowType]
              /\ record \in [Messages -> RecordType]
              /\ lastId \in Nat

MemoryOK == /\ timers \in [Nodes -> SUBSET Messages]
            /\ recent \in [Nodes -> Seq(Messages)]

JobsOK == job \in [Procs -> JobType]

SocketsOK == /\ conn \in [Devices -> Nodes \cup {Offline}]
             /\ flushed \subseteq Devices
             /\ registered \subseteq Devices
             /\ stale \subseteq Devices

ChannelsOK == /\ down \in [Devices -> Seq(Messages)]
              /\ up \in [Devices -> Seq([type : Events, msg : Messages])]

ClientOK == /\ processed \in [Devices -> SUBSET Messages]
            /\ decrypted \in [Devices -> SUBSET Messages]
            /\ received \subseteq Messages

BoundsOK == sends \in [Messages -> Nat] /\ faults \in Nat

\* Every variable has its shape, and no handler comes to a step that works on
\* a mailbox row without one.
TypeOK == /\ DatabaseOK
          /\ MemoryOK
          /\ JobsOK
          /\ SocketsOK
          /\ ChannelsOK
          /\ ClientOK
          /\ BoundsOK

\* The server has taken responsibility for the message.
Accepted(m) == mailbox[m].id > 0

Displayed(m) == \E d \in Devices : m \in decrypted[d]

\* The recipient has the message: some device processed it, and unless the
\* decryption failed there, some device displayed its text.
Delivered(m) == m \in received /\ (m \notin Undecryptable => Displayed(m))

\* At-least-once delivery: whatever crashes, disconnects or fails between two
\* steps, the mailbox row of an accepted message is gone only when the
\* recipient has the message (acknowledgeMessage is the only DELETE).
PurgedOnlyAfterDelivery ==
    \A m \in Messages :
        Accepted(m) /\ ~Present(mailbox[m]) => Delivered(m)

\* A sender whose retry is answered "already_delivered", from the cache of any
\* process or from the delivery record, is told the truth.
AlreadyDeliveredIsTrue ==
    \A n \in Nodes, m \in Messages : AlreadyDelivered(n, m) => Delivered(m)

\* A row that is not dead-lettered but whose record hides it from the sweep's
\* queries belongs to a message the recipient already has.
HiddenOnlyAfterDelivery ==
    \A m \in Messages :
        /\ mailbox[m].status \in {"queued", "delivered"}
        /\ ~Retryable(mailbox[m], record[m])
        => Delivered(m)

\* "failed" is final for both tables together: while the record says failed,
\* no replay or sweep can pick the row up again.
FailedIsNotPending ==
    \A m \in Messages :
        record[m].status = "failed" => ~IsPending(mailbox[m], 0)

\* A message is dead-lettered only after maxRetries delivery attempts.
FailedOnlyWhenExhausted ==
    \A m \in Messages :
        mailbox[m].status = "failed" => record[m].attempts >= MaxRetries

-----------------------------------------------------------------------------
(* What the design document says and the code does not do.                 *)

Progress(status) ==
    CASE status = "none" -> 0
      [] status \in {"queued", "failed", "decryption_failed"} -> 1
      [] status = "delivered" -> 2
      [] status = "acknowledged" -> 3
      [] status = "read" -> 4

\* ARCHITECTURE.md draws QUEUED -> DELIVERED -> ACKNOWLEDGED -> READ: once the
\* recipient has acknowledged a message its record never goes back.
AcknowledgedIsFinal ==
    [][\A m \in Messages :
          record[m].status \in {"acknowledged", "read"}
             => Progress(record'[m].status) >= Progress(record[m].status)]_record

\* ARCHITECTURE.md draws "Ratchet Decrypt payload" before the acknowledgement,
\* and the handler logs "Confirmed decryption & acknowledged": a message is
\* acknowledged only when its text was displayed.
AcknowledgedIsDisplayed ==
    \A m \in Messages : record[m].status = "acknowledged" => Displayed(m)

-----------------------------------------------------------------------------
(* Liveness                                                                *)

HasDevice(m) == \E d \in Devices : Owner[d] = To[m]

\* An accepted message whose recipient keeps coming back is delivered, or
\* dead-lettered after its retries: no message waits in the mailbox forever.
EventuallyResolved ==
    \A m \in Messages :
        (Accepted(m) /\ HasDevice(m))
            ~> (Delivered(m) \/ mailbox[m].status = "failed")

-----------------------------------------------------------------------------
(* The abstract mailbox.                                                   *)

CustodyOf(m) ==
    CASE mailbox[m].status \in {"queued", "delivered"} -> "held"
      [] mailbox[m].status = "failed" -> "dead"
      [] mailbox[m].status = "absent" /\ Accepted(m) -> "released"
      [] mailbox[m].status = "absent" /\ ~Accepted(m) -> "none"

Contract == INSTANCE AtLeastOnceMailbox
              WITH custody <- [m \in Messages |-> CustodyOf(m)],
                   delivered <- {m \in Messages : Delivered(m)}

\* Every behaviour of the handlers is one the abstract mailbox allows.
ImplementsContract == Contract!Spec
=============================================================================
