----------------------- MODULE MailboxDeliveryProofs -----------------------
(***************************************************************************)
(* Theorems about MailboxDelivery, for any sets of messages, devices,      *)
(* processes and handler slots and any bounds, in four parts:              *)
(*                                                                         *)
(*   1. types: TypeOK is inductive;                                        *)
(*   2. custody: a message is given up only once its recipient has it;     *)
(*   3. the refinement of AtLeastOnceMailbox;                              *)
(*   4. dead letters: a message that was submitted once is dead-lettered   *)
(*      only when its attempts are used up.                                *)
(***************************************************************************)
EXTENDS MailboxDelivery, FunctionTheorems, SequenceTheorems,
        WellFoundedInduction, TLAPS

-----------------------------------------------------------------------------
(* TypeOK is an invariant of MailboxDelivery, for any sets of messages,    *)
(* devices, processes and handler slots and any bounds.                    *)
(*                                                                         *)
(* It is inductive.  Its only deep part is JobsOK: a handler suspended at  *)
(* an await that works on a mailbox row still has that row, so Current is  *)
(* defined wherever it is used (LeastIsIn, CurrentIsIn).                   *)

\* The least row of a non-empty result exists: ids are natural numbers.
LEMMA LeastIsIn ==
    ASSUME NEW rows \in SUBSET Entry, rows # {}
    PROVE  Least(rows) \in rows
<1> DEFINE ids == {r.id : r \in rows}
<1>1. ids \subseteq Nat /\ ids # {}
  BY DEF Entry
<1>2. PICK i \in ids : \A j \in ids : ~ (<<j, i>> \in OpToRel(<, Nat))
  <2> HIDE DEF ids
  <2> QED BY <1>1, NatLessThanWellFounded, WFMin
<1>3. \A j \in ids : i <= j
  <2> HIDE DEF ids
  <2> SUFFICES ASSUME NEW j \in ids, ~ (i <= j) PROVE FALSE
    OBVIOUS
  <2>1. j \in Nat /\ i \in Nat /\ j < i
    BY <1>1
  <2>2. <<j, i>> \in {ss \in Nat \X Nat : ss[1] < ss[2]}
    BY <2>1
  <2> QED BY <1>2, <2>2 DEF OpToRel
<1>4. \E r \in rows : \A q \in rows : r.id <= q.id
  BY <1>3
<1> QED BY <1>4 DEF Least

\* A handler at a label that needs a row has one.
LEMMA CurrentIsIn ==
    ASSUME JobsOK, NEW p \in Procs, job[p].at \notin RowlessLabels
    PROVE  /\ Current(p) \in job[p].rows
           /\ Current(p) \in Entry
           /\ Current(p).msg \in Messages
           /\ Current(p).id \in Nat
           /\ Rest(p) \in SUBSET Entry
<1>1. job[p].rows \in SUBSET Entry /\ job[p].rows # {}
  BY DEF JobsOK, JobType, JobFields
<1> QED BY <1>1, LeastIsIn DEF Current, Rest, Entry

\* Each transaction of MailboxRepository.ts maps a row to a row,
LEMMA RowTyping ==
    ASSUME NEW row \in RowType, NEW id \in Nat
    PROVE  /\ QueuedRow(id) \in RowType
           /\ DeliveredRow(row, id) \in RowType
           /\ RescheduledRow(row) \in RowType
           /\ FailedRow(row) \in RowType
           /\ AcknowledgedRow(row) \in RowType
BY DEF RowType, RowStatus, QueuedRow, DeliveredRow, RescheduledRow, FailedRow,
       AcknowledgedRow, Present

\* and a delivery record to a delivery record.
LEMMA RecordTyping ==
    ASSUME NEW r \in RecordType
    PROVE  /\ NoRecord \in RecordType
           /\ QueuedRecord \in RecordType
           /\ AttemptedRecord(r) \in RecordType
           /\ DeliveredRecord(r) \in RecordType
           /\ RescheduledRecord(r) \in RecordType
           /\ FailedRecord(r) \in RecordType
           /\ AcknowledgedRecord(r) \in RecordType
           /\ ReadRecord(r) \in RecordType
           /\ UndecryptableRecord(r) \in RecordType
           /\ [r EXCEPT !.due = TRUE] \in RecordType
<1>1. 0 \in 0 .. MaxRetries
  BY MaxRetriesAssumption
<1>2. \A k \in 0 .. MaxRetries :
        (IF k < MaxRetries THEN k + 1 ELSE k) \in 0 .. MaxRetries
  BY MaxRetriesAssumption
<1>3. NoRecord \in RecordType /\ QueuedRecord \in RecordType
  BY <1>1 DEF RecordType, RecordStatus, QueuedRecord, NoRecord
<1>4. AttemptedRecord(r) \in RecordType
  BY <1>2 DEF RecordType, AttemptedRecord
<1> QED
  BY <1>3, <1>4 DEF RecordType, RecordStatus, DeliveredRecord,
       RescheduledRecord,
       FailedRecord, AcknowledgedRecord, ReadRecord, UndecryptableRecord

\* A handler that starts is a job,
LEMMA FreshJob ==
    /\ Idle \in JobType
    /\ \A kind \in Kinds, label \in Labels, n \in Nodes \cup {Offline},
          rows \in SUBSET Entry :
             rows # {} \/ label \in RowlessLabels
                => Job(kind, label, n, rows) \in JobType
<1>1. 0 \in 0 .. MaxRetries
  BY MaxRetriesAssumption
<1>2. Idle \in JobFields
  BY <1>1 DEF Idle, JobFields, Kinds, Labels
<1>3. Idle \in JobType
  BY <1>2 DEF JobType, Idle, RowlessLabels
<1> QED BY <1>2, <1>3 DEF Job, JobType, JobFields, Idle

\* so is one that goes on with other rows,
LEMMA NextJob ==
    ASSUME NEW j \in JobType, NEW label \in Labels, NEW rows \in SUBSET Entry,
           rows # {} \/ label \in RowlessLabels
    PROVE  /\ [j EXCEPT !.at = label, !.rows = rows] \in JobType
           /\ \A batch \in SUBSET Entry :
                [j EXCEPT !.at = label, !.rows = rows, !.batch = batch] \in
                     JobType
BY DEF JobType, JobFields

\* with the same rows,
LEMMA SameRows ==
    ASSUME NEW j \in JobType, NEW label \in Labels, j.at \notin RowlessLabels
    PROVE  /\ [j EXCEPT !.at = label] \in JobType
           /\ \A devs \in SUBSET Devices :
                [j EXCEPT !.at = label, !.devs = devs] \in JobType
           /\ \A tries \in 0 .. MaxRetries :
                [j EXCEPT !.at = label, !.tries = tries] \in JobType
BY DEF JobType, JobFields

\* on behalf of a device or an account,
LEMMA JobFor ==
    ASSUME NEW j \in JobType, NEW devs \in SUBSET Devices,
           NEW users \in SUBSET Users
    PROVE  /\ [j EXCEPT !.devs = devs, !.users = users] \in JobType
           /\ [j EXCEPT !.users = users] \in JobType
BY DEF JobType, JobFields

\* or without the sockets that have closed.
LEMMA FewerDevices ==
    ASSUME NEW j \in JobType, NEW ds
    PROVE  WithoutDevices(j, ds) \in JobType
BY DEF JobType, JobFields, WithoutDevices

\* Replacing one job by a job leaves all of them jobs.
LEMMA JobsBecome ==
    ASSUME JobsOK, NEW p \in Procs, NEW j \in JobType, Become(p, j)
    PROVE  JobsOK'
BY DEF JobsOK, Become

-----------------------------------------------------------------------------
(* Type correctness.                                                       *)

\* The sweep goes on to the next row, or dispatches what it collected.
LEMMA AfterMarkTyping ==
    ASSUME JobsOK, NEW p \in Procs, At(p, "mark")
    PROVE  AfterMark(p) \in JobType
<1>1. job[p] \in JobType /\ job[p].at \notin RowlessLabels
  BY DEF JobsOK, At, RowlessLabels
<1>2. [job[p] EXCEPT !.at = "emit"] \in JobType
  BY <1>1, SameRows DEF Labels
<1>3. job[p].batch \cup {Current(p)} \in SUBSET Entry
  BY <1>1, CurrentIsIn DEF JobType, JobFields
<1>4. Rest(p) \in SUBSET Entry
  BY <1>1, CurrentIsIn
<1>5. CASE job[p].kind # "sweep"
  BY <1>2, <1>5 DEF AfterMark
<1>6. CASE job[p].kind = "sweep" /\ Rest(p) # {}
  BY <1>1, <1>3, <1>4, <1>6, NextJob DEF AfterMark, Labels
<1>7. CASE job[p].kind = "sweep" /\ Rest(p) = {}
  <2>1. job[p].batch \cup {Current(p)} # {}
    OBVIOUS
  <2> QED BY <1>1, <1>3, <1>7, <2>1, NextJob DEF AfterMark, Labels
<1> QED BY <1>5, <1>6, <1>7

-----------------------------------------------------------------------------
(* send_direct_message: one lemma per step of the handler.                 *)

LEMMA SendBeginTyping ==
    ASSUME TypeOK, NEW p \in Workers, NEW n \in Nodes, NEW m \in Messages,
           SendBegin(p, n, m)
    PROVE  TypeOK'
<1> DEFINE rows == {[id |-> 0, msg |-> m]}
<1> USE DEF TypeOK
<1>1. Idle \in JobType /\ Job("send", "queue", n, rows) \in JobType
  <2>1. rows \in SUBSET Entry /\ rows # {}
    BY DEF Entry
  <2> HIDE DEF rows
  <2> QED BY <2>1, FreshJob DEF Kinds, Labels
<1>2. JobsOK'
  BY <1>1, JobsBecome DEF SendBegin, Procs
<1>3. BoundsOK'
  BY DEF SendBegin, BoundsOK
<1> QED
  BY <1>2, <1>3 DEF SendBegin, DatabaseOK, MemoryOK, SocketsOK, ChannelsOK,
     ClientOK, database, memory, sockets, presence, channels, client

LEMMA SendDuplicateTyping ==
    ASSUME TypeOK, NEW p \in Procs, SendDuplicate(p)
    PROVE  TypeOK'
<1> USE DEF TypeOK
<1>1. JobsOK'
  BY FreshJob, JobsBecome DEF SendDuplicate, JobsOK, Finish
<1> QED
  BY <1>1 DEF SendDuplicate, DatabaseOK, MemoryOK, SocketsOK, ChannelsOK,
       ClientOK, BoundsOK, database, memory, sockets, presence, channels,
       client, bounds

LEMMA SendQueueTyping ==
    ASSUME TypeOK, NEW p \in Procs, SendQueue(p)
    PROVE  TypeOK'
<1> DEFINE m == Current(p).msg
           rows == {[id |-> lastId + 1, msg |-> m]}
<1> USE DEF TypeOK
<1>1. job[p].at \notin RowlessLabels
  BY DEF SendQueue, At, RowlessLabels
<1>2. m \in Messages /\ lastId + 1 \in Nat
  BY <1>1, CurrentIsIn DEF DatabaseOK
<1>3. rows \in SUBSET Entry /\ rows # {}
  BY <1>2 DEF Entry
<1>4. JobsOK'
  <2>1. job[p] \in JobType
    BY DEF JobsOK
  <2>2. Become(p, [job[p] EXCEPT !.at = "lookup", !.rows = rows])
    BY DEF SendQueue
  <2> HIDE DEF rows
  <2>3. [job[p] EXCEPT !.at = "lookup", !.rows = rows] \in JobType
    BY <1>3, <2>1, NextJob DEF Labels
  <2> QED BY <2>2, <2>3, JobsBecome
<1>5. DatabaseOK'
  <2>1. QueuedRow(lastId + 1) \in RowType /\ QueuedRecord \in RecordType
    <3>1. mailbox[m] \in RowType /\ record[m] \in RecordType
      BY <1>2 DEF DatabaseOK
    <3> QED BY <1>2, <3>1, RowTyping, RecordTyping
  <2> QED BY <1>2, <2>1 DEF SendQueue, DatabaseOK
<1> QED
  BY <1>4, <1>5 DEF SendQueue, MemoryOK, SocketsOK, ChannelsOK, ClientOK,
       BoundsOK,
     memory, sockets, presence, channels, client, bounds

LEMMA SendLookupTyping ==
    ASSUME TypeOK, NEW p \in Procs, SendLookup(p)
    PROVE  TypeOK'
<1> USE DEF TypeOK
<1>1. JobsOK'
  BY FreshJob, SameRows, JobsBecome DEF SendLookup, JobsOK, At, Labels,
       RowlessLabels, JobsOK, OpenSockets, SocketsOK
<1> QED
  BY <1>1 DEF SendLookup, DatabaseOK, MemoryOK, SocketsOK, ChannelsOK,
       ClientOK, BoundsOK, database, memory, sockets, presence, channels,
       client, bounds

LEMMA SendEmitTyping ==
    ASSUME TypeOK, NEW p \in Procs, SendEmit(p)
    PROVE  TypeOK'
<1> USE DEF TypeOK
<1>1. JobsOK'
  BY FreshJob, JobsBecome DEF SendEmit, JobsOK, Finish
<1>2. MemoryOK'
  BY CurrentIsIn DEF SendEmit, MemoryOK, At, RowlessLabels, Armed
<1>3. ChannelsOK'
  BY CurrentIsIn, AppendProperties DEF SendEmit, ChannelsOK, At,
       RowlessLabels, Sent
<1> QED
  BY <1>1, <1>2, <1>3 DEF SendEmit, DatabaseOK, SocketsOK, ClientOK,
       BoundsOK, database, sockets, presence, client, bounds

LEMMA AttemptTyping ==
    ASSUME TypeOK, NEW p \in Procs, Attempt(p)
    PROVE  TypeOK'
<1> USE DEF TypeOK
<1>1. JobsOK'
  BY SameRows, JobsBecome DEF Attempt, JobsOK, At, Goto, Labels,
       RowlessLabels, JobsOK
<1>2. DatabaseOK'
  BY RecordTyping DEF Attempt, DatabaseOK
<1> QED
  BY <1>1, <1>2 DEF Attempt, MemoryOK, SocketsOK, ChannelsOK, ClientOK,
       BoundsOK, memory, sockets, presence, channels, client, bounds

LEMMA MarkTyping ==
    ASSUME TypeOK, NEW p \in Procs, Mark(p)
    PROVE  TypeOK'
<1> USE DEF TypeOK
<1>1. JobsOK'
  BY AfterMarkTyping, JobsBecome DEF Mark, JobsOK, At
<1>2. DatabaseOK'
  BY CurrentIsIn, RecordTyping, RowTyping DEF Mark, DatabaseOK, At,
       RowlessLabels
<1> QED
  BY <1>1, <1>2 DEF Mark, MemoryOK, SocketsOK, ChannelsOK, ClientOK,
       BoundsOK, memory, sockets, presence, channels, client, bounds

-----------------------------------------------------------------------------
(* join, switch_room, resume_delivery and the replay.                      *)

LEMMA JoinTyping ==
    ASSUME TypeOK, NEW p \in Workers, NEW d \in Devices, Join(p, d)
    PROVE  TypeOK'
<1> USE DEF TypeOK
<1>1. JobsOK'
  <2>1. conn[d] \in Nodes
    BY DEF Join, SocketsOK
  <2>2. Job("join", "pending", conn[d], {}) \in JobType
    BY <2>1, FreshJob DEF Kinds, Labels, RowlessLabels
  <2>3. Owner[d] \in Users
    BY ConstantsAssumption
  <2> QED BY <2>2, <2>3, JobFor, JobsBecome DEF Join, Procs
<1>2. SocketsOK'
  BY DEF Join, SocketsOK, presence, sockets
<1> QED
  BY <1>1, <1>2 DEF Join, DatabaseOK, MemoryOK, ChannelsOK, ClientOK, BoundsOK,
     database, memory, channels, client, bounds

LEMMA ResumeTyping ==
    ASSUME TypeOK, NEW p \in Workers, NEW d \in Devices, Resume(p, d)
    PROVE  TypeOK'
<1> USE DEF TypeOK
<1>1. JobsOK'
  <2>1. conn[d] \in Nodes
    BY DEF Resume, SocketsOK
  <2>2. Job("resume", "pending", conn[d], {}) \in JobType
    BY <2>1, FreshJob DEF Kinds, Labels, RowlessLabels
  <2>3. Owner[d] \in Users
    BY ConstantsAssumption
  <2> QED BY <2>2, <2>3, JobFor, JobsBecome DEF Resume, Procs
<1>2. BoundsOK'
  BY DEF Resume, Fault, BoundsOK
<1> QED
  BY <1>1, <1>2 DEF Resume, DatabaseOK, MemoryOK, SocketsOK, ChannelsOK,
       ClientOK,
     database, memory, sockets, presence, channels, client

LEMMA RefreshTyping ==
    ASSUME TypeOK, NEW d \in Devices, Refresh(d)
    PROVE  TypeOK'
<1> USE DEF TypeOK
<1>1. SocketsOK'
  BY DEF Refresh, SocketsOK, sockets
<1> QED
  BY <1>1 DEF Refresh, DatabaseOK, MemoryOK, JobsOK, ChannelsOK, ClientOK,
       BoundsOK, database, memory, channels, client, bounds

LEMMA ReplayReadTyping ==
    ASSUME TypeOK, NEW p \in Procs, ReplayRead(p)
    PROVE  TypeOK'
<1> USE DEF TypeOK
<1>1. JobsOK'
  <2>1. PICK u \in job[p].users : \E after \in ResumePoints(u, job[p].kind) :
             LET rows == ReplayRows(u, job[p].kind, after) IN
             Become(p, IF rows = {} THEN Idle
                       ELSE [job[p] EXCEPT !.at = "attempt", !.rows = rows])
    BY DEF ReplayRead
  <2>2. PICK after \in ResumePoints(u, job[p].kind) :
             LET rows == ReplayRows(u, job[p].kind, after) IN
             Become(p, IF rows = {} THEN Idle
                       ELSE [job[p] EXCEPT !.at = "attempt", !.rows = rows])
    BY <2>1
  <2> DEFINE rows == ReplayRows(u, job[p].kind, after)
  <2>3. rows \in SUBSET Entry
    BY DEF ReplayRows, Page, PendingRows, Rows, Entry, DatabaseOK, RowType
  <2>4. job[p] \in JobType
    BY DEF JobsOK
  <2>5. Become(p, IF rows = {} THEN Idle
                  ELSE [job[p] EXCEPT !.at = "attempt", !.rows = rows])
    BY <2>2
  <2> HIDE DEF rows
  <2> QED BY <2>3, <2>4, <2>5, FreshJob, NextJob, JobsBecome DEF Labels
<1> QED
  BY <1>1 DEF ReplayRead, DatabaseOK, MemoryOK, SocketsOK, ChannelsOK, ClientOK,
     BoundsOK, database, memory, sockets, presence, channels, client, bounds

LEMMA ReplayEmitTyping ==
    ASSUME TypeOK, NEW p \in Procs, ReplayEmit(p)
    PROVE  TypeOK'
<1> USE DEF TypeOK
<1>1. JobsOK'
  BY SameRows, JobsBecome DEF ReplayEmit, JobsOK, At, Goto, Labels,
       RowlessLabels, JobsOK
<1>2. ChannelsOK'
  BY CurrentIsIn, AppendProperties DEF ReplayEmit, ChannelsOK, At,
       RowlessLabels, Sent
<1> QED
  BY <1>1, <1>2 DEF ReplayEmit, DatabaseOK, MemoryOK, SocketsOK, ClientOK,
       BoundsOK, database, memory, sockets, presence, client, bounds

LEMMA ArmTyping ==
    ASSUME TypeOK, NEW p \in Procs, Arm(p)
    PROVE  TypeOK'
<1> USE DEF TypeOK
<1>1. JobsOK'
  BY FreshJob, NextJob, CurrentIsIn, JobsBecome DEF Arm, JobsOK, At,
       NextRow, Labels, RowlessLabels, JobsOK
<1>2. MemoryOK'
  BY CurrentIsIn DEF Arm, MemoryOK, At, RowlessLabels, Armed
<1> QED
  BY <1>1, <1>2 DEF Arm, DatabaseOK, SocketsOK, ChannelsOK, ClientOK,
       BoundsOK, database, sockets, presence, channels, client, bounds

-----------------------------------------------------------------------------
(* The retry sweep.                                                        *)

LEMMA SweepTickTyping ==
    ASSUME TypeOK, NEW n \in Nodes, SweepTick(n)
    PROVE  TypeOK'
<1> USE DEF TypeOK
<1>1. JobsOK'
  <2>1. Job("sweep", "exhausted", n, {}) \in JobType
    BY FreshJob DEF Kinds, Labels, RowlessLabels
  <2>2. OnlineUsers \in SUBSET Users
    BY ConstantsAssumption DEF OnlineUsers, SocketsOK
  <2> QED BY <2>1, <2>2, JobFor, JobsBecome DEF SweepTick, Procs
<1> QED
  BY <1>1 DEF SweepTick, DatabaseOK, MemoryOK, SocketsOK, ChannelsOK, ClientOK,
     BoundsOK, database, memory, sockets, presence, channels, client, bounds

\* The sweep goes on to the next exhausted row, or to the candidates.
LEMMA FailNextTyping ==
    ASSUME JobsOK, NEW n \in Nodes, NEW rows \in SUBSET Entry
    PROVE  FailNext(n, rows) \in JobType
<1>1. job[n] \in JobType
  BY DEF JobsOK, Procs
<1> QED BY <1>1, NextJob DEF FailNext, Labels, RowlessLabels

LEMMA SweepFindExhaustedTyping ==
    ASSUME TypeOK, NEW n \in Nodes, SweepFindExhausted(n)
    PROVE  TypeOK'
<1> USE DEF TypeOK
<1>1. JobsOK'
  <2>1. Found(Exhausted) \in SUBSET Entry
    BY DEF Found, Page, Rows, Exhausted, Entry, DatabaseOK, RowType
  <2> QED BY <2>1, FailNextTyping, JobsBecome DEF SweepFindExhausted, Procs
<1> QED
  BY <1>1 DEF SweepFindExhausted, DatabaseOK, MemoryOK, SocketsOK, ChannelsOK,
     ClientOK, BoundsOK, database, memory, sockets, presence, channels, client,
     bounds

LEMMA SweepFailTyping ==
    ASSUME TypeOK, NEW n \in Nodes, SweepFail(n)
    PROVE  TypeOK'
<1> USE DEF TypeOK
<1>1. JobsOK'
  BY FailNextTyping, CurrentIsIn, JobsBecome DEF SweepFail, JobsOK, At,
       RowlessLabels, Procs
<1>2. DatabaseOK'
  BY CurrentIsIn, RecordTyping, RowTyping DEF SweepFail, DatabaseOK, At,
       RowlessLabels, Procs
<1> QED
  BY <1>1, <1>2 DEF SweepFail, MemoryOK, SocketsOK, ChannelsOK, ClientOK,
       BoundsOK, memory, sockets, presence, channels, client, bounds

LEMMA SweepFindCandidatesTyping ==
    ASSUME TypeOK, NEW n \in Nodes, SweepFindCandidates(n)
    PROVE  TypeOK'
<1> USE DEF TypeOK
<1>1. JobsOK'
  <2> DEFINE rows == {e \in Found(Candidates) : To[e.msg] \in job[n].users}
  <2>1. rows \in SUBSET Entry
    BY DEF Found, Page, Rows, Candidates, Entry, DatabaseOK, RowType
  <2>2. job[n] \in JobType
    BY DEF JobsOK, Procs
  <2>3. Become(n, IF rows = {} THEN Idle
                  ELSE [job[n] EXCEPT !.at = "attempt", !.rows = rows])
    BY DEF SweepFindCandidates
  <2> HIDE DEF rows
  <2> QED BY <2>1, <2>2, <2>3, FreshJob, NextJob, JobsBecome DEF Labels, Procs
<1> QED
  BY <1>1 DEF SweepFindCandidates, DatabaseOK, MemoryOK, SocketsOK, ChannelsOK,
     ClientOK, BoundsOK, database, memory, sockets, presence, channels, client,
     bounds

LEMMA SweepSkipTyping ==
    ASSUME TypeOK, NEW n \in Nodes, SweepSkip(n)
    PROVE  TypeOK'
<1> USE DEF TypeOK
<1>1. JobsOK'
  BY FreshJob, NextJob, CurrentIsIn, JobsBecome DEF SweepSkip, JobsOK, At,
       NextRow, Labels, RowlessLabels, Procs
<1> QED
  BY <1>1 DEF SweepSkip, DatabaseOK, MemoryOK, SocketsOK, ChannelsOK,
       ClientOK, BoundsOK, database, memory, sockets, presence, channels,
       client, bounds

LEMMA SweepDispatchTyping ==
    ASSUME TypeOK, NEW n \in Nodes, SweepDispatch(n)
    PROVE  TypeOK'
<1> USE DEF TypeOK
<1>1. JobsOK'
  BY SameRows, JobsBecome DEF SweepDispatch, JobsOK, At, Goto, Labels,
       RowlessLabels, Procs
<1>2. ChannelsOK'
  BY CurrentIsIn, AppendProperties DEF SweepDispatch, ChannelsOK, At,
       RowlessLabels, Procs, Sent
<1> QED
  BY <1>1, <1>2 DEF SweepDispatch, DatabaseOK, MemoryOK, SocketsOK,
       ClientOK, BoundsOK, database, memory, sockets, presence, client, bounds

-----------------------------------------------------------------------------
(* ack_direct_message, read_direct_message, signal_decryption_error.       *)

LEMMA AckBeginTyping ==
    ASSUME TypeOK, NEW p \in Workers, NEW d \in Devices,
           AckBegin(p, d)
    PROVE  TypeOK'
<1> USE DEF TypeOK
<1> DEFINE m == Head(up[d]).msg
           n == conn[d]
<1>1. /\ Head(up[d]) \in [type : Events, msg : Messages]
      /\ Tail(up[d]) \in Seq([type : Events, msg : Messages])
  BY HeadTailProperties DEF AckBegin, Incoming, ChannelsOK
<1>2. m \in Messages /\ n \in Nodes \cup {Offline}
  BY <1>1 DEF SocketsOK
<1>3. JobsOK'
  <2>1. {[id |-> 0, msg |-> m]} \in SUBSET Entry
    BY <1>2 DEF Entry
  <2>2. Job("ack", "ack", n, {[id |-> 0, msg |-> m]}) \in JobType
    BY <1>2, <2>1, FreshJob DEF Kinds, Labels
  <2> QED BY <2>2, JobsBecome DEF AckBegin, Procs
<1>4. MemoryOK'
  BY DEF AckBegin, MemoryOK
<1>5. ChannelsOK'
  BY <1>1 DEF AckBegin, ChannelsOK
<1> QED
  BY <1>3, <1>4, <1>5 DEF AckBegin, DatabaseOK, SocketsOK, ClientOK, BoundsOK,
     database, sockets, presence, client, bounds

LEMMA AckCommitTyping ==
    ASSUME TypeOK, NEW p \in Procs, AckCommit(p)
    PROVE  TypeOK'
<1> USE DEF TypeOK
<1>1. JobsOK'
  BY SameRows, JobsBecome DEF AckCommit, JobsOK, At, Goto, Labels, RowlessLabels
<1>2. DatabaseOK'
  BY CurrentIsIn, RecordTyping, RowTyping DEF AckCommit, DatabaseOK, At,
       RowlessLabels
<1> QED
  BY <1>1, <1>2 DEF AckCommit, MemoryOK, SocketsOK, ChannelsOK, ClientOK,
       BoundsOK, memory, sockets, presence, channels, client, bounds

\* markMessageDelivered keeps the cache a sequence of ids, evicting or not.
LEMMA RememberedTyping ==
    ASSUME NEW S, NEW cache \in Seq(S), NEW m \in S
    PROVE  Remembered(cache, m) \in Seq(S)
<1> DEFINE kept == IF Len(cache) >= RecentLimit THEN Tail(cache) ELSE cache
<1>1. kept \in Seq(S)
  <2>1. CASE Len(cache) >= RecentLimit
    <3>1. cache # << >>
      BY <2>1, EmptySeq, ConstantsAssumption
    <3> QED BY <2>1, <3>1, HeadTailProperties
  <2>2. CASE ~ (Len(cache) >= RecentLimit)
    BY <2>2
  <2> QED BY <2>1, <2>2
<1>2. Append(kept, m) \in Seq(S)
  BY <1>1, AppendProperties
<1> QED BY <1>1, <1>2 DEF Remembered

LEMMA AckRememberTyping ==
    ASSUME TypeOK, NEW p \in Procs, AckRemember(p)
    PROVE  TypeOK'
<1> USE DEF TypeOK
<1>1. JobsOK'
  BY FreshJob, JobsBecome DEF AckRemember, Finish
<1>2. MemoryOK'
  <2>1. Current(p).msg \in Messages
    BY CurrentIsIn DEF AckRemember, At, RowlessLabels
  <2> QED BY <2>1, RememberedTyping DEF AckRemember, MemoryOK
<1> QED
  BY <1>1, <1>2 DEF AckRemember, DatabaseOK, SocketsOK, ChannelsOK, ClientOK,
     BoundsOK, database, sockets, presence, channels, client, bounds

LEMMA HandleReadTyping ==
    ASSUME TypeOK, NEW d \in Devices, HandleRead(d)
    PROVE  TypeOK'
<1> USE DEF TypeOK
<1>1. DatabaseOK'
  BY RecordTyping DEF HandleRead, DatabaseOK
<1>2. ChannelsOK'
  BY HeadTailProperties DEF HandleRead, ChannelsOK, Incoming
<1> QED
  BY <1>1, <1>2 DEF HandleRead, MemoryOK, JobsOK, SocketsOK, ClientOK,
       BoundsOK, memory, sockets, presence, client, bounds

LEMMA HandleDecryptionErrorTyping ==
    ASSUME TypeOK, NEW d \in Devices, HandleDecryptionError(d)
    PROVE  TypeOK'
<1> USE DEF TypeOK
<1>1. DatabaseOK'
  BY RecordTyping DEF HandleDecryptionError, DatabaseOK
<1>2. ChannelsOK'
  BY HeadTailProperties DEF HandleDecryptionError, ChannelsOK, Incoming
<1> QED
  BY <1>1, <1>2 DEF HandleDecryptionError, MemoryOK, JobsOK, SocketsOK,
       ClientOK, BoundsOK, memory, sockets, presence, client, bounds

-----------------------------------------------------------------------------
(* The acknowledgement timer.                                              *)

LEMMA TimerFiresTyping ==
    ASSUME TypeOK, NEW p \in Workers, NEW n \in Nodes, NEW m \in Messages,
           TimerFires(p, n, m)
    PROVE  TypeOK'
<1> USE DEF TypeOK
<1>2. m \in Messages /\ n \in Nodes \cup {Offline}
  OBVIOUS
<1>3. JobsOK'
  <2>1. {[id |-> 0, msg |-> m]} \in SUBSET Entry
    BY <1>2 DEF Entry
  <2>2. Job("timer", "timeout", n, {[id |-> 0, msg |-> m]}) \in JobType
    BY <1>2, <2>1, FreshJob DEF Kinds, Labels
  <2> QED BY <2>2, JobsBecome DEF TimerFires, Procs
<1>4. MemoryOK'
  BY DEF TimerFires, MemoryOK
<1> QED
  BY <1>3, <1>4 DEF TimerFires, DatabaseOK, SocketsOK, ChannelsOK, ClientOK,
     BoundsOK, database, sockets, presence, channels, client, bounds

LEMMA TimeoutReadTyping ==
    ASSUME TypeOK, NEW p \in Procs, TimeoutRead(p)
    PROVE  TypeOK'
<1> USE DEF TypeOK
<1> DEFINE attempts == record[Current(p).msg].attempts
           tries == IF attempts = 0 THEN 1 ELSE attempts
<1>1. JobsOK'
  <2>1. job[p] \in JobType /\ job[p].at \notin RowlessLabels
    BY DEF JobsOK, TimeoutRead, At, RowlessLabels
  <2>2. attempts \in 0 .. MaxRetries
    BY <2>1, CurrentIsIn DEF DatabaseOK, RecordType
  <2>3. tries \in 0 .. MaxRetries
    BY <2>2, MaxRetriesAssumption
  <2>4. Become(p, [job[p] EXCEPT !.at = "expire", !.tries = tries])
    BY DEF TimeoutRead
  <2> HIDE DEF tries
  <2> QED BY <2>1, <2>3, <2>4, SameRows, JobsBecome DEF Labels
<1> QED
  BY <1>1 DEF TimeoutRead, DatabaseOK, MemoryOK, SocketsOK, ChannelsOK,
       ClientOK,
     BoundsOK, database, memory, sockets, presence, channels, client, bounds

LEMMA TimeoutFailTyping ==
    ASSUME TypeOK, NEW p \in Procs, TimeoutFail(p)
    PROVE  TypeOK'
<1> USE DEF TypeOK
<1>1. JobsOK'
  BY FreshJob, JobsBecome DEF TimeoutFail, JobsOK, Finish
<1>2. DatabaseOK'
  BY CurrentIsIn, RecordTyping, RowTyping DEF TimeoutFail, DatabaseOK, At,
       RowlessLabels
<1> QED
  BY <1>1, <1>2 DEF TimeoutFail, MemoryOK, SocketsOK, ChannelsOK, ClientOK,
       BoundsOK, memory, sockets, presence, channels, client, bounds

LEMMA TimeoutRescheduleTyping ==
    ASSUME TypeOK, NEW p \in Procs, TimeoutReschedule(p)
    PROVE  TypeOK'
<1> USE DEF TypeOK
<1>1. JobsOK'
  BY FreshJob, JobsBecome DEF TimeoutReschedule, JobsOK, Finish
<1>2. DatabaseOK'
  BY CurrentIsIn, RecordTyping, RowTyping DEF TimeoutReschedule,
       DatabaseOK, At, RowlessLabels
<1> QED
  BY <1>1, <1>2 DEF TimeoutReschedule, MemoryOK, SocketsOK, ChannelsOK,
       ClientOK, BoundsOK, memory, sockets, presence, channels, client, bounds

LEMMA RetryDueTyping ==
    ASSUME TypeOK, NEW m \in Messages, RetryDue(m)
    PROVE  TypeOK'
<1> USE DEF TypeOK
<1>1. DatabaseOK'
  BY RecordTyping DEF RetryDue, DatabaseOK
<1> QED
  BY <1>1 DEF RetryDue, MemoryOK, JobsOK, SocketsOK, ChannelsOK, ClientOK,
       BoundsOK, memory, sockets, presence, channels, client, bounds

-----------------------------------------------------------------------------
(* The client.                                                             *)

LEMMA ConnectTyping ==
    ASSUME TypeOK, NEW d \in Devices, NEW n \in Nodes, Connect(d, n)
    PROVE  TypeOK'
<1> USE DEF TypeOK
<1>1. SocketsOK'
  BY DEF Connect, SocketsOK, presence
<1> QED
  BY <1>1 DEF Connect, DatabaseOK, MemoryOK, JobsOK, ChannelsOK, ClientOK,
       BoundsOK, database, memory, channels, client, bounds

LEMMA ReceiveAgainTyping ==
    ASSUME TypeOK, NEW d \in Devices, ReceiveAgain(d)
    PROVE  TypeOK'
<1> USE DEF TypeOK
<1>1. ChannelsOK'
  BY HeadTailProperties, AppendProperties DEF ReceiveAgain, ChannelsOK,
       Tell, Events
<1> QED
  BY <1>1 DEF ReceiveAgain, DatabaseOK, MemoryOK, JobsOK, SocketsOK,
       ClientOK, BoundsOK, database, memory, sockets, presence, client, bounds

LEMMA ReceiveTyping ==
    ASSUME TypeOK, NEW d \in Devices, NEW m \in Messages, Receive(d, m)
    PROVE  TypeOK'
<1> USE DEF TypeOK
<1>1. ChannelsOK'
  BY HeadTailProperties, AppendProperties DEF Receive, ChannelsOK, Take,
       Tell, Events
<1>2. ClientOK'
  BY DEF Receive, ClientOK, Take
<1> QED
  BY <1>1, <1>2 DEF Receive, DatabaseOK, MemoryOK, JobsOK, SocketsOK,
       BoundsOK, database, memory, sockets, presence, bounds

LEMMA ReceiveUndecryptableTyping ==
    ASSUME TypeOK, NEW d \in Devices, NEW m \in Messages,
         ReceiveUndecryptable(d, m)
    PROVE  TypeOK'
<1> USE DEF TypeOK
<1>1. ChannelsOK'
  BY HeadTailProperties DEF ReceiveUndecryptable, ChannelsOK, Take
<1>2. ClientOK'
  BY DEF ReceiveUndecryptable, ClientOK, Take
<1> QED
  BY <1>1, <1>2 DEF ReceiveUndecryptable, DatabaseOK, MemoryOK, JobsOK,
       SocketsOK, BoundsOK, database, memory, sockets, presence, bounds

LEMMA SendReadTyping ==
    ASSUME TypeOK, NEW d \in Devices, NEW m \in Messages, SendRead(d, m)
    PROVE  TypeOK'
<1> USE DEF TypeOK
<1>1. ChannelsOK'
  BY AppendProperties DEF SendRead, ChannelsOK, Tell, Events
<1> QED
  BY <1>1 DEF SendRead, DatabaseOK, MemoryOK, JobsOK, SocketsOK, ClientOK,
       BoundsOK, database, memory, sockets, presence, client, bounds

LEMMA SendDecryptionErrorTyping ==
    ASSUME TypeOK, NEW d \in Devices, NEW m \in Messages,
         SendDecryptionError(d, m)
    PROVE  TypeOK'
<1> USE DEF TypeOK
<1>1. ChannelsOK'
  BY AppendProperties DEF SendDecryptionError, ChannelsOK, Tell, Events
<1> QED
  BY <1>1 DEF SendDecryptionError, DatabaseOK, MemoryOK, JobsOK, SocketsOK,
       ClientOK, BoundsOK, database, memory, sockets, presence, client, bounds

-----------------------------------------------------------------------------
(* Faults.                                                                 *)

\* Closing sockets empties their channels and touches nothing else.
LEMMA CloseTyping ==
    ASSUME TypeOK, NEW ds \in SUBSET Devices, Close(ds)
    PROVE  SocketsOK' /\ ChannelsOK'
BY EmptySeq DEF TypeOK, Close, SocketsOK, ChannelsOK

\* Closing sockets leaves every handler a job.
LEMMA PurgeTyping ==
    ASSUME JobsOK, NEW ds, job' = [p \in Procs |-> WithoutDevices(job[p], ds)]
    PROVE  JobsOK'
BY FewerDevices DEF JobsOK

LEMMA DisconnectTyping ==
    ASSUME TypeOK, NEW d \in Devices, Disconnect(d)
    PROVE  TypeOK'
<1> USE DEF TypeOK
<1>1. JobsOK'
  BY PurgeTyping DEF Disconnect, JobsOK
<1>2. BoundsOK'
  BY DEF Disconnect, BoundsOK, Fault
<1>3. SocketsOK' /\ ChannelsOK'
  BY CloseTyping DEF Disconnect
<1> QED
  BY <1>1, <1>2, <1>3 DEF Disconnect, DatabaseOK, MemoryOK, ClientOK,
       database, memory, client

LEMMA ReloadTyping ==
    ASSUME TypeOK, NEW d \in Devices, Reload(d)
    PROVE  TypeOK'
<1> USE DEF TypeOK
<1>1. JobsOK'
  BY PurgeTyping DEF Reload, JobsOK
<1>2. ClientOK'
  BY DEF Reload, ClientOK
<1>3. BoundsOK'
  BY DEF Reload, BoundsOK, Fault
<1>4. SocketsOK' /\ ChannelsOK'
  BY CloseTyping DEF Reload
<1> QED
  BY <1>1, <1>2, <1>3, <1>4 DEF Reload, DatabaseOK, MemoryOK, database, memory

LEMMA ForgetTyping ==
    ASSUME TypeOK, NEW d \in Devices, Forget(d)
    PROVE  TypeOK'
<1> USE DEF TypeOK
<1>1. SocketsOK'
  BY DEF Forget, SocketsOK, sockets
<1> QED
  BY <1>1 DEF Forget, DatabaseOK, MemoryOK, JobsOK, ChannelsOK, ClientOK,
       BoundsOK, database, memory, channels, client, bounds

LEMMA ExpireTyping ==
    ASSUME TypeOK, NEW u \in Users, Expire(u)
    PROVE  TypeOK'
<1> USE DEF TypeOK
<1>1. SocketsOK'
  BY DEF Expire, SocketsOK, sockets
<1>2. BoundsOK'
  BY DEF Expire, BoundsOK, Fault
<1> QED
  BY <1>1, <1>2 DEF Expire, DatabaseOK, MemoryOK, JobsOK, ChannelsOK,
       ClientOK, database, memory, channels, client

LEMMA AbortTyping ==
    ASSUME TypeOK, NEW p \in Procs, Abort(p)
    PROVE  TypeOK'
<1> USE DEF TypeOK
<1>1. JobsOK'
  BY FreshJob, JobsBecome DEF Abort, JobsOK, Finish
<1>2. BoundsOK'
  BY DEF Abort, BoundsOK, Fault
<1> QED
  BY <1>1, <1>2 DEF Abort, DatabaseOK, MemoryOK, SocketsOK, ChannelsOK,
       ClientOK, database, memory, sockets, presence, channels, client

LEMMA CrashTyping ==
    ASSUME TypeOK, NEW n \in Nodes, Crash(n)
    PROVE  TypeOK'
<1> USE DEF TypeOK
<1>1. JobsOK'
  BY FreshJob, FewerDevices DEF Crash, JobsOK
<1>2. MemoryOK'
  BY EmptySeq DEF Crash, MemoryOK
<1>3. BoundsOK'
  BY DEF Crash, BoundsOK, Fault
<1>4. SocketsOK' /\ ChannelsOK'
  BY CloseTyping DEF Crash
<1> QED
  BY <1>1, <1>2, <1>3, <1>4 DEF Crash, DatabaseOK, ClientOK, database, client

\* The initial state has the right types,
LEMMA InitTyping == Init => TypeOK
<1> SUFFICES ASSUME Init PROVE TypeOK
  OBVIOUS
<1>1. NoRow \in RowType /\ NoRecord \in RecordType
  BY MaxRetriesAssumption
     DEF NoRow, RowType, RowStatus, NoRecord, RecordType, RecordStatus
<1>2. DatabaseOK
  BY <1>1 DEF Init, DatabaseOK
<1>3. MemoryOK /\ ChannelsOK
  BY EmptySeq DEF Init, MemoryOK, ChannelsOK
<1>4. JobsOK
  BY FreshJob DEF Init, JobsOK
<1>5. SocketsOK /\ ClientOK /\ BoundsOK
  BY DEF Init, SocketsOK, ClientOK, BoundsOK
<1> QED BY <1>2, <1>3, <1>4, <1>5 DEF TypeOK

\* and every step keeps them.
LEMMA StepTyping == TypeOK /\ [Next]_vars => TypeOK'
<1> SUFFICES ASSUME TypeOK, [Next]_vars PROVE TypeOK'
  OBVIOUS
<1>1. ASSUME NEW p \in Procs, Handler(p) PROVE TypeOK'
  BY <1>1, SendDuplicateTyping, SendQueueTyping, SendLookupTyping,
     SendEmitTyping, AttemptTyping, MarkTyping, ReplayReadTyping,
     ReplayEmitTyping, ArmTyping, AckCommitTyping, AckRememberTyping,
     TimeoutReadTyping, TimeoutFailTyping, TimeoutRescheduleTyping
     DEF Handler
<1>2. ASSUME NEW p \in Workers, Start(p) PROVE TypeOK'
  BY <1>2, JoinTyping, ResumeTyping, AckBeginTyping, SendBeginTyping,
     TimerFiresTyping DEF Start
<1>3. ASSUME NEW n \in Nodes, Sweep(n) PROVE TypeOK'
  BY <1>3, SweepTickTyping, SweepFindExhaustedTyping, SweepFailTyping,
     SweepFindCandidatesTyping, SweepSkipTyping, SweepDispatchTyping DEF Sweep
<1>4. ASSUME NEW d \in Devices, Client(d) PROVE TypeOK'
  BY <1>4, ConnectTyping, RefreshTyping, HandleReadTyping,
     HandleDecryptionErrorTyping, ReceiveAgainTyping, ReceiveTyping,
     ReceiveUndecryptableTyping, SendReadTyping, SendDecryptionErrorTyping
     DEF Client
<1>5. CASE Environment
  BY <1>5, DisconnectTyping, ReloadTyping, ForgetTyping, ExpireTyping,
     AbortTyping, CrashTyping, RetryDueTyping DEF Environment
<1>6. CASE UNCHANGED vars
  BY <1>6 DEF vars, database, memory, sockets, presence, channels, client,
       bounds,
     TypeOK, DatabaseOK, MemoryOK, JobsOK, SocketsOK, ChannelsOK, ClientOK,
     BoundsOK
<1> QED BY <1>1, <1>2, <1>3, <1>4, <1>5, <1>6 DEF Next

\* Every reachable state has the declared shape, and a handler suspended at a
\* step on a mailbox row still has that row (chatSocket.ts 377-440, 505-546).
THEOREM TypeCorrect == Spec => []TypeOK
<1>1. Init => TypeOK
  BY InitTyping
<1>2. TypeOK /\ [Next]_vars => TypeOK'
  BY StepTyping
<1> QED BY <1>1, <1>2, PTL DEF Spec

-----------------------------------------------------------------------------
(* The server gives a message up only once its recipient has it, for any   *)
(* number of messages, devices, processes and handlers in progress, and    *)
(* any crashes, disconnections and failed queries.                         *)
(*                                                                         *)
(* PurgedOnlyAfterDelivery is not inductive: the step that deletes a row   *)
(* is the commit of an acknowledgement, so the acknowledgement itself must *)
(* be true, and with it every event on its way up, every cache entry and   *)
(* every record that claims a delivery.  Custody says all that.            *)

DeliveredMessages == {m \in Messages : Delivered(m)}

\* What a client has begun to process it has, as far as it can be decrypted.
ClientTrue ==
    \A d \in Devices : processed[d] \cup decrypted[d] \subseteq DeliveredMessages

\* An event from a client is about a message it has.
EventsTrue == up \in [Devices -> Seq([type : Events, msg : DeliveredMessages])]

\* So is a handler of an acknowledgement,
Acking == {"ack", "remember"}

AcksTrue ==
    \A p \in Procs : job[p].at \in Acking =>
        \A e \in job[p].rows : e.msg \in DeliveredMessages

\* an entry of a cache of delivered ids,
CachesTrue == recent \in [Nodes -> Seq(DeliveredMessages)]

\* and whatever the tables say that keeps a message from being retried.
TableTrue(row, r, m) ==
    /\ row.id > 0 /\ ~Present(row) => Delivered(m)
    /\ r.status \in {"acknowledged", "read"} => Delivered(m)
    /\ row.status \in {"queued", "delivered"} /\ ~Retryable(row, r) => Delivered(m)
    /\ r.status = "failed" => row.status \in {"absent", "failed"}

TablesTrue == \A m \in Messages : TableTrue(mailbox[m], record[m], m)

Custody == ClientTrue /\ EventsTrue /\ AcksTrue /\ CachesTrue /\ TablesTrue

-----------------------------------------------------------------------------
(* Which actions change what.                                              *)

LEMMA ClientFrame ==
    ASSUME Next
    PROVE  \/ UNCHANGED client
           \/ \E d \in Devices : Reload(d)
           \/ \E d \in Devices, m \in Messages :
                 Receive(d, m) \/ ReceiveUndecryptable(d, m)
BY DEF Next, Handler, Start, Sweep, Client, Environment, SendBegin,
   SendDuplicate, SendQueue, SendLookup, SendEmit, Attempt, Mark, Join, Refresh,
   Resume, ReplayRead, ReplayEmit, Arm, SweepTick, SweepFindExhausted, SweepFail,
   SweepFindCandidates, SweepSkip, SweepDispatch, AckBegin, AckCommit,
   AckRemember, HandleRead, HandleDecryptionError, TimerFires, TimeoutRead,
   TimeoutFail, TimeoutReschedule, RetryDue, Connect, ReceiveAgain, SendRead,
   SendDecryptionError, Disconnect, Forget, Expire, Abort, Crash

LEMMA CacheFrame ==
    ASSUME Next
    PROVE  \/ UNCHANGED recent
           \/ \E p \in Procs : AckRemember(p)
           \/ \E n \in Nodes : Crash(n)
BY DEF Next, Handler, Start, Sweep, Client, Environment, memory, SendBegin,
   SendDuplicate, SendQueue, SendLookup, SendEmit, Attempt, Mark, Join, Refresh,
   Resume, ReplayRead, ReplayEmit, Arm, SweepTick, SweepFindExhausted, SweepFail,
   SweepFindCandidates, SweepSkip, SweepDispatch, AckBegin, AckCommit,
   HandleRead, HandleDecryptionError, TimerFires, TimeoutRead, TimeoutFail,
   TimeoutReschedule, RetryDue, Connect, ReceiveAgain, Receive,
   ReceiveUndecryptable, SendRead, SendDecryptionError, Disconnect, Reload,
   Forget, Expire, Abort

LEMMA EventFrame ==
    ASSUME Next
    PROVE  \/ UNCHANGED up
           \/ \E p \in Procs, d \in Devices : AckBegin(p, d)
           \/ \E d \in Devices : HandleRead(d) \/ HandleDecryptionError(d)
           \/ \E d \in Devices : ReceiveAgain(d)
           \/ \E d \in Devices, m \in Messages :
                 Receive(d, m) \/ SendRead(d, m) \/ SendDecryptionError(d, m)
           \/ \E ds \in SUBSET Devices : Close(ds)
BY DEF Next, Handler, Start, Sweep, Client, Environment, channels, Procs,
   SendBegin, SendDuplicate, SendQueue, SendLookup, SendEmit, Attempt, Mark, Join,
   Refresh, Resume, ReplayRead, ReplayEmit, Arm, SweepTick, SweepFindExhausted,
   SweepFail, SweepFindCandidates, SweepSkip, SweepDispatch, AckCommit,
   AckRemember, TimerFires, TimeoutRead, TimeoutFail, TimeoutReschedule,
   RetryDue, Connect, ReceiveUndecryptable, Disconnect, Reload, Forget, Expire,
   Abort, Crash

LEMMA TableFrame ==
    ASSUME Next
    PROVE  \/ UNCHANGED <<mailbox, record>>
           \/ \E p \in Procs : \/ SendQueue(p) \/ Attempt(p) \/ Mark(p)
                               \/ AckCommit(p) \/ TimeoutFail(p)
                               \/ TimeoutReschedule(p)
           \/ \E n \in Nodes : SweepFail(n)
           \/ \E d \in Devices : HandleRead(d) \/ HandleDecryptionError(d)
           \/ \E m \in Messages : RetryDue(m)
BY DEF Next, Handler, Start, Sweep, Client, Environment, database, Procs,
   SendBegin, SendDuplicate, SendLookup, SendEmit, Join, Refresh, Resume,
   ReplayRead, ReplayEmit, Arm, SweepTick, SweepFindExhausted,
   SweepFindCandidates, SweepSkip, SweepDispatch, AckBegin, AckRemember,
   TimerFires, TimeoutRead, Connect, ReceiveAgain, Receive,
   ReceiveUndecryptable, SendRead, SendDecryptionError, Disconnect, Reload,
   Forget, Expire, Abort, Crash

-----------------------------------------------------------------------------
(* Only SendBegin and AckBegin make a handler at one of these labels.      *)

Begun == Acking \cup {"queue"}

\* The handler was at one before, with the same rows.
Stayed(q) == /\ job[q].at \in Begun /\ job'[q].rows = job[q].rows
             /\ job'[q].at = "queue" <=> job[q].at = "queue"

\* A handler that goes on to another label leaves those in Begun as they are.
LEMMA QuietStep ==
    ASSUME JobsOK, NEW p \in Procs, NEW j, Become(p, j), j.at \notin Begun,
           NEW q \in Procs, job'[q].at \in Begun
    PROVE  Stayed(q)
<1>1. q # p /\ job'[q] = job[q]
  BY DEF JobsOK, Become
<1> QED  BY <1>1 DEF Stayed

LEMMA HandlerBegun ==
    ASSUME JobsOK, NEW p \in Procs, Handler(p),
           NEW q \in Procs, job'[q].at \in Begun
    PROVE  Stayed(q)
<1> job[p] \in JobType  BY DEF JobsOK
<1> USE DEF Begun, Acking
<1>1. CASE SendDuplicate(p)  BY <1>1, QuietStep DEF SendDuplicate, Finish, Idle
<1>2. CASE SendQueue(p)  BY <1>2, QuietStep DEF SendQueue, JobType, JobFields
<1>3. CASE SendLookup(p)  BY <1>3, QuietStep DEF SendLookup, JobType, JobFields, Idle
<1>4. CASE SendEmit(p)  BY <1>4, QuietStep DEF SendEmit, Finish, Idle
<1>5. CASE Attempt(p)  BY <1>5, QuietStep DEF Attempt, Goto, JobType, JobFields
<1>6. CASE Mark(p)  BY <1>6, QuietStep DEF Mark, AfterMark, JobType, JobFields
<1>7. CASE ReplayRead(p)  BY <1>7, QuietStep DEF ReplayRead, JobType, JobFields, Idle
<1>8. CASE ReplayEmit(p)  BY <1>8, QuietStep DEF ReplayEmit, Goto, JobType, JobFields
<1>9. CASE Arm(p)  BY <1>9, QuietStep DEF Arm, NextRow, JobType, JobFields, Idle
<1>10. CASE AckCommit(p)
  <2>1. CASE q = p
    <3>1. job[p].at = "ack" /\ job'[p] = [job[p] EXCEPT !.at = "remember"]
      BY <1>10 DEF AckCommit, Goto, Become, At, JobsOK
    <3>2. job'[p].at = "remember" /\ job'[p].rows = job[p].rows
      BY <3>1 DEF JobType, JobFields
    <3> QED  BY <2>1, <3>1, <3>2 DEF Stayed
  <2>2. CASE q # p
    <3>1. job'[q] = job[q]
      BY <1>10, <2>2 DEF AckCommit, Goto, Become, JobsOK
    <3> QED  BY <3>1 DEF Stayed
  <2> QED  BY <2>1, <2>2
<1>11. CASE AckRemember(p)  BY <1>11, QuietStep DEF AckRemember, Finish, Idle
<1>12. CASE TimeoutRead(p)  BY <1>12, QuietStep DEF TimeoutRead, JobType, JobFields
<1>13. CASE TimeoutFail(p)  BY <1>13, QuietStep DEF TimeoutFail, Finish, Idle
<1>14. CASE TimeoutReschedule(p)
  BY <1>14, QuietStep DEF TimeoutReschedule, Finish, Idle
<1> QED  BY <1>1, <1>2, <1>3, <1>4, <1>5, <1>6, <1>7, <1>8, <1>9, <1>10, <1>11,
            <1>12, <1>13, <1>14 DEF Handler

LEMMA SweepBegun ==
    ASSUME JobsOK, NEW n \in Nodes, Sweep(n),
           NEW q \in Procs, job'[q].at \in Begun
    PROVE  Stayed(q)
<1> n \in Procs /\ job[n] \in JobType  BY DEF JobsOK, Procs
<1> USE DEF Begun, Acking
<1>1. CASE SweepTick(n)  BY <1>1, QuietStep DEF SweepTick, Job, Idle
<1>2. CASE SweepFindExhausted(n)
  BY <1>2, QuietStep DEF SweepFindExhausted, FailNext, JobType, JobFields
<1>3. CASE SweepFail(n)
  BY <1>3, QuietStep DEF SweepFail, FailNext, JobType, JobFields
<1>4. CASE SweepFindCandidates(n)
  BY <1>4, QuietStep DEF SweepFindCandidates, JobType, JobFields, Idle
<1>5. CASE SweepSkip(n)
  BY <1>5, QuietStep DEF SweepSkip, NextRow, JobType, JobFields, Idle
<1>6. CASE SweepDispatch(n)
  BY <1>6, QuietStep DEF SweepDispatch, Goto, JobType, JobFields
<1> QED  BY <1>1, <1>2, <1>3, <1>4, <1>5, <1>6 DEF Sweep

LEMMA StartBegun ==
    ASSUME JobsOK, NEW p \in Workers, Start(p),
           NEW q \in Procs, job'[q].at \in Begun
    PROVE  \/ Stayed(q)
           \/ p = q /\ \E d \in Devices : AckBegin(p, d)
           \/ p = q /\ \E n \in Nodes, m \in Messages : SendBegin(p, n, m)
<1> p \in Procs  BY DEF Procs
<1> USE DEF Begun, Acking
<1>1. ASSUME NEW d \in Devices, Join(p, d)
      PROVE  Stayed(q)
  BY <1>1, QuietStep DEF Join, Job, Idle
<1>2. ASSUME NEW d \in Devices, Resume(p, d)
      PROVE  Stayed(q)
  BY <1>2, QuietStep DEF Resume, Job, Idle
<1>3. ASSUME NEW d \in Devices, AckBegin(p, d), p # q
      PROVE  Stayed(q)
  <2>1. job'[q] = job[q]
    BY <1>3 DEF AckBegin, Become, JobsOK
  <2> QED  BY <2>1 DEF Stayed
<1>4. ASSUME NEW n \in Nodes, NEW m \in Messages, SendBegin(p, n, m), p # q
      PROVE  Stayed(q)
  <2>1. job'[q] = job[q]
    BY <1>4 DEF SendBegin, Become, JobsOK
  <2> QED  BY <2>1 DEF Stayed
<1>5. ASSUME NEW n \in Nodes, NEW m \in Messages, TimerFires(p, n, m)
      PROVE  Stayed(q)
  BY <1>5, QuietStep DEF TimerFires, Job, Idle
<1> QED  BY <1>1, <1>2, <1>3, <1>4, <1>5 DEF Start

LEMMA ClientJobs ==
    ASSUME NEW d \in Devices, Client(d)
    PROVE  UNCHANGED job
BY DEF Client, Connect, Refresh, HandleRead, HandleDecryptionError, ReceiveAgain,
   Receive, ReceiveUndecryptable, SendRead, SendDecryptionError

\* A handler that loses sockets keeps its label and its rows.
LEMMA FewerSocketsSameRows ==
    ASSUME NEW j \in JobType, NEW ds
    PROVE  /\ WithoutDevices(j, ds).at = j.at
           /\ WithoutDevices(j, ds).rows = j.rows
BY DEF WithoutDevices, JobType, JobFields

LEMMA EnvironmentBegun ==
    ASSUME JobsOK, Environment, NEW q \in Procs, job'[q].at \in Begun
    PROVE  Stayed(q)
<1> job[q] \in JobType  BY DEF JobsOK
<1>1. ASSUME NEW d \in Devices, Disconnect(d) \/ Reload(d)
      PROVE  Stayed(q)
  BY <1>1, FewerSocketsSameRows DEF Disconnect, Reload, Stayed
<1>2. ASSUME NEW p \in Procs, Abort(p)
      PROVE  Stayed(q)
  BY <1>2, QuietStep DEF Abort, Finish, Idle, Begun, Acking
<1>3. ASSUME NEW n \in Nodes, Crash(n)
      PROVE  Stayed(q)
  <2> DEFINE ds == {d \in Devices : conn[d] = n}
  <2>1. job'[q] = IF job[q].node = n THEN Idle ELSE WithoutDevices(job[q], ds)
    BY <1>3 DEF Crash
  <2>2. job'[q] # Idle  BY DEF Idle, Begun, Acking
  <2> QED  BY <2>1, <2>2, FewerSocketsSameRows DEF Stayed
<1>4. ASSUME UNCHANGED job
      PROVE  Stayed(q)
  BY <1>4 DEF Stayed
<1> QED  BY <1>1, <1>2, <1>3, <1>4 DEF Environment, Forget, Expire, RetryDue

LEMMA BegunFrame ==
    ASSUME JobsOK, Next, NEW q \in Procs, job'[q].at \in Begun
    PROVE  \/ Stayed(q)
           \/ \E d \in Devices : AckBegin(q, d)
           \/ \E n \in Nodes, m \in Messages : SendBegin(q, n, m)
<1>1. CASE UNCHANGED job
  BY <1>1 DEF Stayed
<1> QED  BY <1>1, HandlerBegun, SweepBegun, StartBegun, ClientJobs, EnvironmentBegun DEF Next

LEMMA AckFrame ==
    ASSUME JobsOK, Next, NEW q \in Procs, job'[q].at \in Acking
    PROVE  \/ job[q].at \in Acking /\ job'[q].rows = job[q].rows
           \/ \E d \in Devices : AckBegin(q, d)
<1>1. job'[q].at # "queue" /\ job'[q].at \in Begun
  BY DEF Acking, Begun
<1>2. ASSUME NEW n \in Nodes, NEW m \in Messages, SendBegin(q, n, m)
      PROVE  FALSE
  BY <1>2 DEF SendBegin, Become, JobsOK, Job, Idle, Acking
<1> QED  BY <1>1, <1>2, BegunFrame DEF Stayed, Begun

-----------------------------------------------------------------------------
(* Each part of Custody is preserved.                                      *)

\* What the recipient has it never loses.
LEMMA DeliveredGrows ==
    ASSUME TypeOK, Next
    PROVE  DeliveredMessages \subseteq DeliveredMessages'
<1> ClientOK  BY DEF TypeOK
<1>1. CASE UNCHANGED client
  BY <1>1 DEF client, DeliveredMessages, Delivered, Displayed
<1>2. ASSUME NEW d \in Devices, Reload(d)
      PROVE  DeliveredMessages \subseteq DeliveredMessages'
  BY <1>2 DEF Reload, DeliveredMessages, Delivered, Displayed
<1>3. ASSUME NEW d \in Devices, NEW m \in Messages, Receive(d, m)
      PROVE  DeliveredMessages \subseteq DeliveredMessages'
  <2>1. received \subseteq received'
    BY <1>3 DEF Receive, Take
  <2>2. \A e \in Devices : decrypted[e] \subseteq decrypted'[e]
    BY <1>3 DEF Receive, ClientOK
  <2> QED  BY <2>1, <2>2 DEF DeliveredMessages, Delivered, Displayed
<1>4. ASSUME NEW d \in Devices, NEW m \in Messages, ReceiveUndecryptable(d, m)
      PROVE  DeliveredMessages \subseteq DeliveredMessages'
  BY <1>4 DEF ReceiveUndecryptable, Take, DeliveredMessages, Delivered, Displayed
<1> QED  BY <1>1, <1>2, <1>3, <1>4, ClientFrame

LEMMA ClientStep ==
    ASSUME TypeOK, ClientTrue, Next
    PROVE  ClientTrue'
<1> USE DeliveredGrows
<1> ClientOK  BY DEF TypeOK
<1>1. CASE UNCHANGED client
  BY <1>1 DEF client, ClientTrue
<1>2. ASSUME NEW d \in Devices, Reload(d)
      PROVE  ClientTrue'
  BY <1>2 DEF Reload, ClientTrue, ClientOK
<1>3. ASSUME NEW d \in Devices, NEW m \in Messages, Receive(d, m)
      PROVE  ClientTrue'
  <2>1. m \in received' /\ m \in decrypted'[d]
    BY <1>3 DEF Receive, Take, ClientOK
  <2>2. m \in DeliveredMessages'
    BY <2>1 DEF DeliveredMessages, Delivered, Displayed
  <2>3. \A e \in Devices : /\ processed'[e] \subseteq processed[e] \cup {m}
                           /\ decrypted'[e] \subseteq decrypted[e] \cup {m}
    BY <1>3 DEF Receive, Take, ClientOK
  <2> QED  BY <2>2, <2>3 DEF ClientTrue
<1>4. ASSUME NEW d \in Devices, NEW m \in Messages, ReceiveUndecryptable(d, m)
      PROVE  ClientTrue'
  <2>1. m \in received' /\ decrypted' = decrypted
    BY <1>4 DEF ReceiveUndecryptable, Take
  <2>2. m \in decrypted[d] \/ m \in Undecryptable
    BY <1>4 DEF ReceiveUndecryptable
  <2>3. m \in DeliveredMessages'
    BY <2>1, <2>2 DEF DeliveredMessages, Delivered, Displayed
  <2>4. \A e \in Devices : processed'[e] \subseteq processed[e] \cup {m}
    BY <1>4 DEF ReceiveUndecryptable, Take, ClientOK
  <2> QED  BY <2>1, <2>3, <2>4 DEF ClientTrue
<1> QED  BY <1>1, <1>2, <1>3, <1>4, ClientFrame

\* Sending an event about a message the recipient has.
LEMMA TellStep ==
    ASSUME NEW D, up \in [Devices -> Seq([type : Events, msg : D])],
           NEW d \in Devices, NEW type \in Events, NEW m \in D, Tell(d, type, m)
    PROVE  up' \in [Devices -> Seq([type : Events, msg : D])]
<1>1. Append(up[d], [type |-> type, msg |-> m]) \in Seq([type : Events, msg : D])
  BY AppendProperties
<1> QED  BY <1>1 DEF Tell

\* Receiving the oldest event of a device.
LEMMA HeardStep ==
    ASSUME NEW D, up \in [Devices -> Seq([type : Events, msg : D])],
           NEW d \in Devices, up[d] # << >>
    PROVE  /\ Head(up[d]).msg \in D
           /\ [up EXCEPT ![d] = Tail(@)] \in [Devices -> Seq([type : Events, msg : D])]
<1>1. /\ Head(up[d]) \in [type : Events, msg : D]
      /\ Tail(up[d]) \in Seq([type : Events, msg : D])
  BY HeadTailProperties
<1> QED  BY <1>1

LEMMA EventsStep ==
    ASSUME TypeOK, ClientTrue, EventsTrue, Next
    PROVE  EventsTrue'
<1> DEFINE T == [Devices -> Seq([type : Events, msg : DeliveredMessages'])]
<1>1. up \in T
  <2> DEFINE old == [type : Events, msg : DeliveredMessages]
             new == [type : Events, msg : DeliveredMessages']
  <2>1. old \subseteq new
    BY DeliveredGrows
  <2>2. up \in [Devices -> Seq(old)]
    BY DEF EventsTrue
  <2>3. up \in [Devices -> Seq(new)]
    <3> HIDE DEF old, new
    <3> QED  BY <2>1, <2>2, SeqMonotonic
  <2> QED  BY <2>3
<1>2. \A d \in Devices : processed'[d] \subseteq DeliveredMessages'
  BY ClientStep DEF ClientTrue
<1>3. CASE UNCHANGED up
  BY <1>1, <1>3 DEF EventsTrue
<1>4. ASSUME NEW p \in Procs, NEW d \in Devices, AckBegin(p, d)
      PROVE  EventsTrue'
  BY <1>1, <1>4, HeardStep DEF AckBegin, Incoming, EventsTrue
<1>5. ASSUME NEW d \in Devices, HandleRead(d) \/ HandleDecryptionError(d)
      PROVE  EventsTrue'
  <2>1. up' = [up EXCEPT ![d] = Tail(@)] /\ up[d] # << >>
    BY <1>5 DEF HandleRead, HandleDecryptionError, Incoming
  <2> QED  BY <1>1, <2>1, HeardStep DEF EventsTrue
<1>6. ASSUME NEW d \in Devices, ReceiveAgain(d)
      PROVE  EventsTrue'
  <2>1. Head(down[d]) \in processed'[d]
    BY <1>6 DEF ReceiveAgain, client
  <2> QED  BY <1>1, <1>2, <1>6, <2>1, TellStep DEF ReceiveAgain, Events, EventsTrue
<1>7. ASSUME NEW d \in Devices, NEW m \in Messages, Receive(d, m)
      PROVE  EventsTrue'
  <2>1. m \in processed'[d]
    BY <1>7 DEF Receive, Take, TypeOK, ClientOK
  <2> QED  BY <1>1, <1>2, <1>7, <2>1, TellStep DEF Receive, Events, EventsTrue
<1>8. ASSUME NEW d \in Devices, NEW m \in Messages,
             SendRead(d, m) \/ SendDecryptionError(d, m)
      PROVE  EventsTrue'
  <2>1. m \in processed'[d]
    BY <1>8 DEF SendRead, SendDecryptionError, client
  <2> QED  BY <1>1, <1>2, <1>8, <2>1, TellStep
              DEF SendRead, SendDecryptionError, Events, EventsTrue
<1>9. ASSUME NEW ds \in SUBSET Devices, Close(ds)
      PROVE  EventsTrue'
  BY <1>1, <1>9, EmptySeq DEF Close, EventsTrue
<1> QED  BY <1>3, <1>4, <1>5, <1>6, <1>7, <1>8, <1>9, EventFrame

LEMMA AcksStep ==
    ASSUME TypeOK, EventsTrue, AcksTrue, Next
    PROVE  AcksTrue'
<1> SUFFICES ASSUME NEW q \in Procs, job'[q].at \in Acking,
                    NEW e \in job'[q].rows
             PROVE  e.msg \in DeliveredMessages'
  BY DEF AcksTrue
<1>1. JobsOK  BY DEF TypeOK
<1>2. CASE job[q].at \in Acking /\ job'[q].rows = job[q].rows
  BY <1>2, DeliveredGrows DEF AcksTrue
<1>3. ASSUME NEW d \in Devices, AckBegin(q, d)
      PROVE  e.msg \in DeliveredMessages'
  <2>1. Head(up[d]).msg \in DeliveredMessages
    BY <1>3, HeardStep DEF AckBegin, Incoming, EventsTrue
  <2>2. job'[q].rows = {[id |-> 0, msg |-> Head(up[d]).msg]}
    BY <1>1, <1>3 DEF AckBegin, Become, Job, Idle, JobsOK
  <2> QED  BY <2>1, <2>2, DeliveredGrows
<1> QED  BY <1>1, <1>2, <1>3, AckFrame

\* The message of a handler of an acknowledgement.
LEMMA AckedIsDelivered ==
    ASSUME TypeOK, AcksTrue, NEW p \in Procs, job[p].at \in Acking
    PROVE  Current(p).msg \in DeliveredMessages
<1>1. job[p].at \notin RowlessLabels
  BY DEF Acking, RowlessLabels
<1> QED  BY <1>1, CurrentIsIn DEF AcksTrue, TypeOK

LEMMA CachesStep ==
    ASSUME TypeOK, AcksTrue, CachesTrue, Next
    PROVE  CachesTrue'
<1>1. recent \in [Nodes -> Seq(DeliveredMessages')]
  <2>1. \A n \in Nodes : recent[n] \in Seq(DeliveredMessages')
    BY DeliveredGrows, SeqMonotonic DEF CachesTrue
  <2> QED  BY <2>1 DEF CachesTrue
<1>2. CASE UNCHANGED recent
  BY <1>1, <1>2 DEF CachesTrue
<1>3. ASSUME NEW p \in Procs, AckRemember(p)
      PROVE  CachesTrue'
  <2>1. Current(p).msg \in DeliveredMessages'
    BY <1>3, AckedIsDelivered, DeliveredGrows DEF AckRemember, At, Acking
  <2>2. \A n \in Nodes :
          Remembered(recent[n], Current(p).msg) \in Seq(DeliveredMessages')
    BY <1>1, <2>1, RememberedTyping
  <2> QED  BY <1>1, <1>3, <2>2 DEF AckRemember, CachesTrue
<1>4. ASSUME NEW n \in Nodes, Crash(n)
      PROVE  CachesTrue'
  BY <1>1, <1>4, EmptySeq DEF Crash, CachesTrue
<1> QED  BY <1>2, <1>3, <1>4, CacheFrame

\* The message of a handler that works on a row, and its name in the tables.
LEMMA OtherTables ==
    ASSUME TypeOK, TablesTrue, Next, NEW m \in Messages,
           mailbox'[m] = mailbox[m], record'[m] = record[m]
    PROVE  TableTrue(mailbox[m], record[m], m)'
BY DeliveredGrows DEF TablesTrue, TableTrue, DeliveredMessages, Present, Retryable

\* One entry of both tables becomes row and r.
LEMMA TableStep ==
    ASSUME TypeOK, TablesTrue, Next, NEW m \in Messages, NEW row, NEW r,
           mailbox' = [mailbox EXCEPT ![m] = row],
           record' = [record EXCEPT ![m] = r],
           /\ row.id > 0 /\ ~Present(row) => m \in DeliveredMessages'
           /\ r.status \in {"acknowledged", "read"} => m \in DeliveredMessages'
           /\ row.status \in {"queued", "delivered"} /\ ~Retryable(row, r)
                => m \in DeliveredMessages'
           /\ r.status = "failed" => row.status \in {"absent", "failed"}
    PROVE  TablesTrue'
<1> SUFFICES ASSUME NEW x \in Messages
             PROVE  TableTrue(mailbox[x], record[x], x)'
  BY DEF TablesTrue
<1>1. DatabaseOK  BY DEF TypeOK
<1>2. CASE x = m
  <2>1. mailbox'[x] = row /\ record'[x] = r
    BY <1>1, <1>2 DEF DatabaseOK
  <2> QED  BY <1>2, <2>1 DEF TableTrue, DeliveredMessages, Present, Retryable
<1>3. CASE x # m
  BY <1>1, <1>3, OtherTables DEF DatabaseOK
<1> QED  BY <1>2, <1>3

LEMMA TablesStep ==
    ASSUME TypeOK, EventsTrue, AcksTrue, TablesTrue, Next
    PROVE  TablesTrue'
<1>1. DatabaseOK  BY DEF TypeOK
<1>2. \A m \in Messages :
        /\ mailbox[m] \in RowType /\ record[m] \in RecordType
        /\ mailbox[m].id > 0 /\ ~Present(mailbox[m]) => m \in DeliveredMessages'
        /\ record[m].status \in {"acknowledged", "read"} => m \in DeliveredMessages'
        /\ mailbox[m].status \in {"queued", "delivered"}
           /\ ~Retryable(mailbox[m], record[m]) => m \in DeliveredMessages'
        /\ record[m].status = "failed" => mailbox[m].status \in {"absent", "failed"}
  BY <1>1, DeliveredGrows DEF TablesTrue, TableTrue, DatabaseOK, DeliveredMessages
<1> USE DEF RowType, RowStatus, RecordType, RecordStatus, Present, Retryable
<1>3. CASE UNCHANGED <<mailbox, record>>
  BY <1>3, OtherTables DEF TablesTrue
<1>4. ASSUME NEW p \in Procs, SendQueue(p)
      PROVE  TablesTrue'
  <2> DEFINE m == Current(p).msg
  <2>1. m \in Messages
    BY <1>4, CurrentIsIn DEF SendQueue, At, RowlessLabels, TypeOK
  <2>2. /\ mailbox' = [mailbox EXCEPT ![m] = QueuedRow(lastId + 1)]
        /\ record' = [record EXCEPT ![m] = QueuedRecord]
    BY <1>4 DEF SendQueue
  <2> HIDE DEF m
  <2> QED  BY <2>1, <2>2, TableStep DEF QueuedRow, QueuedRecord
<1>5. ASSUME NEW p \in Procs, Attempt(p)
      PROVE  TablesTrue'
  <2> DEFINE m == Current(p).msg
  <2>1. m \in Messages
    BY <1>5, CurrentIsIn DEF Attempt, At, RowlessLabels, TypeOK
  <2>2. /\ mailbox' = [mailbox EXCEPT ![m] = mailbox[m]]
        /\ record' = [record EXCEPT ![m] = AttemptedRecord(record[m])]
    BY <1>1, <1>5 DEF Attempt, DatabaseOK
  <2>3. AttemptedRecord(record[m]).status = record[m].status
    BY <1>2, <2>1 DEF AttemptedRecord
  <2> HIDE DEF m
  <2> QED  BY <1>2, <2>1, <2>2, <2>3, TableStep
<1>6. ASSUME NEW p \in Procs, Mark(p)
      PROVE  TablesTrue'
  <2> DEFINE m == Current(p).msg
             row == DeliveredRow(mailbox[m], Current(p).id)
  <2>1. m \in Messages
    BY <1>6, CurrentIsIn DEF Mark, At, RowlessLabels, TypeOK
  <2>2. /\ mailbox' = [mailbox EXCEPT ![m] = row]
        /\ record' = [record EXCEPT ![m] = DeliveredRecord(record[m])]
    BY <1>6 DEF Mark
  <2>3. DeliveredRecord(record[m]).status = "delivered"
    BY <1>2, <2>1 DEF DeliveredRecord
  <2>4. /\ row.id = mailbox[m].id
        /\ row.status = "absent" <=> mailbox[m].status = "absent"
    BY <1>2, <2>1 DEF DeliveredRow
  <2> HIDE DEF m, row
  <2> QED  BY <1>2, <2>1, <2>2, <2>3, <2>4, TableStep
<1>7. ASSUME NEW p \in Procs, AckCommit(p)
      PROVE  TablesTrue'
  <2> DEFINE m == Current(p).msg
  <2>1. m \in Messages
    BY <1>7, CurrentIsIn DEF AckCommit, At, RowlessLabels, TypeOK
  <2>2. /\ mailbox' = [mailbox EXCEPT ![m] = AcknowledgedRow(mailbox[m])]
        /\ record' = [record EXCEPT ![m] = AcknowledgedRecord(record[m])]
    BY <1>7 DEF AckCommit
  <2>3. m \in DeliveredMessages'
    BY <1>7, AckedIsDelivered, DeliveredGrows DEF AckCommit, At, Acking
  <2>4. AcknowledgedRecord(record[m]).status = "acknowledged"
    BY <1>2, <2>1 DEF AcknowledgedRecord
  <2> HIDE DEF m
  <2> QED  BY <2>1, <2>2, <2>3, <2>4, TableStep
<1>8. ASSUME NEW m \in Messages, NEW r,
             mailbox' = [mailbox EXCEPT ![m] = FailedRow(mailbox[m])],
             record' = [record EXCEPT ![m] = r], r = FailedRecord(record[m])
      PROVE  TablesTrue'
  <2>1. FailedRecord(record[m]).status = "failed"
    BY <1>2 DEF FailedRecord
  <2>2. /\ FailedRow(mailbox[m]).id = mailbox[m].id
        /\ FailedRow(mailbox[m]).status \in {"absent", "failed"}
        /\ FailedRow(mailbox[m]).status = "absent" => mailbox[m].status = "absent"
    BY <1>2 DEF FailedRow
  <2> QED  BY <1>2, <1>8, <2>1, <2>2, TableStep
<1>9. ASSUME NEW p \in Procs, TimeoutFail(p)
      PROVE  TablesTrue'
  <2>1. Current(p).msg \in Messages
    BY <1>9, CurrentIsIn DEF TimeoutFail, At, RowlessLabels, TypeOK
  <2> QED  BY <1>8, <1>9, <2>1 DEF TimeoutFail
<1>10. ASSUME NEW n \in Nodes, SweepFail(n)
       PROVE  TablesTrue'
  <2>1. Current(n).msg \in Messages
    BY <1>10, CurrentIsIn DEF SweepFail, At, RowlessLabels, TypeOK, Procs
  <2> QED  BY <1>8, <1>10, <2>1 DEF SweepFail
<1>11. ASSUME NEW p \in Procs, TimeoutReschedule(p)
       PROVE  TablesTrue'
  <2> DEFINE m == Current(p).msg
             row == RescheduledRow(mailbox[m])
             r == RescheduledRecord(record[m])
  <2>1. m \in Messages
    BY <1>11, CurrentIsIn DEF TimeoutReschedule, At, RowlessLabels, TypeOK
  <2>2. mailbox' = [mailbox EXCEPT ![m] = row] /\ record' = [record EXCEPT ![m] = r]
    BY <1>11 DEF TimeoutReschedule
  <2>3. /\ row.id = mailbox[m].id
        /\ row.status = "absent" <=> mailbox[m].status = "absent"
        /\ row.status = "failed" <=> mailbox[m].status = "failed"
    BY <1>2, <2>1 DEF RescheduledRow
  <2>4. IF record[m].status \in {"acknowledged", "read", "failed"}
        THEN r = record[m]
        ELSE r.status = "queued"
    BY <1>2, <2>1 DEF RescheduledRecord
  <2> HIDE DEF m, row, r
  <2> QED  BY <1>2, <2>1, <2>2, <2>3, <2>4, TableStep
<1>12. ASSUME NEW d \in Devices, HandleRead(d) \/ HandleDecryptionError(d)
       PROVE  TablesTrue'
  <2> DEFINE m == Head(up[d]).msg
  <2>1. m \in DeliveredMessages
    BY <1>12, HeardStep DEF HandleRead, HandleDecryptionError, Incoming, EventsTrue
  <2>2. m \in Messages /\ m \in DeliveredMessages'
    BY <2>1, DeliveredGrows DEF DeliveredMessages
  <2>3. mailbox' = [mailbox EXCEPT ![m] = mailbox[m]]
    BY <1>1, <1>12 DEF HandleRead, HandleDecryptionError, DatabaseOK
  <2>4. PICK r : /\ record' = [record EXCEPT ![m] = r]
                 /\ r.status = "failed" => record[m].status = "failed"
    <3>1. CASE HandleRead(d)
      <4>1. record' = [record EXCEPT ![m] = ReadRecord(record[m])]
        BY <3>1 DEF HandleRead
      <4>2. ReadRecord(record[m]).status = "failed" => record[m].status = "failed"
        BY <1>2, <2>2 DEF ReadRecord
      <4> QED  BY <4>1, <4>2
    <3>2. CASE HandleDecryptionError(d)
      <4>1. record' = [record EXCEPT ![m] = UndecryptableRecord(record[m])]
        BY <3>2 DEF HandleDecryptionError
      <4>2. UndecryptableRecord(record[m]).status = "failed" => record[m].status = "failed"
        BY <1>2, <2>2 DEF UndecryptableRecord
      <4> QED  BY <4>1, <4>2
    <3> QED  BY <1>12, <3>1, <3>2
  <2> HIDE DEF m
  <2> QED  BY <1>2, <2>2, <2>3, <2>4, TableStep
<1>13. ASSUME NEW m \in Messages, RetryDue(m)
       PROVE  TablesTrue'
  <2> DEFINE r == [record[m] EXCEPT !.due = TRUE]
  <2>1. mailbox' = [mailbox EXCEPT ![m] = mailbox[m]] /\ record' = [record EXCEPT ![m] = r]
    BY <1>1, <1>13 DEF RetryDue, DatabaseOK
  <2>2. r.status = record[m].status
    BY <1>2
  <2> HIDE DEF r
  <2> QED  BY <1>2, <2>1, <2>2, TableStep
<1> QED  BY <1>3, <1>4, <1>5, <1>6, <1>7, <1>9, <1>10, <1>11, <1>12, <1>13,
            TableFrame

-----------------------------------------------------------------------------
(* Custody holds of every reachable state.                                 *)

LEMMA InitCustody == Init => Custody
<1> SUFFICES ASSUME Init PROVE Custody
  OBVIOUS
<1>1. ClientTrue  BY DEF Init, ClientTrue
<1>2. EventsTrue /\ CachesTrue  BY EmptySeq DEF Init, EventsTrue, CachesTrue
<1>3. AcksTrue  BY DEF Init, AcksTrue, Idle, Acking
<1>4. TablesTrue  BY DEF Init, TablesTrue, TableTrue, NoRow, NoRecord
<1> QED  BY <1>1, <1>2, <1>3, <1>4 DEF Custody

LEMMA StepCustody == TypeOK /\ Custody /\ [Next]_vars => Custody'
<1> SUFFICES ASSUME TypeOK, Custody, [Next]_vars PROVE Custody'
  OBVIOUS
<1>1. CASE Next
  BY <1>1, ClientStep, EventsStep, AcksStep, CachesStep, TablesStep DEF Custody
<1>2. CASE UNCHANGED vars
  BY <1>2 DEF vars, database, memory, channels, client, Custody, ClientTrue,
     EventsTrue, AcksTrue, CachesTrue, TablesTrue, TableTrue, DeliveredMessages,
     Delivered, Displayed
<1> QED  BY <1>1, <1>2

\* In every reachable state each acknowledgement on its way, cached or
\* committed is about a message its recipient has (chatSocket.ts 1017-1054,
\* useChatMessages.ts 112-191).
THEOREM CustodyKept == Spec => []Custody
<1>1. Init => Custody
  BY InitCustody
<1>2. TypeOK /\ Custody /\ [Next]_vars => Custody'
  BY StepCustody
<1> QED  BY <1>1, <1>2, TypeCorrect, PTL DEF Spec

\* At-least-once delivery (chatSocket.ts 1017-1054, MailboxRepository.ts
\* 254-282): a row is deleted only once its recipient has the message.
THEOREM DeliverySafe == Spec => []PurgedOnlyAfterDelivery
<1>1. Custody => PurgedOnlyAfterDelivery
  BY DEF Custody, TablesTrue, TableTrue, PurgedOnlyAfterDelivery, Accepted
<1> QED  BY <1>1, CustodyKept, PTL

\* Deduplication (chatSocket.ts 906-930): a sender that is told
\* "already_delivered" may forget the message.
THEOREM DeduplicationTrue == Spec => []AlreadyDeliveredIsTrue
<1>1. Custody => AlreadyDeliveredIsTrue
  <2> SUFFICES ASSUME Custody, NEW n \in Nodes, NEW m \in Messages,
                      AlreadyDelivered(n, m)
               PROVE  Delivered(m)
    BY DEF AlreadyDeliveredIsTrue
  <2>1. CASE m \in Range(recent[n])
    <3>1. recent[n] \in Seq(DeliveredMessages)
      BY DEF Custody, CachesTrue
    <3>2. PICK i \in DOMAIN recent[n] : m = recent[n][i]
      BY <2>1 DEF Range
    <3>3. m \in DeliveredMessages
      BY <3>1, <3>2, ElementOfSeq
    <3> QED  BY <3>3 DEF DeliveredMessages
  <2>2. CASE record[m].status \in {"acknowledged", "read"}
    BY <2>2 DEF Custody, TablesTrue, TableTrue
  <2> QED  BY <2>1, <2>2 DEF AlreadyDelivered
<1> QED  BY <1>1, CustodyKept, PTL

\* The sweep's queries (MailboxRepository.ts 162-219) overlook a row that is
\* not dead-lettered only if its message has been delivered.
THEOREM NothingHidden == Spec => []HiddenOnlyAfterDelivery
<1>1. Custody => HiddenOnlyAfterDelivery
  BY DEF Custody, TablesTrue, TableTrue, HiddenOnlyAfterDelivery
<1> QED  BY <1>1, CustodyKept, PTL

\* A dead letter (MailboxRepository.ts 114-160) is in neither table's queries.
THEOREM DeadLettersStay == Spec => []FailedIsNotPending
<1>1. Custody => FailedIsNotPending
  BY DEF Custody, TablesTrue, TableTrue, FailedIsNotPending, IsPending
<1> QED  BY <1>1, CustodyKept, PTL

-----------------------------------------------------------------------------
(* MailboxDelivery implements AtLeastOnceMailbox, for every instance.      *)
(*                                                                         *)
(* Two things the abstract mailbox asks for do not follow from Custody:    *)
(* only an accepted message can be delivered or dead-lettered.  A handler  *)
(* dispatches from rows it read some awaits ago, and a device receives     *)
(* from what some handler emitted, so Held traces both to the table.       *)

AcceptedMessages == {m \in Messages : Accepted(m)}

\* the steps that work on rows read from the table
Dispatching == {"lookup", "attempt", "mark", "emit", "arm", "dispatch", "fail"}

HoldsOnly(j, ms) ==
    /\ \A e \in j.batch : e.msg \in ms
    /\ j.at \in Dispatching => \A e \in j.rows : e.msg \in ms

\* Whatever a handler dispatches was accepted,
JobsHeld == \A p \in Procs : HoldsOnly(job[p], AcceptedMessages)

\* and so was what is on its way to a device
DownHeld == down \in [Devices -> Seq(AcceptedMessages)]

\* and what is in the table.
RowsHeld == \A m \in Messages : Present(mailbox[m]) => Accepted(m)

Held == JobsHeld /\ DownHeld /\ RowsHeld

-----------------------------------------------------------------------------
(* What was accepted stays accepted.                                       *)

\* One row of the table becomes row.
LEMMA RowAccepted ==
    ASSUME DatabaseOK, RowsHeld, NEW m \in Messages, NEW row,
           mailbox' = [mailbox EXCEPT ![m] = row],
           row.id > 0 \/ row.id = mailbox[m].id,
           row.id = mailbox[m].id /\ Present(row) => Present(mailbox[m])
    PROVE  AcceptedMessages \subseteq AcceptedMessages' /\ RowsHeld'
BY DEF DatabaseOK, RowType, RowsHeld, AcceptedMessages, Accepted, Present

LEMMA AcceptedGrows ==
    ASSUME TypeOK, RowsHeld, Next
    PROVE  AcceptedMessages \subseteq AcceptedMessages' /\ RowsHeld'
<1>1. DatabaseOK  BY DEF TypeOK
<1> DEFINE Same(m, row) ==
             row.id = mailbox[m].id /\ (Present(row) => Present(mailbox[m]))
<1>2. \A m \in Messages, id \in Nat :
         /\ Same(m, DeliveredRow(mailbox[m], id))
         /\ Same(m, AcknowledgedRow(mailbox[m]))
         /\ Same(m, FailedRow(mailbox[m]))
         /\ Same(m, RescheduledRow(mailbox[m]))
  BY <1>1 DEF DatabaseOK, RowType, Present, DeliveredRow, AcknowledgedRow,
     FailedRow, RescheduledRow
<1>3. CASE UNCHANGED mailbox
  BY <1>3 DEF AcceptedMessages, Accepted, RowsHeld
<1>4. ASSUME NEW p \in Procs, job[p].at \notin RowlessLabels
      PROVE  Current(p).msg \in Messages /\ Current(p).id \in Nat
  BY <1>4, CurrentIsIn DEF TypeOK
<1>5. ASSUME NEW p \in Procs, SendQueue(p)
      PROVE  AcceptedMessages \subseteq AcceptedMessages' /\ RowsHeld'
  <2>1. Current(p).msg \in Messages
    BY <1>4, <1>5 DEF SendQueue, At, RowlessLabels
  <2>2. mailbox' = [mailbox EXCEPT ![Current(p).msg] = QueuedRow(lastId + 1)]
    BY <1>5 DEF SendQueue
  <2>3. QueuedRow(lastId + 1).id > 0 /\ QueuedRow(lastId + 1).id = lastId + 1
    BY <1>1 DEF QueuedRow, DatabaseOK
  <2>4. ~Present(mailbox[Current(p).msg])
    BY <1>5 DEF SendQueue
  <2> QED
    BY <1>1, <2>1, <2>2, <2>3
       DEF DatabaseOK, RowType, RowsHeld, AcceptedMessages, Accepted, Present
<1>6. ASSUME NEW p \in Procs, Mark(p)
      PROVE  AcceptedMessages \subseteq AcceptedMessages' /\ RowsHeld'
  <2>1. Current(p).msg \in Messages /\ Current(p).id \in Nat
    BY <1>4, <1>6 DEF Mark, At, RowlessLabels
  <2> QED  BY <1>1, <1>2, <1>6, <2>1, RowAccepted DEF Mark
<1>7. ASSUME NEW p \in Procs, AckCommit(p)
      PROVE  AcceptedMessages \subseteq AcceptedMessages' /\ RowsHeld'
  <2>1. Current(p).msg \in Messages
    BY <1>4, <1>7 DEF AckCommit, At, RowlessLabels
  <2> QED  BY <1>1, <1>2, <1>7, <2>1, RowAccepted DEF AckCommit
<1>8. ASSUME NEW p \in Procs, TimeoutFail(p)
      PROVE  AcceptedMessages \subseteq AcceptedMessages' /\ RowsHeld'
  <2>1. Current(p).msg \in Messages
    BY <1>4, <1>8 DEF TimeoutFail, At, RowlessLabels
  <2> QED  BY <1>1, <1>2, <1>8, <2>1, RowAccepted DEF TimeoutFail
<1>9. ASSUME NEW p \in Procs, TimeoutReschedule(p)
      PROVE  AcceptedMessages \subseteq AcceptedMessages' /\ RowsHeld'
  <2>1. Current(p).msg \in Messages
    BY <1>4, <1>9 DEF TimeoutReschedule, At, RowlessLabels
  <2> QED  BY <1>1, <1>2, <1>9, <2>1, RowAccepted DEF TimeoutReschedule
<1>10. ASSUME NEW n \in Nodes, SweepFail(n)
       PROVE  AcceptedMessages \subseteq AcceptedMessages' /\ RowsHeld'
  <2>1. Current(n).msg \in Messages
    BY <1>4, <1>10 DEF SweepFail, At, RowlessLabels, Procs
  <2> QED  BY <1>1, <1>2, <1>10, <2>1, RowAccepted DEF SweepFail
<1>11. ASSUME NEW p \in Procs, Attempt(p)
       PROVE  UNCHANGED mailbox
  BY <1>11 DEF Attempt
<1> QED  BY <1>3, <1>5, <1>6, <1>7, <1>8, <1>9, <1>10, <1>11, TableFrame
         DEF HandleRead, HandleDecryptionError, RetryDue

-----------------------------------------------------------------------------
(* Handlers hold accepted messages only.                                   *)

\* One handler goes on as j.
LEMMA BecomeHeld ==
    ASSUME JobsOK, JobsHeld, AcceptedMessages \subseteq AcceptedMessages',
           NEW p \in Procs, NEW j, Become(p, j), HoldsOnly(j, AcceptedMessages')
    PROVE  JobsHeld'
BY DEF JobsOK, JobsHeld, HoldsOnly, Become

LEMMA IdleHeld == ASSUME NEW ms PROVE HoldsOnly(Idle, ms)
BY DEF HoldsOnly, Idle, Dispatching

\* A new handler has read no row.
LEMMA FreshHeld ==
    ASSUME NEW ms, NEW kind, NEW label, label \notin Dispatching, NEW n, NEW rows
    PROVE  HoldsOnly(Job(kind, label, n, rows), ms)
BY DEF HoldsOnly, Job, Idle, Dispatching

\* What a dispatching handler still holds when it goes on with its row, and
\* when it goes on with the next.
LEMMA DispatchHeld ==
    ASSUME TypeOK, JobsHeld, NEW p \in Procs, job[p].at \in Dispatching
    PROVE  /\ Current(p).msg \in AcceptedMessages
           /\ \A e \in job[p].rows \cup job[p].batch : e.msg \in AcceptedMessages
           /\ Rest(p) \subseteq job[p].rows
           /\ Current(p) \in job[p].rows
<1>1. job[p].at \notin RowlessLabels
  BY DEF Dispatching, RowlessLabels
<1>2. Current(p) \in job[p].rows
  BY <1>1, CurrentIsIn DEF TypeOK
<1> QED  BY <1>2 DEF JobsHeld, HoldsOnly, Rest

\* Rows found by a query are in the table.
LEMMA RowsAreHeld ==
    ASSUME RowsHeld, NEW ms, \A m \in ms : m \in Messages /\ Present(mailbox[m]),
           NEW limit
    PROVE  \A e \in Page(Rows(ms), limit) : e.msg \in AcceptedMessages
BY DEF Page, Rows, RowsHeld, AcceptedMessages

LEMMA HandlerHeld ==
    ASSUME TypeOK, JobsHeld, RowsHeld, Next, NEW p \in Procs, Handler(p)
    PROVE  JobsHeld'
<1>1. JobsOK /\ AcceptedMessages \subseteq AcceptedMessages'
  BY AcceptedGrows DEF TypeOK
<1>2. job[p] \in JobType
  BY <1>1 DEF JobsOK
<1>3. HoldsOnly(job[p], AcceptedMessages')
  BY <1>1 DEF JobsHeld, HoldsOnly
<1>4. HoldsOnly(Idle, AcceptedMessages')
  BY IdleHeld
<1>5. CASE job'  = [job EXCEPT ![p] = Idle]
  BY <1>1, <1>4, <1>5, BecomeHeld DEF Become
<1> USE DEF At, Goto
<1>6. CASE SendQueue(p)
  <2> DEFINE m == Current(p).msg
             j == [job[p] EXCEPT !.at = "lookup",
                                 !.rows = {[id |-> lastId + 1, msg |-> m]}]
  <2>1. m \in Messages
    BY <1>6, CurrentIsIn DEF SendQueue, RowlessLabels, TypeOK
  <2>2. m \in AcceptedMessages'
    BY <1>6, <2>1 DEF SendQueue, QueuedRow, AcceptedMessages, Accepted, TypeOK,
       DatabaseOK
  <2>3. j.batch = job[p].batch /\ \A e \in j.rows : e.msg = m
    BY <1>2 DEF JobType, JobFields
  <2>4. Become(p, j)
    BY <1>6 DEF SendQueue
  <2>5. HoldsOnly(j, AcceptedMessages')
    BY <1>3, <2>2, <2>3 DEF HoldsOnly
  <2> QED  BY <1>1, <2>4, <2>5, BecomeHeld
<1>7. ASSUME NEW j, Become(p, j), job[p].at \in Dispatching,
             /\ \A e \in j.batch : e \in job[p].batch \cup job[p].rows
             /\ \A e \in j.rows : e \in job[p].batch \cup job[p].rows
      PROVE  JobsHeld'
  <2>1. HoldsOnly(j, AcceptedMessages')
    BY <1>1, <1>7, DispatchHeld DEF HoldsOnly
  <2> QED  BY <1>1, <1>7, <2>1, BecomeHeld
<1>8. CASE SendLookup(p)
  <2>1. Become(p, [job[p] EXCEPT !.at = "attempt",
                                 !.devs = OpenSockets(To[Current(p).msg])])
        \/ Become(p, Idle)
    BY <1>8 DEF SendLookup
  <2>2. job[p].at \in Dispatching
    BY <1>8 DEF SendLookup, Dispatching
  <2> QED  BY <1>2, <1>5, <1>7, <2>1, <2>2 DEF Become, JobType, JobFields
<1>9. CASE Attempt(p)
  <2>1. Become(p, [job[p] EXCEPT !.at = "mark"]) /\ job[p].at \in Dispatching
    BY <1>9 DEF Attempt, Dispatching
  <2> QED  BY <1>2, <1>7, <2>1 DEF JobType, JobFields
<1>10. CASE Mark(p)
  <2>1. Become(p, AfterMark(p)) /\ job[p].at \in Dispatching
    BY <1>10 DEF Mark, Dispatching
  <2>2. Current(p) \in job[p].rows /\ Rest(p) \subseteq job[p].rows
    BY <2>1, DispatchHeld
  <2>3. /\ AfterMark(p).batch \subseteq job[p].batch \cup job[p].rows
        /\ AfterMark(p).rows \subseteq job[p].batch \cup job[p].rows
    BY <1>2, <2>2 DEF AfterMark, JobType, JobFields
  <2> QED  BY <1>7, <2>1, <2>3
<1>11. CASE ReplayRead(p)
  <2>1. PICK u \in job[p].users : \E after \in ResumePoints(u, job[p].kind) :
             LET rows == ReplayRows(u, job[p].kind, after) IN
             Become(p, IF rows = {} THEN Idle
                       ELSE [job[p] EXCEPT !.at = "attempt", !.rows = rows])
    BY <1>11 DEF ReplayRead
  <2>2. PICK after \in ResumePoints(u, job[p].kind) :
             LET rows == ReplayRows(u, job[p].kind, after) IN
             Become(p, IF rows = {} THEN Idle
                       ELSE [job[p] EXCEPT !.at = "attempt", !.rows = rows])
    BY <2>1
  <2> DEFINE rows == ReplayRows(u, job[p].kind, after)
             j == [job[p] EXCEPT !.at = "attempt", !.rows = rows]
  <2>3. \A e \in rows : e.msg \in AcceptedMessages
    BY RowsAreHeld DEF ReplayRows, PendingRows, IsPending, Present
  <2>4. j.batch = job[p].batch /\ j.rows = rows
    BY <1>2 DEF JobType, JobFields
  <2>5. Become(p, j) \/ Become(p, Idle)
    BY <2>2
  <2>6. HoldsOnly(j, AcceptedMessages')
    <3> HIDE DEF rows, j
    <3> QED  BY <1>1, <1>3, <2>3, <2>4 DEF HoldsOnly
  <2> QED  BY <1>1, <1>5, <2>5, <2>6, BecomeHeld DEF Become
<1>12. CASE ReplayEmit(p)
  <2>1. Become(p, [job[p] EXCEPT !.at = "arm"]) /\ job[p].at \in Dispatching
    BY <1>12 DEF ReplayEmit, Dispatching
  <2> QED  BY <1>2, <1>7, <2>1 DEF JobType, JobFields
<1>13. CASE Arm(p)
  <2>1. job[p].at \in Dispatching
    BY <1>13 DEF Arm, Dispatching
  <2>2. PICK again : Become(p, Idle)
                     \/ Become(p, [job[p] EXCEPT !.at = again, !.rows = Rest(p)])
    BY <1>13 DEF Arm, NextRow
  <2> QED  BY <1>2, <1>5, <1>7, <2>1, <2>2, DispatchHeld
              DEF Become, JobType, JobFields
<1>14. ASSUME NEW j, Become(p, j), j.at \notin Dispatching, j.batch = job[p].batch
       PROVE  JobsHeld'
  BY <1>1, <1>3, <1>14, BecomeHeld DEF HoldsOnly
<1>15. CASE AckCommit(p)
  <2>1. Become(p, [job[p] EXCEPT !.at = "remember"])
    BY <1>15 DEF AckCommit
  <2> QED  BY <1>2, <1>14, <2>1 DEF JobType, JobFields, Dispatching
<1>16. CASE TimeoutRead(p)
  <2>1. PICK n : Become(p, [job[p] EXCEPT !.at = "expire", !.tries = n])
    BY <1>16 DEF TimeoutRead
  <2> QED  BY <1>2, <1>14, <2>1 DEF JobType, JobFields, Dispatching
<1>17. CASE SendDuplicate(p) \/ SendEmit(p) \/ AckRemember(p) \/ TimeoutFail(p)
            \/ TimeoutReschedule(p)
  BY <1>5, <1>17 DEF SendDuplicate, SendEmit, AckRemember, TimeoutFail,
     TimeoutReschedule, Finish, Become
<1> QED  BY <1>6, <1>8, <1>9, <1>10, <1>11, <1>12, <1>13, <1>15, <1>16, <1>17
         DEF Handler

LEMMA SweepHeld ==
    ASSUME TypeOK, JobsHeld, RowsHeld, Next, NEW n \in Nodes, Sweep(n)
    PROVE  JobsHeld'
<1>1. JobsOK /\ AcceptedMessages \subseteq AcceptedMessages'
  BY AcceptedGrows DEF TypeOK
<1>2. n \in Procs /\ job[n] \in JobType
  BY <1>1 DEF JobsOK, Procs
<1>3. HoldsOnly(job[n], AcceptedMessages')
  BY <1>1, <1>2 DEF JobsHeld, HoldsOnly
<1>4. HoldsOnly(Idle, AcceptedMessages')
  BY IdleHeld
<1>5. ASSUME NEW j, Become(n, j), j.batch = job[n].batch,
             \A e \in j.rows : e.msg \in AcceptedMessages
      PROVE  JobsHeld'
  <2>1. HoldsOnly(j, AcceptedMessages')
    BY <1>1, <1>3, <1>5 DEF HoldsOnly
  <2> QED  BY <1>1, <1>2, <1>5, <2>1, BecomeHeld
<1>6. ASSUME NEW rows, \A e \in rows : e.msg \in AcceptedMessages,
             Become(n, FailNext(n, rows))
      PROVE  JobsHeld'
  <2>1. FailNext(n, rows).batch = job[n].batch /\ FailNext(n, rows).rows = rows
    BY <1>2 DEF FailNext, JobType, JobFields
  <2> QED  BY <1>5, <1>6, <2>1
<1> USE DEF At, Goto
<1>7. CASE SweepTick(n)
  <2> DEFINE j == [Job("sweep", "exhausted", n, {}) EXCEPT !.users = OnlineUsers]
  <2>1. HoldsOnly(j, AcceptedMessages')
    BY DEF HoldsOnly, Job, Idle, Dispatching
  <2> QED  BY <1>1, <1>2, <1>7, <2>1, BecomeHeld DEF SweepTick
<1>8. CASE SweepFindExhausted(n)
  <2>1. \A e \in Found(Exhausted) : e.msg \in AcceptedMessages
    BY RowsAreHeld DEF Found, Exhausted, IsExhausted, Retryable, Present
  <2> QED  BY <1>6, <1>8, <2>1 DEF SweepFindExhausted
<1>9. CASE SweepFail(n)
  <2>1. job[n].at \in Dispatching
    BY <1>9 DEF SweepFail, Dispatching
  <2>2. \A e \in Rest(n) : e.msg \in AcceptedMessages
    BY <1>2, <2>1, DispatchHeld
  <2> QED  BY <1>6, <1>9, <2>2 DEF SweepFail
<1>10. CASE SweepFindCandidates(n)
  <2> DEFINE rows == {e \in Found(Candidates) : To[e.msg] \in job[n].users}
             j == [job[n] EXCEPT !.at = "attempt", !.rows = rows]
  <2>1. \A e \in rows : e.msg \in AcceptedMessages
    BY RowsAreHeld DEF Found, Candidates, IsCandidate, Retryable, Present
  <2>2. j.batch = job[n].batch /\ j.rows = rows
    BY <1>2 DEF JobType, JobFields
  <2>3. Become(n, j) \/ Become(n, Idle)
    BY <1>10 DEF SweepFindCandidates
  <2> HIDE DEF rows, j
  <2> QED  BY <1>1, <1>2, <1>4, <1>5, <2>1, <2>2, <2>3, BecomeHeld
<1>11. CASE SweepSkip(n)
  <2>1. job[n].at \in Dispatching
    BY <1>11 DEF SweepSkip, Dispatching
  <2>2. \A e \in Rest(n) : e.msg \in AcceptedMessages
    BY <1>2, <2>1, DispatchHeld
  <2> DEFINE j == [job[n] EXCEPT !.at = "dispatch", !.rows = Rest(n)]
  <2>3. j.batch = job[n].batch /\ j.rows = Rest(n)
    BY <1>2 DEF JobType, JobFields
  <2>4. Become(n, j) \/ Become(n, Idle)
    BY <1>11 DEF SweepSkip, NextRow
  <2> HIDE DEF j
  <2> QED  BY <1>1, <1>2, <1>4, <1>5, <2>2, <2>3, <2>4, BecomeHeld
<1>12. CASE SweepDispatch(n)
  <2>1. job[n].at \in Dispatching
    BY <1>12 DEF SweepDispatch, Dispatching
  <2> DEFINE j == [job[n] EXCEPT !.at = "arm"]
  <2>2. j.batch = job[n].batch /\ j.rows = job[n].rows
    BY <1>2 DEF JobType, JobFields
  <2>3. Become(n, j)
    BY <1>12 DEF SweepDispatch
  <2>4. \A e \in job[n].rows : e.msg \in AcceptedMessages
    BY <1>2, <2>1, DispatchHeld
  <2> HIDE DEF j
  <2> QED  BY <1>5, <2>2, <2>3, <2>4
<1> QED  BY <1>7, <1>8, <1>9, <1>10, <1>11, <1>12 DEF Sweep

LEMMA StartHeld ==
    ASSUME TypeOK, JobsHeld, RowsHeld, Next, NEW p \in Workers, Start(p)
    PROVE  JobsHeld'
<1>1. JobsOK /\ AcceptedMessages \subseteq AcceptedMessages' /\ p \in Procs
  BY AcceptedGrows DEF TypeOK, Procs
<1>2. ASSUME NEW kind, NEW label, label \notin Dispatching, NEW n, NEW rows,
             Become(p, Job(kind, label, n, rows))
      PROVE  JobsHeld'
  BY <1>1, <1>2, FreshHeld, BecomeHeld
<1>3. ASSUME NEW d \in Devices, Join(p, d) \/ Resume(p, d)
      PROVE  JobsHeld'
  <2>1. PICK kind :
          Become(p, [Job(kind, "pending", conn[d], {})
                      EXCEPT !.devs = {d}, !.users = {Owner[d]}])
    BY <1>3 DEF Join, Resume
  <2>2. HoldsOnly([Job(kind, "pending", conn[d], {})
                    EXCEPT !.devs = {d}, !.users = {Owner[d]}], AcceptedMessages')
    BY DEF HoldsOnly, Job, Idle, Dispatching
  <2> QED  BY <1>1, <2>1, <2>2, BecomeHeld
<1>4. ASSUME NEW d \in Devices, AckBegin(p, d)
      PROVE  JobsHeld'
  BY <1>2, <1>4 DEF AckBegin, Dispatching
<1>5. ASSUME NEW n \in Nodes, NEW m \in Messages, TimerFires(p, n, m)
      PROVE  JobsHeld'
  BY <1>2, <1>5 DEF TimerFires, Dispatching
<1>6. ASSUME NEW n \in Nodes, NEW m \in Messages, SendBegin(p, n, m)
      PROVE  JobsHeld'
  <2>1. Become(p, Idle) \/ Become(p, Job("send", "queue", n, {[id |-> 0, msg |-> m]}))
    BY <1>6 DEF SendBegin
  <2> QED  BY <1>1, <1>2, <2>1, IdleHeld, BecomeHeld DEF Dispatching
<1> QED  BY <1>3, <1>4, <1>5, <1>6 DEF Start

LEMMA EnvironmentHeld ==
    ASSUME TypeOK, JobsHeld, RowsHeld, Next, Environment
    PROVE  JobsHeld'
<1>1. JobsOK /\ AcceptedMessages \subseteq AcceptedMessages'
  BY AcceptedGrows DEF TypeOK
<1>2. \A p \in Procs : \A ds : HoldsOnly(WithoutDevices(job[p], ds), AcceptedMessages')
  <2> SUFFICES ASSUME NEW p \in Procs, NEW ds
               PROVE  HoldsOnly(WithoutDevices(job[p], ds), AcceptedMessages')
    OBVIOUS
  <2>1. job[p] \in JobType
    BY <1>1 DEF JobsOK
  <2>2. /\ WithoutDevices(job[p], ds).at = job[p].at
        /\ WithoutDevices(job[p], ds).rows = job[p].rows
        /\ WithoutDevices(job[p], ds).batch = job[p].batch
    BY <2>1 DEF WithoutDevices, JobType, JobFields
  <2> QED  BY <1>1, <2>2 DEF JobsHeld, HoldsOnly
<1>3. HoldsOnly(Idle, AcceptedMessages')
  BY IdleHeld
<1>4. ASSUME NEW d \in Devices, Disconnect(d) \/ Reload(d)
      PROVE  JobsHeld'
  BY <1>2, <1>4 DEF Disconnect, Reload, JobsHeld
<1>5. ASSUME NEW p \in Procs, Abort(p)
      PROVE  JobsHeld'
  BY <1>1, <1>3, <1>5, BecomeHeld DEF Abort, Finish
<1>6. ASSUME NEW n \in Nodes, Crash(n)
      PROVE  JobsHeld'
  BY <1>2, <1>3, <1>6 DEF Crash, JobsHeld
<1>7. ASSUME UNCHANGED job
      PROVE  JobsHeld'
  BY <1>1, <1>7 DEF JobsHeld, HoldsOnly
<1> QED  BY <1>4, <1>5, <1>6, <1>7 DEF Environment, Forget, Expire, RetryDue

LEMMA JobsHeldStep ==
    ASSUME TypeOK, JobsHeld, RowsHeld, Next
    PROVE  JobsHeld'
<1>1. CASE UNCHANGED job
  BY <1>1, AcceptedGrows DEF JobsHeld, HoldsOnly
<1> QED  BY <1>1, HandlerHeld, SweepHeld, StartHeld, ClientJobs, EnvironmentHeld
         DEF Next

-----------------------------------------------------------------------------
(* What is on its way to a device was accepted.                            *)

LEMMA DownFrame ==
    ASSUME Next
    PROVE  \/ UNCHANGED down
           \/ \E p \in Procs : SendEmit(p) \/ ReplayEmit(p)
           \/ \E n \in Nodes : SweepDispatch(n)
           \/ \E d \in Devices : ReceiveAgain(d)
           \/ \E d \in Devices, m \in Messages : Take(d, m)
           \/ \E ds \in SUBSET Devices : Close(ds)
BY DEF Next, Handler, Start, Sweep, Client, Environment, channels, SendBegin,
   SendDuplicate, SendQueue, SendLookup, Attempt, Mark, Join, Refresh, Resume,
   ReplayRead, Arm, SweepTick, SweepFindExhausted, SweepFail,
   SweepFindCandidates, SweepSkip, AckBegin, AckCommit, AckRemember, HandleRead,
   HandleDecryptionError, TimerFires, TimeoutRead, TimeoutFail,
   TimeoutReschedule, RetryDue, Connect, Receive, ReceiveUndecryptable, SendRead,
   SendDecryptionError, Disconnect, Reload, Forget, Expire, Abort, Crash

LEMMA DownHeldStep ==
    ASSUME TypeOK, JobsHeld, DownHeld, RowsHeld, Next
    PROVE  DownHeld'
<1> DEFINE T == Seq(AcceptedMessages')
<1>1. down \in [Devices -> T]
  <2>1. \A d \in Devices : down[d] \in T
    BY AcceptedGrows, SeqMonotonic DEF DownHeld
  <2> QED  BY <2>1 DEF DownHeld
<1>2. ASSUME NEW p \in Procs, job[p].at \in Dispatching, NEW ds,
             down' = Sent(ds, Current(p).msg)
      PROVE  DownHeld'
  <2>1. Current(p).msg \in AcceptedMessages'
    BY <1>2, DispatchHeld, AcceptedGrows
  <2>2. \A d \in Devices : Append(down[d], Current(p).msg) \in T
    BY <1>1, <2>1, AppendProperties
  <2> QED  BY <1>1, <1>2, <2>2 DEF Sent, DownHeld
<1>3. ASSUME NEW d \in Devices, down[d] # << >>, down' = [down EXCEPT ![d] = Tail(@)]
      PROVE  DownHeld'
  <2>1. Tail(down[d]) \in T
    BY <1>1, <1>3, HeadTailProperties
  <2> QED  BY <1>1, <1>3, <2>1 DEF DownHeld
<1>4. CASE UNCHANGED down
  BY <1>1, <1>4 DEF DownHeld
<1>5. ASSUME NEW p \in Procs, SendEmit(p) \/ ReplayEmit(p)
      PROVE  DownHeld'
  BY <1>2, <1>5 DEF SendEmit, ReplayEmit, At, Dispatching
<1>6. ASSUME NEW n \in Nodes, SweepDispatch(n)
      PROVE  DownHeld'
  BY <1>2, <1>6 DEF SweepDispatch, At, Dispatching, Procs
<1>7. ASSUME NEW d \in Devices, ReceiveAgain(d)
      PROVE  DownHeld'
  BY <1>3, <1>7 DEF ReceiveAgain
<1>8. ASSUME NEW d \in Devices, NEW m \in Messages, Take(d, m)
      PROVE  DownHeld'
  BY <1>3, <1>8 DEF Take
<1>9. ASSUME NEW ds \in SUBSET Devices, Close(ds)
      PROVE  DownHeld'
  BY <1>1, <1>9, EmptySeq DEF Close, DownHeld
<1> QED  BY <1>4, <1>5, <1>6, <1>7, <1>8, <1>9, DownFrame

LEMMA InitHeld == Init => Held
<1> SUFFICES ASSUME Init PROVE Held
  OBVIOUS
<1>1. JobsHeld
  BY IdleHeld DEF Init, JobsHeld
<1>2. DownHeld
  BY EmptySeq DEF Init, DownHeld
<1>3. RowsHeld
  BY DEF Init, RowsHeld, NoRow, Present
<1> QED  BY <1>1, <1>2, <1>3 DEF Held

LEMMA StepHeld == TypeOK /\ Held /\ [Next]_vars => Held'
<1> SUFFICES ASSUME TypeOK, Held, [Next]_vars PROVE Held'
  OBVIOUS
<1>1. CASE Next
  BY <1>1, JobsHeldStep, DownHeldStep, AcceptedGrows DEF Held
<1>2. CASE UNCHANGED vars
  BY <1>2 DEF vars, database, channels, Held, JobsHeld, HoldsOnly, DownHeld,
     RowsHeld, AcceptedMessages, Accepted
<1> QED  BY <1>1, <1>2

-----------------------------------------------------------------------------
(* Each step is one of the abstract mailbox, or none.                      *)

custodyBar == [m \in Messages |-> CustodyOf(m)]

\* The custody that a row stands for.
RowCustody(row) ==
    IF row.status \in {"queued", "delivered"} THEN "held"
    ELSE IF row.status = "failed" THEN "dead"
    ELSE IF row.id > 0 THEN "released" ELSE "none"

LEMMA CustodyByRow ==
    ASSUME DatabaseOK, NEW m \in Messages
    PROVE  CustodyOf(m) = RowCustody(mailbox[m])
BY DEF DatabaseOK, RowType, RowStatus, CustodyOf, RowCustody, Accepted

\* One row becomes row and no client takes part: one message moves.
LEMMA RowMoves ==
    ASSUME DatabaseOK, NEW m \in Messages, NEW row \in RowType,
           mailbox' = [mailbox EXCEPT ![m] = row]
    PROVE  custodyBar' = [custodyBar EXCEPT ![m] = RowCustody(row)]
<1>1. DatabaseOK => \A x \in Messages : CustodyOf(x) = RowCustody(mailbox[x])
  BY CustodyByRow
<1>2. mailbox' \in [Messages -> RowType]
  BY DEF DatabaseOK
<1>3. \A x \in Messages : CustodyOf(x)' = RowCustody(mailbox'[x])
  BY <1>2 DEF RowType, RowStatus, CustodyOf, RowCustody, Accepted
<1> QED  BY <1>1, <1>3 DEF custodyBar, DatabaseOK

LEMMA ContractFrame ==
    ASSUME Next
    PROVE  \/ UNCHANGED <<mailbox, received, decrypted>>
           \/ \E p \in Procs : \/ SendQueue(p) \/ Mark(p) \/ AckCommit(p)
                               \/ TimeoutFail(p) \/ TimeoutReschedule(p)
           \/ \E n \in Nodes : SweepFail(n)
           \/ \E d \in Devices, m \in Messages :
                 Receive(d, m) \/ ReceiveUndecryptable(d, m)
BY TableFrame, ClientFrame DEF client, Attempt, HandleRead, HandleDecryptionError,
   RetryDue, Reload

LEMMA InitContract == Init => Contract!Init
BY DEF Init, Contract!Init, CustodyOf, Accepted, Delivered, NoRow

LEMMA StepContract ==
    TypeOK /\ Custody /\ Held /\ [Next]_vars => [Contract!Next]_(Contract!vars)
<1> SUFFICES ASSUME TypeOK, Custody, Held, [Next]_vars
             PROVE  Contract!Next \/ UNCHANGED Contract!vars
  OBVIOUS
<1>1. DatabaseOK /\ JobsOK /\ JobsHeld /\ DownHeld /\ RowsHeld
  BY DEF TypeOK, Held
<1>2. ASSUME UNCHANGED <<mailbox, received, decrypted>>
      PROVE  UNCHANGED Contract!vars
  BY <1>2 DEF Contract!vars, CustodyOf, Accepted, Delivered, Displayed
<1>3. \A m \in Messages : /\ mailbox[m] \in RowType
                          /\ custodyBar[m] = RowCustody(mailbox[m])
  BY <1>1, CustodyByRow DEF DatabaseOK, custodyBar
<1>4. ASSUME UNCHANGED client
      PROVE  DeliveredMessages' = DeliveredMessages
  BY <1>4 DEF client, DeliveredMessages, Delivered, Displayed
\* the abstract actions, in these terms
<1>5. ASSUME NEW m \in Messages, NEW to, UNCHANGED client,
             custodyBar' = [custodyBar EXCEPT ![m] = to],
             \/ custodyBar[m] \in {"none", "released"} /\ to = "held"
             \/ custodyBar[m] = "held" /\ to = "dead"
             \/ custodyBar[m] = "dead" /\ to = "held"
             \/ m \in DeliveredMessages /\ custodyBar[m] \in {"held", "dead"}
                /\ to = "released"
      PROVE  Contract!Next
  BY <1>4, <1>5 DEF custodyBar, DeliveredMessages, Contract!Next, Contract!Accept,
     Contract!Release, Contract!DeadLetter, Contract!Revive, Contract!Move
<1>6. ASSUME NEW m \in Messages, NEW to, UNCHANGED client,
             custodyBar' = [custodyBar EXCEPT ![m] = to], custodyBar[m] = to
      PROVE  UNCHANGED Contract!vars
  BY <1>4, <1>6 DEF custodyBar, DeliveredMessages, Contract!vars
<1>7. ASSUME NEW p \in Procs, job[p].at \notin RowlessLabels
      PROVE  Current(p).msg \in Messages /\ Current(p).id \in Nat
  BY <1>1, <1>7, CurrentIsIn
<1> USE DEF RowCustody, RowType, RowStatus, Present
<1>8. ASSUME NEW p \in Procs, SendQueue(p)
      PROVE  Contract!Next
  <2> DEFINE m == Current(p).msg
             row == QueuedRow(lastId + 1)
  <2>1. m \in Messages
    BY <1>7, <1>8 DEF SendQueue, At, RowlessLabels
  <2>2. row \in RowType /\ RowCustody(row) = "held"
    BY <1>1 DEF QueuedRow, DatabaseOK
  <2>3. mailbox' = [mailbox EXCEPT ![m] = row]
    BY <1>8 DEF SendQueue
  <2>4. custodyBar' = [custodyBar EXCEPT ![m] = "held"]
    BY <1>1, <2>1, <2>2, <2>3, RowMoves
  <2>5. custodyBar[m] \in {"none", "released"}
    BY <1>3, <1>8, <2>1 DEF SendQueue
  <2> QED  BY <1>5, <1>8, <2>1, <2>4, <2>5 DEF SendQueue
<1>9. ASSUME NEW p \in Procs, Mark(p)
      PROVE  Contract!Next \/ UNCHANGED Contract!vars
  <2> DEFINE m == Current(p).msg
             row == DeliveredRow(mailbox[m], Current(p).id)
  <2>1. m \in Messages
    BY <1>7, <1>9 DEF Mark, At, RowlessLabels
  <2>2. /\ row \in RowType
        /\ \/ RowCustody(row) = custodyBar[m]
           \/ custodyBar[m] = "dead" /\ RowCustody(row) = "held"
    BY <1>3, <2>1 DEF DeliveredRow
  <2>3. mailbox' = [mailbox EXCEPT ![m] = row]
    BY <1>9 DEF Mark
  <2>4. custodyBar' = [custodyBar EXCEPT ![m] = RowCustody(row)]
    BY <1>1, <2>1, <2>2, <2>3, RowMoves
  <2> HIDE DEF m, row
  <2> QED  BY <1>5, <1>6, <1>9, <2>1, <2>2, <2>4 DEF Mark
<1>10. ASSUME NEW p \in Procs, AckCommit(p)
       PROVE  Contract!Next \/ UNCHANGED Contract!vars
  <2> DEFINE m == Current(p).msg
             row == AcknowledgedRow(mailbox[m])
  <2>1. m \in Messages
    BY <1>7, <1>10 DEF AckCommit, At, RowlessLabels
  <2>2. m \in DeliveredMessages
    BY <1>10, AckedIsDelivered DEF AckCommit, At, Acking, Custody
  <2>3. /\ row \in RowType
        /\ \/ RowCustody(row) = custodyBar[m]
           \/ custodyBar[m] \in {"held", "dead"} /\ RowCustody(row) = "released"
    BY <1>1, <1>3, <2>1 DEF AcknowledgedRow, RowsHeld, Accepted
  <2>4. mailbox' = [mailbox EXCEPT ![m] = row]
    BY <1>10 DEF AckCommit
  <2>5. custodyBar' = [custodyBar EXCEPT ![m] = RowCustody(row)]
    BY <1>1, <2>1, <2>3, <2>4, RowMoves
  <2> HIDE DEF m, row
  <2> QED  BY <1>5, <1>6, <1>10, <2>1, <2>2, <2>3, <2>5 DEF AckCommit
<1>11. ASSUME NEW m \in Messages, UNCHANGED client,
              mailbox' = [mailbox EXCEPT ![m] = FailedRow(mailbox[m])]
       PROVE  Contract!Next \/ UNCHANGED Contract!vars
  <2> DEFINE row == FailedRow(mailbox[m])
  <2>1. /\ row \in RowType
        /\ \/ RowCustody(row) = custodyBar[m]
           \/ custodyBar[m] = "held" /\ RowCustody(row) = "dead"
    BY <1>3 DEF FailedRow
  <2>2. custodyBar' = [custodyBar EXCEPT ![m] = RowCustody(row)]
    BY <1>1, <1>11, <2>1, RowMoves
  <2> HIDE DEF row
  <2> QED  BY <1>5, <1>6, <1>11, <2>1, <2>2
<1>12. ASSUME NEW p \in Procs, TimeoutFail(p)
       PROVE  Contract!Next \/ UNCHANGED Contract!vars
  <2>1. Current(p).msg \in Messages
    BY <1>7, <1>12 DEF TimeoutFail, At, RowlessLabels
  <2> QED  BY <1>11, <1>12, <2>1 DEF TimeoutFail
<1>13. ASSUME NEW n \in Nodes, SweepFail(n)
       PROVE  Contract!Next \/ UNCHANGED Contract!vars
  <2>1. Current(n).msg \in Messages
    BY <1>7, <1>13 DEF SweepFail, At, RowlessLabels, Procs
  <2> QED  BY <1>11, <1>13, <2>1 DEF SweepFail
<1>14. ASSUME NEW p \in Procs, TimeoutReschedule(p)
       PROVE  Contract!Next \/ UNCHANGED Contract!vars
  <2> DEFINE m == Current(p).msg
             row == RescheduledRow(mailbox[m])
  <2>1. m \in Messages
    BY <1>7, <1>14 DEF TimeoutReschedule, At, RowlessLabels
  <2>2. row \in RowType /\ RowCustody(row) = custodyBar[m]
    BY <1>3, <2>1 DEF RescheduledRow
  <2>3. mailbox' = [mailbox EXCEPT ![m] = row]
    BY <1>14 DEF TimeoutReschedule
  <2>4. custodyBar' = [custodyBar EXCEPT ![m] = RowCustody(row)]
    BY <1>1, <2>1, <2>2, <2>3, RowMoves
  <2> HIDE DEF m, row
  <2> QED  BY <1>6, <1>14, <2>1, <2>2, <2>4 DEF TimeoutReschedule
<1>15. ASSUME NEW d \in Devices, NEW m \in Messages,
              Receive(d, m) \/ ReceiveUndecryptable(d, m)
       PROVE  Contract!Next
  <2>1. UNCHANGED mailbox /\ down[d] # << >> /\ m = Head(down[d])
    BY <1>15 DEF Receive, ReceiveUndecryptable, Take, database
  <2>2. m \in AcceptedMessages
    BY <1>1, <2>1, HeadTailProperties DEF DownHeld
  <2>3. custodyBar[m] # "none"
    BY <1>3, <2>2 DEF AcceptedMessages, Accepted
  <2>4. custodyBar' = custodyBar
    BY <2>1 DEF custodyBar, CustodyOf, Accepted
  <2>5. /\ received' = received \cup {m}
        /\ \A x \in Messages \ {m} : Displayed(x)' <=> Displayed(x)
        /\ Displayed(m) => Displayed(m)'
        /\ Displayed(m)' \/ m \in Undecryptable
    <3>1. CASE Receive(d, m)
      BY <3>1 DEF Receive, Take, Displayed, TypeOK, ClientOK
    <3>2. CASE ReceiveUndecryptable(d, m)
      BY <3>2 DEF ReceiveUndecryptable, Take, Displayed
    <3> QED  BY <1>15, <3>1, <3>2
  <2>6. DeliveredMessages' = DeliveredMessages \cup {m}
    BY <2>5 DEF DeliveredMessages, Delivered
  <2> QED  BY <2>3, <2>4, <2>6
           DEF custodyBar, DeliveredMessages, Contract!Next, Contract!Deliver
<1>16. CASE UNCHANGED vars
  BY <1>2, <1>16 DEF vars, database, client
<1> QED  BY <1>2, <1>8, <1>9, <1>10, <1>12, <1>13, <1>14, <1>15, <1>16, ContractFrame

\* A handler dispatches, and a device receives, only messages the server has
\* accepted (chatSocket.ts 377-440 and 505-544, messageService.ts 206-252).
THEOREM HeldKept == Spec => []Held
<1>1. Init => Held
  BY InitHeld
<1>2. TypeOK /\ Held /\ [Next]_vars => Held'
  BY StepHeld
<1> QED  BY <1>1, <1>2, TypeCorrect, PTL DEF Spec

\* The handlers, timers and sweeps of any number of processes implement the
\* mailbox that keeps a message until its recipient has it.
THEOREM DeliveryImplementsContract == Spec => ImplementsContract
<1>1. Init => Contract!Init
  BY InitContract
<1>2. TypeOK /\ Custody /\ Held /\ [Next]_vars => [Contract!Next]_(Contract!vars)
  BY StepContract
<1> QED  BY <1>1, <1>2, TypeCorrect, CustodyKept, HeldKept, PTL
         DEF Spec, ImplementsContract, Contract!Spec

-----------------------------------------------------------------------------
(* A message that was submitted once is dead-lettered only when its        *)
(* attempts are used up.  The steps that dead-letter act on what they read *)
(* some awaits ago, so the attempts must not be counted anew in between:   *)
(* such a message is queued once (QueuedOnce), and then its count only     *)
(* grows.  Of a message that was submitted again nothing is said.          *)

Again == {m \in Messages : sends[m] > 1}

\* what was tried, and what was tried as often as it may be
Tried == {m \in Messages : record[m].attempts > 0} \cup Again

Spent == {m \in Messages : record[m].attempts >= MaxRetries} \cup Again

\* A row being dispatched or timed out was tried, and so were those the sweep
\* has marked; one about to be dead-lettered has no attempts left.
Counted(j, tried, spent) ==
    /\ j.at \in {"mark", "emit", "arm", "timeout", "expire"} => Least(j.rows).msg \in tried
    /\ j.at = "dispatch" \/ (j.at = "arm" /\ j.kind = "sweep") =>
          \A e \in j.rows : e.msg \in tried
    /\ \A e \in j.batch : e.msg \in tried
    /\ j.at = "fail" => \A e \in j.rows : e.msg \in spent
    /\ j.at = "expire" /\ j.tries >= MaxRetries => Least(j.rows).msg \in spent

JobsCounted == \A p \in Procs : Counted(job[p], Tried, Spent)

TimersTried == \A n \in Nodes : timers[n] \subseteq Tried

Queueing(p, m) == job[p].at = "queue" /\ \E e \in job[p].rows : e.msg = m

OneSubmission(m) ==
    /\ Accepted(m) => sends[m] > 0
    /\ \A p \in Procs : Queueing(p, m) =>
          /\ sends[m] > 0 /\ ~Accepted(m)
          /\ \A q \in Procs : Queueing(q, m) => q = p

QueuedOnce == \A m \in Messages \ Again : OneSubmission(m)

FailedAreSpent == \A m \in Messages : mailbox[m].status = "failed" => m \in Spent

Exhaustion == /\ QueuedOnce /\ JobsCounted /\ TimersTried
              /\ Tried \ Again \subseteq AcceptedMessages
              /\ FailedAreSpent

-----------------------------------------------------------------------------
(* Which actions count, queue or arm.                                      *)

LEMMA SendsFrame ==
    ASSUME Next
    PROVE  \/ UNCHANGED sends
           \/ \E p \in Workers, n \in Nodes, m \in Messages : SendBegin(p, n, m)
BY DEF Next, Handler, Start, Sweep, Client, Environment, bounds,
   SendDuplicate, SendQueue, SendLookup, SendEmit, Attempt, Mark, Join, Refresh,
   Resume, ReplayRead, ReplayEmit, Arm, SweepTick, SweepFindExhausted, SweepFail,
   SweepFindCandidates, SweepSkip, SweepDispatch, AckBegin, AckCommit,
   AckRemember, HandleRead, HandleDecryptionError, TimerFires, TimeoutRead,
   TimeoutFail, TimeoutReschedule, RetryDue, Connect, ReceiveAgain, Receive,
   ReceiveUndecryptable, SendRead, SendDecryptionError, Disconnect, Reload,
   Forget, Expire, Abort, Crash

LEMMA TimerFrame ==
    ASSUME Next
    PROVE  \/ UNCHANGED timers
           \/ \E p \in Procs : SendEmit(p) \/ Arm(p)
           \/ \E p \in Workers, n \in Nodes, m \in Messages : TimerFires(p, n, m)
           \/ \E p \in Workers, d \in Devices : AckBegin(p, d)
           \/ \E n \in Nodes : Crash(n)
BY DEF Next, Handler, Start, Sweep, Client, Environment, memory, SendBegin,
   SendDuplicate, SendQueue, SendLookup, Attempt, Mark, Join, Refresh,
   Resume, ReplayRead, ReplayEmit, SweepTick, SweepFindExhausted, SweepFail,
   SweepFindCandidates, SweepSkip, SweepDispatch, AckCommit,
   AckRemember, HandleRead, HandleDecryptionError, TimeoutRead,
   TimeoutFail, TimeoutReschedule, RetryDue, Connect, ReceiveAgain, Receive,
   ReceiveUndecryptable, SendRead, SendDecryptionError, Disconnect, Reload,
   Forget, Expire, Abort

\* Only queueMessage gives a message an id.
LEMMA AcceptedFrame ==
    ASSUME TypeOK, Next
    PROVE  \/ AcceptedMessages' = AcceptedMessages
           \/ \E p \in Procs : /\ SendQueue(p)
                               /\ AcceptedMessages' = AcceptedMessages \cup {Current(p).msg}
<1>1. DatabaseOK /\ JobsOK
  BY DEF TypeOK
<1>2. CASE UNCHANGED mailbox
  BY <1>2 DEF AcceptedMessages, Accepted
<1>3. ASSUME NEW p \in Procs, job[p].at \notin RowlessLabels
      PROVE  Current(p).msg \in Messages
  BY <1>1, <1>3, CurrentIsIn
<1>4. ASSUME NEW m \in Messages, NEW row, row.id = mailbox[m].id,
             mailbox' = [mailbox EXCEPT ![m] = row]
      PROVE  AcceptedMessages' = AcceptedMessages
  BY <1>1, <1>4 DEF DatabaseOK, AcceptedMessages, Accepted
<1>5. \A m \in Messages : \A id :
         /\ DeliveredRow(mailbox[m], id).id = mailbox[m].id
         /\ AcknowledgedRow(mailbox[m]).id = mailbox[m].id
         /\ FailedRow(mailbox[m]).id = mailbox[m].id
         /\ RescheduledRow(mailbox[m]).id = mailbox[m].id
  BY <1>1 DEF DatabaseOK, RowType, DeliveredRow, AcknowledgedRow, FailedRow, RescheduledRow
<1>6. ASSUME NEW p \in Procs, SendQueue(p)
      PROVE  AcceptedMessages' = AcceptedMessages \cup {Current(p).msg}
  <2>1. Current(p).msg \in Messages
    BY <1>3, <1>6 DEF SendQueue, At, RowlessLabels
  <2>2. QueuedRow(lastId + 1).id > 0
    BY <1>1 DEF QueuedRow, DatabaseOK
  <2>3. mailbox' = [mailbox EXCEPT ![Current(p).msg] = QueuedRow(lastId + 1)]
    BY <1>6 DEF SendQueue
  <2> QED  BY <1>1, <2>1, <2>2, <2>3 DEF DatabaseOK, AcceptedMessages, Accepted
<1>7. ASSUME NEW p \in Procs, Mark(p) \/ AckCommit(p) \/ TimeoutFail(p) \/ TimeoutReschedule(p)
      PROVE  AcceptedMessages' = AcceptedMessages
  <2>1. Current(p).msg \in Messages
    BY <1>3, <1>7 DEF Mark, AckCommit, TimeoutFail, TimeoutReschedule, At, RowlessLabels
  <2> QED
    BY <1>4, <1>5, <1>7, <2>1 DEF Mark, AckCommit, TimeoutFail, TimeoutReschedule
<1>8. ASSUME NEW n \in Nodes, SweepFail(n)
      PROVE  AcceptedMessages' = AcceptedMessages
  <2>1. Current(n).msg \in Messages
    BY <1>3, <1>8 DEF SweepFail, At, RowlessLabels, Procs
  <2> QED  BY <1>4, <1>5, <1>8, <2>1 DEF SweepFail
<1> QED  BY <1>2, <1>6, <1>7, <1>8, TableFrame
         DEF Attempt, HandleRead, HandleDecryptionError, RetryDue

-----------------------------------------------------------------------------
(* A message is queued once.                                               *)

\* The handler of a submission is at work on one message.
LEMMA BeginsQueueing ==
    ASSUME JobsOK, NEW p \in Procs, NEW n, NEW m \in Messages, SendBegin(p, n, m)
    PROVE  /\ \A x : Queueing(p, x)' => x = m
           /\ \A q \in Procs \ {p} : \A x : Queueing(q, x)' => Queueing(q, x)
           /\ UNCHANGED mailbox
<1>1. \/ job' = [job EXCEPT ![p] = Idle]
      \/ job' = [job EXCEPT ![p] = Job("send", "queue", n, {[id |-> 0, msg |-> m]})]
  BY DEF SendBegin, Become
<1>2. /\ Idle.at # "queue"
      /\ \A e \in Job("send", "queue", n, {[id |-> 0, msg |-> m]}).rows : e.msg = m
  BY DEF Idle, Job
<1>3. \A q \in Procs \ {p} : job'[q] = job[q]
  BY <1>1 DEF JobsOK
<1>4. UNCHANGED mailbox
  BY DEF SendBegin, database
<1> QED  BY <1>1, <1>2, <1>3, <1>4 DEF Queueing, JobsOK

\* One that queues its message queues nothing more.
LEMMA QueuesOnce ==
    ASSUME JobsOK, NEW p \in Procs, SendQueue(p)
    PROVE  Queueing(p, Current(p).msg) /\ \A x : ~Queueing(p, x)'
<1>1. job[p].at = "queue" /\ job[p] \in JobType
  BY DEF SendQueue, At, JobsOK
<1>2. job'[p].at = "lookup"
  BY <1>1 DEF SendQueue, Become, JobsOK, JobType, JobFields
<1>3. Current(p) \in job[p].rows
  BY <1>1, CurrentIsIn DEF RowlessLabels
<1> QED  BY <1>1, <1>2, <1>3 DEF Queueing

LEMMA SubmissionsGrow ==
    ASSUME TypeOK, Next
    PROVE  Again \subseteq Again'
<1>1. CASE UNCHANGED sends
  BY <1>1 DEF Again
<1>2. ASSUME NEW p \in Workers, NEW n \in Nodes, NEW m \in Messages, SendBegin(p, n, m)
      PROVE  Again \subseteq Again'
  <2>1. sends \in [Messages -> Nat] /\ sends' = [sends EXCEPT ![m] = sends[m] + 1]
    BY <1>2 DEF TypeOK, BoundsOK, SendBegin
  <2> QED  BY <2>1 DEF Again
<1> QED  BY <1>1, <1>2, SendsFrame

LEMMA QueuedOnceStep ==
    ASSUME TypeOK, QueuedOnce, Next
    PROVE  QueuedOnce'
<1>1. JobsOK /\ sends \in [Messages -> Nat]
  BY DEF TypeOK, BoundsOK
<1> SUFFICES ASSUME NEW x \in Messages, x \notin Again'
             PROVE  OneSubmission(x)'
  BY DEF QueuedOnce
<1>2. OneSubmission(x)
  BY SubmissionsGrow DEF QueuedOnce
<1>3. ASSUME NEW p \in Procs, NEW n \in Nodes, NEW m \in Messages, SendBegin(p, n, m)
      PROVE  OneSubmission(x)'
  <2>1. sends' = [sends EXCEPT ![m] = sends[m] + 1]
    BY <1>3 DEF SendBegin
  <2>2. (Accepted(x))' = Accepted(x)
    BY <1>1, <1>3, BeginsQueueing DEF Accepted
  <2>3. \A q \in Procs : Queueing(q, x)' => (q = p /\ x = m) \/ Queueing(q, x)
    BY <1>1, <1>3, BeginsQueueing
  <2>4. CASE m = x
    <3>1. sends[x] = 0 /\ sends'[x] > 0
      BY <1>1, <2>1, <2>4 DEF Again
    <3>2. ~Accepted(x) /\ \A q \in Procs : ~Queueing(q, x)
      BY <1>2, <3>1 DEF OneSubmission
    <3> QED  BY <2>2, <2>3, <3>1, <3>2 DEF OneSubmission
  <2>5. CASE m # x
    <3>1. sends'[x] = sends[x]
      BY <1>1, <2>1, <2>5
    <3> QED  BY <1>2, <2>2, <2>3, <2>5, <3>1 DEF OneSubmission
  <2> QED  BY <2>4, <2>5
<1>4. ASSUME UNCHANGED sends, \A q \in Procs : \A y : Queueing(q, y)' => Queueing(q, y)
      PROVE  OneSubmission(x)'
  <2>1. CASE AcceptedMessages' = AcceptedMessages
    <3>1. (Accepted(x))' <=> Accepted(x)
      BY <2>1 DEF AcceptedMessages
    <3> QED  BY <1>2, <1>4, <3>1 DEF OneSubmission
  <2>2. ASSUME NEW p \in Procs, SendQueue(p),
               AcceptedMessages' = AcceptedMessages \cup {Current(p).msg}
        PROVE  OneSubmission(x)'
    <3>1. Queueing(p, Current(p).msg) /\ \A y : ~Queueing(p, y)'
      BY <1>1, <2>2, QueuesOnce
    <3>2. (Accepted(x))' <=> Accepted(x) \/ x = Current(p).msg
      BY <2>2 DEF AcceptedMessages
    <3>3. (Accepted(x))' => sends'[x] > 0
      BY <1>2, <1>4, <3>1, <3>2 DEF OneSubmission
    <3>4. ASSUME NEW q \in Procs, Queueing(q, x)'
          PROVE  /\ sends'[x] > 0 /\ ~(Accepted(x))'
                 /\ \A k \in Procs : Queueing(k, x)' => k = q
      <4>1. Queueing(q, x) /\ q # p
        BY <1>4, <3>1, <3>4
      <4>2. x # Current(p).msg
        BY <1>2, <3>1, <4>1 DEF OneSubmission
      <4> QED  BY <1>2, <1>4, <3>2, <4>1, <4>2 DEF OneSubmission
    <3> QED  BY <3>3, <3>4 DEF OneSubmission
  <2> QED  BY <2>1, <2>2, AcceptedFrame
<1>5. CASE \A p \in Procs, n \in Nodes, m \in Messages : ~SendBegin(p, n, m)
  <2>1. UNCHANGED sends
    BY <1>5, SendsFrame DEF Procs
  <2>2. ASSUME NEW q \in Procs, NEW y, Queueing(q, y)' PROVE Queueing(q, y)
    <3>1. job'[q].at = "queue"
      BY <2>2 DEF Queueing
    <3>2. ASSUME NEW d \in Devices, AckBegin(q, d) PROVE FALSE
      <4>1. PICK n, rows : job'[q] = Job("ack", "ack", n, rows)
        BY <1>1, <3>2 DEF AckBegin, Become, JobsOK
      <4>2. Job("ack", "ack", n, rows).at = "ack"
        BY DEF Job, Idle
      <4> QED  BY <3>1, <4>1, <4>2
    <3>3. Stayed(q)
      BY <1>1, <1>5, <3>1, <3>2, BegunFrame DEF Begun
    <3> QED  BY <2>2, <3>3 DEF Stayed, Queueing
  <2> QED  BY <1>4, <2>1, <2>2
<1> QED  BY <1>3, <1>5

-----------------------------------------------------------------------------
(* The count of a message that was submitted once only grows.              *)

Growing == Tried \subseteq Tried' /\ Spent \subseteq Spent'

LEMMA AttemptsAre ==
    ASSUME NEW r \in RecordType
    PROVE  /\ r.attempts \in Nat
           /\ AttemptedRecord(r).attempts \in Nat /\ AttemptedRecord(r).attempts > 0
           /\ AttemptedRecord(r).attempts >= r.attempts
           /\ \A k \in {DeliveredRecord(r), RescheduledRecord(r), FailedRecord(r),
                        AcknowledgedRecord(r), ReadRecord(r), UndecryptableRecord(r),
                        [r EXCEPT !.due = TRUE]} : k.attempts = r.attempts
<1>1. r.attempts \in 0 .. MaxRetries /\ MaxRetries \in Nat /\ MaxRetries > 0
  BY MaxRetriesAssumption DEF RecordType
<1>2. AttemptedRecord(r).attempts = IF r.attempts < MaxRetries THEN r.attempts + 1 ELSE r.attempts
  BY DEF AttemptedRecord, RecordType
<1>3. \A k \in {DeliveredRecord(r), RescheduledRecord(r), FailedRecord(r),
                AcknowledgedRecord(r), ReadRecord(r), UndecryptableRecord(r),
                [r EXCEPT !.due = TRUE]} : k.attempts = r.attempts
  BY DEF RecordType, DeliveredRecord, RescheduledRecord, FailedRecord, AcknowledgedRecord,
     ReadRecord, UndecryptableRecord
<1> QED  BY <1>1, <1>2, <1>3

\* One record changes, and its count does not shrink unless it was submitted again.
LEMMA RecordGrows ==
    ASSUME DatabaseOK, Again \subseteq Again', NEW m \in Messages, NEW r,
           record' = [record EXCEPT ![m] = r],
           r.attempts \in Nat, r.attempts >= record[m].attempts \/ m \in Again
    PROVE  /\ Growing /\ Tried' \ Again' \subseteq (Tried \ Again) \cup {m}
           /\ r.attempts = record[m].attempts \/ m \in Again =>
                 Tried' \ Again' \subseteq Tried \ Again
<1>1. record'[m] = r /\ \A x \in Messages \ {m} : record'[x] = record[x]
  BY DEF DatabaseOK
<1>2. record[m].attempts \in Nat /\ MaxRetries \in Nat
  BY MaxRetriesAssumption DEF DatabaseOK, RecordType
<1> QED  BY <1>1, <1>2 DEF Growing, Tried, Spent

LEMMA AttemptsGrow ==
    ASSUME TypeOK, QueuedOnce, JobsHeld, RowsHeld,
           Tried \ Again \subseteq AcceptedMessages, Next
    PROVE  /\ Growing
           /\ Tried' \ Again' \subseteq AcceptedMessages'
           /\ \A p \in Procs : Attempt(p) => Current(p).msg \in Tried'
<1>1. /\ DatabaseOK /\ JobsOK /\ AcceptedMessages \subseteq AcceptedMessages'
      /\ Again \subseteq Again'
  BY AcceptedGrows, SubmissionsGrow DEF TypeOK
<1>2. \A m \in Messages : record[m] \in RecordType
  BY <1>1 DEF DatabaseOK
<1>3. ASSUME NEW p \in Procs, job[p].at \notin RowlessLabels
      PROVE  Current(p).msg \in Messages
  BY <1>1, <1>3, CurrentIsIn
<1>4. ASSUME NEW p \in Procs, Attempt(p)
      PROVE  Growing /\ Tried' \ Again' \subseteq AcceptedMessages' /\ Current(p).msg \in Tried'
  <2>1. job[p].at \in Dispatching /\ job[p].at \notin RowlessLabels
    BY <1>4 DEF Attempt, At, Dispatching, RowlessLabels
  <2>2. PICK m \in Messages : m = Current(p).msg /\ m \in AcceptedMessages
    BY <1>3, <2>1, DispatchHeld
  <2>3. record' = [record EXCEPT ![m] = AttemptedRecord(record[m])]
    BY <1>4, <2>2 DEF Attempt
  <2>4. PICK r : r = AttemptedRecord(record[m])
    OBVIOUS
  <2>5. record[m].attempts \in Nat /\ r.attempts > 0 /\ r.attempts >= record[m].attempts
    BY <1>2, <2>4, AttemptsAre
  <2>6. r.attempts \in Nat
    BY <1>2, <2>4, AttemptsAre
  <2>7. Growing /\ Tried' \ Again' \subseteq (Tried \ Again) \cup {m}
    BY <1>1, <2>3, <2>4, <2>5, <2>6, RecordGrows
  <2>8. m \in Tried'
    BY <1>1, <2>3, <2>4, <2>5 DEF Tried, DatabaseOK
  <2> QED  BY <1>1, <2>2, <2>7, <2>8
<1>5. ASSUME NEW p \in Procs, SendQueue(p)
      PROVE  Growing /\ Tried' \ Again' \subseteq AcceptedMessages'
  <2>1. Current(p).msg \in Messages
    BY <1>3, <1>5 DEF SendQueue, At, RowlessLabels
  <2>2. PICK m \in Messages : m = Current(p).msg
    BY <2>1
  <2>3. m \in Again \/ record[m].attempts = 0
    <3>1. m \in Again \/ m \notin AcceptedMessages
      BY <1>1, <1>5, <2>2, QueuesOnce DEF QueuedOnce, OneSubmission, AcceptedMessages
    <3> QED  BY <1>2, <3>1 DEF Tried, RecordType
  <2>4. PICK r : r = QueuedRecord
    OBVIOUS
  <2>5. record' = [record EXCEPT ![m] = r]
    BY <1>5, <2>2, <2>4 DEF SendQueue
  <2>6. /\ r.attempts \in Nat
        /\ r.attempts >= record[m].attempts \/ m \in Again
        /\ r.attempts = record[m].attempts \/ m \in Again
    BY <2>3, <2>4 DEF QueuedRecord
  <2> QED  BY <1>1, <2>5, <2>6, RecordGrows
<1>6. ASSUME NEW m \in Messages, NEW r \in RecordType, r.attempts = record[m].attempts,
             record' = [record EXCEPT ![m] = r]
      PROVE  Growing /\ Tried' \ Again' \subseteq AcceptedMessages'
  <2>1. r.attempts \in Nat /\ record[m].attempts \in Nat /\ r.attempts >= record[m].attempts
    BY <1>2, <1>6, AttemptsAre
  <2> QED  BY <1>1, <1>6, <2>1, RecordGrows
<1>7. ASSUME NEW p \in Procs, Mark(p) \/ AckCommit(p) \/ TimeoutFail(p) \/ TimeoutReschedule(p)
      PROVE  Growing /\ Tried' \ Again' \subseteq AcceptedMessages'
  <2>1. Current(p).msg \in Messages
    BY <1>3, <1>7 DEF Mark, AckCommit, TimeoutFail, TimeoutReschedule, At, RowlessLabels
  <2>2. PICK m \in Messages : m = Current(p).msg
    BY <2>1
  <2>3. \E r \in {DeliveredRecord(record[m]), AcknowledgedRecord(record[m]),
                  FailedRecord(record[m]), RescheduledRecord(record[m])} :
            record' = [record EXCEPT ![m] = r]
    BY <1>7, <2>2 DEF Mark, AckCommit, TimeoutFail, TimeoutReschedule
  <2> QED  BY <1>2, <1>6, <2>3, AttemptsAre, RecordTyping
<1>8. ASSUME NEW n \in Nodes, SweepFail(n)
      PROVE  Growing /\ Tried' \ Again' \subseteq AcceptedMessages'
  <2>1. Current(n).msg \in Messages
    BY <1>3, <1>8 DEF SweepFail, At, RowlessLabels, Procs
  <2>2. PICK m \in Messages : m = Current(n).msg
    BY <2>1
  <2>3. record' = [record EXCEPT ![m] = FailedRecord(record[m])]
    BY <1>8, <2>2 DEF SweepFail
  <2> QED  BY <1>2, <1>6, <2>3, AttemptsAre, RecordTyping
<1>9. ASSUME NEW d \in Devices, HandleRead(d) \/ HandleDecryptionError(d)
      PROVE  Growing /\ Tried' \ Again' \subseteq AcceptedMessages'
  <2>1. up[d] # <<>>
    BY <1>9 DEF HandleRead, HandleDecryptionError, Incoming
  <2>2. up[d] \in Seq([type : Events, msg : Messages])
    BY DEF TypeOK, ChannelsOK
  <2>3. Head(up[d]) \in [type : Events, msg : Messages]
    BY <2>1, <2>2, HeadTailProperties
  <2>4. PICK m \in Messages : m = Head(up[d]).msg
    BY <2>3
  <2>5. \E r \in {ReadRecord(record[m]), UndecryptableRecord(record[m])} :
            record' = [record EXCEPT ![m] = r]
    BY <1>9, <2>4 DEF HandleRead, HandleDecryptionError
  <2> QED  BY <1>2, <1>6, <2>5, AttemptsAre, RecordTyping
<1>10. ASSUME NEW m \in Messages, RetryDue(m)
       PROVE  Growing /\ Tried' \ Again' \subseteq AcceptedMessages'
  <2>1. record' = [record EXCEPT ![m] = [record[m] EXCEPT !.due = TRUE]]
    BY <1>1, <1>10 DEF RetryDue, DatabaseOK
  <2>2. [record[m] EXCEPT !.due = TRUE] \in RecordType
    BY <1>2, RecordTyping
  <2>3. [record[m] EXCEPT !.due = TRUE].attempts = record[m].attempts
    BY <1>2, AttemptsAre
  <2> QED  BY <1>6, <2>1, <2>2, <2>3
<1>11. ASSUME UNCHANGED <<mailbox, record>>
       PROVE  Growing /\ Tried' \ Again' \subseteq AcceptedMessages'
  <2>1. Growing /\ Tried' \ Again' \subseteq Tried \ Again
    BY <1>1, <1>11 DEF Tried, Spent, Growing
  <2> QED  BY <1>1, <2>1
<1> QED  BY <1>4, <1>5, <1>7, <1>8, <1>9, <1>10, <1>11, TableFrame

\* Whoever dead-letters a message has found its attempts used up.
LEMMA SpentStep ==
    ASSUME TypeOK, JobsCounted, FailedAreSpent, Growing, Next
    PROVE  FailedAreSpent'
<1>1. DatabaseOK /\ JobsOK
  BY DEF TypeOK
<1> SUFFICES ASSUME NEW m \in Messages, mailbox'[m].status = "failed"
             PROVE  m \in Spent
  BY DEF FailedAreSpent, Growing
<1>2. ASSUME NEW p \in Procs, job[p].at \notin RowlessLabels
      PROVE  Current(p).msg \in Messages /\ Current(p) \in job[p].rows
  BY <1>1, <1>2, CurrentIsIn
<1>3. ASSUME mailbox[m].status = "failed" PROVE m \in Spent
  BY <1>3 DEF FailedAreSpent
<1>4. ASSUME NEW x \in Messages, NEW row, mailbox' = [mailbox EXCEPT ![x] = row],
             row.status = "failed" => mailbox[x].status = "failed" \/ x \in Spent
      PROVE  m \in Spent
  BY <1>1, <1>3, <1>4 DEF DatabaseOK
<1>5. ASSUME NEW p \in Procs, SendQueue(p)
      PROVE  m \in Spent
  <2>1. Current(p).msg \in Messages
    BY <1>2, <1>5 DEF SendQueue, At, RowlessLabels
  <2>2. QueuedRow(lastId + 1).status # "failed"
    BY DEF QueuedRow
  <2> QED  BY <1>4, <1>5, <2>1, <2>2 DEF SendQueue
<1>6. ASSUME NEW p \in Procs, Mark(p) \/ AckCommit(p) \/ TimeoutReschedule(p)
      PROVE  m \in Spent
  <2>1. Current(p).msg \in Messages
    BY <1>2, <1>6 DEF Mark, AckCommit, TimeoutReschedule, At, RowlessLabels
  <2>2. \A x \in Messages : \A id :
           \A row \in {DeliveredRow(mailbox[x], id), AcknowledgedRow(mailbox[x]),
                       RescheduledRow(mailbox[x])} :
              row.status = "failed" => mailbox[x].status = "failed"
    BY <1>1 DEF DatabaseOK, RowType, DeliveredRow, AcknowledgedRow, RescheduledRow
  <2> QED  BY <1>4, <1>6, <2>1, <2>2 DEF Mark, AckCommit, TimeoutReschedule
<1>7. ASSUME NEW p \in Procs, TimeoutFail(p)
      PROVE  m \in Spent
  <2>1. job[p].at = "expire" /\ job[p].tries >= MaxRetries
    BY <1>7 DEF TimeoutFail, At
  <2>2. Current(p).msg \in Messages /\ Current(p).msg \in Spent
    BY <1>2, <2>1 DEF RowlessLabels, JobsCounted, Counted, Current
  <2> QED  BY <1>4, <1>7, <2>2 DEF TimeoutFail
<1>8. ASSUME NEW n \in Nodes, SweepFail(n)
      PROVE  m \in Spent
  <2>1. n \in Procs /\ job[n].at = "fail"
    BY <1>8 DEF SweepFail, At, Procs
  <2>2. Current(n).msg \in Messages /\ Current(n).msg \in Spent
    BY <1>2, <2>1 DEF RowlessLabels, JobsCounted, Counted
  <2> QED  BY <1>4, <1>8, <2>2 DEF SweepFail
<1>9. CASE UNCHANGED mailbox
  BY <1>3, <1>9
<1> QED  BY <1>5, <1>6, <1>7, <1>8, <1>9, TableFrame
         DEF Attempt, HandleRead, HandleDecryptionError, RetryDue

-----------------------------------------------------------------------------
(* Handlers hold what was tried.                                           *)

LEMMA BecomeCounted ==
    ASSUME JobsOK, JobsCounted, Growing, NEW p \in Procs, NEW j, Become(p, j),
           Counted(j, Tried', Spent')
    PROVE  JobsCounted'
<1>1. \A q \in Procs : Counted(job[q], Tried', Spent')
  BY DEF JobsCounted, Counted, Growing
<1>2. \A q \in Procs : job'[q] = IF q = p THEN j ELSE job[q]
  BY DEF JobsOK, Become
<1>3. \A q \in Procs : Counted(job'[q], Tried', Spent')
  BY <1>1, <1>2
<1> QED  BY <1>3 DEF JobsCounted

\* labels at which a handler counts on an attempt
Counting == {"mark", "emit", "arm", "timeout", "expire", "dispatch", "fail"}

LEMMA CalmCounted ==
    ASSUME NEW j, j.at \notin Counting, NEW tried, NEW spent, \A e \in j.batch : e.msg \in tried
    PROVE  Counted(j, tried, spent)
BY DEF Counted, Counting

LEMMA IdleCounted == ASSUME NEW tried, NEW spent PROVE Counted(Idle, tried, spent)
BY DEF Counted, Idle

LEMMA FreshCounted ==
    ASSUME NEW kind, NEW label, label \notin Counting, NEW n, NEW rows, NEW tried, NEW spent
    PROVE  Counted(Job(kind, label, n, rows), tried, spent)
BY DEF Counted, Counting, Job, Idle

LEMMA HandlerCounted ==
    ASSUME TypeOK, JobsCounted, Growing, Next, NEW p \in Procs, Handler(p),
           Attempt(p) => Current(p).msg \in Tried'
    PROVE  JobsCounted'
<1>1. JobsOK /\ DatabaseOK /\ job[p] \in JobType
  BY DEF TypeOK, JobsOK
<1>2. Counted(job[p], Tried, Spent) /\ Counted(job[p], Tried', Spent')
  BY DEF JobsCounted, Counted, Growing
<1>3. \A e \in job[p].batch : e.msg \in Tried'
  BY <1>2 DEF Counted
<1>4. ASSUME Become(p, Idle) PROVE JobsCounted'
  BY <1>1, <1>4, BecomeCounted, IdleCounted
<1>5. ASSUME NEW j, Become(p, j), j.at \notin Counting, j.batch = job[p].batch
      PROVE  JobsCounted'
  BY <1>1, <1>3, <1>5, BecomeCounted, CalmCounted
<1>6. ASSUME job[p].at \notin RowlessLabels
      PROVE  Current(p) \in job[p].rows /\ Current(p).msg \in Messages /\ Rest(p) \subseteq job[p].rows
  BY <1>1, <1>6, CurrentIsIn DEF Rest
<1>7. CASE SendDuplicate(p) \/ SendEmit(p) \/ AckRemember(p) \/ TimeoutFail(p) \/ TimeoutReschedule(p)
  BY <1>4, <1>7 DEF SendDuplicate, SendEmit, AckRemember, TimeoutFail, TimeoutReschedule, Finish
<1>8. CASE SendQueue(p)
  <2>1. PICK rows : Become(p, [job[p] EXCEPT !.at = "lookup", !.rows = rows])
    BY <1>8 DEF SendQueue
  <2> QED  BY <1>1, <1>5, <2>1 DEF JobType, JobFields, Counting
<1>9. CASE SendLookup(p)
  <2>1. PICK devs : Become(p, Idle) \/ Become(p, [job[p] EXCEPT !.at = "attempt", !.devs = devs])
    BY <1>9 DEF SendLookup
  <2> QED  BY <1>1, <1>4, <1>5, <2>1 DEF JobType, JobFields, Counting
<1>10. CASE Attempt(p)
  <2> DEFINE j == [job[p] EXCEPT !.at = "mark"]
  <2>1. j.at = "mark" /\ j.rows = job[p].rows /\ j.batch = job[p].batch
    BY <1>1 DEF JobType, JobFields
  <2>2. Become(p, j)
    BY <1>10 DEF Attempt, Goto
  <2>3. Least(job[p].rows).msg \in Tried'
    BY <1>10 DEF Current
  <2> HIDE DEF j
  <2>4. Counted(j, Tried', Spent')
    BY <1>3, <2>1, <2>3 DEF Counted
  <2> QED  BY <1>1, <2>2, <2>4, BecomeCounted
<1>11. CASE Mark(p)
  <2>1. job[p].at = "mark" /\ Become(p, AfterMark(p))
    BY <1>11 DEF Mark, At
  <2>2. Current(p).msg \in Tried' /\ Least(job[p].rows).msg \in Tried'
    BY <1>2, <2>1 DEF Counted, Current
  <2>3. CASE job[p].kind # "sweep"
    <3> DEFINE j == [job[p] EXCEPT !.at = "emit"]
    <3>1. j.at = "emit" /\ j.rows = job[p].rows /\ j.batch = job[p].batch
      BY <1>1 DEF JobType, JobFields
    <3>2. Become(p, j)
      BY <2>1, <2>3 DEF AfterMark
    <3> HIDE DEF j
    <3>3. Counted(j, Tried', Spent')
      BY <1>3, <2>2, <3>1 DEF Counted
    <3> QED  BY <1>1, <3>2, <3>3, BecomeCounted
  <2>4. CASE job[p].kind = "sweep" /\ Rest(p) # {}
    <3> DEFINE j == [job[p] EXCEPT !.at = "attempt", !.rows = Rest(p),
                                   !.batch = @ \cup {Current(p)}]
    <3>1. j.at = "attempt" /\ j.batch = job[p].batch \cup {Current(p)}
      BY <1>1 DEF JobType, JobFields
    <3>2. Become(p, j)
      BY <2>1, <2>4 DEF AfterMark
    <3> HIDE DEF j
    <3>3. Counted(j, Tried', Spent')
      BY <1>3, <2>2, <3>1, CalmCounted DEF Counting
    <3> QED  BY <1>1, <3>2, <3>3, BecomeCounted
  <2>5. CASE job[p].kind = "sweep" /\ Rest(p) = {}
    <3> DEFINE j == [job[p] EXCEPT !.at = "dispatch", !.rows = job[p].batch \cup {Current(p)},
                                   !.batch = {}]
    <3>1. j.at = "dispatch" /\ j.rows = job[p].batch \cup {Current(p)} /\ j.batch = {}
      BY <1>1 DEF JobType, JobFields
    <3>2. Become(p, j)
      BY <2>1, <2>5 DEF AfterMark
    <3> HIDE DEF j
    <3>3. Counted(j, Tried', Spent')
      BY <1>3, <2>2, <3>1 DEF Counted
    <3> QED  BY <1>1, <3>2, <3>3, BecomeCounted
  <2> QED  BY <2>3, <2>4, <2>5
<1>12. CASE ReplayRead(p)
  <2>1. PICK rows : Become(p, Idle) \/ Become(p, [job[p] EXCEPT !.at = "attempt", !.rows = rows])
    BY <1>12 DEF ReplayRead
  <2> QED  BY <1>1, <1>4, <1>5, <2>1 DEF JobType, JobFields, Counting
<1>13. CASE ReplayEmit(p)
  <2> DEFINE j == [job[p] EXCEPT !.at = "arm"]
  <2>1. /\ j.at = "arm" /\ j.rows = job[p].rows /\ j.batch = job[p].batch
        /\ j.kind = job[p].kind
    BY <1>1 DEF JobType, JobFields
  <2>2. Become(p, j) /\ job[p].kind # "sweep" /\ job[p].at = "emit"
    BY <1>13 DEF ReplayEmit, Goto, At
  <2>3. Least(job[p].rows).msg \in Tried'
    BY <1>2, <2>2 DEF Counted
  <2> HIDE DEF j
  <2>4. Counted(j, Tried', Spent')
    BY <1>3, <2>1, <2>2, <2>3 DEF Counted
  <2> QED  BY <1>1, <2>2, <2>4, BecomeCounted
<1>14. CASE Arm(p)
  <2>1. job[p].at = "arm"
    BY <1>14 DEF Arm, At
  <2>2. CASE job[p].kind = "sweep"
    <3> DEFINE j == [job[p] EXCEPT !.at = "dispatch", !.rows = Rest(p)]
    <3>1. j.at = "dispatch" /\ j.rows = Rest(p) /\ j.batch = job[p].batch
      BY <1>1 DEF JobType, JobFields
    <3>2. Become(p, Idle) \/ Become(p, j)
      BY <1>14, <2>2 DEF Arm, NextRow
    <3>3. \A e \in Rest(p) : e.msg \in Tried'
      BY <1>2, <1>6, <2>1, <2>2 DEF Counted, RowlessLabels
    <3> HIDE DEF j
    <3>4. Counted(j, Tried', Spent')
      BY <1>3, <3>1, <3>3 DEF Counted
    <3> QED  BY <1>1, <1>4, <3>2, <3>4, BecomeCounted
  <2>3. CASE job[p].kind # "sweep"
    <3>1. Become(p, Idle) \/ Become(p, [job[p] EXCEPT !.at = "attempt", !.rows = Rest(p)])
      BY <1>14, <2>3 DEF Arm, NextRow
    <3> QED  BY <1>1, <1>4, <1>5, <3>1 DEF JobType, JobFields, Counting
  <2> QED  BY <2>2, <2>3
<1>15. CASE AckCommit(p)
  <2>1. Become(p, [job[p] EXCEPT !.at = "remember"])
    BY <1>15 DEF AckCommit, Goto
  <2> QED  BY <1>1, <1>5, <2>1 DEF JobType, JobFields, Counting
<1>16. CASE TimeoutRead(p)
  <2>1. PICK m \in Messages : m = Current(p).msg /\ m = Least(job[p].rows).msg
    BY <1>6, <1>16 DEF TimeoutRead, At, RowlessLabels, Current
  <2>2. m \in Tried /\ m \in Tried'
    BY <1>2, <1>16, <2>1 DEF Counted, TimeoutRead, At
  <2>3. PICK k : k = IF record[m].attempts = 0 THEN 1 ELSE record[m].attempts
    OBVIOUS
  <2> DEFINE j == [job[p] EXCEPT !.at = "expire", !.tries = k]
  <2>4. Become(p, j)
    BY <1>16, <2>1, <2>3 DEF TimeoutRead
  <2>5. j.at = "expire" /\ j.tries = k /\ j.rows = job[p].rows /\ j.batch = job[p].batch
    BY <1>1 DEF JobType, JobFields
  <2>6. k >= MaxRetries => m \in Spent'
    <3>1. record[m].attempts > 0 \/ m \in Again
      BY <2>2 DEF Tried
    <3>2. record[m].attempts > 0 => k = record[m].attempts
      BY <2>3
    <3> QED  BY <3>1, <3>2 DEF Spent, Growing
  <2> HIDE DEF j
  <2>7. Counted(j, Tried', Spent')
    BY <1>3, <2>1, <2>2, <2>5, <2>6 DEF Counted
  <2> QED  BY <1>1, <2>4, <2>7, BecomeCounted
<1> QED  BY <1>7, <1>8, <1>9, <1>10, <1>11, <1>12, <1>13, <1>14, <1>15, <1>16 DEF Handler

LEMMA SweepCounted ==
    ASSUME TypeOK, JobsCounted, Growing, Next, NEW n \in Nodes, Sweep(n)
    PROVE  JobsCounted'
<1>1. JobsOK /\ DatabaseOK /\ n \in Procs /\ job[n] \in JobType
  BY DEF TypeOK, JobsOK, Procs
<1>2. Counted(job[n], Tried, Spent) /\ Counted(job[n], Tried', Spent')
  BY <1>1 DEF JobsCounted, Counted, Growing
<1>3. \A e \in job[n].batch : e.msg \in Tried'
  BY <1>2 DEF Counted
<1>4. ASSUME Become(n, Idle) PROVE JobsCounted'
  BY <1>1, <1>4, BecomeCounted, IdleCounted
<1>5. ASSUME NEW j, Become(n, j), j.at \notin Counting, j.batch = job[n].batch
      PROVE  JobsCounted'
  BY <1>1, <1>3, <1>5, BecomeCounted, CalmCounted
<1>6. ASSUME job[n].at \notin RowlessLabels
      PROVE  Current(n) \in job[n].rows /\ Rest(n) \subseteq job[n].rows
  BY <1>1, <1>6, CurrentIsIn DEF Rest
<1>7. ASSUME NEW rows, Become(n, FailNext(n, rows)), \A e \in rows : e.msg \in Spent'
      PROVE  JobsCounted'
  <2> DEFINE j == FailNext(n, rows)
  <2>1. /\ j.at = (IF rows = {} THEN "candidates" ELSE "fail")
        /\ j.rows = rows /\ j.batch = job[n].batch
    BY <1>1 DEF FailNext, JobType, JobFields
  <2>2. Become(n, j)
    BY <1>7
  <2> HIDE DEF j
  <2>3. Counted(j, Tried', Spent')
    BY <1>3, <1>7, <2>1 DEF Counted
  <2> QED  BY <1>1, <2>2, <2>3, BecomeCounted
<1>8. CASE SweepTick(n)
  <2> DEFINE j == [Job("sweep", "exhausted", n, {}) EXCEPT !.users = OnlineUsers]
  <2>1. j.at = "exhausted" /\ j.batch = {}
    BY DEF Job, Idle
  <2>2. Become(n, j)
    BY <1>8 DEF SweepTick
  <2> HIDE DEF j
  <2>3. Counted(j, Tried', Spent')
    BY <2>1, CalmCounted DEF Counting
  <2> QED  BY <1>1, <2>2, <2>3, BecomeCounted
<1>9. CASE SweepFindExhausted(n)
  <2>1. Exhausted \subseteq Spent
    BY DEF Exhausted, IsExhausted, Spent
  <2>2. \A e \in Found(Exhausted) : e.msg \in Exhausted
    BY DEF Found, Page, Rows
  <2>3. Become(n, FailNext(n, Found(Exhausted)))
    BY <1>9 DEF SweepFindExhausted
  <2> QED  BY <1>7, <2>1, <2>2, <2>3 DEF Growing
<1>10. CASE SweepFail(n)
  <2>1. job[n].at = "fail" /\ Become(n, FailNext(n, Rest(n)))
    BY <1>10 DEF SweepFail, At
  <2>2. \A e \in Rest(n) : e.msg \in Spent'
    BY <1>2, <1>6, <2>1 DEF Counted, RowlessLabels
  <2> QED  BY <1>7, <2>1, <2>2
<1>11. CASE SweepFindCandidates(n)
  <2>1. PICK rows : Become(n, Idle) \/ Become(n, [job[n] EXCEPT !.at = "attempt", !.rows = rows])
    BY <1>11 DEF SweepFindCandidates
  <2> QED  BY <1>1, <1>4, <1>5, <2>1 DEF JobType, JobFields, Counting
<1>12. CASE SweepSkip(n)
  <2>1. job[n].at = "dispatch"
    BY <1>12 DEF SweepSkip, At
  <2> DEFINE j == [job[n] EXCEPT !.at = "dispatch", !.rows = Rest(n)]
  <2>2. j.at = "dispatch" /\ j.rows = Rest(n) /\ j.batch = job[n].batch
    BY <1>1 DEF JobType, JobFields
  <2>3. Become(n, Idle) \/ Become(n, j)
    BY <1>12 DEF SweepSkip, NextRow
  <2>4. \A e \in Rest(n) : e.msg \in Tried'
    BY <1>2, <1>6, <2>1 DEF Counted, RowlessLabels
  <2> HIDE DEF j
  <2>5. Counted(j, Tried', Spent')
    BY <1>3, <2>2, <2>4 DEF Counted
  <2> QED  BY <1>1, <1>4, <2>3, <2>5, BecomeCounted
<1>13. CASE SweepDispatch(n)
  <2>1. job[n].at = "dispatch"
    BY <1>13 DEF SweepDispatch, At
  <2> DEFINE j == [job[n] EXCEPT !.at = "arm"]
  <2>2. j.at = "arm" /\ j.rows = job[n].rows /\ j.batch = job[n].batch
    BY <1>1 DEF JobType, JobFields
  <2>3. Become(n, j)
    BY <1>13 DEF SweepDispatch, Goto
  <2>4. /\ \A e \in job[n].rows : e.msg \in Tried'
        /\ Least(job[n].rows) \in job[n].rows
    BY <1>2, <1>6, <2>1 DEF Counted, RowlessLabels, Current
  <2> HIDE DEF j
  <2>5. Counted(j, Tried', Spent')
    BY <1>3, <2>2, <2>4 DEF Counted
  <2> QED  BY <1>1, <2>3, <2>5, BecomeCounted
<1> QED  BY <1>8, <1>9, <1>10, <1>11, <1>12, <1>13 DEF Sweep

LEMMA StartCounted ==
    ASSUME TypeOK, JobsCounted, TimersTried, Growing, Next, NEW p \in Workers, Start(p)
    PROVE  JobsCounted'
<1>1. JobsOK /\ MemoryOK /\ p \in Procs
  BY DEF TypeOK, Procs
<1>2. ASSUME NEW kind, NEW label, label \notin Counting, NEW n, NEW rows,
             Become(p, Job(kind, label, n, rows))
      PROVE  JobsCounted'
  BY <1>1, <1>2, BecomeCounted, FreshCounted
<1>3. ASSUME NEW kind, NEW n, NEW ds, NEW us,
             Become(p, [Job(kind, "pending", n, {}) EXCEPT !.devs = ds, !.users = us])
      PROVE  JobsCounted'
  <2> DEFINE j == [Job(kind, "pending", n, {}) EXCEPT !.devs = ds, !.users = us]
  <2>1. j.at = "pending" /\ j.batch = {}
    BY DEF Job, Idle
  <2>2. Become(p, j)
    BY <1>3
  <2> HIDE DEF j
  <2>3. Counted(j, Tried', Spent')
    BY <2>1, CalmCounted DEF Counting
  <2> QED  BY <1>1, <2>2, <2>3, BecomeCounted
<1>4. ASSUME NEW d \in Devices, Join(p, d) \/ Resume(p, d)
      PROVE  JobsCounted'
  BY <1>3, <1>4 DEF Join, Resume
<1>5. ASSUME NEW d \in Devices, AckBegin(p, d)
      PROVE  JobsCounted'
  BY <1>2, <1>5 DEF AckBegin, Counting
<1>6. ASSUME NEW n \in Nodes, NEW m \in Messages, SendBegin(p, n, m)
      PROVE  JobsCounted'
  <2>1. \/ Become(p, Idle)
        \/ Become(p, Job("send", "queue", n, {[id |-> 0, msg |-> m]}))
    BY <1>6 DEF SendBegin
  <2>2. CASE Become(p, Idle)
    BY <1>1, <2>2, BecomeCounted, IdleCounted
  <2> QED  BY <1>2, <2>1, <2>2 DEF Counting
<1>7. ASSUME NEW n \in Nodes, NEW m \in Messages, TimerFires(p, n, m)
      PROVE  JobsCounted'
  <2> DEFINE rows == {[id |-> 0, msg |-> m]}
             j == Job("timer", "timeout", n, rows)
  <2>1. j.at = "timeout" /\ j.rows = rows /\ j.batch = {}
    BY DEF Job, Idle
  <2>2. Least(rows) \in rows
    BY LeastIsIn DEF Entry
  <2>3. Least(rows).msg = m
    BY <2>2
  <2>4. m \in Tried'
    BY <1>7 DEF TimerFires, TimersTried, Growing
  <2>5. Become(p, j)
    BY <1>7 DEF TimerFires
  <2> HIDE DEF j
  <2>6. Counted(j, Tried', Spent')
    BY <2>1, <2>3, <2>4 DEF Counted
  <2> QED  BY <1>1, <2>5, <2>6, BecomeCounted
<1> QED  BY <1>4, <1>5, <1>6, <1>7 DEF Start

\* A handler that loses sockets counts on the same rows.
LEMMA FewerSocketsCounted ==
    ASSUME NEW j \in JobType, NEW ds, NEW tried, NEW spent, Counted(j, tried, spent)
    PROVE  Counted(WithoutDevices(j, ds), tried, spent)
<1> DEFINE k == WithoutDevices(j, ds)
<1>1. /\ k.at = j.at /\ k.kind = j.kind /\ k.rows = j.rows
      /\ k.batch = j.batch /\ k.tries = j.tries
  BY DEF WithoutDevices, JobType, JobFields
<1> HIDE DEF k
<1>2. Counted(k, tried, spent)
  BY <1>1 DEF Counted
<1> QED  BY <1>2 DEF k

LEMMA EnvironmentCounted ==
    ASSUME TypeOK, JobsCounted, Growing, Next, Environment
    PROVE  JobsCounted'
<1>1. JobsOK
  BY DEF TypeOK
<1>2. \A p \in Procs : Counted(job[p], Tried', Spent')
  BY DEF JobsCounted, Counted, Growing
<1>3. \A p \in Procs : \A ds : Counted(WithoutDevices(job[p], ds), Tried', Spent')
  BY <1>1, <1>2, FewerSocketsCounted DEF JobsOK
<1>4. CASE UNCHANGED job
  BY <1>2, <1>4 DEF JobsCounted
<1>5. ASSUME NEW d \in Devices, Disconnect(d) \/ Reload(d)
      PROVE  JobsCounted'
  BY <1>3, <1>5 DEF Disconnect, Reload, JobsCounted
<1>6. ASSUME NEW p \in Procs, Abort(p)
      PROVE  JobsCounted'
  BY <1>1, <1>6, BecomeCounted, IdleCounted DEF Abort, Finish
<1>7. ASSUME NEW n \in Nodes, Crash(n)
      PROVE  JobsCounted'
  <2>1. \A p \in Procs : \/ job'[p] = Idle
                         \/ \E ds : job'[p] = WithoutDevices(job[p], ds)
    BY <1>7 DEF Crash
  <2>2. \A p \in Procs : Counted(job'[p], Tried', Spent')
    BY <1>3, <2>1, IdleCounted
  <2> QED  BY <2>2 DEF JobsCounted
<1> QED  BY <1>4, <1>5, <1>6, <1>7 DEF Environment, Forget, Expire, RetryDue

LEMMA JobsCountedStep ==
    ASSUME TypeOK, JobsCounted, TimersTried, Growing, Next,
           \A p \in Procs : Attempt(p) => Current(p).msg \in Tried'
    PROVE  JobsCounted'
<1>1. CASE UNCHANGED job
  BY <1>1 DEF JobsCounted, Counted, Growing
<1> QED  BY <1>1, HandlerCounted, SweepCounted, StartCounted, ClientJobs, EnvironmentCounted
         DEF Next

-----------------------------------------------------------------------------
(* A timer is armed for what was dispatched.                               *)

LEMMA TimersStep ==
    ASSUME TypeOK, JobsCounted, TimersTried, Growing, Next
    PROVE  TimersTried'
<1>1. JobsOK /\ MemoryOK
  BY DEF TypeOK
<1>2. ASSUME \A n \in Nodes : timers'[n] \subseteq timers[n]
      PROVE  TimersTried'
  BY <1>2 DEF TimersTried, Growing
<1>3. CASE UNCHANGED timers
  BY <1>2, <1>3
<1>4. ASSUME NEW p \in Procs, SendEmit(p) \/ Arm(p)
      PROVE  TimersTried'
  <2>1. job[p].at \in {"emit", "arm"}
    BY <1>4 DEF SendEmit, Arm, At
  <2>2. Current(p).msg \in Tried
    BY <2>1 DEF JobsCounted, Counted, Current
  <2>3. timers' = [timers EXCEPT ![job[p].node] = timers[job[p].node] \cup {Current(p).msg}]
    BY <1>4 DEF SendEmit, Arm, Armed
  <2> QED  BY <1>1, <2>2, <2>3 DEF TimersTried, Growing, MemoryOK
<1>5. ASSUME NEW p \in Workers, NEW n \in Nodes, NEW m \in Messages, TimerFires(p, n, m)
      PROVE  TimersTried'
  BY <1>1, <1>2, <1>5 DEF TimerFires, MemoryOK
<1>6. ASSUME NEW p \in Workers, NEW d \in Devices, AckBegin(p, d)
      PROVE  TimersTried'
  BY <1>1, <1>2, <1>6 DEF AckBegin, MemoryOK
<1>7. ASSUME NEW n \in Nodes, Crash(n)
      PROVE  TimersTried'
  BY <1>1, <1>2, <1>7 DEF Crash, MemoryOK
<1> QED  BY <1>3, <1>4, <1>5, <1>6, <1>7, TimerFrame

-----------------------------------------------------------------------------
(* The theorem.                                                            *)

LEMMA InitExhaustion == Init => Exhaustion
<1> SUFFICES ASSUME Init PROVE Exhaustion
  OBVIOUS
<1>1. QueuedOnce
  BY DEF Init, QueuedOnce, OneSubmission, Queueing, Accepted, Idle, NoRow
<1>2. Tried = {}
  BY DEF Init, Tried, Again, NoRecord
<1>3. JobsCounted /\ TimersTried
  BY IdleCounted DEF Init, JobsCounted, TimersTried
<1>4. FailedAreSpent
  BY DEF Init, FailedAreSpent, NoRow
<1> QED  BY <1>1, <1>2, <1>3, <1>4 DEF Exhaustion

LEMMA StepExhaustion ==
    TypeOK /\ Held /\ Exhaustion /\ [Next]_vars => Exhaustion'
<1> SUFFICES ASSUME TypeOK, Held, Exhaustion, [Next]_vars
             PROVE  Exhaustion'
  OBVIOUS
<1>1. CASE Next
  <2>1. /\ Growing /\ Tried' \ Again' \subseteq AcceptedMessages'
        /\ \A p \in Procs : Attempt(p) => Current(p).msg \in Tried'
    BY <1>1, AttemptsGrow DEF Exhaustion, Held
  <2>2. QueuedOnce'
    BY <1>1, QueuedOnceStep DEF Exhaustion
  <2>3. JobsCounted' /\ TimersTried'
    BY <1>1, <2>1, JobsCountedStep, TimersStep DEF Exhaustion
  <2>4. FailedAreSpent'
    BY <1>1, <2>1, SpentStep DEF Exhaustion
  <2> QED  BY <2>1, <2>2, <2>3, <2>4 DEF Exhaustion
<1>2. CASE UNCHANGED vars
  <2>1. UNCHANGED <<mailbox, record, timers, job, sends>>
    BY <1>2 DEF vars, database, memory, bounds
  <2>2. /\ UNCHANGED <<Tried, Spent, Again, AcceptedMessages>>
        /\ \A m : UNCHANGED Accepted(m) /\ \A p : UNCHANGED Queueing(p, m)
    BY <2>1 DEF Tried, Spent, Again, AcceptedMessages, Accepted, Queueing
  <2> QED  BY <2>1, <2>2 DEF Exhaustion, QueuedOnce, OneSubmission, JobsCounted,
           TimersTried, FailedAreSpent
<1> QED  BY <1>1, <1>2

\* Whatever the sweep and the timers (messageService.ts 149-217) read, however
\* long before they act on it, a message that was submitted once is
\* dead-lettered only when maxRetries attempts were made.  For one that is
\* submitted again queueMessage (MailboxRepository.ts 27-37) resets the count
\* under handlers that still go by the old one.
THEOREM DeadLettersAreExhausted ==
    Spec => [](\A m \in Messages : sends[m] <= 1 /\ mailbox[m].status = "failed" =>
                  record[m].attempts >= MaxRetries)
<1>1. Init => Exhaustion
  BY InitExhaustion
<1>2. TypeOK /\ Held /\ Exhaustion /\ [Next]_vars => Exhaustion'
  BY StepExhaustion
<1>3. TypeOK /\ Exhaustion =>
        \A m \in Messages : sends[m] <= 1 /\ mailbox[m].status = "failed" =>
            record[m].attempts >= MaxRetries
  BY DEF TypeOK, BoundsOK, Exhaustion, FailedAreSpent, Spent, Again
<1> QED  BY <1>1, <1>2, <1>3, TypeCorrect, HeldKept, PTL DEF Spec

\* SendBegin keeps to its bound.
LEMMA SendsBounded == Spec => [](\A m \in Messages : sends[m] <= MaxSends)
<1> DEFINE Bounded == \A m \in Messages : sends[m] <= MaxSends
<1>1. Init => Bounded
  BY ConstantsAssumption DEF Init
<1>2. TypeOK /\ Bounded /\ [Next]_vars => Bounded'
  <2> SUFFICES ASSUME TypeOK, Bounded, [Next]_vars PROVE Bounded'
    OBVIOUS
  <2>1. CASE UNCHANGED sends
    BY <2>1
  <2>2. ASSUME NEW p \in Workers, NEW n \in Nodes, NEW m \in Messages, SendBegin(p, n, m)
        PROVE  Bounded'
    <3>1. sends \in [Messages -> Nat] /\ MaxSends \in Nat
      BY ConstantsAssumption DEF TypeOK, BoundsOK
    <3>2. sends[m] < MaxSends /\ sends' = [sends EXCEPT ![m] = sends[m] + 1]
      BY <2>2 DEF SendBegin
    <3> QED  BY <3>1, <3>2
  <2> QED  BY <2>1, <2>2, SendsFrame DEF vars, bounds
<1> QED  BY <1>1, <1>2, TypeCorrect, PTL DEF Spec

\* With a sender that submits every message once, as the repository's own
\* client does (hooks/useMessageActions.ts), it holds of every message.
THEOREM DeadLettersOfOneSubmission ==
    MaxSends = 1 => (Spec => []FailedOnlyWhenExhausted)
<1>1. MaxSends = 1 /\ (\A m \in Messages : sends[m] <= MaxSends)
        /\ (\A m \in Messages : sends[m] <= 1 /\ mailbox[m].status = "failed" =>
                record[m].attempts >= MaxRetries)
      => FailedOnlyWhenExhausted
  BY DEF FailedOnlyWhenExhausted
<1>2. ASSUME MaxSends = 1 PROVE Spec => []FailedOnlyWhenExhausted
  <2>1. (\A m \in Messages : sends[m] <= MaxSends)
          /\ (\A m \in Messages : sends[m] <= 1 /\ mailbox[m].status = "failed" =>
                  record[m].attempts >= MaxRetries)
        => FailedOnlyWhenExhausted
    BY <1>1, <1>2
  <2> QED  BY <2>1, SendsBounded, DeadLettersAreExhausted, PTL
<1> QED  BY <1>2
=============================================================================
