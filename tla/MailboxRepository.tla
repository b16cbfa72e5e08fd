------------------------- MODULE MailboxRepository -------------------------
(***************************************************************************)
(* What each transaction of repositories/MailboxRepository.ts does to the  *)
(* two tables it owns, one message at a time:                              *)
(*                                                                         *)
(*   - a row of table mailbox (message_id is UNIQUE, so there is at most   *)
(*     one): its status, or "absent", and the serial id it was given;      *)
(*   - the row of table message_deliveries: its status, or "none", its     *)
(*     attempt_count and whether next_retry_at has passed (due).           *)
(*                                                                         *)
(* A transaction is atomic, so it is an operator from the old row or       *)
(* record to the new one; the handlers of MailboxDelivery decide when it   *)
(* runs.  attempt_count is only ever compared with maxRetries, so it       *)
(* saturates there.                                                        *)
(***************************************************************************)
EXTENDS Naturals, FiniteSets

CONSTANT MaxRetries   \* config.mailbox.maxRetries

ASSUME MaxRetriesAssumption == MaxRetries \in Nat \ {0}

RowStatus == {"absent", "queued", "delivered", "failed"}

RecordStatus == {"none", "queued", "delivered", "acknowledged", "read",
                 "failed", "decryption_failed"}

RowType == [status : RowStatus, id : Nat]

RecordType == [status : RecordStatus, attempts : 0 .. MaxRetries,
               due : BOOLEAN]

NoRow == [status |-> "absent", id |-> 0]

NoRecord == [status |-> "none", attempts |-> 0, due |-> FALSE]

Present(row) == row.status # "absent"

-----------------------------------------------------------------------------
(* queueMessage: INSERT the row, upsert the record with everything reset.  *)

QueuedRow(id) == [status |-> "queued", id |-> id]

QueuedRecord == [status |-> "queued", attempts |-> 0, due |-> TRUE]

(* incrementAttempt: the next retry is moved into the future.              *)
AttemptedRecord(r) ==
    [r EXCEPT !.attempts = IF @ < MaxRetries THEN @ + 1 ELSE @, !.due = FALSE]

(* markDelivered: the row by its id, the record whatever its status is.    *)
DeliveredRow(row, id) ==
    IF Present(row) /\ row.id = id THEN [row EXCEPT !.status = "delivered"]
                                   ELSE row

DeliveredRecord(r) == [r EXCEPT !.status = "delivered"]

(* scheduleRetry: neither side moves once it is failed, nor the record     *)
(* once it is acknowledged or read.                                        *)
RescheduledRow(row) ==
    IF row.status \in {"absent", "failed"} THEN row
                                           ELSE [row EXCEPT !.status = "queued"]

RescheduledRecord(r) ==
    IF r.status \in {"acknowledged", "read", "failed"}
    THEN r
    ELSE [r EXCEPT !.status = "queued", !.due = FALSE]

(* Mutants of this module are the code with a plausible slip; the checks   *)
(* of PROJECT.json expect each to break a property.                        *)
FailedRowByDeletion(row) == [row EXCEPT !.status = "absent"]

FailedRowForgotten(row) == row

FailedRowMisspelt(row) ==
    IF Present(row) THEN [row EXCEPT !.status = "dead_letter"] ELSE row

(* markFailed: both sides, whatever their status is.                       *)
FailedRow(row) == IF Present(row) THEN [row EXCEPT !.status = "failed"] ELSE row

FailedRecord(r) == [r EXCEPT !.status = "failed", !.due = TRUE]

(* acknowledgeMessage: DELETE the row, the record whatever its status is.  *)
AcknowledgedRow(row) == [row EXCEPT !.status = "absent"]

AcknowledgedRecord(r) == [r EXCEPT !.status = "acknowledged", !.due = TRUE]

(* markRead and recordDecryptionFailure touch the record only.             *)
ReadRecord(r) == IF r.status = "none" THEN r ELSE [r EXCEPT !.status = "read"]

UndecryptableRecord(r) == [r EXCEPT !.status = "decryption_failed"]

-----------------------------------------------------------------------------
(* The queries.  Rows are ordered by id; a result is a set of (id, message)*)
(* pairs and its order is that of the ids.                                 *)

Least(rows) == CHOOSE r \in rows : \A q \in rows : r.id <= q.id

\* ORDER BY id ASC LIMIT limit
Page(rows, limit) ==
    {r \in rows : Cardinality({q \in rows : q.id < r.id}) < limit}

Retryable(row, r) == /\ row.status \in {"queued", "delivered"}
                     /\ r.status \in {"queued", "delivered"}

IsCandidateOffByOne(row, r) ==
    Retryable(row, r) /\ r.due /\ r.attempts + 1 < MaxRetries

IsExhaustedOffByOne(row, r) == Retryable(row, r) /\ r.attempts + 1 >= MaxRetries

\* the WHERE clause of findRetryCandidates
IsCandidate(row, r) ==
    Retryable(row, r) /\ r.due /\ r.attempts < MaxRetries

\* the WHERE clause of findExhaustedDeliveries
IsExhausted(row, r) == Retryable(row, r) /\ r.attempts >= MaxRetries

\* the WHERE clause of getPendingForRecipient and getPendingForRecipientSince
IsPending(row, after) ==
    row.status \notin {"absent", "failed"} /\ row.id > after
=============================================================================
