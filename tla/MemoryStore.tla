---------------------------- MODULE MemoryStore ----------------------------
(***************************************************************************)
(* MemoryPostgresStore of hichat-server/src/db/postgres.ts: the tables the *)
(* server uses in place of PostgreSQL when none can be reached and         *)
(* DB_DRIVER is sqlite.  A table is a sequence of rows, a row a function   *)
(* from columns to values; a statement is what parsing it yields.  The two *)
(* tables here are the ones MailboxRepository promises things about, and   *)
(* one of refresh tokens.                                                  *)
(***************************************************************************)
EXTENDS MailboxRepository, SequencesExt, TLC

CONSTANTS
    Messages,   \* values of message_id
    Tokens,     \* values of token_hash
    MaxId       \* the greatest serial number of table mailbox

TableNames == {"mailbox", "message_deliveries", "refresh_tokens"}

\* next_retry_at: NULL, not later than now, or later
Times == {"null", "past", "future"}

EmptyTables == [mailbox |-> <<>>, message_deliveries |-> <<>>,
                refresh_tokens |-> SetToSeq({[key |-> t, status |-> "valid"] : t \in Tokens})]

EmptyStore == [tables |-> EmptyTables, serial |-> 0]

Rows(store, table) == Range(store.tables[table])

Named(store, table, key) == {r \in Rows(store, table) : r.key = key}

\* what a statement leaves: new rows in one table
With(store, table, rows) == [store EXCEPT !.tables[table] = rows]

\* { ...row, ...change }: the columns of change, and those of row it leaves
Over(change, row) ==
    [x \in DOMAIN change \cup DOMAIN row |-> IF x \in DOMAIN change THEN change[x] ELSE row[x]]

-----------------------------------------------------------------------------
(* INSERT.  The row has the columns the statement lists and the defaults   *)
(* of its table; conflict is what the statement says of ON CONFLICT.       *)

\* mutant: the counter is read before it advances
DefaultsFromZero(store, table) ==
    CASE table = "mailbox" -> [id |-> store.serial]
      [] table = "message_deliveries" -> [attempts |-> 0]

Defaults(store, table) ==
    CASE table = "mailbox" -> [id |-> store.serial + 1]
      [] table = "message_deliveries" -> [attempts |-> 0]

\* a column that was never written reads as null
Columns(table) ==
    IF table = "message_deliveries" THEN [retry |-> "null"] ELSE <<>>

\* mutant: the row is appended although its key is taken
PlacedAtEnd(rows, row, table, conflict) == Append(rows, Over(row, Columns(table)))

\* where the row with a key stands, and 0 when there is none
Position(rows, key) == SelectInSeq(rows, LAMBDA r : r.key = key)

(* DO UPDATE assigns every column of the row it could not insert, whatever *)
(* its SET lists; without a clause the old row is replaced.                *)
Placed(rows, row, table, conflict) ==
    LET i == Position(rows, row.key)
    IN CASE i = 0 -> Append(rows, Over(row, Columns(table)))
         [] i > 0 /\ conflict = "nothing" -> rows
         [] i > 0 /\ conflict = "update" -> [rows EXCEPT ![i] = Over(row, @)]
         [] i > 0 /\ conflict = "none" -> [rows EXCEPT ![i] = Over(row, Columns(table))]

Insert(store, table, values, conflict) ==
    LET row == Over(values, Defaults(store, table))
    IN [With(store, table, Placed(store.tables[table], row, table, conflict))
           EXCEPT !.serial = IF table = "mailbox" THEN @ + 1 ELSE @]

\* UPDATE and DELETE of the rows for which evalWhere is true
Update(store, table, hit, change) ==
    LET rows == store.tables[table]
    IN With(store, table,
            [i \in DOMAIN rows |-> IF rows[i] \in hit THEN Over(change, rows[i]) ELSE rows[i]])

Before(kept, i) == {j \in kept : j < i}

\* the n-th of a set of indices
Nth(kept, n) == CHOOSE i \in kept : Cardinality(Before(kept, i)) = n - 1

Delete(store, table, hit) ==
    LET rows == store.tables[table]
        kept == {i \in DOMAIN rows : rows[i] \notin hit}
    IN With(store, table, [n \in 1 .. Cardinality(kept) |-> rows[Nth(kept, n)]])

-----------------------------------------------------------------------------
(* SELECT.  In a joined row the columns of message_deliveries hide those   *)
(* of mailbox that have the same name, except id.                          *)

Joined(store) ==
    LET found == SelectSeq(store.tables.mailbox,
                           LAMBDA m : Named(store, "message_deliveries", m.key) # {})
        match(m) == CHOOSE d \in Named(store, "message_deliveries", m.key) : TRUE
    IN [i \in DOMAIN found |-> Over(match(found[i]), found[i])]

Limited(rows, limit) == Range(SubSeq(rows, 1, IF limit < Len(rows) THEN limit ELSE Len(rows)))

\* mutant: LIMIT is applied before ORDER BY
FirstInTable(rows, limit) == Limited(rows, limit)

\* ORDER BY id LIMIT limit
First(rows, limit) == Limited(SortSeq(rows, LAMBDA r, q : r.id < q.id), limit)

Unsettled(r) == r.status \in {"queued", "delivered"}

\* findRetryCandidates: both tests of a status read the same column.
SelectCandidates(store, limit) ==
    First(SelectSeq(Joined(store), LAMBDA r : /\ Unsettled(r) /\ r.retry # "future"
                                              /\ r.attempts < MaxRetries),
          limit)

SelectExhausted(store, limit) ==
    First(SelectSeq(Joined(store), LAMBDA r : Unsettled(r) /\ r.attempts >= MaxRetries), limit)

SelectPending(store, limit) ==
    First(SelectSeq(store.tables.mailbox, LAMBDA r : r.status # "failed"), limit)
=============================================================================
