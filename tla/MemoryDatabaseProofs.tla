------------------------ MODULE MemoryDatabaseProofs ------------------------
(***************************************************************************)
(* The safety of the in-memory store, for any messages, tokens, calls and  *)
(* bounds.  Its tables are sequences, so the proof has two levels:         *)
(*                                                                         *)
(*   Sound(s)   what the schema demands of one store s: rows have their    *)
(*              columns, keys and ids name one row, and no id is above the *)
(*              counter.  Each kind of statement keeps it (UpdateMailbox,  *)
(*              UpdateToken, UpdateDelivery, InsertMailboxSound,           *)
(*              InsertDeliverySound, DeleteSound), so each callback does   *)
(*              (EffectSound);                                             *)
(*   Inv        the store and every snapshot on the stack are Sound, there *)
(*              are as many snapshots as open calls, a refusal runs alone, *)
(*              and every call that will take a serial number finds one.   *)
(*              A rollback restores a snapshot, so the snapshots have to   *)
(*              be part of it;                                             *)
(*   Faithful   what the calls leave: of each message the tables hold what *)
(*              MailboxRepository makes of it, up to the statement its     *)
(*              call has come to (InProgress, Settled).  Each statement    *)
(*              writes the row or the record of its own message and no     *)
(*              other (EffectWrites, Frame), because a mailbox id belongs  *)
(*              to one message (Told).  The store changes by nothing but   *)
(*              statements, but for a refusal's rollback, which takes back *)
(*              a token's row alone (Undoable).                            *)
(***************************************************************************)
EXTENDS MemoryDatabase, FiniteSetTheorems, FunctionTheorems, SequenceTheorems,
        WellFoundedInduction, TLAPS

-----------------------------------------------------------------------------
(* What the state is made of.                                              *)

Stores == [tables : [mailbox : Seq(MailboxRow), message_deliveries : Seq(DeliveryRow),
                     refresh_tokens : Seq(TokenRow)],
           serial : 0 .. MaxId]

KeysDiffer(rows) == \A i, j \in DOMAIN rows : rows[i].key = rows[j].key => i = j

IdsDiffer(rows, n) == /\ \A i, j \in DOMAIN rows : rows[i].id = rows[j].id => i = j
                      /\ \A i \in DOMAIN rows : rows[i].id <= n

\* what PostgreSQL would enforce of one store
Sound(s) == /\ s \in Stores
            /\ KeysDiffer(s.tables.mailbox)
            /\ KeysDiffer(s.tables.message_deliveries)
            /\ KeysDiffer(s.tables.refresh_tokens)
            /\ IdsDiffer(s.tables.mailbox, s.serial)

-----------------------------------------------------------------------------
(* Tables.                                                                 *)

LEMMA LeastExists ==
    ASSUME NEW S \in SUBSET Nat, S # {}
    PROVE  \E i \in S : \A j \in S : i <= j
<1>1. PICK i \in S : \A j \in S : ~ (<<j, i>> \in OpToRel(<, Nat))
  BY NatLessThanWellFounded, WFMin
<1>2. ASSUME NEW j \in S PROVE i <= j
  <2>1. i \in Nat /\ j \in Nat
    OBVIOUS
  <2>2. ~ (j < i)
    <3> SUFFICES ASSUME j < i PROVE FALSE
      OBVIOUS
    <3>1. <<j, i>> \in {ss \in Nat \X Nat : ss[1] < ss[2]}
      BY <2>1
    <3> QED  BY <1>1, <3>1 DEF OpToRel
  <2> QED  BY <2>1, <2>2
<1> QED  BY <1>2

\* A row is found by its key at an index of the table, or nowhere.
LEMMA PositionFound ==
    ASSUME NEW T, NEW rows \in Seq(T), NEW k
    PROVE  \/ Position(rows, k) = 0 /\ \A j \in DOMAIN rows : rows[j].key # k
           \/ /\ Position(rows, k) \in DOMAIN rows /\ Position(rows, k) > 0
              /\ rows[Position(rows, k)].key = k
<1> DEFINE I == {j \in 1 .. Len(rows) : rows[j].key = k}
<1>1. DOMAIN rows = 1 .. Len(rows) /\ I \subseteq Nat
  OBVIOUS
<1>2. CASE I = {}
  BY <1>1, <1>2 DEF Position, SelectInSeq
<1>3. CASE I # {}
  <2>1. Min(I) \in I
    <3>1. \E i \in I : \A j \in I : i <= j
      <4> HIDE DEF I
      <4> QED  BY <1>1, <1>3, LeastExists
    <3> HIDE DEF I
    <3> QED  BY <3>1 DEF Min
  <2> QED  BY <1>1, <1>3, <2>1 DEF Position, SelectInSeq
<1> QED  BY <1>2, <1>3

\* One table changes.
LEMMA WithIs ==
    ASSUME NEW s \in Stores, NEW rows
    PROVE  /\ With(s, "mailbox", rows) =
                [tables |-> [mailbox |-> rows,
                             message_deliveries |-> s.tables.message_deliveries,
                             refresh_tokens |-> s.tables.refresh_tokens],
                 serial |-> s.serial]
           /\ With(s, "message_deliveries", rows) =
                [tables |-> [mailbox |-> s.tables.mailbox, message_deliveries |-> rows,
                             refresh_tokens |-> s.tables.refresh_tokens],
                 serial |-> s.serial]
           /\ With(s, "refresh_tokens", rows) =
                [tables |-> [mailbox |-> s.tables.mailbox,
                             message_deliveries |-> s.tables.message_deliveries,
                             refresh_tokens |-> rows],
                 serial |-> s.serial]
<1>1. PICK t, n : s = [tables |-> t, serial |-> n]
  BY DEF Stores
<1>2. PICK a, b, c : t = [mailbox |-> a, message_deliveries |-> b, refresh_tokens |-> c]
  BY <1>1 DEF Stores
<1>3. With(s, "mailbox", rows).tables = [mailbox |-> rows, message_deliveries |-> b, refresh_tokens |-> c]
  BY <1>1, <1>2 DEF With
<1>4. With(s, "message_deliveries", rows).tables = [mailbox |-> a, message_deliveries |-> rows, refresh_tokens |-> c]
  BY <1>1, <1>2 DEF With
<1>5. With(s, "refresh_tokens", rows).tables = [mailbox |-> a, message_deliveries |-> b, refresh_tokens |-> rows]
  BY <1>1, <1>2 DEF With
<1>6. \A x : With(s, x, rows) = [tables |-> With(s, x, rows).tables, serial |-> n]
  BY <1>1, <1>2 DEF With
<1> QED  BY <1>1, <1>2, <1>3, <1>4, <1>5, <1>6

LEMMA WithSound ==
    ASSUME NEW s, Sound(s)
    PROVE  /\ \A rows \in Seq(MailboxRow) :
                KeysDiffer(rows) /\ IdsDiffer(rows, s.serial) => Sound(With(s, "mailbox", rows))
           /\ \A rows \in Seq(DeliveryRow) :
                KeysDiffer(rows) => Sound(With(s, "message_deliveries", rows))
           /\ \A rows \in Seq(TokenRow) :
                KeysDiffer(rows) => Sound(With(s, "refresh_tokens", rows))
<1>1. s \in Stores
  BY DEF Sound
<1>2. ASSUME NEW rows \in Seq(MailboxRow), KeysDiffer(rows), IdsDiffer(rows, s.serial)
      PROVE  Sound(With(s, "mailbox", rows))
  BY <1>1, <1>2, WithIs DEF Sound, Stores
<1>3. ASSUME NEW rows \in Seq(DeliveryRow), KeysDiffer(rows)
      PROVE  Sound(With(s, "message_deliveries", rows))
  BY <1>1, <1>3, WithIs DEF Sound, Stores
<1>4. ASSUME NEW rows \in Seq(TokenRow), KeysDiffer(rows)
      PROVE  Sound(With(s, "refresh_tokens", rows))
  BY <1>1, <1>4, WithIs DEF Sound, Stores
<1> QED  BY <1>2, <1>3, <1>4

\* DELETE: every number up to their count is the rank of an index that stays.
LEMMA RankExists ==
    ASSUME NEW kept \in SUBSET Nat, IsFiniteSet(kept), NEW n \in 1 .. Cardinality(kept)
    PROVE  Nth(kept, n) \in kept /\ Cardinality(Before(kept, Nth(kept, n))) = n - 1
<1> DEFINE Ranked(k) == \E i \in kept : Cardinality(Before(kept, i)) = k - 1
           bad == {k \in 1 .. Cardinality(kept) : ~ Ranked(k)}
<1>1. Cardinality(kept) \in Nat
  BY FS_CardinalityType
<1>2. ASSUME NEW i PROVE IsFiniteSet(Before(kept, i))
  <2>1. Before(kept, i) \in SUBSET kept
    BY DEF Before
  <2> QED  BY <2>1, FS_Subset
<1>3. bad = {}
  <2> SUFFICES ASSUME bad # {} PROVE FALSE
    OBVIOUS
  <2>1. bad \in SUBSET Nat
    BY <1>1
  <2>2. PICK k \in bad : \A q \in bad : k <= q
    <3> HIDE DEF bad
    <3> QED  BY <2>1, LeastExists
  <2>3. k \in 1 .. Cardinality(kept) /\ ~ Ranked(k)
    OBVIOUS
  <2> HIDE DEF Ranked
  <2>4. CASE k = 1
    <3>1. kept # {}
      BY <1>1, <2>3, <2>4, FS_EmptySet
    <3>2. PICK i \in kept : \A j \in kept : i <= j
      BY <3>1, LeastExists
    <3>3. Before(kept, i) = {}
      <4> SUFFICES ASSUME NEW j \in Before(kept, i) PROVE FALSE
        OBVIOUS
      <4>1. j \in Nat /\ i \in Nat /\ j < i /\ i <= j
        BY <3>2 DEF Before
      <4> QED  BY <4>1
    <3>4. Cardinality(Before(kept, i)) = 0
      BY <3>3, FS_EmptySet
    <3>5. Ranked(1)
      BY <3>4 DEF Ranked
    <3> QED  BY <2>3, <2>4, <3>5
  <2>5. CASE k > 1
    <3>1. Ranked(k - 1)
      <4>1. k - 1 \in 1 .. Cardinality(kept) /\ ~ (k <= k - 1)
        BY <1>1, <2>3, <2>5
      <4>2. k - 1 \notin bad
        BY <2>2, <4>1
      <4> QED  BY <4>1, <4>2
    <3>2. PICK i \in kept : Cardinality(Before(kept, i)) = k - 1 - 1
      BY <3>1 DEF Ranked
    <3> DEFINE upto == Before(kept, i) \cup {i}
    <3>3. i \notin Before(kept, i) /\ upto \subseteq kept
      BY DEF Before
    <3>4. Cardinality(upto) = k - 1
      <4>1. Cardinality(upto) = Cardinality(Before(kept, i)) + 1
        BY <1>2, <3>3, FS_AddElement
      <4> QED  BY <1>1, <2>3, <3>2, <4>1
    <3>5. kept \ upto # {}
      <4> SUFFICES ASSUME kept = upto PROVE FALSE
        BY <3>3
      <4>1. Cardinality(kept) = k - 1
        BY <3>4
      <4> QED  BY <1>1, <2>3, <4>1
    <3>6. PICK j \in kept \ upto : \A q \in kept \ upto : j <= q
      <4> HIDE DEF upto
      <4>1. kept \ upto \in SUBSET Nat
        OBVIOUS
      <4> QED  BY <3>5, <4>1, LeastExists
    <3>7. Before(kept, j) = upto
      <4>1. i < j
        BY <3>6 DEF Before
      <4>2. ASSUME NEW x \in Before(kept, j) PROVE x \in upto
        BY <3>6, <4>2 DEF Before
      <4>3. ASSUME NEW x \in upto PROVE x \in Before(kept, j)
        BY <4>1, <4>3 DEF Before
      <4> QED  BY <4>2, <4>3
    <3>8. Ranked(k)
      BY <3>4, <3>7 DEF Ranked
    <3> QED  BY <2>3, <3>8
  <2>6. k = 1 \/ k > 1
    BY <1>1, <2>3
  <2> QED  BY <2>4, <2>5, <2>6
<1>4. Ranked(n)
  BY <1>3
<1> QED  BY <1>4 DEF Nth

\* some of the rows, none of them twice
DrawnFrom(rows, left) ==
    \E f : \A n \in DOMAIN left :
        /\ f[n] \in DOMAIN rows /\ left[n] = rows[f[n]]
        /\ \A m \in DOMAIN left : f[m] = f[n] => m = n

\* The rows that stay are rows of the table, each once.
LEMMA DeletedRows ==
    ASSUME NEW T, NEW rows \in Seq(T), NEW kept \in SUBSET (DOMAIN rows),
           NEW left, left = [n \in 1 .. Cardinality(kept) |-> rows[Nth(kept, n)]]
    PROVE  /\ left \in Seq(T)
           /\ DrawnFrom(rows, left)
<1> DEFINE f == [n \in 1 .. Cardinality(kept) |-> Nth(kept, n)]
<1>1. DOMAIN rows = 1 .. Len(rows) /\ Len(rows) \in Nat
  OBVIOUS
<1>2. kept \in SUBSET Nat /\ IsFiniteSet(kept)
  <2>1. IsFiniteSet(1 .. Len(rows))
    BY <1>1, FS_Interval
  <2>2. IsFiniteSet(kept)
    BY <1>1, <2>1, FS_Subset
  <2> QED  BY <1>1, <2>2
<1>3. Cardinality(kept) \in Nat
  BY <1>2, FS_CardinalityType
<1>4. \A n \in 1 .. Cardinality(kept) :
         Nth(kept, n) \in kept /\ Cardinality(Before(kept, Nth(kept, n))) = n - 1
  BY <1>2, RankExists
<1>5. \A n \in 1 .. Cardinality(kept) : Nth(kept, n) \in DOMAIN rows /\ rows[Nth(kept, n)] \in T
  <2> SUFFICES ASSUME NEW n \in 1 .. Cardinality(kept)
               PROVE  Nth(kept, n) \in DOMAIN rows /\ rows[Nth(kept, n)] \in T
    OBVIOUS
  <2>1. Nth(kept, n) \in DOMAIN rows
    BY <1>4
  <2>2. \A i \in DOMAIN rows : rows[i] \in T
    BY <1>1
  <2> QED  BY <2>1, <2>2
<1>6. left \in Seq(T) /\ DOMAIN left = 1 .. Cardinality(kept)
  BY <1>3, <1>5
<1>7. \A m, n \in 1 .. Cardinality(kept) : Nth(kept, m) = Nth(kept, n) => m = n
  <2> SUFFICES ASSUME NEW m \in 1 .. Cardinality(kept), NEW n \in 1 .. Cardinality(kept),
                      Nth(kept, m) = Nth(kept, n)
               PROVE  m = n
    OBVIOUS
  <2>1. m - 1 = n - 1
    BY <1>4
  <2> QED  BY <1>3, <2>1
<1>8. \A n \in DOMAIN left :
         /\ f[n] \in DOMAIN rows /\ left[n] = rows[f[n]]
         /\ \A m \in DOMAIN left : f[m] = f[n] => m = n
  BY <1>5, <1>6, <1>7
<1>9. DrawnFrom(rows, left)
  <2> HIDE DEF f
  <2> QED  BY <1>8 DEF DrawnFrom
<1> QED  BY <1>6, <1>9

LEMMA DeleteSound ==
    ASSUME NEW s, Sound(s), NEW hit
    PROVE  Sound(Delete(s, "mailbox", hit)) /\ Delete(s, "mailbox", hit).serial = s.serial
<1> DEFINE rows == s.tables.mailbox
           kept == {i \in DOMAIN rows : rows[i] \notin hit}
           left == [n \in 1 .. Cardinality(kept) |-> rows[Nth(kept, n)]]
<1>1. s \in Stores /\ rows \in Seq(MailboxRow) /\ KeysDiffer(rows) /\ IdsDiffer(rows, s.serial)
  BY DEF Sound, Stores
<1>2. Delete(s, "mailbox", hit) = With(s, "mailbox", left)
  BY DEF Delete
<1> HIDE DEF rows
<1>3. kept \in SUBSET (DOMAIN rows)
  OBVIOUS
<1>4. left = [n \in 1 .. Cardinality(kept) |-> rows[Nth(kept, n)]]
  OBVIOUS
<1> HIDE DEF kept, left
<1>5. left \in Seq(MailboxRow) /\ DrawnFrom(rows, left)
  BY <1>1, <1>3, <1>4, DeletedRows
<1>6. PICK f : \A n \in DOMAIN left :
         /\ f[n] \in DOMAIN rows /\ left[n] = rows[f[n]]
         /\ \A m \in DOMAIN left : f[m] = f[n] => m = n
  BY <1>5 DEF DrawnFrom
<1>7. KeysDiffer(left)
  BY <1>1, <1>6 DEF KeysDiffer
<1>8. IdsDiffer(left, s.serial)
  BY <1>1, <1>6 DEF IdsDiffer
<1> QED  BY <1>1, <1>2, <1>5, <1>7, <1>8, WithSound, WithIs

-----------------------------------------------------------------------------
(* UPDATE.                                                                 *)

\* Rows that keep their keys stay apart.
LEMMA RewrittenRows ==
    ASSUME NEW T, NEW rows \in Seq(T), NEW left, DOMAIN left = DOMAIN rows,
           left = [i \in DOMAIN rows |-> left[i]],
           \A i \in DOMAIN rows : left[i] \in T /\ left[i].key = rows[i].key
    PROVE  /\ left \in Seq(T)
           /\ KeysDiffer(rows) => KeysDiffer(left)
<1>1. left \in Seq(T)
  OBVIOUS
<1>2. KeysDiffer(rows) => KeysDiffer(left)
  BY DEF KeysDiffer
<1> QED  BY <1>1, <1>2

\* The same of their ids.
LEMMA RewrittenIds ==
    ASSUME NEW rows, NEW left, DOMAIN left = DOMAIN rows, NEW n, IdsDiffer(rows, n),
           \A i \in DOMAIN rows : left[i].id = rows[i].id
    PROVE  IdsDiffer(left, n)
BY DEF IdsDiffer

LEMMA OverMailboxRow ==
    ASSUME NEW r \in MailboxRow, NEW x \in RowStatus
    PROVE  /\ Over([status |-> x], r) \in MailboxRow
           /\ Over([status |-> x], r).key = r.key
           /\ Over([status |-> x], r).id = r.id
<1> DEFINE cols == {"key", "status", "id"}
<1>1. DOMAIN [status |-> x] \cup DOMAIN r = cols
  BY DEF MailboxRow
<1>2. Over([status |-> x], r) = [key |-> r.key, status |-> x, id |-> r.id]
  BY <1>1 DEF Over
<1> QED  BY <1>2 DEF MailboxRow

LEMMA OverDeliveryRow ==
    ASSUME NEW r \in DeliveryRow, NEW x \in RecordStatus, NEW y \in Times
    PROVE  /\ Over([status |-> x], r) \in DeliveryRow
           /\ Over([status |-> x], r).key = r.key
           /\ Over([status |-> x, retry |-> y], r) \in DeliveryRow
           /\ Over([status |-> x, retry |-> y], r).key = r.key
           /\ Over([retry |-> y], r) \in DeliveryRow
           /\ Over([retry |-> y], r).key = r.key
<1> DEFINE cols == {"key", "status", "attempts", "retry"}
<1>1. DOMAIN r = cols
  BY DEF DeliveryRow
<1>2. Over([status |-> x], r) =
                [key |-> r.key, status |-> x, attempts |-> r.attempts, retry |-> r.retry]
  <2>1. DOMAIN [status |-> x] \cup DOMAIN r = cols
    BY <1>1
  <2> QED  BY <2>1 DEF Over
<1>3. Over([status |-> x, retry |-> y], r) =
                [key |-> r.key, status |-> x, attempts |-> r.attempts, retry |-> y]
  <2>1. DOMAIN [status |-> x, retry |-> y] \cup DOMAIN r = cols
    BY <1>1
  <2> QED  BY <2>1 DEF Over
<1>4. Over([retry |-> y], r) =
                [key |-> r.key, status |-> r.status, attempts |-> r.attempts, retry |-> y]
  <2>1. DOMAIN [retry |-> y] \cup DOMAIN r = cols
    BY <1>1
  <2> QED  BY <2>1 DEF Over
<1> QED  BY <1>2, <1>3, <1>4 DEF DeliveryRow

LEMMA OverTokenRow ==
    ASSUME NEW r \in TokenRow, NEW x \in {"valid", "revoked"}
    PROVE  Over([status |-> x], r) \in TokenRow /\ Over([status |-> x], r).key = r.key
<1> DEFINE cols == {"key", "status"}
<1>1. DOMAIN [status |-> x] \cup DOMAIN r = cols
  BY DEF TokenRow
<1>2. Over([status |-> x], r) = [key |-> r.key, status |-> x]
  BY <1>1 DEF Over
<1> QED  BY <1>2 DEF TokenRow

LEMMA UpdateMailbox ==
    ASSUME NEW s, Sound(s), NEW hit, NEW x \in RowStatus
    PROVE  /\ Sound(Update(s, "mailbox", hit, [status |-> x]))
           /\ Update(s, "mailbox", hit, [status |-> x]).serial = s.serial
<1> DEFINE rows == s.tables.mailbox
           left == [i \in DOMAIN rows |->
                       IF rows[i] \in hit THEN Over([status |-> x], rows[i]) ELSE rows[i]]
<1>1. /\ s \in Stores /\ rows \in Seq(MailboxRow) /\ KeysDiffer(rows) /\ IdsDiffer(rows, s.serial)
  BY DEF Sound, Stores
<1>2. Update(s, "mailbox", hit, [status |-> x]) = With(s, "mailbox", left)
  BY DEF Update
<1> HIDE DEF rows
<1>3. \A i \in DOMAIN rows : rows[i] \in MailboxRow
  BY <1>1
<1>4. \A i \in DOMAIN rows : left[i] \in MailboxRow /\ left[i].key = rows[i].key /\ left[i].id = rows[i].id
  BY <1>3, OverMailboxRow
<1>5. DOMAIN left = DOMAIN rows /\ left = [i \in DOMAIN rows |-> left[i]]
  OBVIOUS
<1> HIDE DEF left
<1>6. left \in Seq(MailboxRow) /\ KeysDiffer(left)
  BY <1>1, <1>4, <1>5, RewrittenRows
<1>7. IdsDiffer(left, s.serial)
  BY <1>1, <1>4, <1>5, RewrittenIds
<1> QED  BY <1>1, <1>2, <1>6, <1>7, WithSound, WithIs

LEMMA UpdateToken ==
    ASSUME NEW s, Sound(s), NEW hit, NEW x \in {"valid", "revoked"}
    PROVE  /\ Sound(Update(s, "refresh_tokens", hit, [status |-> x]))
           /\ Update(s, "refresh_tokens", hit, [status |-> x]).serial = s.serial
<1> DEFINE rows == s.tables.refresh_tokens
           left == [i \in DOMAIN rows |->
                       IF rows[i] \in hit THEN Over([status |-> x], rows[i]) ELSE rows[i]]
<1>1. /\ s \in Stores /\ rows \in Seq(TokenRow) /\ KeysDiffer(rows)
  BY DEF Sound, Stores
<1>2. Update(s, "refresh_tokens", hit, [status |-> x]) = With(s, "refresh_tokens", left)
  BY DEF Update
<1> HIDE DEF rows
<1>3. \A i \in DOMAIN rows : rows[i] \in TokenRow
  BY <1>1
<1>4. \A i \in DOMAIN rows : left[i] \in TokenRow /\ left[i].key = rows[i].key
  BY <1>3, OverTokenRow
<1>5. DOMAIN left = DOMAIN rows /\ left = [i \in DOMAIN rows |-> left[i]]
  OBVIOUS
<1> HIDE DEF left
<1>6. left \in Seq(TokenRow) /\ KeysDiffer(left)
  BY <1>1, <1>4, <1>5, RewrittenRows
<1> QED  BY <1>1, <1>2, <1>6, WithSound, WithIs

LEMMA UpdateDelivery ==
    ASSUME NEW s, Sound(s), NEW hit, NEW change,
           \A r \in DeliveryRow : Over(change, r) \in DeliveryRow /\ Over(change, r).key = r.key
    PROVE  /\ Sound(Update(s, "message_deliveries", hit, change))
           /\ Update(s, "message_deliveries", hit, change).serial = s.serial
<1> DEFINE rows == s.tables.message_deliveries
           left == [i \in DOMAIN rows |->
                       IF rows[i] \in hit THEN Over(change, rows[i]) ELSE rows[i]]
<1>1. /\ s \in Stores /\ rows \in Seq(DeliveryRow) /\ KeysDiffer(rows)
  BY DEF Sound, Stores
<1>2. Update(s, "message_deliveries", hit, change) = With(s, "message_deliveries", left)
  BY DEF Update
<1> HIDE DEF rows
<1>3. \A i \in DOMAIN rows : rows[i] \in DeliveryRow
  BY <1>1
<1>4. \A i \in DOMAIN rows : left[i] \in DeliveryRow /\ left[i].key = rows[i].key
  BY <1>3
<1>5. DOMAIN left = DOMAIN rows /\ left = [i \in DOMAIN rows |-> left[i]]
  OBVIOUS
<1> HIDE DEF left
<1>6. left \in Seq(DeliveryRow) /\ KeysDiffer(left)
  BY <1>1, <1>4, <1>5, RewrittenRows
<1> QED  BY <1>1, <1>2, <1>6, WithSound, WithIs

LEMMA UpdateStatus ==
    ASSUME NEW s, Sound(s), NEW hit, NEW x \in RecordStatus
    PROVE  /\ Sound(Update(s, "message_deliveries", hit, [status |-> x]))
           /\ Update(s, "message_deliveries", hit, [status |-> x]).serial = s.serial
<1>1. \A r \in DeliveryRow : Over([status |-> x], r) \in DeliveryRow
                             /\ Over([status |-> x], r).key = r.key
  <2>1. "null" \in Times
    BY DEF Times
  <2> QED  BY <2>1, OverDeliveryRow
<1> QED  BY <1>1, UpdateDelivery

LEMMA UpdateRetry ==
    ASSUME NEW s, Sound(s), NEW hit, NEW y \in Times
    PROVE  /\ Sound(Update(s, "message_deliveries", hit, [retry |-> y]))
           /\ Update(s, "message_deliveries", hit, [retry |-> y]).serial = s.serial
<1>1. \A r \in DeliveryRow : Over([retry |-> y], r) \in DeliveryRow
                             /\ Over([retry |-> y], r).key = r.key
  <2>1. "failed" \in RecordStatus
    BY DEF RecordStatus
  <2> QED  BY <2>1, OverDeliveryRow
<1> QED  BY <1>1, UpdateDelivery

LEMMA UpdateStatusAndRetry ==
    ASSUME NEW s, Sound(s), NEW hit, NEW x \in RecordStatus, NEW y \in Times
    PROVE  /\ Sound(Update(s, "message_deliveries", hit, [status |-> x, retry |-> y]))
           /\ Update(s, "message_deliveries", hit, [status |-> x, retry |-> y]).serial = s.serial
<1>1. \A r \in DeliveryRow : Over([status |-> x, retry |-> y], r) \in DeliveryRow
                             /\ Over([status |-> x, retry |-> y], r).key = r.key
  BY OverDeliveryRow
<1> QED  BY <1>1, UpdateDelivery

-----------------------------------------------------------------------------
(* INSERT.                                                                 *)

\* r stands at index i of left, and the rest of left are the rows of other keys
PutAt(rows, left, i, r) ==
    /\ i \in DOMAIN left /\ left[i] = r
    /\ \A j \in DOMAIN left : j # i => /\ j \in DOMAIN rows /\ left[j] = rows[j]
                                       /\ rows[j].key # r.key

LEMMA PlacedRow ==
    ASSUME NEW T, NEW rows \in Seq(T), KeysDiffer(rows), NEW row, NEW table,
           NEW conflict \in {"none", "update"},
           \A old \in T : old.key = row.key => Over(row, old) \in T /\ Over(row, old).key = row.key,
           Over(row, Columns(table)) \in T, Over(row, Columns(table)).key = row.key
    PROVE  /\ Placed(rows, row, table, conflict) \in Seq(T)
           /\ \E i, r : /\ PutAt(rows, Placed(rows, row, table, conflict), i, r)
                        /\ r \in T /\ r.key = row.key
                        /\ conflict = "none" => r = Over(row, Columns(table))
<1> DEFINE i == Position(rows, row.key)
           left == Placed(rows, row, table, conflict)
           fresh == Over(row, Columns(table))
<1>1. /\ DOMAIN rows = 1 .. Len(rows) /\ Len(rows) \in Nat
      /\ \A j \in DOMAIN rows : rows[j] \in T
  OBVIOUS
<1>2. \/ i = 0 /\ \A j \in DOMAIN rows : rows[j].key # row.key
      \/ i \in DOMAIN rows /\ i > 0 /\ rows[i].key = row.key
  BY PositionFound
<1>3. left = CASE i = 0 -> Append(rows, fresh)
               [] i > 0 /\ conflict = "nothing" -> rows
               [] i > 0 /\ conflict = "update" -> [rows EXCEPT ![i] = Over(row, @)]
               [] i > 0 /\ conflict = "none" -> [rows EXCEPT ![i] = fresh]
  BY DEF Placed
<1> HIDE DEF i, left
<1>4. CASE i = 0 /\ \A j \in DOMAIN rows : rows[j].key # row.key
  <2>1. left = Append(rows, fresh)
    BY <1>3, <1>4
  <2> HIDE DEF fresh
  <2>2. /\ left \in Seq(T) /\ DOMAIN left = 1 .. Len(rows) + 1
        /\ left[Len(rows) + 1] = fresh
        /\ \A j \in 1 .. Len(rows) : left[j] = rows[j]
    BY <2>1 DEF fresh
  <2>3. PutAt(rows, left, Len(rows) + 1, fresh)
    BY <1>1, <1>4, <2>2 DEF PutAt, fresh
  <2> QED  BY <2>2, <2>3 DEF left, fresh
<1>5. ASSUME i \in DOMAIN rows, i > 0, rows[i].key = row.key
      PROVE  /\ left \in Seq(T)
             /\ \E r : PutAt(rows, left, i, r) /\ r \in T /\ r.key = row.key
                       /\ (conflict = "none" => r = fresh)
  <2> DEFINE r == IF conflict = "none" THEN fresh ELSE Over(row, rows[i])
  <2>1. i # 0
    BY <1>1, <1>5
  <2>2. left = [rows EXCEPT ![i] = r]
    BY <1>3, <1>5, <2>1
  <2>3. r \in T /\ r.key = row.key
    BY <1>1, <1>5
  <2> HIDE DEF r
  <2>4. left \in Seq(T) /\ DOMAIN left = DOMAIN rows /\ left[i] = r
        /\ \A j \in DOMAIN rows : j # i => left[j] = rows[j]
    BY <1>1, <1>5, <2>2, <2>3
  <2>5. \A j \in DOMAIN rows : j # i => rows[j].key # row.key
    BY <1>5 DEF KeysDiffer
  <2>6. PutAt(rows, left, i, r)
    BY <1>5, <2>3, <2>4, <2>5 DEF PutAt
  <2>7. conflict = "none" => r = fresh
    BY DEF r
  <2> QED  BY <2>3, <2>4, <2>6, <2>7
<1> QED  BY <1>2, <1>4, <1>5 DEF left, fresh

LEMMA PutKeys ==
    ASSUME NEW rows, NEW left, NEW i, NEW r, PutAt(rows, left, i, r), KeysDiffer(rows)
    PROVE  KeysDiffer(left)
BY DEF PutAt, KeysDiffer

LEMMA InsertIs ==
    ASSUME NEW s \in Stores, NEW values, NEW conflict
    PROVE  /\ Insert(s, "mailbox", values, conflict) =
                [tables |-> [mailbox |-> Placed(s.tables.mailbox,
                                 Over(values, [id |-> s.serial + 1]), "mailbox", conflict),
                             message_deliveries |-> s.tables.message_deliveries,
                             refresh_tokens |-> s.tables.refresh_tokens],
                 serial |-> s.serial + 1]
           /\ Insert(s, "message_deliveries", values, conflict) =
                With(s, "message_deliveries",
                     Placed(s.tables.message_deliveries, Over(values, [attempts |-> 0]),
                            "message_deliveries", conflict))
<1>1. Defaults(s, "mailbox") = [id |-> s.serial + 1]
      /\ Defaults(s, "message_deliveries") = [attempts |-> 0]
  BY DEF Defaults
<1> DEFINE box == Placed(s.tables.mailbox, Over(values, [id |-> s.serial + 1]), "mailbox", conflict)
           del == Placed(s.tables.message_deliveries, Over(values, [attempts |-> 0]),
                         "message_deliveries", conflict)
<1>2. Insert(s, "mailbox", values, conflict) = [With(s, "mailbox", box) EXCEPT !.serial = @ + 1]
  BY <1>1 DEF Insert
<1>3. Insert(s, "message_deliveries", values, conflict)
          = [With(s, "message_deliveries", del) EXCEPT !.serial = @]
  BY <1>1 DEF Insert
<1> HIDE DEF box, del
<1>4. With(s, "mailbox", box) =
                [tables |-> [mailbox |-> box,
                             message_deliveries |-> s.tables.message_deliveries,
                             refresh_tokens |-> s.tables.refresh_tokens],
                 serial |-> s.serial]
  BY WithIs
<1>5. With(s, "message_deliveries", del) =
                [tables |-> [mailbox |-> s.tables.mailbox, message_deliveries |-> del,
                             refresh_tokens |-> s.tables.refresh_tokens],
                 serial |-> s.serial]
  BY WithIs
<1>6. Insert(s, "message_deliveries", values, conflict) = With(s, "message_deliveries", del)
  BY <1>3, <1>5
<1>7. Insert(s, "mailbox", values, conflict) =
                [tables |-> [mailbox |-> box,
                             message_deliveries |-> s.tables.message_deliveries,
                             refresh_tokens |-> s.tables.refresh_tokens],
                 serial |-> s.serial + 1]
  BY <1>2, <1>4
<1> QED  BY <1>6, <1>7 DEF box, del

LEMMA InsertMailboxSound ==
    ASSUME NEW s, Sound(s), s.serial < MaxId, NEW m \in Messages
    PROVE  LET t == Insert(s, "mailbox", [key |-> m, status |-> "queued"], "none")
           IN  Sound(t) /\ t.serial = s.serial + 1
<1> DEFINE values == [key |-> m, status |-> "queued"]
           row == Over(values, [id |-> s.serial + 1])
           rows == s.tables.mailbox
           left == Placed(rows, row, "mailbox", "none")
           t == Insert(s, "mailbox", values, "none")
<1>1. /\ s \in Stores /\ rows \in Seq(MailboxRow) /\ s.serial \in Nat /\ s.serial + 1 \in 1 .. MaxId
      /\ KeysDiffer(rows) /\ IdsDiffer(rows, s.serial)
  BY MemoryDatabaseAssumption DEF Sound, Stores
<1>2. row = [key |-> m, status |-> "queued", id |-> s.serial + 1]
  <2> DEFINE cols == {"key", "status", "id"}
  <2>1. DOMAIN values \cup DOMAIN [id |-> s.serial + 1] = cols
    OBVIOUS
  <2> QED  BY <2>1 DEF Over
<1>3. Columns("mailbox") = << >>
  BY DEF Columns
<1>4. Over(row, Columns("mailbox")) = row
  <2> DEFINE cols == {"key", "status", "id"}
  <2>1. DOMAIN row \cup DOMAIN << >> = cols /\ DOMAIN row = cols
    BY <1>2
  <2>2. Over(row, << >>) = [x \in cols |-> row[x]]
    BY <2>1 DEF Over
  <2> QED  BY <1>2, <1>3, <2>2
<1>5. row \in MailboxRow /\ row.key = m /\ row.id = s.serial + 1
  BY <1>1, <1>2 DEF MailboxRow, RowStatus
<1>6. ASSUME NEW old \in MailboxRow, old.key = row.key
      PROVE  Over(row, old) \in MailboxRow /\ Over(row, old).key = row.key
  <2> DEFINE cols == {"key", "status", "id"}
  <2>1. DOMAIN row \cup DOMAIN old = cols /\ DOMAIN row = cols
    BY <1>2 DEF MailboxRow
  <2>2. Over(row, old) = [x \in cols |-> row[x]]
    BY <2>1 DEF Over
  <2>3. Over(row, old) = row
    BY <1>2, <2>2
  <2> QED  BY <1>5, <2>3
<1>7. t = [tables |-> [mailbox |-> left,
                       message_deliveries |-> s.tables.message_deliveries,
                       refresh_tokens |-> s.tables.refresh_tokens],
           serial |-> s.serial + 1]
  BY <1>1, InsertIs
<1> HIDE DEF row, rows
<1>8. /\ left \in Seq(MailboxRow)
      /\ \E i, r : /\ PutAt(rows, left, i, r) /\ r \in MailboxRow /\ r.key = row.key
                   /\ "none" = "none" => r = Over(row, Columns("mailbox"))
  BY <1>1, <1>4, <1>5, <1>6, PlacedRow
<1> HIDE DEF left
<1>9. PICK i : PutAt(rows, left, i, row)
  BY <1>4, <1>8
<1>10. KeysDiffer(left)
  BY <1>1, <1>9, PutKeys
<1>11. IdsDiffer(left, s.serial + 1)
  <2>1. \A j \in DOMAIN left : j # i => j \in DOMAIN rows /\ left[j] = rows[j]
    BY <1>9 DEF PutAt
  <2>2. left[i].id = s.serial + 1
    BY <1>5, <1>9 DEF PutAt
  <2>3. \A j \in DOMAIN left : left[j].id \in Nat
    <3>1. \A r \in MailboxRow : r.id \in Nat
      BY DEF MailboxRow
    <3>2. \A j \in DOMAIN left : left[j] \in MailboxRow
      BY <1>8
    <3> QED  BY <3>1, <3>2
  <2>4. \A j \in DOMAIN rows : rows[j].id <= s.serial
    BY <1>1 DEF IdsDiffer
  <2>5. \A j \in DOMAIN left : left[j].id <= s.serial + 1 /\ (j # i => left[j].id # left[i].id)
    <3> TAKE j \in DOMAIN left
    <3>1. CASE j = i
      BY <1>1, <2>2, <3>1
    <3>2. CASE j # i
      <4>1. left[j].id <= s.serial /\ left[j].id \in Nat
        BY <2>1, <2>3, <2>4, <3>2
      <4> QED  BY <1>1, <2>2, <3>2, <4>1
    <3> QED  BY <3>1, <3>2
  <2>6. \A j, k \in DOMAIN left : left[j].id = left[k].id => j = k
    <3> SUFFICES ASSUME NEW j \in DOMAIN left, NEW k \in DOMAIN left,
                        left[j].id = left[k].id, j # k
                 PROVE  FALSE
      OBVIOUS
    <3>1. j # i /\ k # i
      BY <2>5
    <3>2. rows[j].id = rows[k].id /\ j \in DOMAIN rows /\ k \in DOMAIN rows
      BY <2>1, <3>1
    <3> QED  BY <1>1, <3>2 DEF IdsDiffer
  <2> QED  BY <2>5, <2>6 DEF IdsDiffer
<1>12. t.serial = s.serial + 1 /\ t \in Stores
  BY <1>1, <1>7, <1>8 DEF Stores
<1>13. t.tables.mailbox = left
       /\ t.tables.message_deliveries = s.tables.message_deliveries
       /\ t.tables.refresh_tokens = s.tables.refresh_tokens
  BY <1>7
<1> HIDE DEF t
<1>14. Sound(t)
  BY <1>10, <1>11, <1>12, <1>13 DEF Sound
<1> QED  BY <1>12, <1>14 DEF t

\* The three forms of INSERT INTO message_deliveries.
LEMMA InsertDeliverySound ==
    ASSUME NEW s, Sound(s), NEW m \in Messages,
           NEW values \in {[key |-> m, status |-> "queued", attempts |-> 0, retry |-> "past"],
                           [key |-> m, status |-> "acknowledged", retry |-> "null"],
                           [key |-> m, status |-> "decryption_failed"]}
    PROVE  LET t == Insert(s, "message_deliveries", values, "update")
           IN  Sound(t) /\ t.serial = s.serial
<1> DEFINE row == Over(values, [attempts |-> 0])
           rows == s.tables.message_deliveries
           left == Placed(rows, row, "message_deliveries", "update")
           cols == {"key", "status", "attempts", "retry"}
<1>1. s \in Stores /\ rows \in Seq(DeliveryRow) /\ KeysDiffer(rows)
  BY DEF Sound, Stores
<1>2. /\ {"key", "status", "attempts"} \subseteq DOMAIN row
      /\ DOMAIN row \subseteq cols
      /\ row.key = m /\ row.status \in {"queued", "acknowledged", "decryption_failed"}
      /\ row.attempts = 0
      /\ "retry" \in DOMAIN row => row.retry \in {"past", "null"}
  <2>1. CASE values = [key |-> m, status |-> "queued", attempts |-> 0, retry |-> "past"]
    BY <2>1 DEF Over
  <2>2. CASE values = [key |-> m, status |-> "acknowledged", retry |-> "null"]
    BY <2>2 DEF Over
  <2>3. CASE values = [key |-> m, status |-> "decryption_failed"]
    BY <2>3 DEF Over
  <2> QED  BY <2>1, <2>2, <2>3
<1> HIDE DEF row
<1>3. /\ row.status \in RecordStatus /\ 0 \in 0 .. MaxRetries /\ {"past", "null"} \subseteq Times
  BY <1>2, MaxRetriesAssumption DEF RecordStatus, Times
<1>4. ASSUME NEW old, DOMAIN old \subseteq cols, "retry" \in DOMAIN old, old.retry \in Times
      PROVE  Over(row, old) \in DeliveryRow /\ Over(row, old).key = row.key
  <2>1. DOMAIN row \cup DOMAIN old = cols
    BY <1>2, <1>4
  <2>2. Over(row, old) = [x \in cols |-> IF x \in DOMAIN row THEN row[x] ELSE old[x]]
    BY <2>1 DEF Over
  <2>3. Over(row, old) = [key |-> row.key, status |-> row.status, attempts |-> row.attempts,
                          retry |-> IF "retry" \in DOMAIN row THEN row.retry ELSE old.retry]
    BY <1>2, <2>2
  <2>4. (IF "retry" \in DOMAIN row THEN row.retry ELSE old.retry) \in Times
    BY <1>2, <1>3, <1>4
  <2> QED  BY <1>2, <1>3, <2>3, <2>4 DEF DeliveryRow
<1>5. Columns("message_deliveries") = [retry |-> "null"]
  BY DEF Columns
<1>6. Over(row, Columns("message_deliveries")) \in DeliveryRow
      /\ Over(row, Columns("message_deliveries")).key = row.key
  BY <1>3, <1>4, <1>5
<1>7. \A old \in DeliveryRow : Over(row, old) \in DeliveryRow /\ Over(row, old).key = row.key
  <2> TAKE old \in DeliveryRow
  <2>1. DOMAIN old \subseteq cols /\ "retry" \in DOMAIN old /\ old.retry \in Times
    BY DEF DeliveryRow
  <2> QED  BY <1>4, <2>1
<1> HIDE DEF rows
<1>8. /\ left \in Seq(DeliveryRow)
      /\ \E i, r : /\ PutAt(rows, left, i, r) /\ r \in DeliveryRow /\ r.key = row.key
                   /\ "update" = "none" => r = Over(row, Columns("message_deliveries"))
  BY <1>1, <1>6, <1>7, PlacedRow
<1> HIDE DEF left
<1>9. KeysDiffer(left)
  BY <1>1, <1>8, PutKeys
<1>10. Insert(s, "message_deliveries", values, "update") = With(s, "message_deliveries", left)
  BY <1>1, InsertIs DEF left, rows, row
<1> QED  BY <1>1, <1>8, <1>9, <1>10, WithSound, WithIs

LEMMA AttemptSound ==
    ASSUME NEW s, Sound(s), NEW m
    PROVE  Sound(Attempt(s, m)) /\ Attempt(s, m).serial = s.serial
<1> DEFINE rows == s.tables.message_deliveries
           left == [i \in DOMAIN rows |->
                        IF rows[i].key = m
                        THEN [rows[i] EXCEPT !.attempts = Raised(@), !.retry = "future"]
                        ELSE rows[i]]
<1>1. s \in Stores /\ rows \in Seq(DeliveryRow) /\ KeysDiffer(rows)
  BY DEF Sound, Stores
<1>2. Attempt(s, m) = With(s, "message_deliveries", left)
  BY DEF Attempt, Deliveries
<1> HIDE DEF rows
<1>3. \A r \in DeliveryRow :
         /\ [r EXCEPT !.attempts = Raised(@), !.retry = "future"] \in DeliveryRow
         /\ [r EXCEPT !.attempts = Raised(@), !.retry = "future"].key = r.key
  <2> TAKE r \in DeliveryRow
  <2>1. r.attempts \in 0 .. MaxRetries
    BY DEF DeliveryRow
  <2>2. Raised(r.attempts) \in 0 .. MaxRetries /\ "future" \in Times
    BY <2>1, MaxRetriesAssumption DEF Raised, Times
  <2> DEFINE tried == [r EXCEPT !.attempts = Raised(@)]
  <2>3. tried \in DeliveryRow /\ tried.key = r.key
    BY <2>2 DEF DeliveryRow
  <2> HIDE DEF tried
  <2>4. [tried EXCEPT !.retry = "future"] \in DeliveryRow
        /\ [tried EXCEPT !.retry = "future"].key = tried.key
    BY <2>2, <2>3 DEF DeliveryRow
  <2> QED  BY <2>3, <2>4 DEF tried
<1>4. \A i \in DOMAIN rows : rows[i] \in DeliveryRow
  BY <1>1
<1>5. \A i \in DOMAIN rows : left[i] \in DeliveryRow /\ left[i].key = rows[i].key
  BY <1>3, <1>4
<1>6. DOMAIN left = DOMAIN rows /\ left = [i \in DOMAIN rows |-> left[i]]
  OBVIOUS
<1> HIDE DEF left
<1>7. left \in Seq(DeliveryRow) /\ KeysDiffer(left)
  BY <1>1, <1>5, <1>6, RewrittenRows
<1> QED  BY <1>1, <1>2, <1>7, WithSound, WithIs

-----------------------------------------------------------------------------
(* Statements.                                                             *)

\* the keys and the numbers a call may carry
CallFits(c) ==
    /\ c \in [op : Ops \cup {"none"}, next : 0 .. 3, key : Messages \cup Tokens \cup {"none"},
              id : 0 .. MaxId]
    /\ c.op = "none" => c = Idle
    /\ c.op \in Ops => c.next \in 1 .. Length[c.op] + 1
    /\ c.op \in Ops \ {"refuse"} => c.key \in Messages
    /\ c.op = "refuse" => c.key \in Tokens
    /\ c.op = "queue" /\ c.next > 1 => c.id \in 1 .. MaxId

LEMMA OpsAre ==
    /\ Ops = {"queue", "attempt", "schedule", "fail", "deliver", "acknowledge", "read",
              "undecryptable", "refuse"}
    /\ \A op \in Ops : Length[op] \in {1, 2}
    /\ Length["queue"] = 2
    /\ "none" \notin Ops
BY DEF Ops, Length

\* One statement leaves the tables sound, and only queueMessage's INSERT
\* advances the counter.
LEMMA EffectSound ==
    ASSUME NEW s, Sound(s), NEW c, CallFits(c), c.op \in Ops, c.next <= Length[c.op],
           c.op = "queue" /\ c.next = 1 => s.serial < MaxId
    PROVE  /\ Sound(Effect(s, c, c.next))
           /\ Effect(s, c, c.next).serial
                  = IF c.op = "queue" /\ c.next = 1 THEN s.serial + 1 ELSE s.serial
<1> DEFINE i == c.next
           m == c.key
           t == Effect(s, c, i)
<1>1. i \in {1, 2} /\ (c.op # "refuse" => m \in Messages)
  <2>1. c.next \in 1 .. Length[c.op] + 1 /\ (c.op # "refuse" => m \in Messages)
    BY DEF CallFits
  <2>2. Length[c.op] \in {1, 2}
    BY OpsAre
  <2> QED  BY <2>1, <2>2
<1>2. {"queued", "delivered", "failed"} \subseteq RowStatus
      /\ {"queued", "delivered", "read", "failed"} \subseteq RecordStatus
      /\ {"future", "null"} \subseteq Times
  BY DEF RowStatus, RecordStatus, Times
<1>3. CASE c.op = "queue"
  <2>1. CASE i = 1
    <3>1. t = Insert(s, "mailbox", [key |-> m, status |-> "queued"], "none")
      BY <1>3, <2>1 DEF Effect, Queue, Record, Mailbox
    <3> QED  BY <1>1, <1>3, <2>1, <3>1, InsertMailboxSound
  <2>2. CASE i # 1
    <3>1. t = Insert(s, "message_deliveries",
                     [key |-> m, status |-> "queued", attempts |-> 0, retry |-> "past"], "update")
      BY <1>3, <2>2 DEF Effect, Queue, Deliveries
    <3> QED  BY <1>1, <1>3, <2>2, <3>1, InsertDeliverySound
  <2> QED  BY <2>1, <2>2
<1>4. CASE c.op = "attempt"
  <2>1. t = Attempt(s, m)
    BY <1>4 DEF Effect
  <2> QED  BY <1>4, <2>1, AttemptSound
<1>5. CASE c.op = "schedule"
  <2>1. CASE i = 1
    <3> DEFINE hit == RowsExcept(s, Deliveries, m, {"acknowledged", "read", "failed"})
    <3>1. t = Update(s, "message_deliveries", hit, [status |-> "queued", retry |-> "future"])
      BY <1>5, <2>1 DEF Effect, Schedule, Deliveries
    <3> HIDE DEF hit, t
    <3>2. Sound(t) /\ t.serial = s.serial
      BY <1>2, <3>1, UpdateStatusAndRetry
    <3> QED  BY <1>5, <3>2 DEF t
  <2>2. CASE i # 1
    <3> DEFINE hit == RowsExcept(s, Mailbox, m, {"acknowledged", "failed"})
    <3>1. t = Update(s, "mailbox", hit, [status |-> "queued"])
      BY <1>5, <2>2 DEF Effect, Schedule, Mailbox
    <3> HIDE DEF hit, t
    <3>2. Sound(t) /\ t.serial = s.serial
      BY <1>2, <3>1, UpdateMailbox
    <3> QED  BY <1>5, <3>2 DEF t
  <2> QED  BY <2>1, <2>2
<1>6. CASE c.op = "fail"
  <2>1. CASE i = 1
    <3> DEFINE hit == Named(s, Deliveries, m)
    <3>1. t = Update(s, "message_deliveries", hit, [status |-> "failed", retry |-> "null"])
      BY <1>6, <2>1 DEF Effect, Fail, Deliveries
    <3> HIDE DEF hit, t
    <3>2. Sound(t) /\ t.serial = s.serial
      BY <1>2, <3>1, UpdateStatusAndRetry
    <3> QED  BY <1>6, <3>2 DEF t
  <2>2. CASE i # 1
    <3> DEFINE hit == Named(s, Mailbox, m)
    <3>1. t = Update(s, "mailbox", hit, [status |-> "failed"])
      BY <1>6, <2>2 DEF Effect, Fail, Mailbox
    <3> HIDE DEF hit, t
    <3>2. Sound(t) /\ t.serial = s.serial
      BY <1>2, <3>1, UpdateMailbox
    <3> QED  BY <1>6, <3>2 DEF t
  <2> QED  BY <2>1, <2>2
<1>7. CASE c.op = "deliver"
  <2>1. CASE i = 1
    <3> DEFINE hit == WithId(s, c.id)
    <3>1. t = Update(s, "mailbox", hit, [status |-> "delivered"])
      BY <1>7, <2>1 DEF Effect, Deliver, Mailbox
    <3> HIDE DEF hit, t
    <3>2. Sound(t) /\ t.serial = s.serial
      BY <1>2, <3>1, UpdateMailbox
    <3> QED  BY <1>7, <3>2 DEF t
  <2>2. CASE i # 1
    <3> DEFINE hit == Named(s, Deliveries, m)
    <3>1. t = Update(s, "message_deliveries", hit, [status |-> "delivered"])
      BY <1>7, <2>2 DEF Effect, Deliver, Deliveries
    <3> HIDE DEF hit, t
    <3>2. Sound(t) /\ t.serial = s.serial
      BY <1>2, <3>1, UpdateStatus
    <3> QED  BY <1>7, <3>2 DEF t
  <2> QED  BY <2>1, <2>2
<1>8. CASE c.op = "acknowledge"
  <2>1. CASE i = 1
    <3>1. t = Delete(s, "mailbox", WithId(s, c.id) \cup Named(s, Mailbox, m))
      BY <1>8, <2>1 DEF Effect, Acknowledge, Mailbox
    <3> QED  BY <1>8, <3>1, DeleteSound
  <2>2. CASE i # 1
    <3>1. t = Insert(s, "message_deliveries",
                     [key |-> m, status |-> "acknowledged", retry |-> "null"], "update")
      BY <1>8, <2>2 DEF Effect, Acknowledge, Deliveries
    <3> QED  BY <1>1, <1>8, <3>1, InsertDeliverySound
  <2> QED  BY <2>1, <2>2
<1>9. CASE c.op = "read"
  <2>1. t = Update(s, "message_deliveries", Named(s, Deliveries, m), [status |-> "read"])
    BY <1>9 DEF Effect, Read, Deliveries
  <2> QED  BY <1>2, <1>9, <2>1, UpdateStatus
<1>10. CASE c.op = "undecryptable"
  <2>1. t = Insert(s, "message_deliveries", [key |-> m, status |-> "decryption_failed"], "update")
    BY <1>10 DEF Effect, Undecryptable, Record, Deliveries
  <2> QED  BY <1>1, <1>10, <2>1, InsertDeliverySound
<1>11. CASE c.op = "refuse"
  <2>1. t = Update(s, "refresh_tokens", Named(s, "refresh_tokens", m), [status |-> "revoked"])
    BY <1>11 DEF Effect, Revoke
  <2> QED  BY <1>11, <2>1, UpdateToken
<1> QED
  BY <1>3, <1>4, <1>5, <1>6, <1>7, <1>8, <1>9, <1>10, <1>11, OpsAre

-----------------------------------------------------------------------------
(* The invariant, and what the actions share.                              *)

CallsFit == \A c \in Calls : CallFits(call[c])

\* A refusal begins when nothing else is in progress, and nothing begins
\* until it has ended.
RefusesAlone == \A c, d \in Calls : call[c].op = "refuse" /\ call[d] # Idle => c = d

\* every call that will take a serial number finds one
RoomLeft == store.serial + Queueing <= MaxId

Types ==
    /\ Sound(store)
    /\ stack \in Seq(Stores) /\ \A i \in DOMAIN stack : Sound(stack[i])
    /\ call \in [Calls -> [op : Ops \cup {"none"}, next : 0 .. 3,
                           key : Messages \cup Tokens \cup {"none"}, id : 0 .. MaxId]]
    /\ calls \in 0 .. MaxCalls
    /\ given \in [Messages -> SUBSET (1 .. MaxId)]
    /\ promised \in [Messages -> [row : RowType, record : RecordType]]
    /\ contended \subseteq Messages /\ restarted \subseteq Messages /\ replaced \subseteq Messages

Inv == Types /\ CallsFit /\ RefusesAlone /\ RoomLeft /\ SnapshotsAreOpen

\* the calls RoomLeft counts, and those SnapshotsAreOpen counts
Taking == {c \in Calls : call[c].op = "queue" /\ call[c].next = 1}

Opened == {c \in Calls : Open(c)}

LEMMA Counted ==
    /\ IsFiniteSet(Taking) /\ Cardinality(Taking) \in Nat /\ Queueing = Cardinality(Taking)
    /\ IsFiniteSet(Opened) /\ Cardinality(Opened) \in Nat
    /\ SnapshotsAreOpen <=> Len(stack) = Cardinality(Opened)
<1>1. Taking \in SUBSET Calls /\ Opened \in SUBSET Calls
  BY DEF Taking, Opened
<1>2. IsFiniteSet(Taking) /\ IsFiniteSet(Opened)
  BY <1>1, MemoryDatabaseAssumption, FS_Subset
<1> QED  BY <1>2, FS_CardinalityType DEF Taking, Opened, Queueing, SnapshotsAreOpen

\* The same of the next state.
LEMMA CountedNext ==
    /\ IsFiniteSet(Taking') /\ Cardinality(Taking') \in Nat /\ Queueing' = Cardinality(Taking')
    /\ IsFiniteSet(Opened') /\ Cardinality(Opened') \in Nat
    /\ SnapshotsAreOpen' <=> Len(stack') = Cardinality(Opened')
<1>1. Taking' \in SUBSET Calls /\ Opened' \in SUBSET Calls
  BY DEF Taking, Opened
<1>2. IsFiniteSet(Taking') /\ IsFiniteSet(Opened')
  BY <1>1, MemoryDatabaseAssumption, FS_Subset
<1> QED  BY <1>2, FS_CardinalityType DEF Taking, Opened, Queueing, SnapshotsAreOpen

\* A call joins those that are counted, or leaves them.
LEMMA CountOne ==
    ASSUME NEW S, IsFiniteSet(S), NEW c
    PROVE  /\ c \notin S => Cardinality(S \cup {c}) = Cardinality(S) + 1
           /\ c \in S => Cardinality(S \ {c}) = Cardinality(S) - 1 /\ Cardinality(S) > 0
<1>1. Cardinality(S) \in Nat
  BY FS_CardinalityType
<1>2. c \notin S => Cardinality(S \cup {c}) = Cardinality(S) + 1
  BY FS_AddElement
<1>3. c \in S => Cardinality(S \ {c}) = Cardinality(S) - 1 /\ Cardinality(S) > 0
  <2> SUFFICES ASSUME c \in S PROVE Cardinality(S \ {c}) = Cardinality(S) - 1 /\ Cardinality(S) > 0
    OBVIOUS
  <2>1. Cardinality(S \ {c}) = Cardinality(S) - 1
    BY FS_RemoveElement
  <2>2. S # {}
    OBVIOUS
  <2>3. Cardinality(S) # 0
    BY <2>2, FS_EmptySet
  <2> QED  BY <1>1, <2>1, <2>3
<1> QED  BY <1>2, <1>3

LEMMA IdleCall ==
    /\ Idle.op = "none" /\ Idle.op \notin Ops /\ ~ Transactional(Idle.op)
    /\ \A c : call[c] = Idle => ~ Open(c)
    /\ CallFits(Idle)
<1>1. Idle.op = "none" /\ Idle.op \notin Ops
  BY OpsAre DEF Idle
<1>2. ~ Transactional(Idle.op)
  BY <1>1 DEF Transactional
<1>3. \A c : call[c] = Idle => ~ Open(c)
  BY <1>2 DEF Open
<1>4. CallFits(Idle)
  BY <1>1, MemoryDatabaseAssumption DEF CallFits, Idle
<1> QED  BY <1>1, <1>2, <1>3, <1>4

\* What a call in progress is.
LEMMA BusyCall ==
    ASSUME CallsFit, NEW c \in Calls, call[c] # Idle
    PROVE  CallFits(call[c]) /\ call[c].op \in Ops
BY DEF CallsFit, CallFits

LEMMA FrontOf ==
    ASSUME NEW T, NEW s \in Seq(T), s # << >>
    PROVE  /\ Front(s) \in Seq(T) /\ Len(Front(s)) = Len(s) - 1
           /\ \A i \in DOMAIN Front(s) : i \in DOMAIN s /\ Front(s)[i] = s[i]
           /\ Last(s) = s[Len(s)] /\ Len(s) \in DOMAIN s
<1> DEFINE n == Len(s) - 1
<1>1. Len(s) \in Nat /\ n \in Nat /\ DOMAIN s = 1 .. Len(s) /\ \A i \in 1 .. n : s[i] \in T
  OBVIOUS
<1>2. /\ SubSeq(s, 1, n) \in Seq(T)
      /\ Len(SubSeq(s, 1, n)) = IF 1 <= n THEN n - 1 + 1 ELSE 0
      /\ \A i \in 1 .. n - 1 + 1 : SubSeq(s, 1, n)[i] = s[1 + i - 1]
  BY <1>1, SubSeqProperties
<1>3. Front(s) = SubSeq(s, 1, n) /\ Last(s) = s[Len(s)]
  BY DEF Front, Last
<1> HIDE DEF n
<1>4. Front(s) \in Seq(T) /\ Len(Front(s)) = n
  BY <1>1, <1>2, <1>3
<1>5. DOMAIN Front(s) = 1 .. n
  BY <1>4
<1>6. \A i \in 1 .. n : i \in DOMAIN s /\ Front(s)[i] = s[i]
  BY <1>1, <1>2, <1>3 DEF n
<1> QED  BY <1>1, <1>3, <1>4, <1>5, <1>6 DEF n

-----------------------------------------------------------------------------
(* The first state.                                                        *)

LEMMA TokensListed ==
    LET rows == SetToSeq({[key |-> t, status |-> "valid"] : t \in Tokens})
    IN  /\ rows \in Seq(TokenRow) /\ KeysDiffer(rows)
        /\ \A r \in Range(rows) : r.status = "valid"
<1> DEFINE S == {[key |-> t, status |-> "valid"] : t \in Tokens}
           rows == SetToSeq(S)
<1>1. IsFiniteSet(S) /\ S \subseteq TokenRow
  <2>1. IsFiniteSet(S)
    <3> DEFINE f == [t \in Tokens |-> [key |-> t, status |-> "valid"]]
    <3>1. f \in Surjection(Tokens, S)
      BY DEF Surjection
    <3> HIDE DEF f, S
    <3> QED  BY <3>1, MemoryDatabaseAssumption, FS_Surjection
  <2> QED  BY <2>1 DEF TokenRow
<1>2. (\A r, q \in S : r.key = q.key => r = q) /\ \A r \in S : r.status = "valid"
  OBVIOUS
<1> HIDE DEF S
<1>3. ExistsBijection(1 .. Cardinality(S), S) /\ Cardinality(S) \in Nat
  BY <1>1, FS_CardinalityType
<1>4. \E f \in [1 .. Cardinality(S) -> S] : IsInjective(f)
  BY <1>3 DEF ExistsBijection, Bijection, Injection, IsInjective
<1>5. rows \in [1 .. Cardinality(S) -> S] /\ IsInjective(rows)
  BY <1>4 DEF SetToSeq
<1> HIDE DEF rows
<1>6. rows \in Seq(TokenRow)
  <2>1. rows \in [1 .. Cardinality(S) -> TokenRow]
    BY <1>1, <1>5
  <2> QED  BY <1>3, <2>1
<1>7. KeysDiffer(rows)
  BY <1>2, <1>5 DEF KeysDiffer, IsInjective
<1>8. \A r \in Range(rows) : r.status = "valid"
  BY <1>2, <1>5 DEF Range
<1> QED  BY <1>6, <1>7, <1>8 DEF rows, S

LEMMA InitInv == Init => Inv
<1> SUFFICES ASSUME Init PROVE Inv
  OBVIOUS
<1> USE MemoryDatabaseAssumption, MaxRetriesAssumption
<1>1. Sound(store)
  <2> DEFINE rows == SetToSeq({[key |-> t, status |-> "valid"] : t \in Tokens})
  <2>1. rows \in Seq(TokenRow) /\ KeysDiffer(rows)
    BY TokensListed
  <2>2. store = [tables |-> [mailbox |-> << >>, message_deliveries |-> << >>,
                             refresh_tokens |-> rows], serial |-> 0]
    BY DEF Init, EmptyStore, EmptyTables
  <2> HIDE DEF rows
  <2>3. store \in Stores
    BY <2>1, <2>2 DEF Stores
  <2>4. KeysDiffer(<< >>) /\ IdsDiffer(<< >>, 0)
    BY DEF KeysDiffer, IdsDiffer
  <2>5. /\ store.tables.mailbox = << >> /\ store.tables.message_deliveries = << >>
        /\ store.tables.refresh_tokens = rows /\ store.serial = 0
    BY <2>2
  <2> QED  BY <2>1, <2>3, <2>4, <2>5 DEF Sound
<1>2. stack \in Seq(Stores) /\ \A i \in DOMAIN stack : Sound(stack[i])
  BY DEF Init
<1>3. \A c \in Calls : call[c] = Idle
  BY DEF Init
<1>4. call \in [Calls -> [op : Ops \cup {"none"}, next : 0 .. 3,
                          key : Messages \cup Tokens \cup {"none"}, id : 0 .. MaxId]]
  BY DEF Init, Idle
<1>5. promised \in [Messages -> [row : RowType, record : RecordType]]
  BY DEF Init, NoRow, NoRecord, RowType, RecordType, RowStatus, RecordStatus
<1>6. Types
  BY <1>1, <1>2, <1>4, <1>5 DEF Types, Init
<1>7. CallsFit /\ RefusesAlone
  BY <1>3, IdleCall DEF CallsFit, RefusesAlone
<1>8. Taking = {} /\ Opened = {}
  BY <1>3, IdleCall DEF Taking, Opened
<1>9. RoomLeft
  BY <1>8, Counted, FS_EmptySet DEF RoomLeft, Init, EmptyStore
<1>10. SnapshotsAreOpen
  BY <1>8, Counted, FS_EmptySet DEF Init
<1> QED  BY <1>6, <1>7, <1>9, <1>10 DEF Inv

-----------------------------------------------------------------------------
(* The actions.                                                            *)

LEMMA BeginInv ==
    ASSUME Inv, NEW c \in Calls, NEW op \in Ops, NEW key, NEW id \in 0 .. MaxId,
           Begin(c, op, key, id),
           op # "refuse" => key \in Messages,
           op = "refuse" => key \in Tokens /\ Quiet,
           op = "queue" => store.serial + Queueing < MaxId
    PROVE  Inv'
<1> DEFINE new == [op |-> op, next |-> 1, key |-> key, id |-> id]
<1> USE MemoryDatabaseAssumption
<1>1. /\ call[c] = Idle /\ ~ Refusing /\ calls < MaxCalls /\ calls' = calls + 1
      /\ call' = [call EXCEPT ![c] = new]
      /\ stack' = IF Transactional(op) THEN Append(stack, store) ELSE stack
      /\ contended' = IF \E d \in Calls : call[d] # Idle /\ call[d].key = key
                      THEN contended \cup {key} ELSE contended
      /\ UNCHANGED <<store, given, promised, restarted, replaced>>
  BY DEF Begin
<1>2. Types /\ CallsFit /\ RefusesAlone /\ RoomLeft /\ SnapshotsAreOpen
  BY DEF Inv
<1>3. new \in [op : Ops \cup {"none"}, next : 0 .. 3, key : Messages \cup Tokens \cup {"none"},
               id : 0 .. MaxId]
  OBVIOUS
<1>4. CallFits(new)
  <2>1. new.op = op /\ new.next = 1 /\ new.key = key
    OBVIOUS
  <2>2. op # "none" /\ Length[op] \in {1, 2}
    BY OpsAre
  <2>3. new.next \in 1 .. Length[op] + 1
    BY <2>1, <2>2
  <2> HIDE DEF new
  <2> QED  BY <1>3, <2>1, <2>2, <2>3 DEF CallFits
<1>5. /\ call' \in [Calls -> [op : Ops \cup {"none"}, next : 0 .. 3,
                              key : Messages \cup Tokens \cup {"none"}, id : 0 .. MaxId]]
      /\ call'[c] = new /\ \A d \in Calls : d # c => call'[d] = call[d]
  <2> HIDE DEF new
  <2> QED  BY <1>1, <1>2, <1>3 DEF Types
<1>6. stack' \in Seq(Stores) /\ \A i \in DOMAIN stack' : Sound(stack'[i])
  <2>1. store \in Stores /\ Sound(store) /\ stack \in Seq(Stores)
        /\ \A i \in DOMAIN stack : Sound(stack[i])
    BY <1>2 DEF Types, Sound
  <2>2. CASE stack' = Append(stack, store)
    <3>1. stack' \in Seq(Stores) /\ DOMAIN stack' = 1 .. Len(stack) + 1
      BY <2>1, <2>2
    <3>2. \A i \in 1 .. Len(stack) + 1 :
             stack'[i] = IF i = Len(stack) + 1 THEN store ELSE stack[i]
      BY <2>1, <2>2
    <3>3. \A i \in 1 .. Len(stack) + 1 : i # Len(stack) + 1 => i \in DOMAIN stack
      BY <2>1
    <3> QED  BY <2>1, <3>1, <3>2, <3>3
  <2>3. CASE stack' = stack
    BY <2>1, <2>3
  <2> QED  BY <1>1, <2>2, <2>3
<1>7. contended' \subseteq Messages
  <2>1. CASE op = "refuse"
    BY <1>1, <1>2, <2>1 DEF Quiet, Types
  <2>2. CASE op # "refuse"
    BY <1>1, <1>2, <2>2 DEF Types
  <2> QED  BY <2>1, <2>2
<1>8. Types'
  <2>1. calls' \in 0 .. MaxCalls
    BY <1>1, <1>2 DEF Types
  <2>2. Sound(store')
    BY <1>1, <1>2 DEF Types
  <2> QED  BY <1>1, <1>2, <1>5, <1>6, <1>7, <2>1, <2>2 DEF Types
<1> HIDE DEF new
<1>9. CallsFit'
  BY <1>2, <1>4, <1>5 DEF CallsFit
<1>10. new.op = op /\ new.next = 1 /\ new # Idle
  BY OpsAre DEF new, Idle
<1>11. RefusesAlone'
  <2> SUFFICES ASSUME NEW a \in Calls, NEW b \in Calls,
                      call'[a].op = "refuse", call'[b] # Idle
               PROVE  a = b
    BY DEF RefusesAlone
  <2>1. a = c
    BY <1>1, <1>5 DEF Refusing
  <2>2. op = "refuse"
    BY <1>5, <1>10, <2>1
  <2> QED  BY <1>5, <2>1, <2>2 DEF Quiet
<1>12. RoomLeft'
  <2>1. CASE op = "queue"
    <3>1. Taking' = Taking \cup {c} /\ c \notin Taking
      BY <1>1, <1>5, <1>10, <2>1, IdleCall DEF Taking
    <3>2. Queueing' = Queueing + 1
      BY <3>1, Counted, CountedNext, CountOne
    <3>3. store.serial \in Nat /\ MaxId \in Nat
      BY <1>2 DEF Types, Sound, Stores
    <3> QED  BY <1>1, <2>1, <3>2, <3>3, Counted DEF RoomLeft
  <2>2. CASE op # "queue"
    <3>1. Taking' = Taking
      BY <1>1, <1>5, <1>10, <2>2, IdleCall DEF Taking
    <3> QED  BY <1>1, <1>2, <3>1, Counted, CountedNext DEF RoomLeft
  <2> QED  BY <2>1, <2>2
<1>13. SnapshotsAreOpen'
  <2>1. Len(stack) = Cardinality(Opened) /\ stack \in Seq(Stores)
    BY <1>2, Counted DEF Types
  <2>2. c \notin Opened
    BY <1>1, IdleCall DEF Opened
  <2>3. CASE Transactional(op)
    <3>1. Opened' = Opened \cup {c}
      BY <1>5, <1>10, <2>3 DEF Opened, Open
    <3>2. Len(stack') = Len(stack) + 1
      BY <1>1, <2>1, <2>3
    <3> QED  BY <2>1, <2>2, <3>1, <3>2, Counted, CountedNext, CountOne
  <2>4. CASE ~ Transactional(op)
    <3>1. Opened' = Opened
      BY <1>5, <1>10, <2>2, <2>4 DEF Opened, Open
    <3> QED  BY <1>1, <2>1, <2>4, <3>1, CountedNext
  <2> QED  BY <2>3, <2>4
<1> QED  BY <1>8, <1>9, <1>11, <1>12, <1>13 DEF Inv

LEMMA BeginningsInv ==
    ASSUME Inv, NEW c \in Calls, BeginQueue(c) \/ BeginForMessage(c) \/ BeginRefusal(c)
    PROVE  Inv'
<1>1. 0 \in 0 .. MaxId
  BY MemoryDatabaseAssumption
<1>2. CASE BeginQueue(c)
  <2>1. PICK m \in Messages : Begin(c, "queue", m, 0)
    BY <1>2 DEF BeginQueue
  <2>2. store.serial + Queueing < MaxId
    BY <1>2 DEF BeginQueue
  <2>3. "queue" \in Ops
    BY OpsAre
  <2> QED  BY <1>1, <2>1, <2>2, <2>3, BeginInv
<1>3. CASE BeginForMessage(c)
  <2>1. PICK op \in Ops \ {"queue", "refuse"}, m \in Messages : \E id \in given[m] :
            Begin(c, op, m, IF op \in {"deliver", "acknowledge"} THEN id ELSE 0)
    BY <1>3 DEF BeginForMessage
  <2>2. PICK id \in given[m] : Begin(c, op, m, IF op \in {"deliver", "acknowledge"} THEN id ELSE 0)
    BY <2>1
  <2> DEFINE n == IF op \in {"deliver", "acknowledge"} THEN id ELSE 0
  <2>3. id \in 1 .. MaxId
    BY DEF Inv, Types
  <2>4. n \in 0 .. MaxId
    BY <1>1, <2>3
  <2>5. Begin(c, op, m, n)
    BY <2>2
  <2> HIDE DEF n
  <2> QED  BY <2>4, <2>5, BeginInv
<1>4. CASE BeginRefusal(c)
  <2>1. PICK t \in Tokens : Begin(c, "refuse", t, 0)
    BY <1>4 DEF BeginRefusal
  <2>2. Quiet
    BY <1>4 DEF BeginRefusal
  <2>3. "refuse" \in Ops
    BY OpsAre
  <2> QED  BY <1>1, <2>1, <2>2, <2>3, BeginInv
<1> QED  BY <1>2, <1>3, <1>4

LEMMA StatementInv ==
    ASSUME Inv, NEW c \in Calls, Statement(c)
    PROVE  Inv'
<1> DEFINE old == call[c]
           id == IF old.op = "queue" /\ old.next = 1 THEN store'.serial ELSE old.id
           new == [op |-> old.op, next |-> old.next + 1, key |-> old.key, id |-> id]
           CallType == [op : Ops \cup {"none"}, next : 0 .. 3,
                        key : Messages \cup Tokens \cup {"none"}, id : 0 .. MaxId]
<1> USE MemoryDatabaseAssumption
<1>1. Types /\ CallsFit /\ RefusesAlone /\ RoomLeft /\ SnapshotsAreOpen
  BY DEF Inv
<1>2. /\ old # Idle /\ old.next <= Length[old.op]
      /\ store' = Effect(store, old, old.next)
      /\ call' = [call EXCEPT ![c].next = @ + 1,
                     ![c].id = IF call[c].op = "queue" /\ call[c].next = 1
                               THEN store'.serial ELSE @]
      /\ restarted' = IF Restarts(old) THEN restarted \cup {old.key} ELSE restarted
      /\ replaced' = IF Replaces(old) THEN replaced \cup {old.key} ELSE replaced
      /\ UNCHANGED <<stack, calls, given, promised, contended>>
  BY DEF Statement
<1>3. call \in [Calls -> CallType] /\ old \in CallType
  BY <1>1 DEF Types
<1>4. CallFits(old) /\ old.op \in Ops
  BY <1>1, <1>2, BusyCall
<1>5. call'[c] = new /\ (\A d \in Calls : d # c => call'[d] = call[d])
      /\ call' = [d \in Calls |-> IF d = c THEN new ELSE call[d]]
  <2>1. call' = [call EXCEPT ![c].next = @ + 1, ![c].id = id]
    BY <1>2
  <2> HIDE DEF id
  <2>2. call'[c] = [old EXCEPT !.next = @ + 1, !.id = id]
    BY <1>3, <2>1
  <2>3. call'[c] = new
    BY <1>3, <2>2
  <2>4. call' \in [Calls -> {call'[c]} \cup CallType] /\ \A d \in Calls : d # c => call'[d] = call[d]
    BY <1>3, <2>1
  <2> HIDE DEF new
  <2> QED  BY <2>3, <2>4
<1> HIDE DEF old
<1>6. /\ new.op = old.op /\ new.next = old.next + 1 /\ new.key = old.key /\ new.id = id
      /\ new # Idle
  BY <1>4, OpsAre DEF Idle
<1>7. old.next \in {1, 2} /\ Length[old.op] \in {1, 2}
  <2>1. Length[old.op] \in {1, 2} /\ old.next \in 1 .. Length[old.op] + 1
    BY <1>4, OpsAre DEF CallFits
  <2> QED  BY <1>2, <2>1
<1>8. /\ Sound(store) /\ store.serial \in 0 .. MaxId
      /\ old.op = "queue" /\ old.next = 1 => store.serial < MaxId /\ c \in Taking /\ Queueing > 0
  <2>1. Sound(store) /\ store.serial \in 0 .. MaxId
    BY <1>1 DEF Types, Sound, Stores
  <2>2. ASSUME old.op = "queue", old.next = 1
        PROVE  store.serial < MaxId /\ c \in Taking /\ Queueing > 0
    <3>1. c \in Taking
      BY <2>2 DEF Taking, old
    <3>2. Queueing \in Nat /\ Queueing > 0
      BY <3>1, Counted, CountOne
    <3> QED  BY <1>1, <2>1, <3>1, <3>2 DEF RoomLeft
  <2> QED  BY <2>1, <2>2
<1>9. /\ Sound(store')
      /\ store'.serial = IF old.op = "queue" /\ old.next = 1 THEN store.serial + 1 ELSE store.serial
  BY <1>2, <1>4, <1>8, EffectSound
<1>10. id \in 0 .. MaxId /\ (old.op = "queue" => id \in 1 .. MaxId)
  <2>1. CASE old.op = "queue" /\ old.next = 1
    BY <1>8, <1>9, <2>1
  <2>2. CASE ~ (old.op = "queue" /\ old.next = 1)
    <3>1. old.id \in 0 .. MaxId /\ (old.op = "queue" => old.id \in 1 .. MaxId)
      BY <1>3, <1>4, <1>7, <2>2 DEF CallFits
    <3> QED  BY <2>2, <3>1
  <2> QED  BY <2>1, <2>2
<1>11. new \in CallType
  <2>1. old.next + 1 \in 0 .. 3
    BY <1>7
  <2> QED  BY <1>3, <1>10, <2>1
<1>12. CallFits(new)
  <2>1. new.next \in 1 .. Length[old.op] + 1
    BY <1>2, <1>6, <1>7
  <2>2. /\ old.op # "none" /\ (old.op # "refuse" => old.key \in Messages)
        /\ old.op = "refuse" => old.key \in Tokens
    BY <1>4, OpsAre DEF CallFits
  <2> HIDE DEF new, id
  <2> QED  BY <1>4, <1>6, <1>10, <1>11, <2>1, <2>2 DEF CallFits
<1> HIDE DEF new, id
<1>13. restarted' \subseteq Messages /\ replaced' \subseteq Messages
  <2>1. Restarts(old) \/ Replaces(old) => old.key \in Messages
    BY <1>4 DEF Restarts, Replaces, CallFits
  <2> QED  BY <1>1, <1>2, <2>1 DEF Types
<1>14. call' \in [Calls -> CallType]
  <2> HIDE DEF CallType
  <2> QED  BY <1>3, <1>5, <1>11
<1>15. Types'
  BY <1>1, <1>2, <1>9, <1>13, <1>14 DEF Types
<1>16. CallsFit'
  BY <1>1, <1>5, <1>12 DEF CallsFit
<1>17. RefusesAlone'
  <2>1. \A d \in Calls : /\ call'[d].op = call[d].op
                         /\ call'[d] # Idle => call[d] # Idle
    BY <1>2, <1>5, <1>6 DEF old
  <2> QED  BY <1>1, <2>1 DEF RefusesAlone
<1>18. RoomLeft'
  <2>1. CASE old.op = "queue" /\ old.next = 1
    <3>1. Taking' = Taking \ {c}
      <4>1. ~ (new.op = "queue" /\ new.next = 1)
        BY <1>6, <2>1
      <4> QED  BY <1>5, <4>1 DEF Taking
    <3>2. Queueing' = Queueing - 1 /\ Queueing \in Nat
      BY <1>8, <2>1, <3>1, Counted, CountedNext, CountOne
    <3> QED  BY <1>1, <1>8, <1>9, <2>1, <3>2 DEF RoomLeft
  <2>2. CASE ~ (old.op = "queue" /\ old.next = 1)
    <3>1. ~ (new.op = "queue" /\ new.next = 1)
      BY <1>6, <1>7
    <3>2. Taking' = Taking
      BY <1>5, <2>2, <3>1 DEF Taking, old
    <3> QED  BY <1>1, <1>9, <2>2, <3>2, Counted, CountedNext DEF RoomLeft
  <2> QED  BY <2>1, <2>2
<1>19. SnapshotsAreOpen'
  <2>1. Opened' = Opened
    BY <1>5, <1>6 DEF Opened, Open, old
  <2> QED  BY <1>1, <1>2, <2>1, Counted, CountedNext
<1> QED  BY <1>15, <1>16, <1>17, <1>18, <1>19 DEF Inv

\* commitTransaction and rollbackTransaction find the snapshot of a call on
\* the stack, if not their own.
LEMMA EndingInv ==
    ASSUME Inv, NEW c \in Calls, Finished(c), call' = [call EXCEPT ![c] = Idle],
           stack' = IF Open(c) THEN SnapshotPopped ELSE stack
    PROVE  /\ Open(c) => stack # << >> /\ Sound(Last(stack))
           /\ stack' \in Seq(Stores) /\ \A i \in DOMAIN stack' : Sound(stack'[i])
           /\ call' \in [Calls -> [op : Ops \cup {"none"}, next : 0 .. 3,
                                   key : Messages \cup Tokens \cup {"none"}, id : 0 .. MaxId]]
           /\ CallsFit' /\ RefusesAlone' /\ Queueing' = Queueing /\ SnapshotsAreOpen'
<1>1. Types /\ CallsFit /\ RefusesAlone /\ RoomLeft /\ SnapshotsAreOpen
  BY DEF Inv
<1>2. /\ stack \in Seq(Stores) /\ \A i \in DOMAIN stack : Sound(stack[i])
      /\ call \in [Calls -> [op : Ops \cup {"none"}, next : 0 .. 3,
                             key : Messages \cup Tokens \cup {"none"}, id : 0 .. MaxId]]
      /\ Len(stack) = Cardinality(Opened)
  BY <1>1, Counted DEF Types
<1>3. call[c] # Idle /\ call[c].next > Length[call[c].op] /\ CallFits(call[c]) /\ call[c].op \in Ops
  BY <1>1, BusyCall DEF Finished
<1>4. call[c].next # 1
  <2>1. Length[call[c].op] \in {1, 2} /\ call[c].next \in 0 .. 3
    BY <1>2, <1>3, OpsAre
  <2> QED  BY <1>3, <2>1
<1>5. call'[c] = Idle /\ \A d \in Calls : d # c => call'[d] = call[d]
  BY <1>2
<1>6. call' \in [Calls -> [op : Ops \cup {"none"}, next : 0 .. 3,
                           key : Messages \cup Tokens \cup {"none"}, id : 0 .. MaxId]]
  <2>1. Idle \in [op : Ops \cup {"none"}, next : 0 .. 3,
                  key : Messages \cup Tokens \cup {"none"}, id : 0 .. MaxId]
    BY IdleCall DEF CallFits
  <2> QED  BY <1>2, <2>1
<1>7. Open(c) => stack # << >> /\ Len(stack) > 0
  <2> SUFFICES ASSUME Open(c) PROVE stack # << >> /\ Len(stack) > 0
    OBVIOUS
  <2>1. c \in Opened
    BY DEF Opened
  <2>2. Len(stack) > 0
    BY <1>2, <2>1, Counted, CountOne
  <2> QED  BY <2>2
<1>8. Open(c) => Sound(Last(stack))
  BY <1>2, <1>7, FrontOf
<1>9. stack' \in Seq(Stores) /\ (\A i \in DOMAIN stack' : Sound(stack'[i]))
      /\ Len(stack') = IF Open(c) THEN Len(stack) - 1 ELSE Len(stack)
  <2>1. CASE Open(c)
    <3>1. stack' = Front(stack)
      BY <1>7, <2>1 DEF SnapshotPopped
    <3>2. /\ Front(stack) \in Seq(Stores) /\ Len(Front(stack)) = Len(stack) - 1
          /\ \A i \in DOMAIN Front(stack) : i \in DOMAIN stack /\ Front(stack)[i] = stack[i]
      BY <1>2, <1>7, <2>1, FrontOf
    <3> QED  BY <1>2, <2>1, <3>1, <3>2
  <2>2. CASE ~ Open(c)
    BY <1>2, <2>2
  <2> QED  BY <2>1, <2>2
<1>10. CallsFit'
  BY <1>1, <1>5, IdleCall DEF CallsFit
<1>11. RefusesAlone'
  <2>1. Idle.op # "refuse"
    BY IdleCall
  <2> QED  BY <1>1, <1>5, <2>1 DEF RefusesAlone
<1>12. Queueing' = Queueing
  <2>1. Idle.op # "queue"
    BY IdleCall
  <2>2. Taking' = Taking
    BY <1>4, <1>5, <2>1 DEF Taking
  <2> QED  BY <2>2, Counted, CountedNext
<1>13. SnapshotsAreOpen'
  <2>1. Opened' = Opened \ {c}
    BY <1>5, IdleCall DEF Opened, Open
  <2>2. CASE Open(c)
    <3>1. c \in Opened
      BY <2>2 DEF Opened
    <3> QED  BY <1>2, <1>9, <2>1, <2>2, <3>1, Counted, CountedNext, CountOne
  <2>3. CASE ~ Open(c)
    <3>1. Opened' = Opened
      BY <2>1, <2>3 DEF Opened
    <3> QED  BY <1>2, <1>9, <2>3, <3>1, CountedNext
  <2> QED  BY <2>2, <2>3
<1> QED  BY <1>6, <1>7, <1>8, <1>9, <1>10, <1>11, <1>12, <1>13

\* What MailboxRepository makes of a row and a record is a row and a record.
LEMMA RepositoryTypes ==
    ASSUME NEW row \in RowType, NEW record \in RecordType, NEW id \in Nat
    PROVE  /\ {QueuedRow(id), RescheduledRow(row), FailedRow(row), DeliveredRow(row, id),
               AcknowledgedRow(row)} \subseteq RowType
           /\ {QueuedRecord, AttemptedRecord(record), RescheduledRecord(record),
               FailedRecord(record), DeliveredRecord(record), AcknowledgedRecord(record),
               ReadRecord(record), UndecryptableRecord(record)} \subseteq RecordType
<1> USE MaxRetriesAssumption
<1>1. /\ QueuedRow(id) \in RowType /\ DeliveredRow(row, id) \in RowType
      /\ RescheduledRow(row) \in RowType /\ FailedRow(row) \in RowType
      /\ AcknowledgedRow(row) \in RowType
  <2>1. QueuedRow(id) \in RowType
    BY DEF QueuedRow, RowType, RowStatus
  <2>2. \A x \in {"queued", "delivered", "failed", "absent"} :
           [row EXCEPT !.status = x] \in RowType
    BY DEF RowType, RowStatus
  <2>3. DeliveredRow(row, id) \in RowType
    BY <2>2 DEF DeliveredRow
  <2>4. RescheduledRow(row) \in RowType /\ FailedRow(row) \in RowType
    BY <2>2 DEF RescheduledRow, FailedRow
  <2>5. AcknowledgedRow(row) \in RowType
    BY <2>2 DEF AcknowledgedRow
  <2> QED  BY <2>1, <2>3, <2>4, <2>5
<1>2. /\ QueuedRecord \in RecordType /\ RescheduledRecord(record) \in RecordType
      /\ FailedRecord(record) \in RecordType /\ DeliveredRecord(record) \in RecordType
      /\ AcknowledgedRecord(record) \in RecordType /\ ReadRecord(record) \in RecordType
      /\ UndecryptableRecord(record) \in RecordType
  <2>1. QueuedRecord \in RecordType
    BY DEF QueuedRecord, RecordType, RecordStatus
  <2>2. \A x \in RecordStatus : [record EXCEPT !.status = x] \in RecordType
    BY DEF RecordType
  <2>3. \A x \in RecordStatus, y \in BOOLEAN : [record EXCEPT !.status = x, !.due = y] \in RecordType
    BY DEF RecordType
  <2>4. {"queued", "delivered", "acknowledged", "read", "failed", "decryption_failed"}
            \subseteq RecordStatus
    BY DEF RecordStatus
  <2>5. RescheduledRecord(record) \in RecordType
    BY <2>3, <2>4 DEF RescheduledRecord
  <2>6. FailedRecord(record) \in RecordType /\ AcknowledgedRecord(record) \in RecordType
    BY <2>3, <2>4 DEF FailedRecord, AcknowledgedRecord
  <2>7. DeliveredRecord(record) \in RecordType /\ ReadRecord(record) \in RecordType
        /\ UndecryptableRecord(record) \in RecordType
    BY <2>2, <2>4 DEF DeliveredRecord, ReadRecord, UndecryptableRecord
  <2> QED  BY <2>1, <2>5, <2>6, <2>7
<1>3. AttemptedRecord(record) \in RecordType
  <2> DEFINE n == IF record.attempts < MaxRetries THEN record.attempts + 1 ELSE record.attempts
  <2>1. n \in 0 .. MaxRetries
    BY DEF RecordType
  <2>2. AttemptedRecord(record) = [record EXCEPT !.attempts = n, !.due = FALSE]
    BY DEF AttemptedRecord
  <2> HIDE DEF n
  <2> QED  BY <2>1, <2>2 DEF RecordType
<1> QED  BY <1>1, <1>2, <1>3

LEMMA PromiseTypes ==
    ASSUME Types, NEW c, c.op \in Ops \ {"refuse"}, c.key \in Messages, c.id \in Nat
    PROVE  Promise(c) \in [Messages -> [row : RowType, record : RecordType]]
<1> DEFINE m == c.key
           row == promised[m].row
           record == promised[m].record
           becomes(newRow, newRecord) ==
               [promised EXCEPT ![m] = [row |-> newRow, record |-> newRecord]]
           Promises == [Messages -> [row : RowType, record : RecordType]]
<1>1. promised \in Promises /\ row \in RowType /\ record \in RecordType
  BY DEF Types
<1>2. \A a \in RowType, b \in RecordType : becomes(a, b) \in Promises
  BY <1>1
<1>3. /\ {QueuedRow(c.id), RescheduledRow(row), FailedRow(row), DeliveredRow(row, c.id),
          AcknowledgedRow(row)} \subseteq RowType
      /\ {QueuedRecord, AttemptedRecord(record), RescheduledRecord(record),
          FailedRecord(record), DeliveredRecord(record), AcknowledgedRecord(record),
          ReadRecord(record), UndecryptableRecord(record)} \subseteq RecordType
  BY <1>1, RepositoryTypes
<1>4. Promise(c) \in {promised, becomes(QueuedRow(c.id), QueuedRecord),
                      becomes(row, AttemptedRecord(record)),
                      becomes(RescheduledRow(row), RescheduledRecord(record)),
                      becomes(FailedRow(row), FailedRecord(record)),
                      becomes(DeliveredRow(row, c.id), DeliveredRecord(record)),
                      becomes(AcknowledgedRow(row), AcknowledgedRecord(record)),
                      becomes(row, ReadRecord(record)),
                      becomes(row, UndecryptableRecord(record))}
  BY OpsAre DEF Promise
<1> HIDE DEF becomes, Promises, row, record
<1>5. /\ becomes(QueuedRow(c.id), QueuedRecord) \in Promises
      /\ becomes(row, AttemptedRecord(record)) \in Promises
      /\ becomes(RescheduledRow(row), RescheduledRecord(record)) \in Promises
      /\ becomes(FailedRow(row), FailedRecord(record)) \in Promises
  BY <1>1, <1>2, <1>3
<1>6. /\ becomes(DeliveredRow(row, c.id), DeliveredRecord(record)) \in Promises
      /\ becomes(AcknowledgedRow(row), AcknowledgedRecord(record)) \in Promises
      /\ becomes(row, ReadRecord(record)) \in Promises
      /\ becomes(row, UndecryptableRecord(record)) \in Promises
  BY <1>1, <1>2, <1>3
<1>7. Promise(c) \in Promises
  BY <1>1, <1>4, <1>5, <1>6
<1> QED  BY <1>7 DEF Promises

LEMMA ReturnInv ==
    ASSUME Inv, NEW c \in Calls, Return(c)
    PROVE  Inv'
<1> USE MemoryDatabaseAssumption
<1>1. /\ Finished(c) /\ call[c].op # "refuse"
      /\ stack' = IF Open(c) THEN SnapshotPopped ELSE stack
      /\ call' = [call EXCEPT ![c] = Idle]
      /\ given' = IF call[c].op = "queue" THEN [given EXCEPT ![call[c].key] = @ \cup {call[c].id}]
                                          ELSE given
      /\ promised' = Promise(call[c])
      /\ UNCHANGED <<store, calls, contended, restarted, replaced>>
  BY DEF Return
<1>2. Types /\ RoomLeft /\ CallsFit
  BY DEF Inv
<1>3. /\ stack' \in Seq(Stores) /\ \A i \in DOMAIN stack' : Sound(stack'[i])
      /\ call' \in [Calls -> [op : Ops \cup {"none"}, next : 0 .. 3,
                              key : Messages \cup Tokens \cup {"none"}, id : 0 .. MaxId]]
      /\ CallsFit' /\ RefusesAlone' /\ Queueing' = Queueing /\ SnapshotsAreOpen'
  BY <1>1, EndingInv
<1>4. CallFits(call[c]) /\ call[c].op \in Ops \ {"refuse"} /\ call[c] # Idle
      /\ call[c].next > Length[call[c].op]
  BY <1>1, <1>2, BusyCall DEF Finished
<1>5. call[c].key \in Messages /\ call[c].id \in 0 .. MaxId
      /\ (call[c].op = "queue" => call[c].id \in 1 .. MaxId)
  <2>1. call[c].next \in 0 .. 3
    BY <1>4 DEF CallFits
  <2>2. call[c].op = "queue" => call[c].next > 1
    BY <1>4, <2>1, OpsAre
  <2> QED  BY <1>4, <2>2 DEF CallFits
<1>6. given' \in [Messages -> SUBSET (1 .. MaxId)]
  <2>1. given \in [Messages -> SUBSET (1 .. MaxId)]
    BY <1>2 DEF Types
  <2>2. CASE call[c].op = "queue"
    BY <1>1, <1>5, <2>1, <2>2
  <2>3. CASE call[c].op # "queue"
    BY <1>1, <2>1, <2>3
  <2> QED  BY <2>2, <2>3
<1>7. promised' \in [Messages -> [row : RowType, record : RecordType]]
  <2>1. call[c].id \in Nat
    BY <1>5
  <2> QED  BY <1>1, <1>2, <1>4, <1>5, <2>1, PromiseTypes
<1>8. Types'
  BY <1>1, <1>2, <1>3, <1>6, <1>7 DEF Types
<1>9. RoomLeft'
  BY <1>1, <1>2, <1>3 DEF RoomLeft
<1> QED  BY <1>3, <1>8, <1>9 DEF Inv

LEMMA ThrowInv ==
    ASSUME Inv, NEW c \in Calls, Throw(c)
    PROVE  Inv'
<1> USE MemoryDatabaseAssumption
<1>1. /\ Finished(c) /\ call[c].op = "refuse"
      /\ store' = Restored /\ stack' = SnapshotPopped
      /\ call' = [call EXCEPT ![c] = Idle]
      /\ UNCHANGED <<calls, given, promised, contended, restarted, replaced>>
  BY DEF Throw, history
<1>2. Types /\ RefusesAlone
  BY DEF Inv
<1>3. Open(c)
  BY <1>1, OpsAre DEF Open, Transactional
<1>4. /\ stack # << >> /\ Sound(Last(stack))
      /\ stack' \in Seq(Stores) /\ \A i \in DOMAIN stack' : Sound(stack'[i])
      /\ call' \in [Calls -> [op : Ops \cup {"none"}, next : 0 .. 3,
                              key : Messages \cup Tokens \cup {"none"}, id : 0 .. MaxId]]
      /\ CallsFit' /\ RefusesAlone' /\ Queueing' = Queueing /\ SnapshotsAreOpen'
  BY <1>1, <1>3, EndingInv
<1>5. store' = Last(stack)
  BY <1>1, <1>4 DEF Restored
<1>6. Types'
  BY <1>1, <1>2, <1>4, <1>5 DEF Types
<1>7. Queueing = 0
  <2>1. \A d \in Calls : call[d].op # "queue"
    <3>1. \A d \in Calls : d # c => call[d] = Idle
      BY <1>1, <1>2 DEF RefusesAlone
    <3> QED  BY <1>1, <3>1, IdleCall
  <2>2. Taking = {}
    BY <2>1 DEF Taking
  <2> QED  BY <2>2, Counted, FS_EmptySet
<1>8. RoomLeft'
  <2>1. store'.serial \in 0 .. MaxId
    BY <1>6 DEF Types, Sound, Stores
  <2> QED  BY <1>4, <1>7, <2>1 DEF RoomLeft
<1> QED  BY <1>4, <1>6, <1>8 DEF Inv

LEMMA TimePassesInv ==
    ASSUME Inv, TimePasses
    PROVE  Inv'
<1> DEFINE hit == {r \in Rows(store, Deliveries) : r.retry = "future"}
<1>1. /\ store' = Update(store, "message_deliveries", hit, [retry |-> "past"])
      /\ promised' = [m \in Messages |-> [promised[m] EXCEPT !.record.due = TRUE]]
      /\ UNCHANGED <<stack, call, calls, given, contended, restarted, replaced>>
  BY DEF TimePasses, Deliveries
<1>2. Inv /\ Types /\ CallsFit /\ RefusesAlone /\ RoomLeft /\ SnapshotsAreOpen
  BY DEF Inv
<1> HIDE DEF hit
<1>3. Sound(store') /\ store'.serial = store.serial
  <2>1. "past" \in Times /\ Sound(store)
    BY <1>2 DEF Times, Types
  <2> QED  BY <1>1, <2>1, UpdateRetry
<1>4. promised' \in [Messages -> [row : RowType, record : RecordType]]
  BY <1>1, <1>2 DEF Types, RecordType
<1>5. Types'
  BY <1>1, <1>2, <1>3, <1>4 DEF Types
<1>6. CallsFit' /\ RefusesAlone'
  BY <1>1, <1>2 DEF CallsFit, RefusesAlone
<1>7. Taking' = Taking /\ Opened' = Opened
  BY <1>1 DEF Taking, Opened, Open
<1>8. RoomLeft' /\ SnapshotsAreOpen'
  BY <1>1, <1>2, <1>3, <1>7, Counted, CountedNext DEF RoomLeft
<1> QED  BY <1>5, <1>6, <1>8 DEF Inv

LEMMA NextInv ==
    ASSUME Inv, [Next]_vars
    PROVE  Inv'
<1>1. CASE UNCHANGED vars
  BY <1>1 DEF vars, Inv, Types, CallsFit, RefusesAlone, RoomLeft, Queueing, SnapshotsAreOpen, Open
<1>2. CASE TimePasses
  BY <1>2, TimePassesInv
<1>3. ASSUME NEW c \in Calls,
             \/ BeginQueue(c) \/ BeginForMessage(c) \/ BeginRefusal(c)
             \/ Statement(c) \/ Return(c) \/ Throw(c)
      PROVE  Inv'
  BY <1>3, BeginningsInv, StatementInv, ReturnInv, ThrowInv
<1> QED  BY <1>1, <1>2, <1>3 DEF Next

-----------------------------------------------------------------------------
(* The theorems.                                                           *)

\* The invariant holds of every reachable state.
THEOREM InvKept == Spec => []Inv
BY InitInv, NextInv, PTL DEF Spec

LEMMA RowsAre ==
    ASSUME NEW T, NEW s, NEW table, s.tables[table] \in Seq(T)
    PROVE  /\ Rows(s, table) \subseteq T
           /\ \A r \in Rows(s, table) : \E i \in DOMAIN s.tables[table] : r = s.tables[table][i]
BY DEF Rows, Range

LEMMA SoundTables ==
    ASSUME NEW s, Sound(s)
    PROVE  /\ s.tables["mailbox"] \in Seq(MailboxRow)
           /\ s.tables["message_deliveries"] \in Seq(DeliveryRow)
           /\ s.tables["refresh_tokens"] \in Seq(TokenRow)
           /\ KeysDiffer(s.tables["mailbox"]) /\ KeysDiffer(s.tables["message_deliveries"])
           /\ KeysDiffer(s.tables["refresh_tokens"])
           /\ IdsDiffer(s.tables["mailbox"], s.serial)
BY DEF Sound, Stores

\* Rows, calls and what callers were told keep their shapes, and the serial
\* number stays within its bound, whatever the calls.
THEOREM MemoryTypeOK == Spec => []TypeOK
<1>1. Inv => TypeOK
  <2> SUFFICES ASSUME Inv PROVE TypeOK
    OBVIOUS
  <2>1. Types /\ Sound(store)
    BY DEF Inv, Types
  <2>2. /\ Rows(store, "mailbox") \subseteq MailboxRow
        /\ Rows(store, "message_deliveries") \subseteq DeliveryRow
        /\ Rows(store, "refresh_tokens") \subseteq TokenRow
    BY <2>1, SoundTables, RowsAre
  <2>3. store.serial \in 0 .. MaxId
    BY <2>1 DEF Sound, Stores
  <2> QED  BY <2>1, <2>2, <2>3 DEF TypeOK, Types, Mailbox, Deliveries
<1> QED  BY <1>1, InvKept, PTL

\* The UNIQUE and SERIAL constraints of the schema hold of the in-memory tables,
\* although no code checks them: an INSERT looks for the key before it appends
\* (db/postgres.ts:235-271), the counter only grows, and a rollback restores
\* tables and counter together (db/postgres.ts:61-67).
THEOREM MemoryKeysUnique == Spec => []KeysAreUnique
<1>1. Inv => KeysAreUnique
  <2> SUFFICES ASSUME Inv PROVE KeysAreUnique
    OBVIOUS
  <2>1. Sound(store)
    BY DEF Inv, Types
  <2> DEFINE box == store.tables["mailbox"]
  <2>2. /\ KeysDiffer(store.tables["mailbox"]) /\ KeysDiffer(store.tables["message_deliveries"])
        /\ KeysDiffer(store.tables["refresh_tokens"]) /\ IdsDiffer(box, store.serial)
    BY <2>1, SoundTables
  <2>3. \A t \in TableNames : KeysDiffer(store.tables[t])
    BY <2>2 DEF TableNames
  <2>4. \A r \in Rows(store, Mailbox) : \E i \in DOMAIN box : r = box[i]
    BY <2>1, SoundTables, RowsAre DEF Mailbox
  <2> HIDE DEF box
  <2>5. /\ \A r, q \in Rows(store, Mailbox) : r.id = q.id => r = q
        /\ \A r \in Rows(store, Mailbox) : r.id <= store.serial
    BY <2>2, <2>4 DEF IdsDiffer
  <2> QED  BY <2>3, <2>5 DEF KeysAreUnique, KeysDiffer
<1> QED  BY <1>1, InvKept, PTL

\* beginTransaction pushes one snapshot, and whichever call ends next pops one
\* (db/postgres.ts:48-67): the stack is never popped when it is empty, and a
\* snapshot never outlives the calls that are open.
THEOREM SnapshotsOpen == Spec => []SnapshotsAreOpen
<1>1. Inv => SnapshotsAreOpen
  BY DEF Inv
<1> QED  BY <1>1, InvKept, PTL

-----------------------------------------------------------------------------
(* What a call in progress has made of its message so far.  Each callback  *)
(* has at most one statement for the row and at most one for the record.   *)

\* a call of MailboxRepository
Works(c) == call[c].op \in Ops \ {"refuse"}

RowDone(c) == \/ c.op \in {"queue", "deliver", "acknowledge"} /\ c.next > 1
              \/ c.op \in {"schedule", "fail"} /\ c.next > 2

RecordDone(c) == \/ c.op \in {"attempt", "schedule", "fail", "read", "undecryptable"} /\ c.next > 1
                 \/ c.op \in {"queue", "deliver", "acknowledge"} /\ c.next > 2

RowAfter(c, row, id) ==
    CASE c.op = "queue" -> QueuedRow(id)
      [] c.op = "schedule" -> RescheduledRow(row)
      [] c.op = "fail" -> FailedRow(row)
      [] c.op = "deliver" -> DeliveredRow(row, c.id)
      [] c.op = "acknowledge" -> AcknowledgedRow(row)
      [] OTHER -> row

RecordAfter(c, record) ==
    CASE c.op = "queue" -> QueuedRecord
      [] c.op = "attempt" -> AttemptedRecord(record)
      [] c.op = "schedule" -> RescheduledRecord(record)
      [] c.op = "fail" -> FailedRecord(record)
      [] c.op = "deliver" -> DeliveredRecord(record)
      [] c.op = "acknowledge" -> AcknowledgedRecord(record)
      [] c.op = "read" -> ReadRecord(record)
      [] c.op = "undecryptable" -> UndecryptableRecord(record)

\* what Promise makes of p, the row and the record promised so far
Outcome(p, c) ==
    IF c.op = "queue" /\ Present(p.row) THEN p
    ELSE [row |-> RowAfter(c, p.row, c.id), record |-> RecordAfter(c, p.record)]

RowNow(p, c) == IF RowDone(c) THEN Outcome(p, c).row ELSE p.row

RecordNow(p, c) == IF RecordDone(c) THEN Outcome(p, c).record ELSE p.record

\* The tables of s hold this row for m, or none.
RowIs(s, m, row) ==
    Named(s, Mailbox, m) =
        IF Present(row) THEN {[key |-> m, status |-> row.status, id |-> row.id]} ELSE {}

\* The same of the record; free: whatever its attempt_count is.
RecordIs(s, m, record, free) ==
    IF record.status = "none" THEN Named(s, Deliveries, m) = {}
    ELSE \E n \in 0 .. MaxRetries, t \in Times :
            /\ Named(s, Deliveries, m) =
                   {[key |-> m, status |-> record.status, attempts |-> n, retry |-> t]}
            /\ record.due <=> t # "future"
            /\ free \/ n = record.attempts

HoldsIn(s, free, m, row, record) == RowIs(s, m, row) /\ RecordIs(s, m, record, free)

Comparable == Messages \ (replaced \cup contended)

\* the calls for a message that is not contended: at most one
OneCall == \A c, d \in Calls : /\ Works(c) /\ Works(d)
                               /\ call[c].key = call[d].key /\ call[c].key \notin contended
                               => c = d

Settled == \A m \in Comparable :
               (\A c \in Calls : Works(c) => call[c].key # m)
                   => HoldsIn(store, m \in restarted, m, promised[m].row, promised[m].record)

InProgress == \A c \in Calls : \A m \in Comparable : Works(c) /\ call[c].key = m =>
                  /\ HoldsIn(store, m \in restarted, m, RowNow(promised[m], call[c]),
                             RecordNow(promised[m], call[c]))
                  /\ call[c].op = "queue" /\ call[c].next > 1 => ~ Present(promised[m].row)

\* the number of a row that queueMessage has inserted and not returned yet
Taken(c) == call[c].op = "queue" /\ call[c].next > 1

\* A mailbox id belongs to the message whose caller was told it.
Told == /\ \A m \in Messages : \A n \in given[m] :
              n <= store.serial /\ \A r \in Rows(store, Mailbox) : r.id = n => r.key = m
        /\ \A c \in Calls : Taken(c) =>
              /\ call[c].id <= store.serial
              /\ \A r \in Rows(store, Mailbox) : r.id = call[c].id => r.key = call[c].key
        /\ \A c \in Calls : call[c].op \in {"deliver", "acknowledge"} =>
              call[c].id \in given[call[c].key]

\* A message whose caller was told an id has a record.
Known == /\ \A m \in Messages : given[m] # {} => Named(store, Deliveries, m) # {}
         /\ \A c \in Calls : /\ Works(c) /\ call[c].op # "queue" => given[call[c].key] # {}
                             /\ call[c].op = "queue" /\ call[c].next > 2
                                    => Named(store, Deliveries, call[c].key) # {}

AllValid(s) == \A r \in Rows(s, "refresh_tokens") : r.status = "valid"

\* What a refusal will restore is the store without its own statement.
Undoable == IF Refusing
            THEN /\ AllValid(Last(stack)) /\ Last(stack).serial = store.serial
                 /\ \A t \in {Mailbox, Deliveries} : Rows(Last(stack), t) = Rows(store, t)
            ELSE AllValid(store)

Faithful == OneCall /\ Settled /\ InProgress /\ Told /\ Known /\ Undoable

-----------------------------------------------------------------------------
(* What a statement does to the rows with one key.                         *)

LEMMA WithRows ==
    ASSUME NEW s \in Stores, NEW rows, NEW table \in TableNames, NEW u \in TableNames
    PROVE  /\ Rows(With(s, table, rows), u) = IF u = table THEN Range(rows) ELSE Rows(s, u)
           /\ With(s, table, rows).serial = s.serial
<1> DEFINE t == With(s, table, rows)
<1>1. CASE table = "mailbox"
  <2>1. t = [tables |-> [mailbox |-> rows, message_deliveries |-> s.tables.message_deliveries,
                         refresh_tokens |-> s.tables.refresh_tokens], serial |-> s.serial]
    BY <1>1, WithIs
  <2> HIDE DEF t
  <2>2. /\ t.tables["mailbox"] = rows /\ t.serial = s.serial
        /\ t.tables["message_deliveries"] = s.tables["message_deliveries"]
        /\ t.tables["refresh_tokens"] = s.tables["refresh_tokens"]
    BY <2>1
  <2> QED  BY <1>1, <2>2 DEF TableNames, Rows, t
<1>2. CASE table = "message_deliveries"
  <2>1. t = [tables |-> [mailbox |-> s.tables.mailbox, message_deliveries |-> rows,
                         refresh_tokens |-> s.tables.refresh_tokens], serial |-> s.serial]
    BY <1>2, WithIs
  <2> HIDE DEF t
  <2>2. /\ t.tables["message_deliveries"] = rows /\ t.serial = s.serial
        /\ t.tables["mailbox"] = s.tables["mailbox"]
        /\ t.tables["refresh_tokens"] = s.tables["refresh_tokens"]
    BY <2>1
  <2> QED  BY <1>2, <2>2 DEF TableNames, Rows, t
<1>3. CASE table = "refresh_tokens"
  <2>1. t = [tables |-> [mailbox |-> s.tables.mailbox,
                         message_deliveries |-> s.tables.message_deliveries,
                         refresh_tokens |-> rows], serial |-> s.serial]
    BY <1>3, WithIs
  <2> HIDE DEF t
  <2>2. /\ t.tables["refresh_tokens"] = rows /\ t.serial = s.serial
        /\ t.tables["mailbox"] = s.tables["mailbox"]
        /\ t.tables["message_deliveries"] = s.tables["message_deliveries"]
    BY <2>1
  <2> QED  BY <1>3, <2>2 DEF TableNames, Rows, t
<1> QED  BY <1>1, <1>2, <1>3 DEF TableNames

LEMMA NamesAre ==
    /\ TableNames = {Mailbox, Deliveries, "refresh_tokens"}
    /\ Mailbox = "mailbox" /\ Deliveries = "message_deliveries"
    /\ Mailbox # Deliveries /\ Mailbox # "refresh_tokens" /\ Deliveries # "refresh_tokens"
BY DEF TableNames, Mailbox, Deliveries

\* UPDATE rewrites the rows it hits and leaves the rest, and other tables.
LEMMA UpdateNamed ==
    ASSUME NEW s \in Stores, NEW table \in TableNames, NEW hit, NEW change,
           \A r \in Rows(s, table) : Over(change, r).key = r.key
    PROVE  LET t == Update(s, table, hit, change)
           IN  /\ \A k : Named(t, table, k) =
                      {IF r \in hit THEN Over(change, r) ELSE r : r \in Named(s, table, k)}
               /\ \A u \in TableNames \ {table} : Rows(t, u) = Rows(s, u)
               /\ t.serial = s.serial
<1> DEFINE t == Update(s, table, hit, change)
           rows == s.tables[table]
           left == [i \in DOMAIN rows |->
                       IF rows[i] \in hit THEN Over(change, rows[i]) ELSE rows[i]]
<1>1. t = With(s, table, left)
  BY DEF Update
<1> HIDE DEF t, left
<1>2. Rows(t, table) = Range(left) /\ t.serial = s.serial
      /\ \A u \in TableNames \ {table} : Rows(t, u) = Rows(s, u)
  BY <1>1, WithRows
<1>3. ASSUME NEW k
      PROVE  Named(t, table, k) =
                 {IF r \in hit THEN Over(change, r) ELSE r : r \in Named(s, table, k)}
  <2> DEFINE becomes == {IF r \in hit THEN Over(change, r) ELSE r : r \in Named(s, table, k)}
  <2>1. ASSUME NEW q \in Named(t, table, k) PROVE q \in becomes
    <3>1. PICK i \in DOMAIN rows : q = IF rows[i] \in hit THEN Over(change, rows[i]) ELSE rows[i]
      BY <1>2 DEF Named, Range, left
    <3>2. rows[i] \in Rows(s, table)
      BY DEF Rows, Range
    <3>3. rows[i] \in Named(s, table, k)
      BY <3>1, <3>2 DEF Named
    <3> QED  BY <3>1, <3>3
  <2>2. ASSUME NEW q \in becomes PROVE q \in Named(t, table, k)
    <3>1. PICK r \in Named(s, table, k) : q = IF r \in hit THEN Over(change, r) ELSE r
      OBVIOUS
    <3>2. PICK i \in DOMAIN rows : r = rows[i]
      BY DEF Named, Rows, Range
    <3>3. i \in DOMAIN left /\ left[i] = q
      BY <3>1, <3>2 DEF left
    <3>4. q \in Rows(t, table)
      BY <1>2, <3>3 DEF Range
    <3> QED  BY <3>1, <3>4 DEF Named
  <2> QED  BY <2>1, <2>2
<1> QED  BY <1>2, <1>3 DEF t

\* DELETE removes the rows it hits, and no other: every index that stays has
\* a rank up to their count.
LEMMA DeleteNamed ==
    ASSUME NEW s, Sound(s), NEW hit
    PROVE  LET t == Delete(s, Mailbox, hit)
           IN  /\ \A k : Named(t, Mailbox, k) = Named(s, Mailbox, k) \ hit
               /\ \A u \in TableNames \ {Mailbox} : Rows(t, u) = Rows(s, u)
               /\ t.serial = s.serial
<1> DEFINE t == Delete(s, Mailbox, hit)
           rows == s.tables[Mailbox]
           kept == {i \in DOMAIN rows : rows[i] \notin hit}
           left == [n \in 1 .. Cardinality(kept) |-> rows[Nth(kept, n)]]
<1>1. t = With(s, Mailbox, left)
  BY DEF Delete
<1>2. s \in Stores /\ rows \in Seq(MailboxRow)
  BY SoundTables DEF Sound, Mailbox
<1> HIDE DEF t, rows
<1>3. kept \in SUBSET Nat /\ IsFiniteSet(kept)
  <2>1. DOMAIN rows = 1 .. Len(rows) /\ Len(rows) \in Nat
    BY <1>2
  <2>2. IsFiniteSet(1 .. Len(rows))
    BY <2>1, FS_Interval
  <2>3. kept \in SUBSET (1 .. Len(rows))
    BY <2>1
  <2>4. IsFiniteSet(kept)
    BY <2>2, <2>3, FS_Subset
  <2> QED  BY <2>1, <2>3, <2>4
<1> DEFINE size == Cardinality(kept)
<1>4. \A n \in 1 .. size : Nth(kept, n) \in kept /\ Cardinality(Before(kept, Nth(kept, n))) = n - 1
  <2> HIDE DEF kept
  <2> QED  BY <1>3, RankExists
<1>5. ASSUME NEW i \in kept PROVE \E n \in 1 .. size : Nth(kept, n) = i
  <2> HIDE DEF kept
  <2> DEFINE n == Cardinality(Before(kept, i)) + 1
  <2>1. Before(kept, i) \in SUBSET kept /\ i \notin Before(kept, i)
    BY <1>3 DEF Before
  <2>2. IsFiniteSet(Before(kept, i)) /\ Cardinality(Before(kept, i)) \in Nat /\ size \in Nat
    BY <1>3, <2>1, FS_Subset, FS_CardinalityType
  <2>3. Cardinality(Before(kept, i)) < size
    <3>1. Before(kept, i) \cup {i} \in SUBSET kept
      BY <2>1
    <3>2. Cardinality(Before(kept, i) \cup {i}) = Cardinality(Before(kept, i)) + 1
      BY <2>1, <2>2, FS_AddElement
    <3>3. Cardinality(Before(kept, i) \cup {i}) <= size
      BY <1>3, <3>1, FS_Subset
    <3> QED  BY <2>2, <3>2, <3>3
  <2>4. n \in 1 .. size /\ n - 1 = Cardinality(Before(kept, i))
    BY <2>2, <2>3
  <2> HIDE DEF n
  <2>5. Nth(kept, n) \in kept /\ Cardinality(Before(kept, Nth(kept, n))) = Cardinality(Before(kept, i))
    BY <1>4, <2>4
  <2> DEFINE j == Nth(kept, n)
  <2> HIDE DEF j
  <2>6. j \in kept /\ Cardinality(Before(kept, j)) = Cardinality(Before(kept, i))
    BY <2>5 DEF j
  <2>7. j = i
    <3>1. ASSUME NEW a \in kept, NEW b \in kept, a < b
          PROVE  Cardinality(Before(kept, a)) < Cardinality(Before(kept, b))
      <4>1. /\ Before(kept, a) \in SUBSET kept /\ Before(kept, b) \in SUBSET kept
            /\ a \notin Before(kept, a) /\ Before(kept, a) \cup {a} \in SUBSET Before(kept, b)
        BY <1>3, <3>1 DEF Before
      <4>2. IsFiniteSet(Before(kept, a)) /\ IsFiniteSet(Before(kept, b))
        BY <1>3, <4>1, FS_Subset
      <4>3. Cardinality(Before(kept, a) \cup {a}) = Cardinality(Before(kept, a)) + 1
        BY <4>1, <4>2, FS_AddElement
      <4>4. Cardinality(Before(kept, a) \cup {a}) <= Cardinality(Before(kept, b))
        BY <4>1, <4>2, FS_Subset
      <4>5. Cardinality(Before(kept, a)) \in Nat /\ Cardinality(Before(kept, b)) \in Nat
        BY <4>2, FS_CardinalityType
      <4> QED  BY <4>3, <4>4, <4>5
    <3>2. i \in Nat /\ j \in Nat
      BY <1>3, <2>6
    <3>3. ~ (i < j) /\ ~ (j < i)
      BY <2>2, <2>6, <3>1
    <3> QED  BY <3>2, <3>3
  <2> QED  BY <2>4, <2>7 DEF j
<1>6. Range(left) = Range(rows) \ hit
  <2>1. ASSUME NEW q \in Range(left) PROVE q \in Range(rows) \ hit
    <3>1. PICK n \in 1 .. size : q = rows[Nth(kept, n)]
      BY DEF Range
    <3>2. Nth(kept, n) \in kept
      BY <1>4
    <3> QED  BY <3>1, <3>2 DEF Range
  <2>2. ASSUME NEW q \in Range(rows) \ hit PROVE q \in Range(left)
    <3>1. PICK i \in DOMAIN rows : q = rows[i]
      BY DEF Range
    <3>2. i \in kept
      BY <3>1
    <3>3. PICK n \in 1 .. size : Nth(kept, n) = i
      BY <1>5, <3>2
    <3>4. n \in DOMAIN left /\ left[n] = q
      BY <3>1, <3>3
    <3> QED  BY <3>4 DEF Range
  <2> QED  BY <2>1, <2>2
<1> HIDE DEF left
<1>7. /\ Rows(t, Mailbox) = Range(left) /\ t.serial = s.serial
      /\ \A u \in TableNames \ {Mailbox} : Rows(t, u) = Rows(s, u)
  BY <1>1, <1>2, WithRows, NamesAre
<1>8. Rows(t, Mailbox) = Rows(s, Mailbox) \ hit
  BY <1>6, <1>7 DEF Rows, rows
<1>9. \A k : Named(t, Mailbox, k) = Named(s, Mailbox, k) \ hit
  BY <1>8 DEF Named
<1> QED  BY <1>7, <1>9 DEF t

KeyedIn(rows, key) == {r \in Range(rows) : r.key = key}

Lacks(rows, key) == KeyedIn(rows, key) = {}

Only(rows, key, r) == KeyedIn(rows, key) = {r}

\* INSERT leaves the rows with other keys, and one row with its own.
LEMMA PlacedNamed ==
    ASSUME NEW T, NEW rows \in Seq(T), KeysDiffer(rows), NEW row, NEW table,
           NEW conflict \in {"none", "update"},
           Over(row, Columns(table)).key = row.key,
           \A old \in T : Over(row, old).key = row.key
    PROVE  LET left == Placed(rows, row, table, conflict)
           IN  /\ \A k : k # row.key => KeyedIn(left, k) = KeyedIn(rows, k)
               /\ Lacks(rows, row.key) => Only(left, row.key, Over(row, Columns(table)))
               /\ conflict = "none" => Only(left, row.key, Over(row, Columns(table)))
               /\ conflict = "update" => \A old : Only(rows, row.key, old)
                                                     => Only(left, row.key, Over(row, old))
               /\ Lacks(rows, row.key) \/ \E old : Only(rows, row.key, old)
<1> DEFINE i == Position(rows, row.key)
           left == Placed(rows, row, table, conflict)
           fresh == Over(row, Columns(table))
<1>1. /\ DOMAIN rows = 1 .. Len(rows) /\ Len(rows) \in Nat
      /\ \A j \in DOMAIN rows : rows[j] \in T
  OBVIOUS
<1>2. \/ i = 0 /\ \A j \in DOMAIN rows : rows[j].key # row.key
      \/ i \in DOMAIN rows /\ i > 0 /\ rows[i].key = row.key
  BY PositionFound
<1>3. left = CASE i = 0 -> Append(rows, fresh)
               [] i > 0 /\ conflict = "nothing" -> rows
               [] i > 0 /\ conflict = "update" -> [rows EXCEPT ![i] = Over(row, @)]
               [] i > 0 /\ conflict = "none" -> [rows EXCEPT ![i] = fresh]
  BY DEF Placed
<1> HIDE DEF i, left, fresh
<1>4. fresh.key = row.key
  BY DEF fresh
<1>5. CASE i = 0 /\ \A j \in DOMAIN rows : rows[j].key # row.key
  <2>1. left = Append(rows, fresh)
    BY <1>3, <1>5
  <2>2. DOMAIN left = 1 .. Len(rows) + 1 /\ left[Len(rows) + 1] = fresh
        /\ \A j \in 1 .. Len(rows) : left[j] = rows[j]
    BY <1>1, <2>1
  <2>3. Range(left) = Range(rows) \cup {fresh}
    <3>1. ASSUME NEW q \in Range(left) PROVE q \in Range(rows) \cup {fresh}
      <4>1. PICK j \in DOMAIN left : q = left[j]
        BY DEF Range
      <4>2. j \in 1 .. Len(rows) \/ j = Len(rows) + 1
        BY <1>1, <2>2
      <4> QED  BY <1>1, <2>2, <4>1, <4>2 DEF Range
    <3>2. ASSUME NEW q \in Range(rows) \cup {fresh} PROVE q \in Range(left)
      <4>1. CASE q = fresh
        <5>1. Len(rows) + 1 \in DOMAIN left
          BY <1>1, <2>2
        <5> QED  BY <2>2, <4>1, <5>1 DEF Range
      <4>2. CASE q \in Range(rows)
        <5>1. PICK j \in DOMAIN rows : q = rows[j]
          BY <4>2 DEF Range
        <5>2. j \in DOMAIN left /\ left[j] = q
          BY <1>1, <2>2, <5>1
        <5> QED  BY <5>2 DEF Range
      <4> QED  BY <4>1, <4>2
    <3> QED  BY <3>1, <3>2
  <2>4. KeyedIn(rows, row.key) = {}
    BY <1>5 DEF KeyedIn, Range
  <2>5. KeyedIn(left, row.key) = {fresh}
    BY <1>4, <2>3, <2>4 DEF KeyedIn
  <2>6. \A k : k # row.key => KeyedIn(left, k) = KeyedIn(rows, k)
    BY <1>4, <2>3 DEF KeyedIn
  <2> QED  BY <2>4, <2>5, <2>6 DEF Lacks, Only, left, fresh
<1>6. CASE i \in DOMAIN rows /\ i > 0 /\ rows[i].key = row.key
  <2> DEFINE r == IF conflict = "none" THEN fresh ELSE Over(row, rows[i])
  <2>1. i # 0
    BY <1>1, <1>6
  <2>2. left = [rows EXCEPT ![i] = r]
    BY <1>3, <1>6, <2>1
  <2>3. r.key = row.key
    BY <1>1, <1>4, <1>6
  <2> HIDE DEF r
  <2>4. DOMAIN left = DOMAIN rows /\ left[i] = r
        /\ \A j \in DOMAIN rows : j # i => left[j] = rows[j]
    BY <1>1, <1>6, <2>2
  <2>5. \A j \in DOMAIN rows : j # i => rows[j].key # row.key
    BY <1>6 DEF KeysDiffer
  <2>6. KeyedIn(rows, row.key) = {rows[i]}
    BY <1>6, <2>5 DEF KeyedIn, Range
  <2>7. KeyedIn(left, row.key) = {r}
    <3>1. r \in KeyedIn(left, row.key)
      BY <1>6, <2>3, <2>4 DEF KeyedIn, Range
    <3>2. ASSUME NEW q \in KeyedIn(left, row.key) PROVE q = r
      <4>1. PICK j \in DOMAIN rows : q = left[j] /\ q.key = row.key
        BY <2>4 DEF KeyedIn, Range
      <4> QED  BY <2>4, <2>5, <4>1
    <3> QED  BY <3>1, <3>2
  <2>8. ASSUME NEW k, k # row.key PROVE KeyedIn(left, k) = KeyedIn(rows, k)
    <3>1. ASSUME NEW q \in KeyedIn(left, k) PROVE q \in KeyedIn(rows, k)
      <4>1. PICK j \in DOMAIN rows : q = left[j] /\ q.key = k
        BY <2>4 DEF KeyedIn, Range
      <4>2. j # i
        BY <2>3, <2>4, <2>8, <4>1
      <4> QED  BY <2>4, <4>1, <4>2 DEF KeyedIn, Range
    <3>2. ASSUME NEW q \in KeyedIn(rows, k) PROVE q \in KeyedIn(left, k)
      <4>1. PICK j \in DOMAIN rows : q = rows[j] /\ q.key = k
        BY DEF KeyedIn, Range
      <4>2. j # i
        BY <1>6, <2>8, <4>1
      <4> QED  BY <2>4, <4>1, <4>2 DEF KeyedIn, Range
    <3> QED  BY <3>1, <3>2
  <2>9. \A old : KeyedIn(rows, row.key) = {old} => old = rows[i]
    BY <2>6
  <2> QED  BY <2>6, <2>7, <2>8, <2>9 DEF r, left, fresh, Lacks, Only
<1> QED  BY <1>2, <1>5, <1>6

LEMMA InsertMailboxNamed ==
    ASSUME NEW s, Sound(s), NEW m
    PROVE  LET t == Insert(s, Mailbox, Record(m, "queued"), "none")
           IN  /\ Named(t, Mailbox, m) = {[key |-> m, status |-> "queued", id |-> s.serial + 1]}
               /\ \A k : k # m => Named(t, Mailbox, k) = Named(s, Mailbox, k)
               /\ \A u \in TableNames \ {Mailbox} : Rows(t, u) = Rows(s, u)
               /\ t.serial = s.serial + 1
<1> DEFINE t == Insert(s, "mailbox", Record(m, "queued"), "none")
           row == Over(Record(m, "queued"), [id |-> s.serial + 1])
           rows == s.tables.mailbox
           left == Placed(rows, row, "mailbox", "none")
           cols == {"key", "status", "id"}
<1>1. s \in Stores /\ rows \in Seq(MailboxRow) /\ KeysDiffer(rows)
  BY DEF Sound, Stores
<1>2. row = [key |-> m, status |-> "queued", id |-> s.serial + 1]
  <2>1. DOMAIN Record(m, "queued") \cup DOMAIN [id |-> s.serial + 1] = cols
    BY DEF Record
  <2> QED  BY <2>1 DEF Over, Record
<1>3. Over(row, Columns("mailbox")) = row
  <2>1. DOMAIN row \cup DOMAIN << >> = cols /\ DOMAIN row = cols
    BY <1>2
  <2>2. Over(row, << >>) = [x \in cols |-> row[x]]
    BY <2>1 DEF Over
  <2>3. Columns("mailbox") = << >>
    BY DEF Columns
  <2> QED  BY <1>2, <2>2, <2>3
<1>4. \A old \in MailboxRow : Over(row, old).key = row.key
  BY <1>2 DEF Over
<1>5. t = [tables |-> [mailbox |-> left,
                       message_deliveries |-> s.tables.message_deliveries,
                       refresh_tokens |-> s.tables.refresh_tokens],
           serial |-> s.serial + 1]
  BY <1>1, InsertIs
<1> HIDE DEF t, row, rows
<1>6. /\ \A k : k # m => KeyedIn(left, k) = KeyedIn(rows, k)
      /\ KeyedIn(left, m) = {row}
  <2>1. row.key = m
    BY <1>2
  <2>2. /\ \A k : k # row.key => KeyedIn(left, k) = KeyedIn(rows, k)
        /\ Only(left, row.key, Over(row, Columns("mailbox")))
    <3>1. "none" \in {"none", "update"} /\ Over(row, Columns("mailbox")).key = row.key
      BY <1>3
    <3> QED  BY <1>1, <1>4, <3>1, PlacedNamed
  <2> QED  BY <1>3, <2>1, <2>2 DEF Only
<1> HIDE DEF left
<1>7. /\ t.tables["mailbox"] = left
      /\ t.tables["message_deliveries"] = s.tables["message_deliveries"]
      /\ t.tables["refresh_tokens"] = s.tables["refresh_tokens"]
      /\ t.serial = s.serial + 1 /\ rows = s.tables["mailbox"]
  BY <1>5 DEF rows
<1>8. \A k : Named(t, Mailbox, k) = KeyedIn(left, k) /\ Named(s, Mailbox, k) = KeyedIn(rows, k)
  BY <1>7 DEF Named, KeyedIn, Rows, Mailbox
<1>9. \A u \in TableNames \ {Mailbox} : Rows(t, u) = Rows(s, u)
  BY <1>7 DEF Rows, TableNames, Mailbox
<1> QED  BY <1>2, <1>6, <1>7, <1>8, <1>9 DEF t, Mailbox

LEMMA PlacedUpsert ==
    ASSUME NEW rows \in Seq(DeliveryRow), KeysDiffer(rows), NEW row, NEW table,
           Over(row, Columns(table)).key = row.key,
           \A old \in DeliveryRow : Over(row, old).key = row.key
    PROVE  LET left == Placed(rows, row, table, "update")
           IN  /\ \A k : k # row.key => KeyedIn(left, k) = KeyedIn(rows, k)
               /\ Lacks(rows, row.key) => Only(left, row.key, Over(row, Columns(table)))
               /\ \A old : Only(rows, row.key, old) => Only(left, row.key, Over(row, old))
               /\ Lacks(rows, row.key) \/ \E old : Only(rows, row.key, old)
<1>1. "update" \in {"none", "update"}
  OBVIOUS
<1> QED  BY <1>1, PlacedNamed

\* The three upserts: attempt_count starts again in each.
LEMMA UpsertNamed ==
    ASSUME NEW s, Sound(s), NEW m, NEW values,
           values \in {[key |-> m, status |-> "queued", attempts |-> 0, retry |-> "past"],
                       [key |-> m, status |-> "acknowledged", retry |-> "null"],
                       [key |-> m, status |-> "decryption_failed"]}
    PROVE  LET t == Insert(s, Deliveries, values, "update")
           IN  /\ \A k : k # m => Named(t, Deliveries, k) = Named(s, Deliveries, k)
               /\ Named(t, Deliveries, m) # {}
               /\ "retry" \in DOMAIN values =>
                      Named(t, Deliveries, m) =
                          {[key |-> m, status |-> values.status, attempts |-> 0,
                            retry |-> values.retry]}
               /\ \A old \in Named(s, Deliveries, m) : "retry" \notin DOMAIN values =>
                      Named(t, Deliveries, m) =
                          {[key |-> m, status |-> values.status, attempts |-> 0,
                            retry |-> old.retry]}
               /\ \A u \in TableNames \ {Deliveries} : Rows(t, u) = Rows(s, u)
               /\ t.serial = s.serial
<1> DEFINE t == Insert(s, "message_deliveries", values, "update")
           row == Over(values, [attempts |-> 0])
           rows == s.tables["message_deliveries"]
           left == Placed(rows, row, "message_deliveries", "update")
           cols == {"key", "status", "attempts", "retry"}
<1>1. s \in Stores /\ rows \in Seq(DeliveryRow) /\ KeysDiffer(rows)
  BY SoundTables DEF Sound
<1>2. /\ {"key", "status", "attempts"} \subseteq DOMAIN row /\ DOMAIN row \subseteq cols
      /\ row.key = m /\ row.status = values.status /\ row.attempts = 0
      /\ "retry" \in DOMAIN row <=> "retry" \in DOMAIN values
      /\ "retry" \in DOMAIN values => row.retry = values.retry
  <2>1. CASE values = [key |-> m, status |-> "queued", attempts |-> 0, retry |-> "past"]
    BY <2>1 DEF Over
  <2>2. CASE values = [key |-> m, status |-> "acknowledged", retry |-> "null"]
    BY <2>2 DEF Over
  <2>3. CASE values = [key |-> m, status |-> "decryption_failed"]
    BY <2>3 DEF Over
  <2> QED  BY <2>1, <2>2, <2>3
<1>3. t = With(s, "message_deliveries", left)
  BY <1>1, InsertIs
<1> HIDE DEF t, row, rows
<1>4. ASSUME NEW old, DOMAIN old \subseteq cols, "retry" \in DOMAIN old
      PROVE  Over(row, old) = [key |-> m, status |-> values.status, attempts |-> 0,
                               retry |-> IF "retry" \in DOMAIN values THEN values.retry
                                                                      ELSE old.retry]
  <2>1. DOMAIN row \cup DOMAIN old = cols
    BY <1>2, <1>4
  <2>2. Over(row, old) = [x \in cols |-> IF x \in DOMAIN row THEN row[x] ELSE old[x]]
    BY <2>1 DEF Over
  <2> QED  BY <1>2, <2>2
<1>5. Over(row, Columns("message_deliveries"))
          = [key |-> m, status |-> values.status, attempts |-> 0,
             retry |-> IF "retry" \in DOMAIN values THEN values.retry ELSE "null"]
  <2>1. Columns("message_deliveries") = [retry |-> "null"]
    BY DEF Columns
  <2>2. DOMAIN [retry |-> "null"] \subseteq cols /\ "retry" \in DOMAIN [retry |-> "null"]
    OBVIOUS
  <2> QED  BY <1>4, <2>1, <2>2
<1>6. \A old \in DeliveryRow :
         Over(row, old) = [key |-> m, status |-> values.status, attempts |-> 0,
                           retry |-> IF "retry" \in DOMAIN values THEN values.retry
                                                                  ELSE old.retry]
  <2>1. \A old \in DeliveryRow : DOMAIN old = cols
    BY DEF DeliveryRow
  <2> QED  BY <1>4, <2>1
<1>7. /\ Over(row, Columns("message_deliveries")).key = row.key
      /\ \A old \in DeliveryRow : Over(row, old).key = row.key
      /\ "update" \in {"none", "update"}
  BY <1>2, <1>5, <1>6
<1>8. /\ \A k : k # row.key => KeyedIn(left, k) = KeyedIn(rows, k)
      /\ Lacks(rows, row.key)
             => Only(left, row.key, Over(row, Columns("message_deliveries")))
      /\ \A old : Only(rows, row.key, old) => Only(left, row.key, Over(row, old))
      /\ Lacks(rows, row.key) \/ \E old : Only(rows, row.key, old)
  BY <1>1, <1>7, PlacedUpsert
<1> HIDE DEF left
<1>9. /\ Rows(t, Deliveries) = Range(left) /\ t.serial = s.serial
      /\ \A u \in TableNames \ {Deliveries} : Rows(t, u) = Rows(s, u)
  BY <1>1, <1>3, WithRows, NamesAre
<1>10. \A k : Named(t, Deliveries, k) = KeyedIn(left, k) /\ Named(s, Deliveries, k) = KeyedIn(rows, k)
  BY <1>9 DEF Named, KeyedIn, Rows, rows, Deliveries
<1>11. KeyedIn(rows, m) \subseteq DeliveryRow
  BY <1>1 DEF KeyedIn, Range
<1>12. CASE Lacks(rows, m)
  <2>1. KeyedIn(left, m) = {[key |-> m, status |-> values.status, attempts |-> 0,
             retry |-> IF "retry" \in DOMAIN values THEN values.retry ELSE "null"]}
    BY <1>2, <1>5, <1>8, <1>12 DEF Only
  <2>2. KeyedIn(rows, m) = {}
    BY <1>12 DEF Lacks
  <2> QED  BY <1>2, <1>8, <1>9, <1>10, <2>1, <2>2 DEF t, Deliveries
<1>13. ASSUME NEW old, Only(rows, m, old)
       PROVE  /\ KeyedIn(left, m) = {[key |-> m, status |-> values.status, attempts |-> 0,
                     retry |-> IF "retry" \in DOMAIN values THEN values.retry ELSE old.retry]}
              /\ KeyedIn(rows, m) = {old}
  <2>1. KeyedIn(rows, m) = {old} /\ old \in DeliveryRow
    BY <1>11, <1>13 DEF Only
  <2>2. Only(left, m, Over(row, old))
    BY <1>2, <1>8, <1>13
  <2> QED  BY <1>6, <2>1, <2>2 DEF Only
<1>14. CASE \E old : Only(rows, m, old)
  <2>1. PICK old : Only(rows, m, old)
    BY <1>14
  <2>2. KeyedIn(left, m) = {[key |-> m, status |-> values.status, attempts |-> 0,
             retry |-> IF "retry" \in DOMAIN values THEN values.retry ELSE old.retry]}
        /\ KeyedIn(rows, m) = {old}
    BY <1>13, <2>1
  <2>3. /\ Named(t, Deliveries, m) = {[key |-> m, status |-> values.status, attempts |-> 0,
                retry |-> IF "retry" \in DOMAIN values THEN values.retry ELSE old.retry]}
        /\ Named(s, Deliveries, m) = {old}
    BY <1>10, <2>2
  <2>4. \A k : k # m => Named(t, Deliveries, k) = Named(s, Deliveries, k)
    BY <1>2, <1>8, <1>10
  <2>5. \A q \in Named(s, Deliveries, m) : "retry" \notin DOMAIN values =>
            Named(t, Deliveries, m) =
                {[key |-> m, status |-> values.status, attempts |-> 0, retry |-> q.retry]}
    BY <2>3
  <2>6. "retry" \in DOMAIN values =>
            Named(t, Deliveries, m) =
                {[key |-> m, status |-> values.status, attempts |-> 0, retry |-> values.retry]}
    BY <2>3
  <2>7. Named(t, Deliveries, m) # {}
    BY <2>3
  <2> QED  BY <1>9, <2>4, <2>5, <2>6, <2>7 DEF t, Deliveries
<1>15. Lacks(rows, m) \/ \E old : Only(rows, m, old)
  <2>1. row.key = m
    BY <1>2
  <2> QED  BY <1>8, <2>1
<1> QED  BY <1>12, <1>14, <1>15

-----------------------------------------------------------------------------
(* What the statements do to the row and the record of their message.      *)

RowWith(m, status, id) == [key |-> m, status |-> status, id |-> id]

RecordWith(m, status, n, y) == [key |-> m, status |-> status, attempts |-> n, retry |-> y]

LEMMA Overs ==
    /\ \A m, x, status, id : Over([status |-> x], RowWith(m, status, id)) = RowWith(m, x, id)
    /\ \A m, x, status, n, y :
          Over([status |-> x], RecordWith(m, status, n, y)) = RecordWith(m, x, n, y)
    /\ \A m, x, z, status, n, y :
          Over([status |-> x, retry |-> z], RecordWith(m, status, n, y)) = RecordWith(m, x, n, z)
    /\ \A m, z, status, n, y :
          Over([retry |-> z], RecordWith(m, status, n, y)) = RecordWith(m, status, n, z)
<1>1. ASSUME NEW m, NEW x, NEW status, NEW id
      PROVE  Over([status |-> x], RowWith(m, status, id)) = RowWith(m, x, id)
  <2> DEFINE cols == {"key", "status", "id"}
  <2>1. DOMAIN [status |-> x] \cup DOMAIN RowWith(m, status, id) = cols
    BY DEF RowWith
  <2> QED  BY <2>1 DEF Over, RowWith
<1> DEFINE cols == {"key", "status", "attempts", "retry"}
<1>2. ASSUME NEW m, NEW x, NEW status, NEW n, NEW y
      PROVE  Over([status |-> x], RecordWith(m, status, n, y)) = RecordWith(m, x, n, y)
  <2>1. DOMAIN [status |-> x] \cup DOMAIN RecordWith(m, status, n, y) = cols
    BY DEF RecordWith
  <2> QED  BY <2>1 DEF Over, RecordWith
<1>3. ASSUME NEW m, NEW x, NEW z, NEW status, NEW n, NEW y
      PROVE  Over([status |-> x, retry |-> z], RecordWith(m, status, n, y)) = RecordWith(m, x, n, z)
  <2>1. DOMAIN [status |-> x, retry |-> z] \cup DOMAIN RecordWith(m, status, n, y) = cols
    BY DEF RecordWith
  <2> QED  BY <2>1 DEF Over, RecordWith
<1>4. ASSUME NEW m, NEW z, NEW status, NEW n, NEW y
      PROVE  Over([retry |-> z], RecordWith(m, status, n, y)) = RecordWith(m, status, n, z)
  <2>1. DOMAIN [retry |-> z] \cup DOMAIN RecordWith(m, status, n, y) = cols
    BY DEF RecordWith
  <2> QED  BY <2>1 DEF Over, RecordWith
<1> QED  BY <1>1, <1>2, <1>3, <1>4

LEMMA OverKey ==
    ASSUME NEW s, Sound(s), NEW change, "key" \notin DOMAIN change
    PROVE  \A table \in TableNames : \A r \in Rows(s, table) : Over(change, r).key = r.key
<1>1. /\ Rows(s, "mailbox") \subseteq MailboxRow
      /\ Rows(s, "message_deliveries") \subseteq DeliveryRow
      /\ Rows(s, "refresh_tokens") \subseteq TokenRow
  BY SoundTables, RowsAre
<1>2. ASSUME NEW r, "key" \in DOMAIN r PROVE Over(change, r).key = r.key
  BY <1>2 DEF Over
<1>3. /\ \A r \in MailboxRow : "key" \in DOMAIN r
      /\ \A r \in DeliveryRow : "key" \in DOMAIN r
      /\ \A r \in TokenRow : "key" \in DOMAIN r
  BY DEF MailboxRow, DeliveryRow, TokenRow
<1> QED  BY <1>1, <1>2, <1>3 DEF TableNames

\* A statement for message m touches the row and the record of no other
\* message, loses no record, and a row keeps its number or takes the next.
Frame(s, t, m) ==
    /\ \A u \in {Mailbox, Deliveries} : \A k : k # m => Named(t, u, k) = Named(s, u, k)
    /\ Rows(t, "refresh_tokens") = Rows(s, "refresh_tokens")
    /\ Named(s, Deliveries, m) # {} => Named(t, Deliveries, m) # {}
    /\ \A r \in Named(t, Mailbox, m) :
          \/ \E q \in Named(s, Mailbox, m) : q.id = r.id
          \/ r.id = s.serial + 1 /\ t.serial = s.serial + 1

LEMMA NamedIs ==
    /\ \A s, u, k, r : r \in Named(s, u, k) <=> r \in Rows(s, u) /\ r.key = k
    /\ \A s, t, u : Rows(t, u) = Rows(s, u) => \A k : Named(t, u, k) = Named(s, u, k)
BY DEF Named

LEMMA MailboxUpdated ==
    ASSUME NEW s, Sound(s), NEW m, NEW hit \in SUBSET Named(s, Mailbox, m), NEW x, x # "absent"
    PROVE  LET t == Update(s, Mailbox, hit, [status |-> x])
           IN  /\ Frame(s, t, m) /\ Named(t, Deliveries, m) = Named(s, Deliveries, m)
               /\ \A row \in RowType : RowIs(s, m, row) =>
                      RowIs(t, m, IF RowWith(m, row.status, row.id) \in hit
                                  THEN [row EXCEPT !.status = x] ELSE row)
<1> DEFINE t == Update(s, Mailbox, hit, [status |-> x])
<1>1. "key" \notin DOMAIN [status |-> x] /\ s \in Stores
  BY DEF Sound
<1>2. /\ \A k : Named(t, Mailbox, k) =
             {IF r \in hit THEN Over([status |-> x], r) ELSE r : r \in Named(s, Mailbox, k)}
      /\ \A u \in TableNames \ {Mailbox} : Rows(t, u) = Rows(s, u)
      /\ t.serial = s.serial
  <2>1. \A r \in Rows(s, Mailbox) : Over([status |-> x], r).key = r.key
    BY <1>1, OverKey, NamesAre
  <2> QED  BY <1>1, <2>1, UpdateNamed, NamesAre
<1> HIDE DEF t
<1>3. Rows(t, Deliveries) = Rows(s, Deliveries) /\ Rows(t, "refresh_tokens") = Rows(s, "refresh_tokens")
  BY <1>2, NamesAre
<1>4. \A k : Named(t, Deliveries, k) = Named(s, Deliveries, k)
  BY <1>3, NamedIs
<1>5. ASSUME NEW k, k # m PROVE Named(t, Mailbox, k) = Named(s, Mailbox, k)
  <2>1. \A r \in Named(s, Mailbox, k) : r \notin hit
    BY <1>5, NamedIs
  <2> QED  BY <1>2, <2>1
<1>6. ASSUME NEW r \in Named(t, Mailbox, m) PROVE \E q \in Named(s, Mailbox, m) : q.id = r.id
  <2>1. PICK q \in Named(s, Mailbox, m) : r = IF q \in hit THEN Over([status |-> x], q) ELSE q
    BY <1>2
  <2>2. q \in MailboxRow
    BY NamedIs, SoundTables, RowsAre DEF Mailbox
  <2>3. "id" \in DOMAIN q /\ "id" \notin DOMAIN [status |-> x]
    BY <2>2 DEF MailboxRow
  <2>4. Over([status |-> x], q).id = q.id
    BY <2>3 DEF Over
  <2> QED  BY <2>1, <2>4
<1>7. Frame(s, t, m)
  BY <1>3, <1>4, <1>5, <1>6 DEF Frame
<1>8. ASSUME NEW row \in RowType, RowIs(s, m, row)
      PROVE  RowIs(t, m, IF RowWith(m, row.status, row.id) \in hit
                         THEN [row EXCEPT !.status = x] ELSE row)
  <2> DEFINE old == RowWith(m, row.status, row.id)
  <2>1. CASE Present(row)
    <3>1. Named(s, Mailbox, m) = {old}
      BY <1>8, <2>1 DEF RowIs, RowWith
    <3>2. Named(t, Mailbox, m) = {IF old \in hit THEN Over([status |-> x], old) ELSE old}
      BY <1>2, <3>1
    <3>3. Over([status |-> x], old) = RowWith(m, x, row.id)
      BY Overs
    <3>4. /\ [row EXCEPT !.status = x].status = x /\ [row EXCEPT !.status = x].id = row.id
          /\ Present([row EXCEPT !.status = x])
      BY DEF RowType, Present
    <3>5. CASE old \in hit
      BY <3>2, <3>3, <3>4, <3>5 DEF RowIs, RowWith
    <3>6. CASE old \notin hit
      BY <2>1, <3>2, <3>6 DEF RowIs, RowWith
    <3> QED  BY <3>5, <3>6
  <2>2. CASE ~ Present(row)
    <3>1. Named(s, Mailbox, m) = {}
      BY <1>8, <2>2 DEF RowIs
    <3>2. Named(t, Mailbox, m) = {} /\ old \notin hit
      BY <1>2, <3>1
    <3> QED  BY <2>2, <3>2 DEF RowIs
  <2> QED  BY <2>1, <2>2
<1> QED  BY <1>4, <1>7, <1>8 DEF t

LEMMA DeliveriesUpdated ==
    ASSUME NEW s, Sound(s), NEW m, NEW hit \in SUBSET Named(s, Deliveries, m), NEW change,
           "key" \notin DOMAIN change
    PROVE  LET t == Update(s, Deliveries, hit, change)
           IN  /\ Frame(s, t, m) /\ Named(t, Mailbox, m) = Named(s, Mailbox, m)
               /\ \A r : Named(s, Deliveries, m) = {r} =>
                      Named(t, Deliveries, m) = {IF r \in hit THEN Over(change, r) ELSE r}
               /\ Named(s, Deliveries, m) = {} => Named(t, Deliveries, m) = {}
<1> DEFINE t == Update(s, Deliveries, hit, change)
<1>1. s \in Stores
  BY DEF Sound
<1>2. /\ \A k : Named(t, Deliveries, k) =
             {IF r \in hit THEN Over(change, r) ELSE r : r \in Named(s, Deliveries, k)}
      /\ \A u \in TableNames \ {Deliveries} : Rows(t, u) = Rows(s, u)
      /\ t.serial = s.serial
  <2>1. \A r \in Rows(s, Deliveries) : Over(change, r).key = r.key
    BY OverKey, NamesAre
  <2> QED  BY <1>1, <2>1, UpdateNamed, NamesAre
<1> HIDE DEF t
<1>3. Rows(t, Mailbox) = Rows(s, Mailbox) /\ Rows(t, "refresh_tokens") = Rows(s, "refresh_tokens")
  BY <1>2, NamesAre
<1>4. \A k : Named(t, Mailbox, k) = Named(s, Mailbox, k)
  BY <1>3, NamedIs
<1>5. ASSUME NEW k, k # m PROVE Named(t, Deliveries, k) = Named(s, Deliveries, k)
  <2>1. \A r \in Named(s, Deliveries, k) : r \notin hit
    BY <1>5, NamedIs
  <2> QED  BY <1>2, <2>1
<1>6. Named(s, Deliveries, m) # {} => Named(t, Deliveries, m) # {}
  BY <1>2
<1>7. Frame(s, t, m)
  BY <1>3, <1>4, <1>5, <1>6 DEF Frame
<1>8. \A r : Named(s, Deliveries, m) = {r} =>
          Named(t, Deliveries, m) = {IF r \in hit THEN Over(change, r) ELSE r}
  BY <1>2
<1>9. Named(s, Deliveries, m) = {} => Named(t, Deliveries, m) = {}
  BY <1>2
<1> QED  BY <1>4, <1>7, <1>8, <1>9 DEF t

LEMMA AttemptsField ==
    ASSUME NEW m, NEW status, NEW n, NEW y, NEW k
    PROVE  [RecordWith(m, status, n, y) EXCEPT !.attempts = k] = RecordWith(m, status, k, y)
<1>1. [[key |-> m, status |-> status, attempts |-> n, retry |-> y] EXCEPT !.attempts = k]
          = [key |-> m, status |-> status, attempts |-> k, retry |-> y]
  OBVIOUS
<1> QED  BY <1>1 DEF RecordWith

LEMMA RetryField ==
    ASSUME NEW m, NEW status, NEW n, NEW y, NEW z
    PROVE  [RecordWith(m, status, n, y) EXCEPT !.retry = z] = RecordWith(m, status, n, z)
BY DEF RecordWith

LEMMA Attempted ==
    ASSUME NEW s, Sound(s), NEW m
    PROVE  LET t == Attempt(s, m)
           IN  /\ Frame(s, t, m) /\ Named(t, Mailbox, m) = Named(s, Mailbox, m)
               /\ \A status, n, y :
                      Named(s, Deliveries, m) = {RecordWith(m, status, n, y)} =>
                      Named(t, Deliveries, m) = {RecordWith(m, status, Raised(n), "future")}
<1> DEFINE t == Attempt(s, m)
           rows == s.tables[Deliveries]
           tried(r) == [r EXCEPT !.attempts = Raised(@), !.retry = "future"]
           left == [i \in DOMAIN rows |-> IF rows[i].key = m THEN tried(rows[i]) ELSE rows[i]]
<1>1. s \in Stores /\ rows \in Seq(DeliveryRow)
  BY SoundTables DEF Sound, Deliveries
<1>2. t = With(s, Deliveries, left)
  BY DEF Attempt
<1>3. \A r \in DeliveryRow : tried(r).key = r.key
  BY DEF DeliveryRow
<1> HIDE DEF t, rows, tried
<1>4. \A i \in DOMAIN rows : left[i].key = rows[i].key
  <2>1. \A i \in DOMAIN rows : rows[i] \in DeliveryRow
    BY <1>1
  <2> QED  BY <1>3, <2>1
<1>5. DOMAIN left = DOMAIN rows
  OBVIOUS
<1>6. \A i \in DOMAIN rows : left[i] = IF rows[i].key = m THEN tried(rows[i]) ELSE rows[i]
  OBVIOUS
<1> HIDE DEF left
<1>7. /\ Rows(t, Deliveries) = Range(left) /\ Rows(s, Deliveries) = Range(rows)
      /\ Rows(t, Mailbox) = Rows(s, Mailbox)
      /\ Rows(t, "refresh_tokens") = Rows(s, "refresh_tokens")
  BY <1>1, <1>2, WithRows, NamesAre DEF Rows, rows
<1>8. ASSUME NEW k, k # m PROVE Named(t, Deliveries, k) = Named(s, Deliveries, k)
  <2>1. ASSUME NEW r \in Named(t, Deliveries, k) PROVE r \in Named(s, Deliveries, k)
    <3>1. PICK i \in DOMAIN rows : r = left[i] /\ r.key = k
      BY <1>5, <1>7 DEF Named, Range
    <3>2. r = rows[i]
      BY <1>4, <1>6, <1>8, <3>1
    <3> QED  BY <1>7, <3>1, <3>2 DEF Named, Range
  <2>2. ASSUME NEW r \in Named(s, Deliveries, k) PROVE r \in Named(t, Deliveries, k)
    <3>1. PICK i \in DOMAIN rows : r = rows[i] /\ r.key = k
      BY <1>7 DEF Named, Range
    <3>2. r = left[i]
      BY <1>6, <1>8, <3>1
    <3> QED  BY <1>5, <1>7, <3>1, <3>2 DEF Named, Range
  <2> QED  BY <2>1, <2>2
<1>9. Named(t, Deliveries, m) = {tried(r) : r \in Named(s, Deliveries, m)}
  <2>1. ASSUME NEW r \in Named(t, Deliveries, m) PROVE r \in {tried(q) : q \in Named(s, Deliveries, m)}
    <3>1. PICK i \in DOMAIN rows : r = left[i] /\ r.key = m
      BY <1>5, <1>7 DEF Named, Range
    <3>2. r = tried(rows[i]) /\ rows[i].key = m
      BY <1>4, <1>6, <3>1
    <3>3. rows[i] \in Named(s, Deliveries, m)
      BY <1>7, <3>2 DEF Named, Range
    <3> QED  BY <3>2, <3>3
  <2>2. ASSUME NEW q \in Named(s, Deliveries, m) PROVE tried(q) \in Named(t, Deliveries, m)
    <3>1. PICK i \in DOMAIN rows : q = rows[i] /\ q.key = m
      BY <1>7 DEF Named, Range
    <3>2. tried(q) = left[i] /\ left[i].key = m
      BY <1>4, <1>6, <3>1
    <3> QED  BY <1>5, <1>7, <3>2 DEF Named, Range
  <2> QED  BY <2>1, <2>2
<1>10. \A k : Named(t, Mailbox, k) = Named(s, Mailbox, k)
  BY <1>7, NamedIs
<1>11. Frame(s, t, m)
  BY <1>7, <1>8, <1>9, <1>10 DEF Frame
<1>12. ASSUME NEW status, NEW n, NEW y
       PROVE  tried(RecordWith(m, status, n, y)) = RecordWith(m, status, Raised(n), "future")
  <2> DEFINE old == RecordWith(m, status, n, y)
             k == Raised(n)
  <2>1. old.attempts = n
    BY DEF RecordWith
  <2> HIDE DEF old, k
  <2>2. tried(old) = [old EXCEPT !.attempts = k, !.retry = "future"]
    BY <2>1 DEF tried, k
  <2>3. /\ [RecordWith(m, status, n, y) EXCEPT !.attempts = k] = RecordWith(m, status, k, y)
        /\ [RecordWith(m, status, k, y) EXCEPT !.retry = "future"]
               = RecordWith(m, status, k, "future")
    BY AttemptsField, RetryField
  <2>4. [old EXCEPT !.attempts = k, !.retry = "future"] = RecordWith(m, status, k, "future")
    BY <2>3 DEF old
  <2> QED  BY <2>2, <2>4 DEF k, old
<1>13. \A status, n, y :
          Named(s, Deliveries, m) = {RecordWith(m, status, n, y)} =>
          Named(t, Deliveries, m) = {RecordWith(m, status, Raised(n), "future")}
  <2> SUFFICES ASSUME NEW status, NEW n, NEW y,
                      Named(s, Deliveries, m) = {RecordWith(m, status, n, y)}
               PROVE  Named(t, Deliveries, m) = {RecordWith(m, status, Raised(n), "future")}
    OBVIOUS
  <2> DEFINE r == RecordWith(m, status, n, y)
  <2> HIDE DEF r
  <2>1. Named(s, Deliveries, m) = {r}
    BY DEF r
  <2>2. Named(t, Deliveries, m) = {tried(r)}
    BY <1>9, <2>1
  <2> QED  BY <1>12, <2>2 DEF r
<1> QED  BY <1>10, <1>11, <1>13 DEF t

-----------------------------------------------------------------------------
(* A statement does to the tables what MailboxRepository says its call     *)
(* does to the row, or to the record.                                      *)

ForRow(c) == \/ c.op \in {"queue", "deliver", "acknowledge"} /\ c.next = 1
             \/ c.op \in {"schedule", "fail"} /\ c.next = 2

\* the statement leaves the record as it is, and the row as it should be
RowWritten(s, t, c) ==
    /\ Named(t, Deliveries, c.key) = Named(s, Deliveries, c.key)
    /\ \A row \in RowType : RowIs(s, c.key, row) => RowIs(t, c.key, RowAfter(c, row, t.serial))

\* the statement leaves the row as it is, and the record as it should be
RecordWritten(s, t, c) ==
    /\ Named(t, Mailbox, c.key) = Named(s, Mailbox, c.key)
    /\ \A record \in RecordType, free \in BOOLEAN :
          /\ RecordIs(s, c.key, record, free)
          /\ c.op # "queue" => record.status # "none"
          => RecordIs(t, c.key, RecordAfter(c, record),
                      free \/ c.op \in {"acknowledge", "undecryptable"})

LEMMA QueueRow ==
    ASSUME NEW s, Sound(s), NEW c, c.op = "queue"
    PROVE  LET t == Queue(s, c.key, 1)
           IN  Frame(s, t, c.key) /\ RowWritten(s, t, c)
<1> DEFINE t == Queue(s, c.key, 1)
<1>1. t = Insert(s, Mailbox, Record(c.key, "queued"), "none")
  BY DEF Queue
<1>2. /\ Named(t, Mailbox, c.key) = {[key |-> c.key, status |-> "queued", id |-> s.serial + 1]}
      /\ \A k : k # c.key => Named(t, Mailbox, k) = Named(s, Mailbox, k)
      /\ \A u \in TableNames \ {Mailbox} : Rows(t, u) = Rows(s, u)
      /\ t.serial = s.serial + 1
  BY <1>1, InsertMailboxNamed
<1> HIDE DEF t
<1>3. Rows(t, Deliveries) = Rows(s, Deliveries) /\ Rows(t, "refresh_tokens") = Rows(s, "refresh_tokens")
  BY <1>2, NamesAre
<1>4. \A k : Named(t, Deliveries, k) = Named(s, Deliveries, k)
  BY <1>3, NamedIs
<1>5. Frame(s, t, c.key)
  BY <1>2, <1>3, <1>4 DEF Frame
<1>6. RowIs(t, c.key, QueuedRow(t.serial))
  BY <1>2 DEF RowIs, QueuedRow, Present
<1> QED  BY <1>4, <1>5, <1>6 DEF t, RowWritten, RowAfter

LEMMA ScheduleRow ==
    ASSUME NEW s, Sound(s), NEW c, c.op = "schedule"
    PROVE  LET t == Schedule(s, c.key, 2)
           IN  Frame(s, t, c.key) /\ RowWritten(s, t, c)
<1> DEFINE hit == RowsExcept(s, Mailbox, c.key, {"acknowledged", "failed"})
           t == Schedule(s, c.key, 2)
<1>1. t = Update(s, Mailbox, hit, [status |-> "queued"])
  BY DEF Schedule
<1>2. hit \in SUBSET Named(s, Mailbox, c.key)
  BY DEF RowsExcept
<1>3. /\ Frame(s, t, c.key) /\ Named(t, Deliveries, c.key) = Named(s, Deliveries, c.key)
      /\ \A row \in RowType : RowIs(s, c.key, row) =>
             RowIs(t, c.key, IF RowWith(c.key, row.status, row.id) \in hit
                             THEN [row EXCEPT !.status = "queued"] ELSE row)
  <2> HIDE DEF hit, t
  <2> QED  BY <1>1, <1>2, MailboxUpdated
<1> HIDE DEF t
<1>4. ASSUME NEW row \in RowType, RowIs(s, c.key, row)
      PROVE  RowIs(t, c.key, RescheduledRow(row))
  <2>1. Present(row) => RowWith(c.key, row.status, row.id) \in Named(s, Mailbox, c.key)
    BY <1>4 DEF RowIs, RowWith
  <2>2. ~ Present(row) => Named(s, Mailbox, c.key) = {}
    BY <1>4 DEF RowIs
  <2>3. RowWith(c.key, row.status, row.id).status = row.status /\ row.status \in RowStatus
    BY DEF RowWith, RowType
  <2>4. RowWith(c.key, row.status, row.id) \in hit <=> row.status \notin {"absent", "failed"}
    BY <2>1, <2>2, <2>3 DEF RowsExcept, RowStatus, Present
  <2>5. RescheduledRow(row) = IF RowWith(c.key, row.status, row.id) \in hit
                              THEN [row EXCEPT !.status = "queued"] ELSE row
    BY <2>4 DEF RescheduledRow
  <2> QED  BY <1>3, <1>4, <2>5
<1> QED  BY <1>3, <1>4 DEF t, RowWritten, RowAfter

LEMMA FailRow ==
    ASSUME NEW s, Sound(s), NEW c, c.op = "fail"
    PROVE  LET t == Fail(s, c.key, 2)
           IN  Frame(s, t, c.key) /\ RowWritten(s, t, c)
<1> DEFINE hit == Named(s, Mailbox, c.key)
           t == Fail(s, c.key, 2)
<1>1. t = Update(s, Mailbox, hit, [status |-> "failed"])
  BY DEF Fail
<1>2. /\ Frame(s, t, c.key) /\ Named(t, Deliveries, c.key) = Named(s, Deliveries, c.key)
      /\ \A row \in RowType : RowIs(s, c.key, row) =>
             RowIs(t, c.key, IF RowWith(c.key, row.status, row.id) \in hit
                             THEN [row EXCEPT !.status = "failed"] ELSE row)
  <2>1. hit \in SUBSET Named(s, Mailbox, c.key)
    OBVIOUS
  <2> HIDE DEF hit, t
  <2> QED  BY <1>1, <2>1, MailboxUpdated
<1> HIDE DEF t
<1>3. ASSUME NEW row \in RowType, RowIs(s, c.key, row)
      PROVE  RowIs(t, c.key, FailedRow(row))
  <2>1. Present(row) <=> RowWith(c.key, row.status, row.id) \in hit
    BY <1>3 DEF RowIs, RowWith
  <2>2. FailedRow(row) = IF RowWith(c.key, row.status, row.id) \in hit
                         THEN [row EXCEPT !.status = "failed"] ELSE row
    BY <2>1 DEF FailedRow
  <2> QED  BY <1>2, <1>3, <2>2
<1> QED  BY <1>2, <1>3 DEF t, RowWritten, RowAfter

LEMMA DeliverRow ==
    ASSUME NEW s, Sound(s), NEW c, c.op = "deliver", WithId(s, c.id) \subseteq Named(s, Mailbox, c.key)
    PROVE  LET t == Deliver(s, c.key, c.id, 1)
           IN  Frame(s, t, c.key) /\ RowWritten(s, t, c)
<1> DEFINE hit == WithId(s, c.id)
           t == Deliver(s, c.key, c.id, 1)
<1>1. t = Update(s, Mailbox, hit, [status |-> "delivered"])
  BY DEF Deliver
<1>2. /\ Frame(s, t, c.key) /\ Named(t, Deliveries, c.key) = Named(s, Deliveries, c.key)
      /\ \A row \in RowType : RowIs(s, c.key, row) =>
             RowIs(t, c.key, IF RowWith(c.key, row.status, row.id) \in hit
                             THEN [row EXCEPT !.status = "delivered"] ELSE row)
  <2>1. hit \in SUBSET Named(s, Mailbox, c.key)
    OBVIOUS
  <2> HIDE DEF hit, t
  <2> QED  BY <1>1, <2>1, MailboxUpdated
<1> HIDE DEF t
<1>3. ASSUME NEW row \in RowType, RowIs(s, c.key, row)
      PROVE  RowIs(t, c.key, DeliveredRow(row, c.id))
  <2>1. Present(row) <=> RowWith(c.key, row.status, row.id) \in Named(s, Mailbox, c.key)
    BY <1>3 DEF RowIs, RowWith
  <2>2. RowWith(c.key, row.status, row.id).id = row.id
    BY DEF RowWith
  <2>3. RowWith(c.key, row.status, row.id) \in hit <=> Present(row) /\ row.id = c.id
    BY <2>1, <2>2, NamedIs DEF WithId
  <2>4. DeliveredRow(row, c.id) = IF RowWith(c.key, row.status, row.id) \in hit
                                  THEN [row EXCEPT !.status = "delivered"] ELSE row
    BY <2>3 DEF DeliveredRow
  <2> QED  BY <1>2, <1>3, <2>4
<1> QED  BY <1>2, <1>3 DEF t, RowWritten, RowAfter

LEMMA AcknowledgeRow ==
    ASSUME NEW s, Sound(s), NEW c, c.op = "acknowledge",
           WithId(s, c.id) \subseteq Named(s, Mailbox, c.key)
    PROVE  LET t == Acknowledge(s, c.key, c.id, 1)
           IN  Frame(s, t, c.key) /\ RowWritten(s, t, c)
<1> DEFINE hit == WithId(s, c.id) \cup Named(s, Mailbox, c.key)
           t == Acknowledge(s, c.key, c.id, 1)
<1>1. t = Delete(s, Mailbox, hit) /\ hit = Named(s, Mailbox, c.key)
  BY DEF Acknowledge
<1>2. /\ \A k : Named(t, Mailbox, k) = Named(s, Mailbox, k) \ hit
      /\ \A u \in TableNames \ {Mailbox} : Rows(t, u) = Rows(s, u)
      /\ t.serial = s.serial
  <2> HIDE DEF hit, t
  <2> QED  BY <1>1, DeleteNamed
<1> HIDE DEF t, hit
<1>3. Rows(t, Deliveries) = Rows(s, Deliveries) /\ Rows(t, "refresh_tokens") = Rows(s, "refresh_tokens")
  BY <1>2, NamesAre
<1>4. \A k : Named(t, Deliveries, k) = Named(s, Deliveries, k)
  BY <1>3, NamedIs
<1>5. ASSUME NEW k, k # c.key PROVE Named(t, Mailbox, k) = Named(s, Mailbox, k)
  <2>1. \A r \in Named(s, Mailbox, k) : r \notin hit
    BY <1>1, <1>5, NamedIs
  <2> QED  BY <1>2, <2>1
<1>6. Named(t, Mailbox, c.key) = {}
  BY <1>1, <1>2
<1>7. Frame(s, t, c.key)
  BY <1>3, <1>4, <1>5, <1>6 DEF Frame
<1>8. \A row \in RowType : RowIs(t, c.key, AcknowledgedRow(row))
  BY <1>6 DEF RowIs, AcknowledgedRow, Present, RowType
<1> QED  BY <1>4, <1>7, <1>8 DEF t, RowWritten, RowAfter

\* The record that a table holds, with the attempt_count and the time it has.
LEMMA RecordHeld ==
    ASSUME NEW s, NEW m, NEW record, NEW free, record.status # "none"
    PROVE  RecordIs(s, m, record, free) <=>
               \E n \in 0 .. MaxRetries, y \in Times :
                  /\ Named(s, Deliveries, m) = {RecordWith(m, record.status, n, y)}
                  /\ record.due <=> y # "future"
                  /\ free \/ n = record.attempts
BY DEF RecordIs, RecordWith

LEMMA RecordShown ==
    ASSUME NEW s, NEW m, NEW record, NEW free, NEW n \in 0 .. MaxRetries, NEW y \in Times,
           NEW status, status # "none", record.status = status,
           Named(s, Deliveries, m) = {RecordWith(m, status, n, y)},
           record.due <=> y # "future",
           free \/ n = record.attempts
    PROVE  RecordIs(s, m, record, free)
BY RecordHeld

\* What an UPDATE of the record makes of it.
LEMMA RecordUpdated ==
    ASSUME NEW s, Sound(s), NEW m, NEW hit \in SUBSET Named(s, Deliveries, m), NEW change,
           "key" \notin DOMAIN change
    PROVE  LET t == Update(s, Deliveries, hit, change)
           IN  /\ Frame(s, t, m) /\ Named(t, Mailbox, m) = Named(s, Mailbox, m)
               /\ \A status, n, y :
                     Named(s, Deliveries, m) = {RecordWith(m, status, n, y)} =>
                     Named(t, Deliveries, m) =
                         {IF RecordWith(m, status, n, y) \in hit
                          THEN Over(change, RecordWith(m, status, n, y))
                          ELSE RecordWith(m, status, n, y)}
BY DeliveriesUpdated

LEMMA UpsertFrame ==
    ASSUME NEW s, Sound(s), NEW m, NEW values,
           values \in {[key |-> m, status |-> "queued", attempts |-> 0, retry |-> "past"],
                       [key |-> m, status |-> "acknowledged", retry |-> "null"],
                       [key |-> m, status |-> "decryption_failed"]}
    PROVE  LET t == Insert(s, Deliveries, values, "update")
           IN  /\ Frame(s, t, m) /\ Named(t, Mailbox, m) = Named(s, Mailbox, m)
               /\ Named(t, Deliveries, m) # {}
               /\ "retry" \in DOMAIN values =>
                      Named(t, Deliveries, m) = {RecordWith(m, values.status, 0, values.retry)}
               /\ \A old \in Named(s, Deliveries, m) : "retry" \notin DOMAIN values =>
                      Named(t, Deliveries, m) = {RecordWith(m, values.status, 0, old.retry)}
<1> DEFINE t == Insert(s, Deliveries, values, "update")
<1>1. /\ \A k : k # m => Named(t, Deliveries, k) = Named(s, Deliveries, k)
      /\ Named(t, Deliveries, m) # {}
      /\ "retry" \in DOMAIN values =>
             Named(t, Deliveries, m) =
                 {[key |-> m, status |-> values.status, attempts |-> 0, retry |-> values.retry]}
      /\ \A old \in Named(s, Deliveries, m) : "retry" \notin DOMAIN values =>
             Named(t, Deliveries, m) =
                 {[key |-> m, status |-> values.status, attempts |-> 0, retry |-> old.retry]}
      /\ \A u \in TableNames \ {Deliveries} : Rows(t, u) = Rows(s, u)
      /\ t.serial = s.serial
  BY UpsertNamed
<1> HIDE DEF t
<1>2. Rows(t, Mailbox) = Rows(s, Mailbox) /\ Rows(t, "refresh_tokens") = Rows(s, "refresh_tokens")
  BY <1>1, NamesAre
<1>3. \A k : Named(t, Mailbox, k) = Named(s, Mailbox, k)
  BY <1>2, NamedIs
<1>4. Frame(s, t, m)
  BY <1>1, <1>2, <1>3 DEF Frame
<1> QED  BY <1>1, <1>3, <1>4 DEF t, RecordWith

LEMMA QueueRecord ==
    ASSUME NEW s, Sound(s), NEW c, c.op = "queue"
    PROVE  LET t == Queue(s, c.key, 2)
           IN  Frame(s, t, c.key) /\ RecordWritten(s, t, c) /\ Named(t, Deliveries, c.key) # {}
<1> DEFINE values == [key |-> c.key, status |-> "queued", attempts |-> 0, retry |-> "past"]
           t == Queue(s, c.key, 2)
<1>1. t = Insert(s, Deliveries, values, "update")
  BY DEF Queue
<1>2. "retry" \in DOMAIN values /\ values.status = "queued" /\ values.retry = "past"
  OBVIOUS
<1> HIDE DEF t
<1>3. /\ Frame(s, t, c.key) /\ Named(t, Mailbox, c.key) = Named(s, Mailbox, c.key)
      /\ Named(t, Deliveries, c.key) # {}
      /\ Named(t, Deliveries, c.key) = {RecordWith(c.key, "queued", 0, "past")}
  BY <1>1, <1>2, UpsertFrame
<1>4. \A free \in BOOLEAN : RecordIs(t, c.key, QueuedRecord, free)
  <2>1. /\ QueuedRecord.status = "queued" /\ QueuedRecord.attempts = 0 /\ QueuedRecord.due = TRUE
        /\ 0 \in 0 .. MaxRetries /\ "past" \in Times
    BY MaxRetriesAssumption DEF QueuedRecord, Times
  <2> QED  BY <1>3, <2>1, RecordShown
<1>5. RecordWritten(s, t, c)
  BY <1>3, <1>4 DEF RecordWritten, RecordAfter
<1> QED  BY <1>3, <1>5 DEF t

LEMMA AcknowledgeRecord ==
    ASSUME NEW s, Sound(s), NEW c, c.op = "acknowledge"
    PROVE  LET t == Acknowledge(s, c.key, c.id, 2)
           IN  Frame(s, t, c.key) /\ RecordWritten(s, t, c)
<1> DEFINE values == [key |-> c.key, status |-> "acknowledged", retry |-> "null"]
           t == Acknowledge(s, c.key, c.id, 2)
<1>1. t = Insert(s, Deliveries, values, "update")
  BY DEF Acknowledge
<1>2. "retry" \in DOMAIN values /\ values.status = "acknowledged" /\ values.retry = "null"
  OBVIOUS
<1> HIDE DEF t
<1>3. /\ Frame(s, t, c.key) /\ Named(t, Mailbox, c.key) = Named(s, Mailbox, c.key)
      /\ Named(t, Deliveries, c.key) = {RecordWith(c.key, "acknowledged", 0, "null")}
  BY <1>1, <1>2, UpsertFrame
<1>4. ASSUME NEW record \in RecordType
      PROVE  RecordIs(t, c.key, AcknowledgedRecord(record), TRUE)
  <2> DEFINE new == AcknowledgedRecord(record)
  <2>1. /\ new.status = "acknowledged" /\ new.due = TRUE
        /\ 0 \in 0 .. MaxRetries /\ "null" \in Times /\ "null" # "future"
    BY MaxRetriesAssumption DEF AcknowledgedRecord, RecordType, Times
  <2> HIDE DEF new
  <2>2. RecordIs(t, c.key, new, TRUE)
    BY <1>3, <2>1, RecordShown
  <2> QED  BY <2>2 DEF new
<1>5. RecordWritten(s, t, c)
  BY <1>3, <1>4 DEF RecordWritten, RecordAfter
<1> QED  BY <1>3, <1>5 DEF t

LEMMA UndecryptableRecordWritten ==
    ASSUME NEW s, Sound(s), NEW c, c.op = "undecryptable"
    PROVE  LET t == Undecryptable(s, c.key)
           IN  Frame(s, t, c.key) /\ RecordWritten(s, t, c)
<1> DEFINE values == [key |-> c.key, status |-> "decryption_failed"]
           t == Undecryptable(s, c.key)
<1>1. t = Insert(s, Deliveries, values, "update")
  BY DEF Undecryptable, Record
<1>2. "retry" \notin DOMAIN values /\ values.status = "decryption_failed"
  OBVIOUS
<1> HIDE DEF t
<1>3. /\ Frame(s, t, c.key) /\ Named(t, Mailbox, c.key) = Named(s, Mailbox, c.key)
      /\ \A old \in Named(s, Deliveries, c.key) :
            Named(t, Deliveries, c.key) = {RecordWith(c.key, "decryption_failed", 0, old.retry)}
  BY <1>1, <1>2, UpsertFrame
<1>4. ASSUME NEW record \in RecordType, NEW free \in BOOLEAN,
             RecordIs(s, c.key, record, free), record.status # "none"
      PROVE  RecordIs(t, c.key, UndecryptableRecord(record), TRUE)
  <2>1. PICK n \in 0 .. MaxRetries, y \in Times :
           /\ Named(s, Deliveries, c.key) = {RecordWith(c.key, record.status, n, y)}
           /\ record.due <=> y # "future"
    BY <1>4, RecordHeld
  <2>2. RecordWith(c.key, record.status, n, y).retry = y
    BY DEF RecordWith
  <2>3. Named(t, Deliveries, c.key) = {RecordWith(c.key, "decryption_failed", 0, y)}
    BY <1>3, <2>1, <2>2
  <2>4. /\ UndecryptableRecord(record).status = "decryption_failed"
        /\ UndecryptableRecord(record).due = record.due /\ 0 \in 0 .. MaxRetries
    BY MaxRetriesAssumption DEF UndecryptableRecord, RecordType
  <2> QED  BY <2>1, <2>3, <2>4, RecordShown
<1>5. RecordWritten(s, t, c)
  BY <1>3, <1>4 DEF RecordWritten, RecordAfter
<1> QED  BY <1>3, <1>5 DEF t

LEMMA AttemptRecord ==
    ASSUME NEW s, Sound(s), NEW c, c.op = "attempt"
    PROVE  LET t == Attempt(s, c.key)
           IN  Frame(s, t, c.key) /\ RecordWritten(s, t, c)
<1> DEFINE t == Attempt(s, c.key)
<1>1. /\ Frame(s, t, c.key) /\ Named(t, Mailbox, c.key) = Named(s, Mailbox, c.key)
      /\ \A status, n, y :
             Named(s, Deliveries, c.key) = {RecordWith(c.key, status, n, y)} =>
             Named(t, Deliveries, c.key) = {RecordWith(c.key, status, Raised(n), "future")}
  BY Attempted
<1> HIDE DEF t
<1>2. ASSUME NEW record \in RecordType, NEW free \in BOOLEAN,
             RecordIs(s, c.key, record, free), record.status # "none"
      PROVE  RecordIs(t, c.key, AttemptedRecord(record), free)
  <2>1. PICK n \in 0 .. MaxRetries, y \in Times :
           /\ Named(s, Deliveries, c.key) = {RecordWith(c.key, record.status, n, y)}
           /\ free \/ n = record.attempts
    BY <1>2, RecordHeld
  <2>2. Named(t, Deliveries, c.key) = {RecordWith(c.key, record.status, Raised(n), "future")}
    BY <1>1, <2>1
  <2>3. Raised(n) \in 0 .. MaxRetries /\ "future" \in Times
    BY MaxRetriesAssumption DEF Raised, Times
  <2> DEFINE new == AttemptedRecord(record)
             raised == Raised(n)
  <2>4. /\ new.status = record.status /\ new.due = FALSE
        /\ new.attempts = Raised(record.attempts)
    BY DEF AttemptedRecord, RecordType, Raised
  <2>5. free \/ raised = new.attempts
    BY <2>1, <2>4
  <2> HIDE DEF new, raised
  <2>6. /\ raised \in 0 .. MaxRetries
        /\ Named(t, Deliveries, c.key) = {RecordWith(c.key, record.status, raised, "future")}
    BY <2>2, <2>3 DEF raised
  <2>7. RecordIs(t, c.key, new, free)
    BY <1>2, <2>3, <2>4, <2>5, <2>6, RecordShown
  <2> QED  BY <2>7 DEF new
<1>3. RecordWritten(s, t, c)
  BY <1>1, <1>2 DEF RecordWritten, RecordAfter
<1> QED  BY <1>1, <1>3 DEF t

LEMMA ScheduleRecord ==
    ASSUME NEW s, Sound(s), NEW c, c.op = "schedule"
    PROVE  LET t == Schedule(s, c.key, 1)
           IN  Frame(s, t, c.key) /\ RecordWritten(s, t, c)
<1> DEFINE hit == RowsExcept(s, Deliveries, c.key, {"acknowledged", "read", "failed"})
           change == [status |-> "queued", retry |-> "future"]
           t == Schedule(s, c.key, 1)
<1>1. t = Update(s, Deliveries, hit, change) /\ hit \in SUBSET Named(s, Deliveries, c.key)
      /\ "key" \notin DOMAIN change
  BY DEF Schedule, RowsExcept
<1>2. /\ Frame(s, t, c.key) /\ Named(t, Mailbox, c.key) = Named(s, Mailbox, c.key)
      /\ \A status, n, y :
            Named(s, Deliveries, c.key) = {RecordWith(c.key, status, n, y)} =>
            Named(t, Deliveries, c.key) =
                {IF RecordWith(c.key, status, n, y) \in hit
                 THEN Over(change, RecordWith(c.key, status, n, y))
                 ELSE RecordWith(c.key, status, n, y)}
  <2> HIDE DEF hit, change, t
  <2> QED  BY <1>1, RecordUpdated
<1> HIDE DEF t
<1>3. ASSUME NEW record \in RecordType, NEW free \in BOOLEAN,
             RecordIs(s, c.key, record, free), record.status # "none"
      PROVE  RecordIs(t, c.key, RescheduledRecord(record), free)
  <2>1. PICK n \in 0 .. MaxRetries, y \in Times :
           /\ Named(s, Deliveries, c.key) = {RecordWith(c.key, record.status, n, y)}
           /\ record.due <=> y # "future"
           /\ free \/ n = record.attempts
    BY <1>3, RecordHeld
  <2> DEFINE old == RecordWith(c.key, record.status, n, y)
             settled == record.status \in {"acknowledged", "read", "failed"}
  <2>2. old.status = record.status /\ old \in Named(s, Deliveries, c.key)
    BY <2>1 DEF RecordWith
  <2>3. old \in hit <=> ~ settled
    BY <2>2 DEF RowsExcept
  <2>4. Over(change, old) = RecordWith(c.key, "queued", n, "future")
    BY Overs
  <2>5. CASE settled
    <3>1. Named(t, Deliveries, c.key) = {old} /\ RescheduledRecord(record) = record
      BY <1>2, <2>1, <2>3, <2>5 DEF RescheduledRecord
    <3> QED  BY <1>3, <2>1, <3>1, RecordHeld
  <2>6. CASE ~ settled
    <3>1. Named(t, Deliveries, c.key) = {RecordWith(c.key, "queued", n, "future")}
      BY <1>2, <2>1, <2>3, <2>4, <2>6
    <3>2. /\ RescheduledRecord(record).status = "queued"
          /\ RescheduledRecord(record).due = FALSE
          /\ RescheduledRecord(record).attempts = record.attempts /\ "future" \in Times
      BY <2>6 DEF RescheduledRecord, RecordType, Times
    <3> QED  BY <2>1, <3>1, <3>2, RecordShown
  <2> QED  BY <2>5, <2>6
<1>4. RecordWritten(s, t, c)
  BY <1>2, <1>3 DEF RecordWritten, RecordAfter
<1> QED  BY <1>2, <1>4 DEF t

LEMMA FailRecord ==
    ASSUME NEW s, Sound(s), NEW c, c.op = "fail"
    PROVE  LET t == Fail(s, c.key, 1)
           IN  Frame(s, t, c.key) /\ RecordWritten(s, t, c)
<1> DEFINE hit == Named(s, Deliveries, c.key)
           change == [status |-> "failed", retry |-> "null"]
           t == Fail(s, c.key, 1)
<1>1. t = Update(s, Deliveries, hit, change) /\ hit \in SUBSET Named(s, Deliveries, c.key)
      /\ "key" \notin DOMAIN change
  BY DEF Fail
<1>2. /\ Frame(s, t, c.key) /\ Named(t, Mailbox, c.key) = Named(s, Mailbox, c.key)
      /\ \A status, n, y :
            Named(s, Deliveries, c.key) = {RecordWith(c.key, status, n, y)} =>
            Named(t, Deliveries, c.key) =
                {IF RecordWith(c.key, status, n, y) \in hit
                 THEN Over(change, RecordWith(c.key, status, n, y))
                 ELSE RecordWith(c.key, status, n, y)}
  <2> HIDE DEF hit, change, t
  <2> QED  BY <1>1, RecordUpdated
<1> HIDE DEF t
<1>3. ASSUME NEW record \in RecordType, NEW free \in BOOLEAN,
             RecordIs(s, c.key, record, free), record.status # "none"
      PROVE  RecordIs(t, c.key, FailedRecord(record), free)
  <2>1. PICK n \in 0 .. MaxRetries, y \in Times :
           /\ Named(s, Deliveries, c.key) = {RecordWith(c.key, record.status, n, y)}
           /\ free \/ n = record.attempts
    BY <1>3, RecordHeld
  <2>2. Over(change, RecordWith(c.key, record.status, n, y)) = RecordWith(c.key, "failed", n, "null")
    BY Overs
  <2>3. Named(t, Deliveries, c.key) = {RecordWith(c.key, "failed", n, "null")}
    BY <1>2, <2>1, <2>2
  <2>4. /\ FailedRecord(record).status = "failed" /\ FailedRecord(record).due = TRUE
        /\ FailedRecord(record).attempts = record.attempts /\ "null" \in Times
    BY DEF FailedRecord, RecordType, Times
  <2> QED  BY <2>1, <2>3, <2>4, RecordShown
<1>4. RecordWritten(s, t, c)
  BY <1>2, <1>3 DEF RecordWritten, RecordAfter
<1> QED  BY <1>2, <1>4 DEF t

\* markDelivered and markRead write the status alone.
LEMMA StatusRecord ==
    ASSUME NEW s, Sound(s), NEW c, c.op \in {"deliver", "read"}, NEW x \in {"delivered", "read"},
           c.op = "deliver" <=> x = "delivered"
    PROVE  LET t == Update(s, Deliveries, Named(s, Deliveries, c.key), [status |-> x])
           IN  Frame(s, t, c.key) /\ RecordWritten(s, t, c)
<1> DEFINE hit == Named(s, Deliveries, c.key)
           change == [status |-> x]
           t == Update(s, Deliveries, hit, change)
<1>1. hit \in SUBSET Named(s, Deliveries, c.key) /\ "key" \notin DOMAIN change
  OBVIOUS
<1>2. /\ Frame(s, t, c.key) /\ Named(t, Mailbox, c.key) = Named(s, Mailbox, c.key)
      /\ \A status, n, y :
            Named(s, Deliveries, c.key) = {RecordWith(c.key, status, n, y)} =>
            Named(t, Deliveries, c.key) =
                {IF RecordWith(c.key, status, n, y) \in hit
                 THEN Over(change, RecordWith(c.key, status, n, y))
                 ELSE RecordWith(c.key, status, n, y)}
  <2> HIDE DEF hit, change
  <2> QED  BY <1>1, RecordUpdated
<1> HIDE DEF t
<1>3. ASSUME NEW record \in RecordType, NEW free \in BOOLEAN,
             RecordIs(s, c.key, record, free), record.status # "none"
      PROVE  RecordIs(t, c.key, RecordAfter(c, record), free)
  <2>1. PICK n \in 0 .. MaxRetries, y \in Times :
           /\ Named(s, Deliveries, c.key) = {RecordWith(c.key, record.status, n, y)}
           /\ record.due <=> y # "future"
           /\ free \/ n = record.attempts
    BY <1>3, RecordHeld
  <2>2. Over(change, RecordWith(c.key, record.status, n, y)) = RecordWith(c.key, x, n, y)
    BY Overs
  <2>3. Named(t, Deliveries, c.key) = {RecordWith(c.key, x, n, y)}
    BY <1>2, <2>1, <2>2
  <2>4. RecordAfter(c, record) = [record EXCEPT !.status = x]
    BY <1>3 DEF RecordAfter, DeliveredRecord, ReadRecord
  <2> DEFINE new == RecordAfter(c, record)
  <2>5. /\ new.status = x /\ new.due = record.due /\ new.attempts = record.attempts
        /\ x # "none"
    BY <2>4 DEF RecordType
  <2> HIDE DEF new
  <2>6. RecordIs(t, c.key, new, free)
    BY <2>1, <2>3, <2>5, RecordShown
  <2> QED  BY <2>6 DEF new
<1>4. RecordWritten(s, t, c)
  BY <1>2, <1>3 DEF RecordWritten
<1> QED  BY <1>2, <1>4 DEF t

\* One statement of a call of MailboxRepository.
LEMMA EffectWrites ==
    ASSUME NEW s, Sound(s), NEW c, CallFits(c), c.op \in Ops \ {"refuse"}, c.next <= Length[c.op],
           c.op \in {"deliver", "acknowledge"} => WithId(s, c.id) \subseteq Named(s, Mailbox, c.key)
    PROVE  LET t == Effect(s, c, c.next)
           IN  /\ Frame(s, t, c.key)
               /\ ForRow(c) => RowWritten(s, t, c)
               /\ ~ ForRow(c) => RecordWritten(s, t, c)
               /\ c.op = "queue" /\ c.next = 2 => Named(t, Deliveries, c.key) # {}
<1> DEFINE t == Effect(s, c, c.next)
<1>1. c.next \in {1, 2} /\ Length[c.op] \in {1, 2}
  <2>1. c.next \in 1 .. Length[c.op] + 1 /\ Length[c.op] \in {1, 2}
    BY OpsAre DEF CallFits
  <2> QED  BY <2>1
<1>2. CASE c.op = "queue"
  <2>1. CASE c.next = 1
    BY <1>2, <2>1, QueueRow DEF Effect, ForRow
  <2>2. CASE c.next = 2
    BY <1>2, <2>2, QueueRecord DEF Effect, ForRow
  <2> QED  BY <1>1, <2>1, <2>2
<1>3. CASE c.op = "attempt"
  BY <1>3, AttemptRecord DEF Effect, ForRow
<1>4. CASE c.op = "schedule"
  <2>1. CASE c.next = 1
    BY <1>4, <2>1, ScheduleRecord DEF Effect, ForRow
  <2>2. CASE c.next = 2
    BY <1>4, <2>2, ScheduleRow DEF Effect, ForRow
  <2> QED  BY <1>1, <2>1, <2>2
<1>5. CASE c.op = "fail"
  <2>1. CASE c.next = 1
    BY <1>5, <2>1, FailRecord DEF Effect, ForRow
  <2>2. CASE c.next = 2
    BY <1>5, <2>2, FailRow DEF Effect, ForRow
  <2> QED  BY <1>1, <2>1, <2>2
<1>6. CASE c.op = "deliver"
  <2>1. CASE c.next = 1
    BY <1>6, <2>1, DeliverRow DEF Effect, ForRow
  <2>2. CASE c.next = 2
    <3>1. t = Update(s, Deliveries, Named(s, Deliveries, c.key), [status |-> "delivered"])
      BY <1>6, <2>2 DEF Effect, Deliver
    <3> QED  BY <1>6, <2>2, <3>1, StatusRecord DEF ForRow
  <2> QED  BY <1>1, <2>1, <2>2
<1>7. CASE c.op = "acknowledge"
  <2>1. CASE c.next = 1
    BY <1>7, <2>1, AcknowledgeRow DEF Effect, ForRow
  <2>2. CASE c.next = 2
    BY <1>7, <2>2, AcknowledgeRecord DEF Effect, ForRow
  <2> QED  BY <1>1, <2>1, <2>2
<1>8. CASE c.op = "read"
  <2>1. t = Update(s, Deliveries, Named(s, Deliveries, c.key), [status |-> "read"])
    BY <1>8 DEF Effect, Read
  <2> QED  BY <1>8, <2>1, StatusRecord DEF ForRow
<1>9. CASE c.op = "undecryptable"
  BY <1>9, UndecryptableRecordWritten DEF Effect, ForRow
<1> QED  BY <1>2, <1>3, <1>4, <1>5, <1>6, <1>7, <1>8, <1>9, OpsAre

-----------------------------------------------------------------------------
(* A statement brings the row or the record of its message one step closer *)
(* to what the call promises.                                              *)

LEMMA HoldsSame ==
    ASSUME NEW s, NEW t, NEW m, Named(t, Mailbox, m) = Named(s, Mailbox, m),
           Named(t, Deliveries, m) = Named(s, Deliveries, m),
           NEW free, NEW later, free => later
    PROVE  \A row, record : HoldsIn(s, free, m, row, record) => HoldsIn(t, later, m, row, record)
BY DEF HoldsIn, RowIs, RecordIs

LEMMA RecordFreer ==
    ASSUME NEW s, NEW m, NEW record, NEW free, NEW later, free => later,
           RecordIs(s, m, record, free)
    PROVE  RecordIs(s, m, record, later)
BY DEF RecordIs

\* c has executed its first statement that was left: this is how it goes on.
Follows(new, c, serial) ==
    /\ new.op = c.op /\ new.key = c.key /\ new.next = c.next + 1
    /\ new.id = IF c.op = "queue" /\ c.next = 1 THEN serial ELSE c.id

LEMMA DoneNext ==
    ASSUME NEW c, CallFits(c), c.op \in Ops \ {"refuse"}, c.next <= Length[c.op],
           NEW serial, NEW new, Follows(new, c, serial)
    PROVE  /\ ForRow(c) => /\ ~ RowDone(c) /\ RowDone(new)
                           /\ RecordDone(new) <=> RecordDone(c)
           /\ ~ ForRow(c) => /\ ~ RecordDone(c) /\ RecordDone(new)
                             /\ RowDone(new) <=> RowDone(c)
<1>1. /\ c.next \in 1 .. Length[c.op] + 1 /\ Length[c.op] \in {1, 2}
      /\ Length["attempt"] = 1 /\ Length["read"] = 1 /\ Length["undecryptable"] = 1
  BY OpsAre DEF CallFits, Length
<1>2. c.next \in {1, 2} /\ (c.op \in {"attempt", "read", "undecryptable"} => c.next = 1)
  BY <1>1
<1>3. c.op \in {"queue", "attempt", "schedule", "fail", "deliver", "acknowledge", "read",
                "undecryptable"}
  BY OpsAre
<1>4. new.op = c.op /\ new.next = c.next + 1
  BY DEF Follows
<1>5. CASE c.next = 1
  BY <1>3, <1>4, <1>5 DEF ForRow, RowDone, RecordDone
<1>6. CASE c.next = 2
  BY <1>2, <1>3, <1>4, <1>6 DEF ForRow, RowDone, RecordDone
<1> QED  BY <1>2, <1>5, <1>6

LEMMA OutcomeIs ==
    ASSUME NEW p, NEW c, c.op = "queue" => ~ Present(p.row)
    PROVE  /\ Outcome(p, c).row = RowAfter(c, p.row, c.id)
           /\ Outcome(p, c).record = RecordAfter(c, p.record)
BY DEF Outcome

LEMMA AfterNext ==
    ASSUME NEW c, NEW serial, NEW new, Follows(new, c, serial), NEW row, NEW record
    PROVE  /\ RecordAfter(new, record) = RecordAfter(c, record)
           /\ c.op = "queue" /\ c.next = 1 => RowAfter(new, row, new.id) = RowAfter(c, row, serial)
           /\ c.op # "queue" => RowAfter(new, row, new.id) = RowAfter(c, row, serial)
           /\ ~ (c.op = "queue" /\ c.next = 1) => RowAfter(new, row, new.id) = RowAfter(c, row, c.id)
<1>1. RecordAfter(new, record) = RecordAfter(c, record)
  BY DEF Follows, RecordAfter
<1>2. CASE c.op = "queue"
  BY <1>1, <1>2 DEF Follows, RowAfter
<1>3. CASE c.op # "queue"
  BY <1>1, <1>3 DEF Follows, RowAfter
<1> QED  BY <1>2, <1>3

LEMMA OwnStatement ==
    ASSUME NEW s, Sound(s), NEW c, CallFits(c), c.op \in Ops \ {"refuse"}, c.next <= Length[c.op],
           c.op \in {"deliver", "acknowledge"} => WithId(s, c.id) \subseteq Named(s, Mailbox, c.key),
           NEW t, t = Effect(s, c, c.next), NEW new, Follows(new, c, t.serial),
           NEW p \in [row : RowType, record : RecordType],
           NEW free \in BOOLEAN, NEW later \in BOOLEAN, free => later,
           c.op \in {"acknowledge", "undecryptable"} => later,
           HoldsIn(s, free, c.key, RowNow(p, c), RecordNow(p, c)),
           c.op # "queue" => Named(s, Deliveries, c.key) # {},
           c.op = "queue" /\ c.next = 1 => Named(s, Mailbox, c.key) = {},
           c.op = "queue" /\ c.next > 1 => ~ Present(p.row)
    PROVE  /\ HoldsIn(t, later, c.key, RowNow(p, new), RecordNow(p, new))
           /\ c.op = "queue" => ~ Present(p.row)
<1>1. /\ ForRow(c) => RowWritten(s, t, c)
      /\ ~ ForRow(c) => RecordWritten(s, t, c)
  BY EffectWrites
<1>2. RowIs(s, c.key, RowNow(p, c)) /\ RecordIs(s, c.key, RecordNow(p, c), free)
  BY DEF HoldsIn
<1>3. p.row \in RowType /\ p.record \in RecordType
  OBVIOUS
<1>4. new.op = c.op /\ (~ (c.op = "queue" /\ c.next = 1) => new.id = c.id)
  BY DEF Follows
<1>5. c.next > 1 \/ c.next = 1
  BY DEF CallFits
<1>6. /\ ForRow(c) => /\ ~ RowDone(c) /\ RowDone(new)
                      /\ RecordDone(new) <=> RecordDone(c)
      /\ ~ ForRow(c) => /\ ~ RecordDone(c) /\ RecordDone(new)
                        /\ RowDone(new) <=> RowDone(c)
  BY DoneNext
<1>7. c.op = "queue" => ~ Present(p.row)
  <2> SUFFICES ASSUME c.op = "queue", c.next = 1 PROVE ~ Present(p.row)
    BY <1>5
  <2>1. RowNow(p, c) = p.row
    BY DEF RowNow, RowDone
  <2> QED  BY <1>2, <2>1 DEF RowIs
<1>8. /\ Outcome(p, c).row = RowAfter(c, p.row, c.id)
      /\ Outcome(p, c).record = RecordAfter(c, p.record)
  BY <1>7, OutcomeIs
<1>9. /\ Outcome(p, new).row = RowAfter(new, p.row, new.id)
      /\ Outcome(p, new).record = RecordAfter(c, p.record)
  BY <1>4, <1>7, OutcomeIs, AfterNext
<1>10. CASE ForRow(c)
  <2>1. RowNow(p, c) = p.row /\ RowNow(p, new) = RowAfter(new, p.row, new.id)
    BY <1>6, <1>9, <1>10 DEF RowNow
  <2>2. RecordNow(p, new) = RecordNow(p, c)
    BY <1>6, <1>8, <1>9, <1>10 DEF RecordNow
  <2>3. RowAfter(new, p.row, new.id) = RowAfter(c, p.row, t.serial)
    BY <1>10, AfterNext DEF ForRow
  <2>4. RowIs(t, c.key, RowNow(p, new))
    BY <1>1, <1>2, <1>3, <1>10, <2>1, <2>3 DEF RowWritten
  <2>5. RecordIs(t, c.key, RecordNow(p, c), free)
    BY <1>1, <1>2, <1>10 DEF RowWritten, RecordIs
  <2>6. RecordIs(t, c.key, RecordNow(p, new), later)
    BY <2>2, <2>5, RecordFreer
  <2> QED  BY <1>7, <2>4, <2>6 DEF HoldsIn
<1>11. CASE ~ ForRow(c)
  <2>1. RecordNow(p, c) = p.record /\ RecordNow(p, new) = RecordAfter(c, p.record)
    BY <1>6, <1>9, <1>11 DEF RecordNow
  <2>2. ~ (c.op = "queue" /\ c.next = 1)
    BY <1>11 DEF ForRow
  <2>3. RowNow(p, new) = RowNow(p, c)
    BY <1>6, <1>8, <1>9, <1>11, <2>2, AfterNext DEF RowNow
  <2>4. RowIs(t, c.key, RowNow(p, new))
    BY <1>1, <1>2, <1>11, <2>3 DEF RecordWritten, RowIs
  <2>5. c.op # "queue" => p.record.status # "none"
    BY <1>2, <2>1 DEF RecordIs
  <2>6. RecordIs(s, c.key, p.record, free)
    BY <1>2, <2>1
  <2>7. RecordIs(t, c.key, RecordAfter(c, p.record), free \/ c.op \in {"acknowledge", "undecryptable"})
    BY <1>1, <1>3, <1>11, <2>5, <2>6 DEF RecordWritten
  <2>8. RecordIs(t, c.key, RecordNow(p, new), later)
    BY <2>1, <2>7, RecordFreer
  <2> QED  BY <1>7, <2>4, <2>8 DEF HoldsIn
<1> QED  BY <1>10, <1>11

-----------------------------------------------------------------------------
(* The actions keep what the calls have made of the tables.                *)

LEMMA StatementCall ==
    ASSUME Inv, NEW c \in Calls, Statement(c)
    PROVE  /\ CallFits(call[c]) /\ call[c] # Idle /\ call[c].op \in Ops
           /\ call[c].next <= Length[call[c].op]
           /\ Sound(store) /\ store' = Effect(store, call[c], call[c].next)
           /\ Follows(call'[c], call[c], store'.serial)
           /\ \A d \in Calls : d # c => call'[d] = call[d]
           /\ \A d \in Calls : call'[d].op = call[d].op /\ call'[d].key = call[d].key
           /\ store'.serial = IF call[c].op = "queue" /\ call[c].next = 1
                              THEN store.serial + 1 ELSE store.serial
<1> DEFINE old == call[c]
           id == IF old.op = "queue" /\ old.next = 1 THEN store'.serial ELSE old.id
           CallType == [op : Ops \cup {"none"}, next : 0 .. 3,
                        key : Messages \cup Tokens \cup {"none"}, id : 0 .. MaxId]
<1>1. Types /\ CallsFit /\ RoomLeft
  BY DEF Inv
<1>2. /\ old # Idle /\ old.next <= Length[old.op]
      /\ store' = Effect(store, old, old.next)
      /\ call' = [call EXCEPT ![c].next = @ + 1, ![c].id = id]
  BY DEF Statement
<1>3. call \in [Calls -> CallType] /\ old \in CallType
  BY <1>1 DEF Types
<1>4. CallFits(old) /\ old.op \in Ops
  BY <1>1, <1>2, BusyCall
<1> HIDE DEF id
<1>5. call'[c] = [old EXCEPT !.next = @ + 1, !.id = id] /\ \A d \in Calls : d # c => call'[d] = call[d]
  BY <1>2, <1>3
<1>6. /\ call'[c].op = old.op /\ call'[c].next = old.next + 1 /\ call'[c].key = old.key
      /\ call'[c].id = id
  BY <1>3, <1>5
<1>7. Follows(call'[c], old, store'.serial)
  BY <1>6 DEF Follows, id
<1>8. \A d \in Calls : call'[d].op = call[d].op /\ call'[d].key = call[d].key
  BY <1>5, <1>6
<1> HIDE DEF old
<1>9. Sound(store) /\ (old.op = "queue" /\ old.next = 1 => store.serial < MaxId)
  <2>1. Sound(store) /\ store.serial \in 0 .. MaxId
    BY <1>1 DEF Types, Sound, Stores
  <2>2. ASSUME old.op = "queue", old.next = 1 PROVE store.serial < MaxId
    <3>1. c \in Taking
      BY <2>2 DEF Taking, old
    <3>2. Queueing \in Nat /\ Queueing > 0
      BY <3>1, Counted, CountOne
    <3> QED  BY <1>1, <2>1, <3>2, MemoryDatabaseAssumption DEF RoomLeft
  <2> QED  BY <2>1, <2>2
<1>10. store'.serial = IF old.op = "queue" /\ old.next = 1 THEN store.serial + 1 ELSE store.serial
  BY <1>2, <1>4, <1>9, EffectSound
<1> QED  BY <1>2, <1>4, <1>5, <1>7, <1>8, <1>9, <1>10 DEF old

\* row n is a row of message k, if it is there
Names(s, n, k) == \A r \in Rows(s, Mailbox) : r.id = n => r.key = k

\* A mailbox id stays with its message when another statement runs.
LEMMA Belongs ==
    ASSUME NEW s, NEW t, NEW m, Frame(s, t, m), NEW n, NEW k, s.serial \in Nat, n <= s.serial, n \in Nat,
           Names(s, n, k)
    PROVE  Names(t, n, k)
<1> SUFFICES ASSUME NEW r \in Rows(t, Mailbox), r.id = n PROVE r.key = k
  BY DEF Names
<1>1. CASE r.key # m
  <2>1. r \in Named(t, Mailbox, r.key) /\ Named(t, Mailbox, r.key) = Named(s, Mailbox, r.key)
    BY <1>1, NamedIs DEF Frame
  <2> QED  BY <2>1, NamedIs DEF Names
<1>2. CASE r.key = m
  <2>1. r \in Named(t, Mailbox, m)
    BY <1>2, NamedIs
  <2>2. ~ (r.id = s.serial + 1)
    OBVIOUS
  <2>3. PICK q \in Named(s, Mailbox, m) : q.id = r.id
    BY <2>1, <2>2 DEF Frame
  <2> QED  BY <1>2, <2>3, NamedIs DEF Names
<1> QED  BY <1>1, <1>2

\* Revoking a token touches no message.
LEMMA RefuseStatement ==
    ASSUME NEW s, Sound(s), NEW c, c.op = "refuse"
    PROVE  LET t == Effect(s, c, c.next)
           IN  \A u \in {Mailbox, Deliveries} : Rows(t, u) = Rows(s, u)
<1> DEFINE hit == Named(s, "refresh_tokens", c.key)
           t == Effect(s, c, c.next)
<1>1. t = Update(s, "refresh_tokens", hit, [status |-> "revoked"])
  BY DEF Effect, Revoke
<1>2. "key" \notin DOMAIN [status |-> "revoked"] /\ "refresh_tokens" \in TableNames /\ s \in Stores
  BY DEF TableNames, Sound
<1>3. \A r \in Rows(s, "refresh_tokens") : Over([status |-> "revoked"], r).key = r.key
  BY <1>2, OverKey
<1> HIDE DEF t, hit
<1>4. \A u \in TableNames \ {"refresh_tokens"} : Rows(t, u) = Rows(s, u)
  BY <1>1, <1>2, <1>3, UpdateNamed
<1> QED  BY <1>4, NamesAre DEF t

\* Nobody works while a token is refused.
LEMMA NobodyWorks ==
    ASSUME RefusesAlone, NEW c \in Calls, call[c].op = "refuse"
    PROVE  \A d \in Calls : ~ Works(d) /\ (d # c => call[d] = Idle)
<1>1. \A d \in Calls : d # c => call[d] = Idle
  BY DEF RefusesAlone
<1> QED  BY <1>1, IdleCall DEF Works

LEMMA WorkFaithful ==
    ASSUME Inv, Faithful, NEW c \in Calls, Statement(c), call[c].op # "refuse"
    PROVE  Faithful'
<1> DEFINE m == call[c].key
<1>1. /\ CallFits(call[c]) /\ call[c] # Idle /\ call[c].op \in Ops
      /\ call[c].next <= Length[call[c].op]
      /\ Sound(store) /\ store' = Effect(store, call[c], call[c].next)
      /\ Follows(call'[c], call[c], store'.serial)
      /\ \A d \in Calls : d # c => call'[d] = call[d]
      /\ \A d \in Calls : call'[d].op = call[d].op /\ call'[d].key = call[d].key
      /\ store'.serial = IF call[c].op = "queue" /\ call[c].next = 1
                         THEN store.serial + 1 ELSE store.serial
  BY StatementCall
<1>2. /\ restarted' = IF Restarts(call[c]) THEN restarted \cup {m} ELSE restarted
      /\ replaced' = IF Replaces(call[c]) THEN replaced \cup {m} ELSE replaced
      /\ UNCHANGED <<stack, calls, given, promised, contended>>
  BY DEF Statement
<1>3. /\ Types /\ CallsFit /\ RefusesAlone
      /\ OneCall /\ Settled /\ InProgress /\ Told /\ Known /\ Undoable
  BY DEF Inv, Faithful
<1>4. /\ call[c].op \in Ops \ {"refuse"} /\ Works(c) /\ m \in Messages
      /\ \A d \in Calls : Works(d)' <=> Works(d)
  BY <1>1 DEF Works, CallFits
<1>5. call[c].op \in {"deliver", "acknowledge"} =>
          WithId(store, call[c].id) \subseteq Named(store, Mailbox, m)
  BY <1>3, <1>4, NamedIs DEF Told, WithId
<1>6. /\ Frame(store, store', m)
      /\ call[c].op = "queue" /\ call[c].next = 2 => Named(store', Deliveries, m) # {}
  BY <1>1, <1>4, <1>5, EffectWrites
<1>7. /\ \A k : k # m => /\ Named(store', Mailbox, k) = Named(store, Mailbox, k)
                         /\ Named(store', Deliveries, k) = Named(store, Deliveries, k)
      /\ Rows(store', "refresh_tokens") = Rows(store, "refresh_tokens")
  BY <1>6 DEF Frame
<1>8. /\ store.serial \in Nat /\ store'.serial \in Nat /\ store.serial <= store'.serial
      /\ \A r \in Rows(store, Mailbox) : r.id \in Nat /\ r.id <= store.serial
  <2>1. store.serial \in Nat
    BY <1>1 DEF Sound, Stores
  <2>2. \A r \in Rows(store, Mailbox) : r.id \in Nat /\ r.id <= store.serial
    <3> DEFINE box == store.tables["mailbox"]
    <3>1. Rows(store, Mailbox) \subseteq MailboxRow /\ IdsDiffer(box, store.serial)
      BY <1>1, SoundTables, RowsAre DEF Mailbox
    <3>2. \A r \in Rows(store, Mailbox) : \E i \in DOMAIN box : r = box[i]
      BY DEF Rows, Range, Mailbox
    <3> HIDE DEF box
    <3>3. \A r \in Rows(store, Mailbox) : r.id <= store.serial
      BY <3>1, <3>2 DEF IdsDiffer
    <3> QED  BY <3>1, <3>3, MemoryDatabaseAssumption DEF MailboxRow
  <2> QED  BY <1>1, <2>1, <2>2
<1> HIDE DEF m
<1>9. OneCall'
  BY <1>1, <1>2, <1>3, <1>4 DEF OneCall
<1>10. /\ Comparable' \subseteq Comparable
       /\ \A k \in Comparable' : k # m => (k \in restarted' <=> k \in restarted)
  BY <1>2 DEF Comparable
<1>11. Settled'
  <2> SUFFICES ASSUME NEW k \in Comparable', \A d \in Calls : Works(d)' => call'[d].key # k
               PROVE  HoldsIn(store', k \in restarted', k, promised'[k].row, promised'[k].record)
    BY DEF Settled
  <2>1. k # m /\ \A d \in Calls : Works(d) => call[d].key # k
    BY <1>1, <1>4 DEF m
  <2>2. HoldsIn(store, k \in restarted, k, promised[k].row, promised[k].record)
    BY <1>3, <1>10, <2>1 DEF Settled
  <2> DEFINE free == k \in restarted
             later == k \in restarted'
  <2>3. HoldsIn(store, free, k, promised[k].row, promised[k].record) /\ (free => later)
    BY <1>10, <2>1, <2>2
  <2> HIDE DEF free, later
  <2>4. Named(store', Mailbox, k) = Named(store, Mailbox, k)
        /\ Named(store', Deliveries, k) = Named(store, Deliveries, k)
    BY <1>7, <2>1
  <2>5. \A row, record : HoldsIn(store, free, k, row, record) => HoldsIn(store', later, k, row, record)
    BY <2>3, <2>4, HoldsSame
  <2> QED  BY <1>2, <2>3, <2>5 DEF later
<1>12. ASSUME m \in Comparable'
       PROVE  /\ HoldsIn(store', m \in restarted', m, RowNow(promised[m], call'[c]),
                         RecordNow(promised[m], call'[c]))
              /\ call[c].op = "queue" => ~ Present(promised[m].row)
  <2> DEFINE free == m \in restarted
             later == m \in restarted'
             p == promised[m]
             old == call[c]
  <2>1. /\ HoldsIn(store, free, m, RowNow(p, old), RecordNow(p, old))
        /\ old.op = "queue" /\ old.next > 1 => ~ Present(p.row)
    BY <1>3, <1>4, <1>10, <1>12 DEF InProgress, m
  <2>2. old.op # "queue" => Named(store, Deliveries, m) # {}
    BY <1>3, <1>4 DEF Known, m
  <2>3. old.op \in {"acknowledge", "undecryptable"} => later
    BY <1>2, <2>2 DEF Restarts, m
  <2>4. old.op = "queue" /\ old.next = 1 => Named(store, Mailbox, m) = {}
    BY <1>2, <1>12 DEF Replaces, Comparable, m
  <2>5. free \in BOOLEAN /\ later \in BOOLEAN /\ (free => later)
    BY <1>2
  <2>6. p \in [row : RowType, record : RecordType]
    BY <1>3, <1>4 DEF Types
  <2>7. old.key = m
    BY DEF m
  <2>8. CallFits(old) /\ old.op \in Ops \ {"refuse"} /\ old.next <= Length[old.op]
        /\ (old.op \in {"deliver", "acknowledge"} => WithId(store, old.id) \subseteq Named(store, Mailbox, m))
        /\ store' = Effect(store, old, old.next) /\ Follows(call'[c], old, store'.serial)
    BY <1>1, <1>4, <1>5
  <2> HIDE DEF free, later, p, old
  <2>9. /\ HoldsIn(store', later, m, RowNow(p, call'[c]), RecordNow(p, call'[c]))
        /\ old.op = "queue" => ~ Present(p.row)
    BY <1>1, <2>1, <2>2, <2>3, <2>4, <2>5, <2>6, <2>7, <2>8, OwnStatement
  <2> QED  BY <2>9 DEF later, p, old
<1>13. InProgress'
  <2> SUFFICES ASSUME NEW d \in Calls, NEW k \in Comparable', Works(d)', call'[d].key = k
               PROVE  /\ HoldsIn(store', k \in restarted', k, RowNow(promised'[k], call'[d]),
                                 RecordNow(promised'[k], call'[d]))
                      /\ call'[d].op = "queue" /\ call'[d].next > 1 => ~ Present(promised'[k].row)
    BY DEF InProgress
  <2>1. CASE d = c
    <3>1. k = m
      BY <1>1, <2>1 DEF m
    <3> QED  BY <1>1, <1>2, <1>12, <2>1, <3>1
  <2>2. CASE d # c
    <3>1. Works(d) /\ call'[d] = call[d] /\ call[d].key = k /\ k \in Comparable
      BY <1>1, <1>4, <1>10, <2>2
    <3>2. k # m
      BY <1>3, <1>4, <2>2, <3>1 DEF OneCall, Comparable, m
    <3>3. /\ HoldsIn(store, k \in restarted, k, RowNow(promised[k], call[d]),
                     RecordNow(promised[k], call[d]))
          /\ call[d].op = "queue" /\ call[d].next > 1 => ~ Present(promised[k].row)
      BY <1>3, <3>1 DEF InProgress
    <3> DEFINE row == RowNow(promised[k], call[d])
               record == RecordNow(promised[k], call[d])
    <3>4. HoldsIn(store', k \in restarted', k, row, record)
      <4> DEFINE free == k \in restarted
                 later == k \in restarted'
      <4>1. HoldsIn(store, free, k, row, record) /\ (free => later)
        BY <1>10, <3>2, <3>3
      <4> HIDE DEF row, record, free, later
      <4>2. Named(store', Mailbox, k) = Named(store, Mailbox, k)
            /\ Named(store', Deliveries, k) = Named(store, Deliveries, k)
        BY <1>7, <3>2
      <4>3. HoldsIn(store', later, k, row, record)
        BY <4>1, <4>2, HoldsSame
      <4> QED  BY <4>3 DEF later
    <3> QED  BY <1>2, <3>1, <3>3, <3>4
  <2> QED  BY <2>1, <2>2
<1>14. Told'
  <2>1. ASSUME NEW n \in Nat, n <= store.serial, NEW k,
               \A r \in Rows(store, Mailbox) : r.id = n => r.key = k
        PROVE  /\ n <= store'.serial
               /\ \A r \in Rows(store', Mailbox) : r.id = n => r.key = k
    <3>1. Names(store, n, k)
      BY <2>1 DEF Names
    <3>2. Names(store', n, k)
      BY <1>6, <1>8, <2>1, <3>1, Belongs
    <3>3. n <= store'.serial
      BY <1>8, <2>1
    <3> QED  BY <3>2, <3>3 DEF Names
  <2>2. ASSUME NEW k \in Messages, NEW n \in given[k]
        PROVE  n <= store'.serial /\ \A r \in Rows(store', Mailbox) : r.id = n => r.key = k
    <3>1. n \in Nat
      BY <1>3 DEF Types
    <3> QED  BY <1>3, <2>1, <3>1 DEF Told
  <2>3. ASSUME NEW d \in Calls, Taken(d)
        PROVE  /\ call'[d].id = call[d].id /\ call[d].id <= store'.serial
               /\ \A r \in Rows(store', Mailbox) : r.id = call[d].id => r.key = call[d].key
    <3>1. call'[d].id = call[d].id
      BY <1>1, <2>3 DEF Taken, Follows
    <3>2. call[d].id \in Nat
      BY <1>3, <2>3 DEF CallsFit, CallFits
    <3> QED  BY <1>3, <2>1, <2>3, <3>1, <3>2 DEF Told
  <2>4. ASSUME NEW d \in Calls, Taken(d)', ~ Taken(d)
        PROVE  /\ call'[d].id <= store'.serial
               /\ \A r \in Rows(store', Mailbox) : r.id = call'[d].id => r.key = call'[d].key
    <3>1. d = c /\ call[c].op = "queue" /\ ~ (call[c].next > 1)
      BY <1>1, <2>4 DEF Taken
    <3>2. call[c].next = 1
      BY <1>1, <3>1 DEF CallFits
    <3>3. call'[d].id = store'.serial /\ store'.serial = store.serial + 1 /\ call'[d].key = m
      BY <1>1, <3>1, <3>2 DEF Follows, m
    <3>4. ASSUME NEW r \in Rows(store', Mailbox), r.id = call'[d].id PROVE r.key = m
      <4>1. r \notin Rows(store, Mailbox)
        BY <1>8, <3>3, <3>4
      <4> QED  BY <1>7, <4>1, NamedIs
    <3> QED  BY <1>8, <3>3, <3>4
  <2>5. ASSUME NEW d \in Calls, call'[d].op \in {"deliver", "acknowledge"}
        PROVE  call'[d].id \in given'[call'[d].key]
    <3>1. call[d].op \in {"deliver", "acknowledge"} /\ call'[d].id = call[d].id
      BY <1>1, <2>5 DEF Follows
    <3>2. call[d].id \in given[call[d].key]
      BY <1>3, <3>1 DEF Told
    <3> QED  BY <1>1, <1>2, <3>1, <3>2
  <2>6. \A d \in Calls : Taken(d)' =>
            /\ call'[d].id <= store'.serial
            /\ \A r \in Rows(store', Mailbox) : r.id = call'[d].id => r.key = call'[d].key
    BY <1>1, <2>3, <2>4
  <2>7. \A k \in Messages : \A n \in given'[k] :
            n <= store'.serial /\ \A r \in Rows(store', Mailbox) : r.id = n => r.key = k
    BY <1>2, <2>2
  <2> QED  BY <2>5, <2>6, <2>7 DEF Told
<1>15. Known'
  <2>1. \A k : Named(store, Deliveries, k) # {} => Named(store', Deliveries, k) # {}
    BY <1>6, <1>7 DEF Frame
  <2>2. \A k \in Messages : given'[k] # {} => Named(store', Deliveries, k) # {}
    BY <1>2, <1>3, <2>1 DEF Known
  <2>3. \A d \in Calls : Works(d)' /\ call'[d].op # "queue" => given'[call'[d].key] # {}
    BY <1>1, <1>2, <1>3, <1>4 DEF Known
  <2>4. ASSUME NEW d \in Calls, call'[d].op = "queue", call'[d].next > 2
        PROVE  Named(store', Deliveries, call'[d].key) # {}
    <3>1. CASE d # c
      BY <1>1, <1>3, <2>1, <2>4, <3>1 DEF Known
    <3>2. CASE d = c
      <4>1. call[c].op = "queue" /\ call[c].next + 1 > 2 /\ call[c].next <= 2 /\ call[c].next \in Nat
        BY <1>1, <2>4, <3>2, OpsAre DEF Follows, CallFits
      <4>2. call[c].next = 2
        BY <4>1
      <4> QED  BY <1>1, <1>6, <3>2, <4>1, <4>2 DEF m
    <3> QED  BY <3>1, <3>2
  <2> QED  BY <2>2, <2>3, <2>4 DEF Known
<1>16. Undoable'
  <2>1. ~ Refusing
    BY <1>1, <1>3 DEF Refusing, RefusesAlone
  <2>2. ~ Refusing'
    BY <1>1, <2>1 DEF Refusing
  <2> QED  BY <1>3, <1>7, <2>1, <2>2 DEF Undoable, AllValid
<1> QED  BY <1>9, <1>11, <1>13, <1>14, <1>15, <1>16 DEF Faithful

LEMMA RefusalFaithful ==
    ASSUME Inv, Faithful, NEW c \in Calls, Statement(c), call[c].op = "refuse"
    PROVE  Faithful'
<1>1. /\ Sound(store) /\ store' = Effect(store, call[c], call[c].next)
      /\ \A d \in Calls : d # c => call'[d] = call[d]
      /\ \A d \in Calls : call'[d].op = call[d].op /\ call'[d].key = call[d].key
      /\ store'.serial = store.serial
  BY StatementCall
<1>2. /\ restarted' = restarted /\ replaced' = replaced
      /\ UNCHANGED <<stack, calls, given, promised, contended>>
  BY DEF Statement, Restarts, Replaces
<1>3. /\ RefusesAlone /\ OneCall /\ Settled /\ InProgress /\ Told /\ Known /\ Undoable
  BY DEF Inv, Faithful
<1>4. \A d \in Calls : ~ Works(d) /\ ~ Works(d)' /\ (d # c => call'[d] = Idle)
  BY <1>1, <1>3, NobodyWorks DEF Works
<1>5. Rows(store', Mailbox) = Rows(store, Mailbox) /\ Rows(store', Deliveries) = Rows(store, Deliveries)
  BY <1>1, RefuseStatement
<1>6. \A k : /\ Named(store', Mailbox, k) = Named(store, Mailbox, k)
             /\ Named(store', Deliveries, k) = Named(store, Deliveries, k)
  BY <1>5, NamedIs
<1>7. OneCall' /\ InProgress'
  BY <1>4 DEF OneCall, InProgress
<1>8. Settled'
  <2> SUFFICES ASSUME NEW k \in Comparable'
               PROVE  HoldsIn(store', k \in restarted', k, promised'[k].row, promised'[k].record)
    BY DEF Settled
  <2>1. HoldsIn(store, k \in restarted, k, promised[k].row, promised[k].record)
    BY <1>2, <1>3, <1>4 DEF Settled, Comparable
  <2> DEFINE free == k \in restarted
  <2>2. HoldsIn(store, free, k, promised[k].row, promised[k].record)
    BY <2>1
  <2> HIDE DEF free
  <2>3. Named(store', Mailbox, k) = Named(store, Mailbox, k)
        /\ Named(store', Deliveries, k) = Named(store, Deliveries, k)
    BY <1>6
  <2>4. \A row, record : HoldsIn(store, free, k, row, record) => HoldsIn(store', free, k, row, record)
    BY <2>3, HoldsSame
  <2> QED  BY <1>2, <2>2, <2>4 DEF free
<1>9. Told'
  <2>1. \A d \in Calls : ~ Taken(d)' /\ call'[d].op \notin {"deliver", "acknowledge"}
    BY <1>1, <1>4, IdleCall DEF Taken, Idle
  <2> QED  BY <1>1, <1>2, <1>3, <1>5, <2>1 DEF Told
<1>10. Known'
  <2>1. \A d \in Calls : call'[d].op # "queue"
    BY <1>1, <1>4 DEF Idle
  <2> QED  BY <1>2, <1>3, <1>4, <1>6, <2>1 DEF Known
<1>11. Undoable'
  <2>1. Refusing /\ Refusing'
    BY <1>1 DEF Refusing
  <2> QED  BY <1>1, <1>2, <1>3, <1>5, <2>1 DEF Undoable
<1> QED  BY <1>7, <1>8, <1>9, <1>10, <1>11 DEF Faithful

\* A call for a message begins.
LEMMA BeginFaithful ==
    ASSUME Inv, Faithful, NEW c \in Calls, NEW op \in Ops \ {"refuse"}, NEW m \in Messages, NEW id,
           Begin(c, op, m, id), op # "queue" => given[m] # {},
           op \in {"deliver", "acknowledge"} => id \in given[m]
    PROVE  Faithful'
<1> DEFINE new == [op |-> op, next |-> 1, key |-> m, id |-> id]
<1>1. /\ call[c] = Idle /\ ~ Refusing /\ call' = [call EXCEPT ![c] = new]
      /\ contended' = IF \E d \in Calls : call[d] # Idle /\ call[d].key = m
                      THEN contended \cup {m} ELSE contended
      /\ UNCHANGED <<store, given, promised, restarted, replaced>>
  BY DEF Begin
<1>2. /\ Types /\ CallsFit /\ OneCall /\ Settled /\ InProgress /\ Told /\ Known /\ Undoable
  BY DEF Inv, Faithful
<1>3. call'[c] = new /\ \A d \in Calls : d # c => call'[d] = call[d]
  <2> HIDE DEF new
  <2> QED  BY <1>1, <1>2 DEF Types
<1>4. new.op = op /\ new.next = 1 /\ new.key = m /\ new.id = id
  OBVIOUS
<1> HIDE DEF new
<1>5. ~ Works(c) /\ \A d \in Calls : /\ d # c => (Works(d)' <=> Works(d))
                                     /\ Works(d) => call[d] # Idle
  BY <1>1, <1>3, IdleCall DEF Works
<1>6. Comparable' \subseteq Comparable /\ Works(c)'
  BY <1>1, <1>3, <1>4 DEF Comparable, Works
<1>7. m \in Comparable' => \A d \in Calls : Works(d) => call[d].key # m
  BY <1>1, <1>5 DEF Comparable
<1>8. OneCall'
  <2> SUFFICES ASSUME NEW a \in Calls, NEW b \in Calls, Works(a)', Works(b)',
                      call'[a].key = call'[b].key, call'[a].key \notin contended'
               PROVE  a = b
    BY DEF OneCall
  <2>1. CASE a # c /\ b # c
    BY <1>1, <1>2, <1>3, <1>5, <2>1 DEF OneCall
  <2>2. CASE a = c /\ b # c
    BY <1>1, <1>3, <1>4, <1>5, <2>2
  <2>3. CASE a # c /\ b = c
    BY <1>1, <1>3, <1>4, <1>5, <2>3
  <2> QED  BY <2>1, <2>2, <2>3
<1>9. Settled'
  <2> SUFFICES ASSUME NEW k \in Comparable', \A d \in Calls : Works(d)' => call'[d].key # k
               PROVE  HoldsIn(store', k \in restarted', k, promised'[k].row, promised'[k].record)
    BY DEF Settled
  <2>1. \A d \in Calls : Works(d) => call[d].key # k
    BY <1>3, <1>5
  <2>2. HoldsIn(store, k \in restarted, k, promised[k].row, promised[k].record)
    BY <1>2, <1>6, <2>1 DEF Settled
  <2> QED  BY <1>1, <2>2
<1>10. InProgress'
  <2> SUFFICES ASSUME NEW d \in Calls, NEW k \in Comparable', Works(d)', call'[d].key = k
               PROVE  /\ HoldsIn(store', k \in restarted', k, RowNow(promised'[k], call'[d]),
                                 RecordNow(promised'[k], call'[d]))
                      /\ call'[d].op = "queue" /\ call'[d].next > 1 => ~ Present(promised'[k].row)
    BY DEF InProgress
  <2>1. CASE d = c
    <3>1. k = m /\ call'[d] = new
      BY <1>3, <1>4, <2>1
    <3>2. HoldsIn(store, m \in restarted, m, promised[m].row, promised[m].record)
      BY <1>2, <1>6, <1>7, <3>1 DEF Settled
    <3>3. RowNow(promised[m], new) = promised[m].row /\ RecordNow(promised[m], new) = promised[m].record
      BY <1>4 DEF RowNow, RecordNow, RowDone, RecordDone
    <3>4. ~ (new.next > 1)
      BY <1>4
    <3> QED  BY <1>1, <3>1, <3>2, <3>3, <3>4
  <2>2. CASE d # c
    <3>1. Works(d) /\ call'[d] = call[d] /\ k \in Comparable
      BY <1>3, <1>5, <1>6, <2>2
    <3> QED  BY <1>1, <1>2, <3>1 DEF InProgress
  <2> QED  BY <2>1, <2>2
<1>11. Told'
  <2>1. ~ Taken(c)' /\ \A d \in Calls : d # c => (Taken(d)' <=> Taken(d))
    BY <1>3, <1>4 DEF Taken
  <2>2. call'[c].op \in {"deliver", "acknowledge"} => call'[c].id \in given[call'[c].key]
    BY <1>3, <1>4
  <2> QED  BY <1>1, <1>2, <1>3, <2>1, <2>2 DEF Told
<1>12. Known'
  <2>1. call'[c].op # "queue" => given[call'[c].key] # {}
    BY <1>3, <1>4
  <2>2. ~ (call'[c].next > 2)
    BY <1>3, <1>4
  <2> QED  BY <1>1, <1>2, <1>3, <1>5, <2>1, <2>2 DEF Known
<1>13. Undoable'
  <2>1. ~ Refusing'
    BY <1>1, <1>3, <1>4 DEF Refusing
  <2> QED  BY <1>1, <1>2, <2>1 DEF Undoable
<1> QED  BY <1>8, <1>9, <1>10, <1>11, <1>12, <1>13 DEF Faithful

\* A refresh begins that will refuse its token, while nothing is in progress.
LEMMA BeginRefusalFaithful ==
    ASSUME Inv, Faithful, NEW c \in Calls, BeginRefusal(c)
    PROVE  Faithful'
<1>1. PICK t \in Tokens : Begin(c, "refuse", t, 0)
  BY DEF BeginRefusal
<1> DEFINE new == [op |-> "refuse", next |-> 1, key |-> t, id |-> 0]
<1>2. /\ call' = [call EXCEPT ![c] = new] /\ ~ Refusing
      /\ stack' = IF Transactional("refuse") THEN Append(stack, store) ELSE stack
      /\ contended' = IF \E d \in Calls : call[d] # Idle /\ call[d].key = t
                      THEN contended \cup {t} ELSE contended
      /\ UNCHANGED <<store, given, promised, restarted, replaced>>
  BY <1>1 DEF Begin
<1>3. /\ Types /\ OneCall /\ Settled /\ InProgress /\ Told /\ Known /\ Undoable /\ Quiet
  BY DEF Inv, Faithful, BeginRefusal
<1>4. contended' = contended
  BY <1>2, <1>3 DEF Quiet
<1>5. Last(stack') = store
  <2>1. stack' = Append(stack, store)
    BY <1>2, OpsAre DEF Transactional
  <2>2. stack \in Seq(Stores) /\ store \in Stores
    BY <1>3 DEF Types, Sound
  <2>3. Len(stack') = Len(stack) + 1 /\ stack'[Len(stack) + 1] = store
    BY <2>1, <2>2
  <2> QED  BY <2>3 DEF Last
<1>6. call'[c] = new /\ \A d \in Calls : d # c => call'[d] = Idle
  <2> HIDE DEF new
  <2> QED  BY <1>2, <1>3 DEF Types, Quiet
<1>7. new.op = "refuse"
  OBVIOUS
<1> HIDE DEF new
<1>8. \A d \in Calls : ~ Works(d) /\ ~ Works(d)' /\ ~ Taken(d)' /\ call'[d].op \in {"refuse", "none"}
  BY <1>3, <1>6, <1>7, IdleCall DEF Quiet, Works, Taken, Idle
<1>9. OneCall' /\ InProgress'
  BY <1>8 DEF OneCall, InProgress
<1>10. Settled'
  BY <1>2, <1>3, <1>4, <1>8 DEF Settled, Comparable
<1>11. Told' /\ Known'
  BY <1>2, <1>3, <1>8 DEF Told, Known
<1>12. Undoable'
  <2>1. Refusing'
    BY <1>6, <1>7 DEF Refusing
  <2> QED  BY <1>2, <1>3, <1>5, <2>1 DEF Undoable
<1> QED  BY <1>9, <1>10, <1>11, <1>12 DEF Faithful

LEMMA PromiseIs ==
    ASSUME Types, NEW c, c.op \in Ops \ {"refuse"}, c.key \in Messages
    PROVE  /\ Promise(c)[c.key] = Outcome(promised[c.key], c)
           /\ \A k \in Messages : k # c.key => Promise(c)[k] = promised[k]
<1> DEFINE m == c.key
           becomes(row, record) == [promised EXCEPT ![m] = [row |-> row, record |-> record]]
<1>1. promised \in [Messages -> [row : RowType, record : RecordType]]
  BY DEF Types
<1>2. Promise(c) = IF c.op = "queue" /\ Present(promised[m].row) THEN promised
                   ELSE becomes(RowAfter(c, promised[m].row, c.id), RecordAfter(c, promised[m].record))
  BY OpsAre DEF Promise, RowAfter, RecordAfter
<1>3. \A row, record : /\ becomes(row, record)[m] = [row |-> row, record |-> record]
                       /\ \A k \in Messages : k # m => becomes(row, record)[k] = promised[k]
  BY <1>1
<1> HIDE DEF becomes
<1> QED  BY <1>2, <1>3 DEF Outcome

\* A call that has executed all its statements has done what it promises.
LEMMA FinishedNow ==
    ASSUME NEW c, CallFits(c), c.op \in Ops \ {"refuse"}, c.next > Length[c.op], NEW p
    PROVE  RowNow(p, c) = Outcome(p, c).row /\ RecordNow(p, c) = Outcome(p, c).record
<1>1. /\ c.op \in {"queue", "attempt", "schedule", "fail", "deliver", "acknowledge", "read",
                   "undecryptable"}
      /\ c.next \in 0 .. 3
  BY OpsAre DEF CallFits
<1>2. RecordDone(c) /\ (RowDone(c) \/ c.op \in {"attempt", "read", "undecryptable"})
  BY <1>1 DEF RecordDone, RowDone, Length
<1>3. c.op \in {"attempt", "read", "undecryptable"} => Outcome(p, c).row = p.row
  BY DEF Outcome, RowAfter
<1> QED  BY <1>2, <1>3 DEF RowNow, RecordNow

LEMMA ReturnFaithful ==
    ASSUME Inv, Faithful, NEW c \in Calls, Return(c)
    PROVE  Faithful'
<1> DEFINE old == call[c]
           m == call[c].key
<1>1. /\ old # Idle /\ old.next > Length[old.op] /\ old.op # "refuse"
      /\ call' = [call EXCEPT ![c] = Idle]
      /\ given' = IF old.op = "queue" THEN [given EXCEPT ![m] = @ \cup {old.id}] ELSE given
      /\ promised' = Promise(old)
      /\ UNCHANGED <<store, calls, contended, restarted, replaced>>
  BY DEF Return, Finished
<1>2. /\ Types /\ CallsFit /\ RefusesAlone
      /\ OneCall /\ Settled /\ InProgress /\ Told /\ Known /\ Undoable
  BY DEF Inv, Faithful
<1>3. CallFits(old) /\ old.op \in Ops \ {"refuse"} /\ Works(c) /\ m \in Messages
  BY <1>1, <1>2, BusyCall DEF Works, CallFits
<1>4. call'[c] = Idle /\ \A d \in Calls : d # c => call'[d] = call[d]
  BY <1>1, <1>2 DEF Types
<1>5. ~ Works(c)' /\ \A d \in Calls : d # c => (Works(d)' <=> Works(d))
  BY <1>4, IdleCall DEF Works
<1>6. Comparable' = Comparable
  BY <1>1 DEF Comparable
<1>7. /\ promised'[m] = Outcome(promised[m], old)
      /\ \A k \in Messages : k # m => promised'[k] = promised[k]
  <2> HIDE DEF old
  <2>1. m = old.key
    BY DEF old
  <2> QED  BY <1>1, <1>2, <1>3, <2>1, PromiseIs
<1>8. given' \in [Messages -> SUBSET (1 .. MaxId)] /\ \A k \in Messages : given[k] \subseteq given'[k]
  <2>1. Inv'
    BY ReturnInv
  <2>2. given \in [Messages -> SUBSET (1 .. MaxId)]
    BY <1>2 DEF Types
  <2>3. \A k \in Messages : given[k] \subseteq given'[k]
    BY <1>1, <2>2
  <2> QED  BY <2>1, <2>3 DEF Inv, Types
<1>9. OneCall'
  BY <1>1, <1>2, <1>4, <1>5 DEF OneCall
<1>10. Settled'
  <2> SUFFICES ASSUME NEW k \in Comparable', \A d \in Calls : Works(d)' => call'[d].key # k
               PROVE  HoldsIn(store', k \in restarted', k, promised'[k].row, promised'[k].record)
    BY DEF Settled
  <2>1. k \in Comparable /\ k \in Messages
    BY <1>6 DEF Comparable
  <2>2. CASE k = m
    <3>1. HoldsIn(store, k \in restarted, k, RowNow(promised[k], old), RecordNow(promised[k], old))
      BY <1>2, <1>3, <2>1, <2>2 DEF InProgress
    <3>2. /\ RowNow(promised[k], old) = promised'[k].row
          /\ RecordNow(promised[k], old) = promised'[k].record
      <4> HIDE DEF old, m
      <4> QED  BY <1>1, <1>3, <1>7, <2>2, FinishedNow
    <3> QED  BY <1>1, <3>1, <3>2
  <2>3. CASE k # m
    <3>1. \A d \in Calls : Works(d) => call[d].key # k
      BY <1>4, <1>5, <2>3
    <3>2. HoldsIn(store, k \in restarted, k, promised[k].row, promised[k].record)
      BY <1>2, <2>1, <3>1 DEF Settled
    <3> QED  BY <1>1, <1>7, <2>1, <2>3, <3>2
  <2> QED  BY <2>2, <2>3
<1>11. InProgress'
  <2> SUFFICES ASSUME NEW d \in Calls, NEW k \in Comparable', Works(d)', call'[d].key = k
               PROVE  /\ HoldsIn(store', k \in restarted', k, RowNow(promised'[k], call'[d]),
                                 RecordNow(promised'[k], call'[d]))
                      /\ call'[d].op = "queue" /\ call'[d].next > 1 => ~ Present(promised'[k].row)
    BY DEF InProgress
  <2>1. d # c /\ Works(d) /\ call'[d] = call[d] /\ k \in Comparable /\ k \in Messages
    BY <1>4, <1>5, <1>6 DEF Comparable
  <2>2. k # m
    BY <1>2, <1>3, <2>1 DEF OneCall, Comparable
  <2>3. /\ HoldsIn(store, k \in restarted, k, RowNow(promised[k], call[d]),
                   RecordNow(promised[k], call[d]))
        /\ call[d].op = "queue" /\ call[d].next > 1 => ~ Present(promised[k].row)
    BY <1>2, <2>1 DEF InProgress
  <2> QED  BY <1>1, <1>7, <2>1, <2>2, <2>3
<1>12. old.op = "queue" => Taken(c) /\ old.next > 2
  BY <1>1, <1>3, OpsAre DEF Taken, CallFits
<1>13. Told'
  <2>1. ASSUME NEW k \in Messages, NEW n \in given'[k]
        PROVE  n <= store.serial /\ \A r \in Rows(store, Mailbox) : r.id = n => r.key = k
    <3>1. CASE n \in given[k]
      BY <1>2, <3>1 DEF Told
    <3>2. CASE n \notin given[k]
      <4>1. old.op = "queue" /\ k = m /\ n = old.id
        <5>1. given \in [Messages -> SUBSET (1 .. MaxId)]
          BY <1>2 DEF Types
        <5> QED  BY <1>1, <3>2, <5>1
      <4> QED  BY <1>2, <1>12, <4>1 DEF Told
    <3> QED  BY <3>1, <3>2
  <2>2. ~ Taken(c)' /\ \A d \in Calls : d # c => (Taken(d)' <=> Taken(d))
    BY <1>4, IdleCall DEF Taken, Idle
  <2>3. ASSUME NEW d \in Calls, call'[d].op \in {"deliver", "acknowledge"}
        PROVE  call'[d].id \in given'[call'[d].key]
    <3>1. d # c /\ call'[d] = call[d]
      BY <1>4, <2>3 DEF Idle
    <3>2. call[d].id \in given[call[d].key] /\ call[d].key \in Messages
      BY <1>2, <2>3, <3>1, OpsAre DEF Told, CallsFit, CallFits
    <3> QED  BY <1>8, <3>1, <3>2
  <2>4. \A d \in Calls : Taken(d)' =>
            /\ call'[d].id <= store.serial
            /\ \A r \in Rows(store, Mailbox) : r.id = call'[d].id => r.key = call'[d].key
    BY <1>2, <1>4, <2>2 DEF Told
  <2> QED  BY <1>1, <2>1, <2>3, <2>4 DEF Told
<1>14. Known'
  <2>1. ASSUME NEW k \in Messages, given'[k] # {} PROVE Named(store, Deliveries, k) # {}
    <3>1. CASE given[k] # {}
      BY <1>2, <3>1 DEF Known
    <3>2. CASE given[k] = {}
      <4>1. old.op = "queue" /\ k = m
        <5>1. given \in [Messages -> SUBSET (1 .. MaxId)]
          BY <1>2 DEF Types
        <5> QED  BY <1>1, <2>1, <3>2, <5>1
      <4> QED  BY <1>2, <1>12, <4>1 DEF Known
    <3> QED  BY <3>1, <3>2
  <2>2. ASSUME NEW d \in Calls, Works(d)', call'[d].op # "queue" PROVE given'[call'[d].key] # {}
    <3>1. d # c /\ call'[d] = call[d] /\ Works(d)
      BY <1>4, <1>5, <2>2
    <3>2. given[call[d].key] # {} /\ call[d].key \in Messages
      BY <1>2, <2>2, <3>1 DEF Known, Works, CallsFit, CallFits
    <3> QED  BY <1>8, <3>1, <3>2
  <2>3. ASSUME NEW d \in Calls, call'[d].op = "queue", call'[d].next > 2
        PROVE  Named(store, Deliveries, call'[d].key) # {}
    <3>1. call'[d] = call[d]
      BY <1>4, <2>3 DEF Idle
    <3> QED  BY <1>2, <2>3, <3>1 DEF Known
  <2> QED  BY <1>1, <2>1, <2>2, <2>3 DEF Known
<1>15. Undoable'
  <2>1. ~ Refusing
    BY <1>1, <1>2 DEF Refusing, RefusesAlone
  <2>2. ~ Refusing'
    BY <1>4, <2>1 DEF Refusing, Idle
  <2> QED  BY <1>1, <1>2, <2>1, <2>2 DEF Undoable
<1> QED  BY <1>9, <1>10, <1>11, <1>13, <1>14, <1>15 DEF Faithful

LEMMA ThrowFaithful ==
    ASSUME Inv, Faithful, NEW c \in Calls, Throw(c)
    PROVE  Faithful'
<1>1. /\ Finished(c) /\ call[c].op = "refuse"
      /\ store' = Restored /\ stack' = SnapshotPopped
      /\ call' = [call EXCEPT ![c] = Idle]
      /\ UNCHANGED <<calls, given, promised, contended, restarted, replaced>>
  BY DEF Throw, history
<1>2. /\ Types /\ RefusesAlone /\ OneCall /\ Settled /\ InProgress /\ Told /\ Known /\ Undoable
  BY DEF Inv, Faithful
<1>3. Open(c)
  BY <1>1, OpsAre DEF Open, Transactional
<1>4. stack # << >>
  BY <1>1, <1>3, EndingInv
<1>5. store' = Last(stack)
  BY <1>1, <1>4 DEF Restored
<1>6. \A d \in Calls : ~ Works(d) /\ call'[d] = Idle
  BY <1>1, <1>2, NobodyWorks DEF Types
<1>7. Refusing
  BY <1>1 DEF Refusing
<1>8. /\ AllValid(store') /\ store'.serial = store.serial
      /\ Rows(store', Mailbox) = Rows(store, Mailbox) /\ Rows(store', Deliveries) = Rows(store, Deliveries)
  BY <1>2, <1>5, <1>7 DEF Undoable
<1>9. \A k : /\ Named(store', Mailbox, k) = Named(store, Mailbox, k)
             /\ Named(store', Deliveries, k) = Named(store, Deliveries, k)
  BY <1>8, NamedIs
<1>10. \A d \in Calls : ~ Works(d)' /\ ~ Taken(d)' /\ call'[d].op = "none"
  BY <1>6, IdleCall DEF Works, Taken
<1>11. OneCall' /\ InProgress'
  BY <1>10 DEF OneCall, InProgress
<1>12. Settled'
  <2> SUFFICES ASSUME NEW k \in Comparable'
               PROVE  HoldsIn(store', k \in restarted', k, promised'[k].row, promised'[k].record)
    BY DEF Settled
  <2>1. HoldsIn(store, k \in restarted, k, promised[k].row, promised[k].record)
    BY <1>1, <1>2, <1>6 DEF Settled, Comparable
  <2> DEFINE free == k \in restarted
  <2>2. HoldsIn(store, free, k, promised[k].row, promised[k].record)
    BY <2>1
  <2> HIDE DEF free
  <2>3. Named(store', Mailbox, k) = Named(store, Mailbox, k)
        /\ Named(store', Deliveries, k) = Named(store, Deliveries, k)
    BY <1>9
  <2>4. \A row, record : HoldsIn(store, free, k, row, record) => HoldsIn(store', free, k, row, record)
    BY <2>3, HoldsSame
  <2> QED  BY <1>1, <2>2, <2>4 DEF free
<1>13. Told'
  BY <1>1, <1>2, <1>8, <1>10 DEF Told
<1>14. Known'
  BY <1>1, <1>2, <1>9, <1>10 DEF Known
<1>15. Undoable'
  <2>1. ~ Refusing'
    BY <1>10 DEF Refusing
  <2> QED  BY <1>8, <2>1 DEF Undoable
<1> QED  BY <1>11, <1>12, <1>13, <1>14, <1>15 DEF Faithful

LEMMA TimePassesFaithful ==
    ASSUME Inv, Faithful, TimePasses
    PROVE  Faithful'
<1> DEFINE hit == {r \in Rows(store, Deliveries) : r.retry = "future"}
           change == [retry |-> "past"]
<1>1. /\ Quiet /\ store' = Update(store, Deliveries, hit, change)
      /\ promised' = [m \in Messages |-> [promised[m] EXCEPT !.record.due = TRUE]]
      /\ UNCHANGED <<stack, call, calls, given, contended, restarted, replaced>>
  BY DEF TimePasses
<1>2. /\ Types /\ Sound(store) /\ store \in Stores
      /\ OneCall /\ Settled /\ InProgress /\ Told /\ Known /\ Undoable
  BY DEF Inv, Faithful, Types, Sound
<1>3. "key" \notin DOMAIN change /\ Deliveries \in TableNames
  BY NamesAre
<1>4. \A r \in Rows(store, Deliveries) : Over(change, r).key = r.key
  <2> HIDE DEF change
  <2> QED  BY <1>2, <1>3, OverKey
<1>5. /\ \A k : Named(store', Deliveries, k) =
              {IF r \in hit THEN Over(change, r) ELSE r : r \in Named(store, Deliveries, k)}
      /\ \A u \in TableNames \ {Deliveries} : Rows(store', u) = Rows(store, u)
      /\ store'.serial = store.serial
  <2> HIDE DEF hit, change
  <2> QED  BY <1>1, <1>2, <1>3, <1>4, UpdateNamed
<1>6. Rows(store', Mailbox) = Rows(store, Mailbox)
      /\ Rows(store', "refresh_tokens") = Rows(store, "refresh_tokens")
  BY <1>5, NamesAre
<1>7. \A k : Named(store', Mailbox, k) = Named(store, Mailbox, k)
  BY <1>6, NamedIs
<1>8. \A d \in Calls : ~ Works(d) /\ ~ Taken(d) /\ call[d].op = "none" /\ call'[d] = call[d]
  BY <1>1, IdleCall DEF Quiet, Works, Taken
<1>9. \A d \in Calls : ~ Works(d)' /\ ~ Taken(d)' /\ call'[d].op = "none"
  BY <1>8, OpsAre DEF Works, Taken
<1>10. ASSUME NEW k, NEW record \in RecordType, NEW free, RecordIs(store, k, record, free)
       PROVE  RecordIs(store', k, [record EXCEPT !.due = TRUE], free)
  <2> DEFINE new == [record EXCEPT !.due = TRUE]
  <2>1. new.status = record.status /\ new.due = TRUE /\ new.attempts = record.attempts
    BY DEF RecordType
  <2> HIDE DEF new
  <2>2. CASE record.status = "none"
    <3>1. Named(store, Deliveries, k) = {}
      BY <1>10, <2>2 DEF RecordIs
    <3>2. Named(store', Deliveries, k) = {}
      BY <1>5, <3>1
    <3> QED  BY <2>1, <2>2, <3>2 DEF RecordIs, new
  <2>3. CASE record.status # "none"
    <3>1. PICK n \in 0 .. MaxRetries, y \in Times :
             /\ Named(store, Deliveries, k) = {RecordWith(k, record.status, n, y)}
             /\ free \/ n = record.attempts
      BY <1>10, <2>3, RecordHeld
    <3> DEFINE r == RecordWith(k, record.status, n, y)
               z == IF y = "future" THEN "past" ELSE y
    <3>2. r.retry = y /\ r \in Rows(store, Deliveries)
      BY <3>1, NamedIs DEF RecordWith
    <3>3. (IF r \in hit THEN Over(change, r) ELSE r) = RecordWith(k, record.status, n, z)
      BY <3>2, Overs
    <3>4. Named(store', Deliveries, k) = {RecordWith(k, record.status, n, z)}
      <4> HIDE DEF hit, change, z
      <4>1. Named(store', Deliveries, k) = {IF r \in hit THEN Over(change, r) ELSE r}
        BY <1>5, <3>1
      <4> QED  BY <3>3, <4>1
    <3>5. z \in Times /\ z # "future"
      BY DEF Times
    <3> HIDE DEF z
    <3>6. RecordIs(store', k, new, free)
      BY <2>1, <2>3, <3>1, <3>4, <3>5, RecordShown
    <3> QED  BY <3>6 DEF new
  <2> QED  BY <2>2, <2>3
<1>11. OneCall' /\ InProgress'
  BY <1>9 DEF OneCall, InProgress
<1>12. Settled'
  <2> SUFFICES ASSUME NEW k \in Comparable'
               PROVE  HoldsIn(store', k \in restarted', k, promised'[k].row, promised'[k].record)
    BY DEF Settled
  <2> DEFINE free == k \in restarted
  <2>1. HoldsIn(store, free, k, promised[k].row, promised[k].record) /\ k \in Messages
    BY <1>1, <1>2, <1>8 DEF Settled, Comparable
  <2> HIDE DEF free
  <2>2. promised[k].record \in RecordType /\ promised[k] \in [row : RowType, record : RecordType]
    BY <1>2, <2>1 DEF Types
  <2>3. /\ promised'[k].row = promised[k].row
        /\ promised'[k].record = [promised[k].record EXCEPT !.due = TRUE]
    BY <1>1, <2>1, <2>2
  <2>4. RowIs(store', k, promised[k].row)
    BY <1>7, <2>1 DEF HoldsIn, RowIs
  <2>5. RecordIs(store', k, [promised[k].record EXCEPT !.due = TRUE], free)
    BY <1>10, <2>1, <2>2 DEF HoldsIn
  <2>6. HoldsIn(store', free, k, promised'[k].row, promised'[k].record)
    BY <2>3, <2>4, <2>5 DEF HoldsIn
  <2> QED  BY <1>1, <2>6 DEF free
<1>13. Told'
  BY <1>1, <1>2, <1>5, <1>6, <1>9 DEF Told
<1>14. Known'
  <2>1. \A k : Named(store, Deliveries, k) # {} => Named(store', Deliveries, k) # {}
    BY <1>5
  <2> QED  BY <1>1, <1>2, <1>9, <2>1 DEF Known
<1>15. Undoable'
  <2>1. ~ Refusing /\ ~ Refusing'
    BY <1>8, <1>9 DEF Refusing
  <2> QED  BY <1>2, <1>6, <2>1 DEF Undoable, AllValid
<1> QED  BY <1>11, <1>12, <1>13, <1>14, <1>15 DEF Faithful

LEMMA InitFaithful == Init => Faithful
<1> SUFFICES ASSUME Init PROVE Faithful
  OBVIOUS
<1> DEFINE rows == SetToSeq({[key |-> t, status |-> "valid"] : t \in Tokens})
<1>1. store = [tables |-> [mailbox |-> << >>, message_deliveries |-> << >>,
                           refresh_tokens |-> rows], serial |-> 0]
  BY DEF Init, EmptyStore, EmptyTables
<1>2. \A r \in Range(rows) : r.status = "valid"
  BY TokensListed
<1> HIDE DEF rows
<1>3. /\ Rows(store, "refresh_tokens") = Range(rows)
      /\ Rows(store, Mailbox) = {} /\ Rows(store, Deliveries) = {}
  BY <1>1 DEF Rows, Range, Mailbox, Deliveries
<1>4. \A k : Named(store, Mailbox, k) = {} /\ Named(store, Deliveries, k) = {}
  BY <1>3, NamedIs
<1>5. \A d \in Calls : ~ Works(d) /\ ~ Taken(d) /\ call[d].op = "none"
  BY IdleCall DEF Init, Works, Taken
<1>6. /\ \A m \in Messages : given[m] = {}
      /\ \A m \in Messages : promised[m].row = NoRow /\ promised[m].record = NoRecord
  BY DEF Init
<1>7. ~ Present(NoRow) /\ NoRecord.status = "none"
  BY DEF Present, NoRow, NoRecord
<1>8. OneCall /\ InProgress
  BY <1>5 DEF OneCall, InProgress
<1>9. Settled
  BY <1>4, <1>6, <1>7 DEF Settled, Comparable, HoldsIn, RowIs, RecordIs
<1>10. Told /\ Known
  BY <1>5, <1>6 DEF Told, Known
<1>11. Undoable
  BY <1>2, <1>3, <1>5 DEF Undoable, Refusing, AllValid
<1> QED  BY <1>8, <1>9, <1>10, <1>11 DEF Faithful

LEMMA StepFaithful ==
    ASSUME Inv, Faithful, [Next]_vars
    PROVE  Faithful'
<1>1. CASE UNCHANGED vars
  BY <1>1 DEF vars, Faithful, OneCall, Settled, InProgress, Told, Known, Undoable, Works, Taken,
              Comparable, Refusing
<1>2. CASE TimePasses
  BY <1>2, TimePassesFaithful
<1>3. ASSUME NEW c \in Calls, BeginQueue(c) PROVE Faithful'
  <2>1. PICK m \in Messages : Begin(c, "queue", m, 0)
    BY <1>3 DEF BeginQueue
  <2>2. "queue" \in Ops \ {"refuse"}
    BY OpsAre
  <2> QED  BY <2>1, <2>2, BeginFaithful
<1>4. ASSUME NEW c \in Calls, BeginForMessage(c) PROVE Faithful'
  <2>1. PICK op \in Ops \ {"queue", "refuse"}, m \in Messages : \E id \in given[m] :
            Begin(c, op, m, IF op \in {"deliver", "acknowledge"} THEN id ELSE 0)
    BY <1>4 DEF BeginForMessage
  <2>2. PICK id \in given[m] : Begin(c, op, m, IF op \in {"deliver", "acknowledge"} THEN id ELSE 0)
    BY <2>1
  <2> DEFINE n == IF op \in {"deliver", "acknowledge"} THEN id ELSE 0
  <2>3. Begin(c, op, m, n) /\ given[m] # {} /\ (op \in {"deliver", "acknowledge"} => n \in given[m])
    BY <2>2
  <2> HIDE DEF n
  <2> QED  BY <2>3, BeginFaithful
<1>5. ASSUME NEW c \in Calls, BeginRefusal(c) PROVE Faithful'
  BY <1>5, BeginRefusalFaithful
<1>6. ASSUME NEW c \in Calls, Statement(c) PROVE Faithful'
  BY <1>6, WorkFaithful, RefusalFaithful
<1>7. ASSUME NEW c \in Calls, Return(c) \/ Throw(c) PROVE Faithful'
  BY <1>7, ReturnFaithful, ThrowFaithful
<1> QED  BY <1>1, <1>2, <1>3, <1>4, <1>5, <1>6, <1>7 DEF Next

-----------------------------------------------------------------------------
(* The theorems about what the calls leave.                                *)

\* Whatever runs, each call has made of its message what its statements so far
\* were to make of it, and nothing of the others.
THEOREM FaithfulKept == Spec => [](Inv /\ Faithful)
<1>1. Init => Inv /\ Faithful
  BY InitInv, InitFaithful
<1>2. Inv /\ Faithful /\ [Next]_vars => (Inv /\ Faithful)'
  BY NextInv, StepFaithful
<1> QED  BY <1>1, <1>2, PTL DEF Spec

LEMMA OnlyOne ==
    ASSUME NEW x, NEW S, S = {x}
    PROVE  S # {} /\ (CHOOSE y \in S : TRUE) = x
<1>1. (CHOOSE y \in S : TRUE) \in S
  OBVIOUS
<1> QED  BY <1>1

\* Between calls the in-memory tables hold what PostgreSQL would: the statements
\* of the callbacks (db/postgres.ts:235-388), awaited one by one, with snapshots
\* that whichever transaction ends pops (:48-67), make of each message what
\* MailboxRepository's transactions make of it, and a refused refresh leaves
\* nothing.
THEOREM MemoryImplementsRepository == Spec => []ImplementsRepository
<1>1. Inv /\ Faithful => ImplementsRepository
  <2> SUFFICES ASSUME Inv, Faithful, Quiet
               PROVE  /\ \A m \in Messages \ (replaced \cup contended) : SameRow(m) /\ SameRecord(m)
                      /\ \A r \in Rows(store, "refresh_tokens") : r.status = "valid"
    BY DEF ImplementsRepository
  <2>1. \A c \in Calls : ~ Works(c) /\ call[c].op = "none"
    BY IdleCall DEF Quiet, Works
  <2>2. Types /\ Settled /\ Undoable
    BY DEF Inv, Faithful
  <2>3. ASSUME NEW m \in Messages \ (replaced \cup contended)
        PROVE  SameRow(m) /\ SameRecord(m)
    <3> DEFINE free == m \in restarted
               row == promised[m].row
               record == promised[m].record
    <3>1. RowIs(store, m, row) /\ RecordIs(store, m, record, free)
      BY <2>1, <2>2 DEF Settled, Comparable, HoldsIn
    <3>2. row \in RowType /\ record \in RecordType
      BY <2>2 DEF Types
    <3>3. SameRow(m)
      <4>1. CASE Present(row)
        <5>1. Named(store, Mailbox, m) = {RowWith(m, row.status, row.id)}
          BY <3>1, <4>1 DEF RowIs, RowWith
        <5> DEFINE r == RowWith(m, row.status, row.id)
        <5>2. r.status = row.status /\ r.id = row.id
          BY DEF RowWith
        <5> HIDE DEF r, row
        <5>3. Named(store, Mailbox, m) # {} /\ (CHOOSE q \in Named(store, Mailbox, m) : TRUE) = r
          BY <5>1, OnlyOne DEF r
        <5>4. RowOf(m) = [status |-> row.status, id |-> row.id]
          BY <5>2, <5>3 DEF RowOf
        <5> USE DEF row
        <5> QED  BY <3>2, <4>1, <5>4 DEF SameRow, RowType
      <4>2. CASE ~ Present(row)
        BY <3>1, <4>2 DEF SameRow, RowIs
      <4> QED  BY <4>1, <4>2
    <3>4. SameRecord(m)
      <4>1. CASE record.status = "none"
        <5>1. Named(store, Deliveries, m) = {}
          BY <3>1, <4>1 DEF RecordIs
        <5> QED  BY <4>1, <5>1 DEF SameRecord, RecordOf, NoRecord
      <4>2. CASE record.status # "none"
        <5>1. PICK n \in 0 .. MaxRetries, y \in Times :
                 /\ Named(store, Deliveries, m) = {RecordWith(m, record.status, n, y)}
                 /\ record.due <=> y # "future"
                 /\ free \/ n = record.attempts
          <6> HIDE DEF free, record
          <6> QED  BY <3>1, <4>2, RecordHeld
        <5> DEFINE r == RecordWith(m, record.status, n, y)
        <5>2. r.status = record.status /\ r.attempts = n /\ r.retry = y
          BY DEF RecordWith
        <5>3. RecordOf(m) = [status |-> record.status, attempts |-> n, due |-> y # "future"]
          <6> HIDE DEF r, record
          <6>1. Named(store, Deliveries, m) # {} /\ (CHOOSE q \in Named(store, Deliveries, m) : TRUE) = r
            BY <5>1, OnlyOne DEF r
          <6> QED  BY <5>2, <6>1 DEF RecordOf
        <5>4. record = [status |-> record.status, attempts |-> record.attempts, due |-> record.due]
              /\ record.due \in BOOLEAN /\ record.attempts \in 0 .. MaxRetries
          BY <3>2 DEF RecordType
        <5>5. (y # "future") = record.due
          BY <5>1, <5>4
        <5>6. RecordOf(m) = [status |-> record.status, attempts |-> n, due |-> record.due]
          BY <5>3, <5>5
        <5> HIDE DEF free, record
        <5>7. CASE n = record.attempts
          BY <5>4, <5>6, <5>7 DEF SameRecord, record
        <5>8. CASE free
          <6>1. [RecordOf(m) EXCEPT !.attempts = record.attempts] = record
            BY <5>4, <5>6
          <6> QED  BY <5>4, <5>8, <6>1 DEF SameRecord, record, free
        <5> QED  BY <5>1, <5>7, <5>8
      <4> QED  BY <4>1, <4>2
    <3> QED  BY <3>3, <3>4
  <2>4. AllValid(store)
    BY <2>1, <2>2 DEF Undoable, Refusing
  <2> QED  BY <2>3, <2>4 DEF AllValid
<1> QED  BY <1>1, FaithfulKept, PTL
=============================================================================
