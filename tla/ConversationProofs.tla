------------------------- MODULE ConversationProofs -------------------------
(***************************************************************************)
(* The safety properties of Conversation, for any users, channels, handler *)
(* slots and bounds.  They rest on one inductive invariant, Inv, which     *)
(* ConversationInvariant defines part by part.                             *)
(*                                                                         *)
(* Steps that differ little are one kind (SwitchRoom and Join, say).  For  *)
(* each kind there is a lemma of what it does to each variable (...Does),  *)
(* one for each part of Inv, and one that puts them together (...Inv).     *)
(***************************************************************************)
EXTENDS ConversationInvariant, FiniteSetTheorems, SequenceTheorems, TLAPS

-----------------------------------------------------------------------------
(* Facts about the constants and the operators.                            *)

\* A room is either a channel or a conversation of two users.
LEMMA Kinds ==
    /\ Channels \cap Direct = {} /\ None \notin Rooms /\ General \in Channels
    /\ General \in Existing
    /\ \A r \in Direct : r \subseteq Users
    /\ \A r \in Direct : \A u \in r : \E w \in r : w # u /\ r = {u, w}
<1>1. \A r \in Direct : \E p, q \in Users : p # q /\ r = {p, q}
  BY DEF Direct
<1>2. \A r \in Channels \cup {None} : \A p, q \in Users : r # {p, q}
  BY ConversationAssumption DEF Channels
<1>. QED  BY <1>1, <1>2, ConversationAssumption DEF Channels, Rooms

\* The other user of a direct message.
LEMMA PeerOf ==
    ASSUME NEW m \in Messages, RoomOf(m) \in Direct, By(m) \in RoomOf(m)
    PROVE  Peer(m) \in Users /\ Peer(m) # By(m) /\ RoomOf(m) = {By(m), Peer(m)}
<1>1. PICK w \in RoomOf(m) : w # By(m) /\ RoomOf(m) = {By(m), w}
  BY Kinds
<1>2. Peer(m) \in RoomOf(m) /\ Peer(m) # By(m)
  BY <1>1 DEF Peer
<1>. QED  BY <1>1, <1>2, Kinds

\* SetToSeq lists the members of a finite set, each once.
LEMMA SetToSeqLists ==
    ASSUME NEW S, IsFiniteSet(S)
    PROVE  /\ SetToSeq(S) \in Seq(S)
           /\ \A k \in DOMAIN SetToSeq(S) : SetToSeq(S)[k] \in S
<1>1. ExistsBijection(1..Cardinality(S), S) /\ Cardinality(S) \in Nat
  BY FS_CardinalityType
<1>2. \E f \in [1..Cardinality(S) -> S] : IsInjective(f)
  BY <1>1 DEF ExistsBijection, Bijection, Injection, IsInjective
<1>3. SetToSeq(S) \in [1..Cardinality(S) -> S]
  BY <1>2 DEF SetToSeq
<1>. QED  BY <1>1, <1>3

LEMMA FiniteInterval == \A n \in Nat : \A S \in SUBSET (1..n) : IsFiniteSet(S)
<1>1. \A n \in Nat : IsFiniteSet(1..n)
  BY FS_Interval
<1>. QED  BY <1>1, FS_Subset

LEMMA ReceiptsSound ==
    ASSUME Types, NEW u \in Users, NEW r
    PROVE  /\ Receipts(u, r) \in Seq(Events)
           /\ \A k \in DOMAIN Receipts(u, r) : \E i \in DOMAIN view[u].list :
                 /\ Receipts(u, r)[k] = Event("read", view[u].list[i].msg, None)
                 /\ By(view[u].list[i].msg) \in r \ {u}
                 /\ view[u].list[i].status # "read"
<1>. DEFINE l == view[u].list
            unread == {i \in DOMAIN l : By(l[i].msg) \in r \ {u} /\ l[i].id /\ l[i].status # "read"}
            at == SetToSeq(unread)
<1>1. l \in Seq(Entries)
  BY DEF Types, Views
<1>2. IsFiniteSet(unread)
  <2>1. DOMAIN l = 1..Len(l) /\ Len(l) \in Nat
    BY <1>1
  <2>2. unread \in SUBSET (1..Len(l))
    BY <2>1
  <2>. QED  BY <2>1, <2>2, FiniteInterval
<1>3. at \in Seq(unread) /\ \A k \in DOMAIN at : at[k] \in unread
  BY <1>2, SetToSeqLists
<1>4. Receipts(u, r) = [k \in DOMAIN at |-> Event("read", l[at[k]].msg, None)]
  BY DEF Receipts
<1>. HIDE DEF at
<1>5. \A i \in unread : Event("read", l[i].msg, None) \in Events
  <2>1. \A i \in unread : l[i] \in Entries
    BY <1>1
  <2>. QED  BY <2>1 DEF Event, Events, Entries, OutTypes
<1>6. \A k \in DOMAIN at : Event("read", l[at[k]].msg, None) \in Events
  BY <1>3, <1>5
<1>7. Receipts(u, r) \in Seq(Events)
  BY <1>3, <1>4, <1>6
<1>8. \A k \in DOMAIN Receipts(u, r) : /\ at[k] \in unread
                                       /\ Receipts(u, r)[k] = Event("read", l[at[k]].msg, None)
  BY <1>3, <1>4
<1>9. \A i \in unread : /\ i \in DOMAIN view[u].list
                        /\ By(view[u].list[i].msg) \in r \ {u}
                        /\ view[u].list[i].status # "read"
  OBVIOUS
<1>. HIDE DEF unread
<1>. QED  BY <1>7, <1>8, <1>9

-----------------------------------------------------------------------------
(* What the helpers of the actions do.                                     *)

Old(s, x) == \E k \in DOMAIN s : s[k] = x

LEMMA Sequences ==
    ASSUME NEW S, NEW s \in Seq(S)
    PROVE  /\ \A e \in S : /\ Append(s, e) \in Seq(S)
                           /\ \A i \in DOMAIN Append(s, e) :
                                 Old(s, Append(s, e)[i]) \/ Append(s, e)[i] = e
           /\ \A t \in Seq(S) : /\ s \o t \in Seq(S)
                                /\ \A i \in DOMAIN (s \o t) : Old(s, (s \o t)[i]) \/ Old(t, (s \o t)[i])
           /\ s # <<>> => /\ Tail(s) \in Seq(S) /\ Head(s) \in S /\ Old(s, Head(s))
                          /\ \A i \in DOMAIN Tail(s) : Old(s, Tail(s)[i])
<1>1. \A e \in S : /\ Append(s, e) \in Seq(S)
                   /\ \A i \in DOMAIN Append(s, e) : Old(s, Append(s, e)[i]) \/ Append(s, e)[i] = e
  BY DEF Old
<1>2. ASSUME NEW t \in Seq(S)
      PROVE  /\ s \o t \in Seq(S)
             /\ \A i \in DOMAIN (s \o t) : Old(s, (s \o t)[i]) \/ Old(t, (s \o t)[i])
  <2>1. s \o t \in Seq(S) /\ DOMAIN (s \o t) = 1..Len(s) + Len(t)
    OBVIOUS
  <2>2. \A i \in 1..Len(s) + Len(t) : (s \o t)[i] = IF i <= Len(s) THEN s[i] ELSE t[i - Len(s)]
    OBVIOUS
  <2>. QED  BY <2>1, <2>2 DEF Old
<1>3. s # <<>> => /\ Tail(s) \in Seq(S) /\ Head(s) \in S /\ Old(s, Head(s))
                  /\ \A i \in DOMAIN Tail(s) : Old(s, Tail(s)[i])
  BY DEF Old
<1>. QED  BY <1>1, <1>2, <1>3

LEMMA EventTypes == \A type \in OutTypes : \A m \in Nat : \A r \in Rooms \cup {None} :
    /\ Event(type, m, r) \in Events
    /\ Event(type, m, r).type = type /\ Event(type, m, r).msg = m /\ Event(type, m, r).room = r
  BY DEF Event, Events

LEMMA EmitDoes ==
    ASSUME Types, NEW u \in Users, NEW events \in Seq(Events), Emit(u, events)
    PROVE  /\ out' \in [Users -> Seq(Events)]
           /\ \A w \in Users : out'[w] = IF w = u /\ online[u] THEN out[u] \o events ELSE out[w]
<1>1. out[u] \o events \in Seq(Events)
  BY DEF Types
<1>. QED  BY <1>1 DEF Emit, Types

LEMMA TellDoes ==
    ASSUME Types, NEW users, NEW e \in News, Tell(users, e)
    PROVE  /\ inbox' \in [Users -> Seq(News)]
           /\ \A w \in Users : inbox'[w] = IF w \in users /\ online[w] THEN Append(inbox[w], e)
                                                                      ELSE inbox[w]
<1>1. \A w \in Users : inbox[w] \in Seq(News) /\ Append(inbox[w], e) \in Seq(News)
  BY DEF Types
<1>. QED  BY <1>1 DEF Tell

LEMMA DispatchedDoes ==
    ASSUME Types, NEW m \in Nat, Dispatched(m)
    PROVE  /\ inbox' \in [Users -> Seq(News)]
           /\ \A w \in Users :
                \/ inbox'[w] = inbox[w]
                \/ /\ w = Peer(m)
                   /\ inbox'[w] = Append(inbox[w], [type |-> "direct", msg |-> m, status |-> "none"])
                \/ /\ online[w]
                   /\ inbox'[w] = Append(inbox[w], [type |-> "status", msg |-> m, status |-> "delivered"])
<1>. DEFINE d == [type |-> "direct", msg |-> m, status |-> "none"]
            s == [type |-> "status", msg |-> m, status |-> "delivered"]
<1>1. d \in News /\ s \in News
  BY DEF News, Status
<1>2. \A w \in Users : inbox[w] \in Seq(News)
  BY DEF Types
<1>3. \A w \in Users : inbox'[w] = CASE w = Peer(m) -> Append(inbox[w], d)
                                     [] w = By(m) /\ online[w] -> Append(inbox[w], s)
                                     [] OTHER -> inbox[w]
  BY DEF Dispatched
<1>4. inbox' = [w \in Users |-> inbox'[w]]
  BY DEF Dispatched
<1>. HIDE DEF d, s
<1>a. \A w \in Users : Append(inbox[w], d) \in Seq(News) /\ Append(inbox[w], s) \in Seq(News)
  BY <1>1, <1>2
<1>5. \A w \in Users : inbox'[w] \in Seq(News)
  BY <1>2, <1>3, <1>a
<1>6. inbox' \in [Users -> Seq(News)]
  BY <1>4, <1>5
<1>7. \A w \in Users : \/ inbox'[w] = inbox[w]
                       \/ w = Peer(m) /\ inbox'[w] = Append(inbox[w], d)
                       \/ online[w] /\ inbox'[w] = Append(inbox[w], s)
  BY <1>3
<1>. QED  BY <1>6, <1>7 DEF d, s

LEMMA JobDoes ==
    ASSUME Types, NEW h \in Handlers
    PROVE  /\ job[h] \in Jobs
           /\ \A label \in Labels : Becomes(h, label) =>
                /\ job' \in [Handlers -> Jobs]
                /\ \A g \in Handlers \ {h} : job'[g] = job[g]
                /\ job'[h].at = label /\ job'[h].by = job[h].by
                /\ job'[h].msg = job[h].msg /\ job'[h].room = job[h].room
           /\ Done(h) => /\ job' \in [Handlers -> Jobs]
                         /\ \A g \in Handlers \ {h} : job'[g] = job[g]
                         /\ job'[h].at = "idle" /\ job'[h] = Idle
<1>1. job \in [Handlers -> Jobs] /\ job[h] \in Jobs /\ Idle \in Jobs
  BY DEF Types, Jobs, Idle, Labels
<1>2. \A label \in Labels : Becomes(h, label) =>
        /\ job' \in [Handlers -> Jobs]
        /\ \A g \in Handlers \ {h} : job'[g] = job[g]
        /\ job'[h].at = label /\ job'[h].by = job[h].by
        /\ job'[h].msg = job[h].msg /\ job'[h].room = job[h].room
  BY <1>1 DEF Becomes, Jobs
<1>3. Done(h) => /\ job' \in [Handlers -> Jobs]
                 /\ \A g \in Handlers \ {h} : job'[g] = job[g]
                 /\ job'[h].at = "idle" /\ job'[h] = Idle
  BY <1>1 DEF Done, Idle
<1>. QED  BY <1>1, <1>2, <1>3

LEMMA ArrivesDoes ==
    ASSUME Types, NEW u \in Users, NEW type, Arrives(u, type)
    PROVE  /\ out' \in [Users -> Seq(Events)]
           /\ \A w \in Users \ {u} : out'[w] = out[w]
           /\ out[u] # <<>> /\ out'[u] = Tail(out[u]) /\ online[u]
           /\ Head(out[u]) \in Events /\ Head(out[u]).type = type
           /\ 1 \in DOMAIN out[u] /\ Head(out[u]) = out[u][1]
<1>1. out[u] \in Seq(Events) /\ out[u] # <<>> /\ Tail(out[u]) \in Seq(Events)
  BY DEF Types, Arrives
<1>. QED  BY <1>1 DEF Arrives, Types

LEMMA BeginDoes ==
    ASSUME Types, NEW u \in Users, NEW h \in Handlers, NEW label \in Labels,
           Head(out[u]) \in Events, Begin(u, h, label)
    PROVE  /\ job' \in [Handlers -> Jobs] /\ job[h].at = "idle"
           /\ \A g \in Handlers \ {h} : job'[g] = job[g]
           /\ job'[h].at = label /\ job'[h].by = u
           /\ job'[h].msg = Head(out[u]).msg /\ job'[h].room = Head(out[u]).room
<1>. DEFINE e == Head(out[u])
            j == [at |-> label, by |-> u, msg |-> e.msg, room |-> e.room]
<1>1. j \in Jobs
  BY DEF Jobs, Events
<1>2. job' = [job EXCEPT ![h] = j] /\ job[h].at = "idle" /\ job \in [Handlers -> Jobs]
  BY DEF Begin, Types
<1>3. j.at = label /\ j.by = u /\ j.msg = e.msg /\ j.room = e.room
  OBVIOUS
<1>. HIDE DEF j
<1>. QED  BY <1>1, <1>2, <1>3

LEMMA TakeDoes ==
    ASSUME Types, NEW u \in Users, NEW type, Take(u, type)
    PROVE  /\ inbox' \in [Users -> Seq(News)]
           /\ \A w \in Users \ {u} : inbox'[w] = inbox[w]
           /\ inbox[u] # <<>> /\ inbox'[u] = Tail(inbox[u])
           /\ Received(u) \in News /\ Received(u).type = type
           /\ 1 \in DOMAIN inbox[u] /\ Received(u) = inbox[u][1]
<1>1. inbox[u] \in Seq(News) /\ inbox[u] # <<>> /\ Tail(inbox[u]) \in Seq(News)
  BY DEF Types, Take
<1>. QED  BY <1>1 DEF Take, Types, Received

\* v is what the browser of u is like after a step.
Turns(u, v) == /\ v \in Views
               /\ view' \in [Users -> Views]
               /\ \A w \in Users : view'[w] = IF w = u THEN v ELSE view[w]

LEMMA ViewDoes ==
    ASSUME Types, NEW u \in Users, NEW v \in Views, view' = [view EXCEPT ![u] = v]
    PROVE  Turns(u, v)
  BY DEF Types, Turns

LEMMA FetchDoes ==
    ASSUME Types, NEW u \in Users, NEW f, NEW g \in SUBSET Fetches, NEW list \in Seq(Entries),
           FetchStep(u, f, g, list)
    PROVE  /\ f \in view[u].fetches
           /\ Turns(u, [view[u] EXCEPT !.fetches = (@ \ {f}) \cup g, !.list = list])
           /\ UNCHANGED <<online, out, inbox, rooms, stored, erased, box, members, home, astray, recent, job>>
<1>. DEFINE v == [view[u] EXCEPT !.fetches = (@ \ {f}) \cup g, !.list = list]
<1>1. view[u] \in Views
  BY DEF Types
<1>2. v \in Views
  BY <1>1 DEF Views
<1>3. view' = [view EXCEPT ![u] = v]
  BY <1>1 DEF FetchStep, Types, Views
<1>4. UNCHANGED <<online, out, inbox, rooms, stored, erased, box, members, home, astray, recent, job>>
  BY DEF FetchStep, tables, sockets
<1>5. f \in view[u].fetches
  BY DEF FetchStep
<1>. HIDE DEF v
<1>6. Turns(u, v)
  BY <1>2, <1>3, ViewDoes
<1>. QED  BY <1>4, <1>5, <1>6 DEF v

\* What the effect does to its browser and its connection.
LEMMA EffectDoes ==
    ASSUME Types, NEW u \in Users, NEW r \in Rooms, NEW joins \in SUBSET Channels,
           NEW receipts \in Seq(Events), Effect(u, r, joins, receipts)
    PROVE  /\ \E f \in Fetches :
                /\ f.room = r /\ f.rows = <<>>
                /\ Turns(u, [view[u] EXCEPT !.room = r, !.unread = [@ EXCEPT ![r] = 0],
                                !.channel = IF r \in Channels THEN r ELSE @,
                                !.joining = @ \cup joins, !.fetches = @ \cup {f}])
           /\ Emit(u, Append(receipts, Event("switch", 0, r)))
           /\ Append(receipts, Event("switch", 0, r)) \in Seq(Events)
           /\ out' \in [Users -> Seq(Events)]
           /\ note' \in [Users -> Notes]
           /\ \A w \in Users \ {u} : note'[w] = note[w]
           /\ note'[u].shown = note[u].shown /\ note'[u].opened = note[u].opened \cup {r}
           /\ note'[u].awaited = {}
           /\ note'[u].blurred <=> Busy(u)
           /\ note'[u].torn <=> (note[u].torn \/ r \in Channels \ rooms' \/ Outruns(u, r))
           /\ note'[u].deaf <=> (~online[u] \/ r \notin rooms')
<1>1. view[u] \in Views /\ steps \in 0..MaxSteps
  BY DEF Types
<1>2. \E f \in Fetches :
        /\ f.room = r /\ f.rows = <<>>
        /\ Turns(u, [view[u] EXCEPT !.room = r, !.unread = [@ EXCEPT ![r] = 0],
                        !.channel = IF r \in Channels THEN r ELSE @,
                        !.joining = @ \cup joins, !.fetches = @ \cup {f}])
  <2>. DEFINE f == [no |-> steps, room |-> r, at |-> "asked", rows |-> <<>>]
              c == IF r \in Channels THEN r ELSE view[u].channel
              v == [view[u] EXCEPT !.room = r, !.unread = [@ EXCEPT ![r] = 0], !.channel = c,
                                   !.joining = @ \cup joins, !.fetches = @ \cup {f}]
  <2>1. f \in Fetches /\ f.room = r /\ f.rows = <<>> /\ c \in Channels
    BY <1>1 DEF Views, Fetches
  <2>2. view' = [view EXCEPT ![u] = v]
    BY <1>1 DEF Effect, Types
  <2>. HIDE DEF f
  <2>3. v \in Views
    <3>. HIDE DEF c
    <3>. QED  BY <1>1, <2>1 DEF Views
  <2>4. Turns(u, v)
    <3>. HIDE DEF v
    <3>. QED  BY <2>2, <2>3, ViewDoes
  <2>. QED  BY <2>1, <2>4
<1>3. Emit(u, Append(receipts, Event("switch", 0, r)))
  BY DEF Effect
<1>4. Append(receipts, Event("switch", 0, r)) \in Seq(Events)
  <2>1. Event("switch", 0, r) \in Events
    BY EventTypes DEF OutTypes
  <2>. QED  BY <2>1
<1>5. out' \in [Users -> Seq(Events)]
  BY <1>3, <1>4, EmitDoes
<1>6. /\ note' \in [Users -> Notes]
      /\ \A w \in Users \ {u} : note'[w] = note[w]
      /\ note'[u].shown = note[u].shown /\ note'[u].opened = note[u].opened \cup {r}
      /\ note'[u].awaited = {}
      /\ note'[u].blurred <=> Busy(u)
      /\ note'[u].torn <=> (note[u].torn \/ r \in Channels \ rooms' \/ Outruns(u, r))
      /\ note'[u].deaf <=> (~online[u] \/ r \notin rooms')
  <2>. DEFINE b == Busy(u)
              t == note[u].torn \/ r \in Channels \ rooms' \/ Outruns(u, r)
              d == ~online[u] \/ r \notin rooms'
              n == [note[u] EXCEPT !.opened = @ \cup {r}, !.awaited = {}, !.blurred = b,
                                   !.torn = t, !.deaf = d]
  <2>1. b \in BOOLEAN /\ t \in BOOLEAN /\ d \in BOOLEAN
    BY DEF Busy
  <2>2. note' = [note EXCEPT ![u] = n] /\ note[u] \in Notes
    BY DEF Effect, Types, Notes
  <2>. HIDE DEF b, t, d
  <2>3. /\ n \in Notes
        /\ n.shown = note[u].shown /\ n.opened = note[u].opened \cup {r} /\ n.awaited = {}
        /\ n.blurred = b /\ n.torn = t /\ n.deaf = d
    BY <2>1, <2>2 DEF Notes
  <2>. HIDE DEF n
  <2>4. note' \in [Users -> Notes] /\ note'[u] = n /\ \A w \in Users \ {u} : note'[w] = note[w]
    BY <2>2, <2>3 DEF Types
  <2>. QED  BY <2>3, <2>4 DEF b, t, d
<1>. QED  BY <1>2, <1>3, <1>4, <1>5, <1>6

-----------------------------------------------------------------------------
(* What the actions of a browser do.                                       *)

ServerSame == UNCHANGED <<rooms, stored, erased, box, members, home, astray, recent, job>>

LEMMA JoinRoomDoes ==
    ASSUME Types, NEW u \in Users, NEW r \in Channels, JoinRoom(u, r)
    PROVE  /\ Types'
           /\ r \in view[u].joining
           /\ Turns(u, [view[u] EXCEPT !.joining = @ \ {r}])
           /\ Event("join", 0, r) \in Events
           /\ \A w \in Users : out'[w] = IF w = u THEN Append(out[u], Event("join", 0, r)) ELSE out[w]
           /\ \A w \in Users \ {u} : note'[w] = note[w]
           /\ \E t \in BOOLEAN : /\ t = (note[u].torn \/ r # view[u].channel)
                                 /\ note'[u] = [note[u] EXCEPT !.torn = t]
           /\ ServerSame /\ UNCHANGED <<online, inbox, sent>>
<1>. DEFINE v == [view[u] EXCEPT !.joining = @ \ {r}]
            e == Event("join", 0, r)
            t == note[u].torn \/ r # view[u].channel
            n == [note[u] EXCEPT !.torn = t]
<1>1. view[u] \in Views /\ out[u] \in Seq(Events) /\ note[u] \in Notes /\ t \in BOOLEAN
  BY DEF Types
<1>2. e \in Events
  BY EventTypes, Kinds DEF OutTypes, Rooms
<1>3. /\ r \in view[u].joining /\ view' = [view EXCEPT ![u] = v]
      /\ out' = [out EXCEPT ![u] = Append(@, e)]
      /\ note' = [note EXCEPT ![u] = n]
      /\ UNCHANGED <<online, inbox, tables, sockets, job, sent, asked, steps, faults>>
  BY DEF JoinRoom, Types
<1>4. v \in Views
  BY <1>1 DEF Views
<1>. HIDE DEF t, e
<1>5. n \in Notes
  BY <1>1 DEF Notes
<1>6. Turns(u, v)
  <2>. HIDE DEF v
  <2>. QED  BY <1>3, <1>4, ViewDoes
<1>. HIDE DEF n, v
<1>7. Append(out[u], e) \in Seq(Events)
  BY <1>1, <1>2
<1>8. /\ out' \in [Users -> Seq(Events)] /\ note' \in [Users -> Notes]
      /\ \A w \in Users : out'[w] = IF w = u THEN Append(out[u], e) ELSE out[w]
      /\ note'[u] = n
      /\ \A w \in Users \ {u} : note'[w] = note[w]
  BY <1>3, <1>5, <1>7 DEF Types
<1>9. Types'
  BY <1>3, <1>6, <1>8 DEF Types, Turns, tables, sockets
<1>. QED  BY <1>1, <1>2, <1>3, <1>6, <1>8, <1>9 DEF n, t, e, v, ServerSame, tables, sockets

LEMMA ComposeDoes ==
    ASSUME Types, NEW u \in Users, Compose(u)
    PROVE  /\ Types'
           /\ sent' = Append(sent, [by |-> u, room |-> view[u].room])
           /\ Len(sent') = Len(sent) + 1
           /\ Turns(u, [view[u] EXCEPT !.composing = @ \cup {Len(sent')}])
           /\ ServerSame /\ UNCHANGED <<online, out, inbox, note>>
<1>. DEFINE v == [view[u] EXCEPT !.composing = @ \cup {Len(sent')}]
            x == [by |-> u, room |-> view[u].room]
<1>1. view[u] \in Views /\ sent \in Seq([by : Users, room : Rooms])
  BY DEF Types
<1>2. x \in [by : Users, room : Rooms]
  BY <1>1 DEF Views
<1>3. /\ view' = [view EXCEPT ![u] = v]
      /\ sent' = Append(sent, x)
      /\ steps' \in 0..MaxSteps
      /\ UNCHANGED <<online, out, inbox, tables, sockets, job, note, asked, faults>>
  BY ConversationAssumption DEF Compose, Types, Acts
<1>. HIDE DEF x
<1>4. sent' \in Seq([by : Users, room : Rooms]) /\ Len(sent') = Len(sent) + 1 /\ Len(sent') \in Nat
  BY <1>1, <1>2, <1>3
<1>5. v \in Views
  BY <1>1, <1>4 DEF Views
<1>6. Turns(u, v)
  <2>. HIDE DEF v
  <2>. QED  BY <1>3, <1>5, ViewDoes
<1>. HIDE DEF v
<1>7. Types'
  BY <1>3, <1>4, <1>6 DEF Types, Turns, tables, sockets
<1>. QED  BY <1>3, <1>4, <1>6, <1>7 DEF x, v, ServerSame, tables, sockets

EntryOf(x, m, status) == x \in Entries /\ x.msg = m /\ x.status = status

LEMMA EntryTypes == \A m \in Nat :
    /\ EntryOf(Entry(m, FALSE, "none"), m, "none") /\ EntryOf(Entry(m, TRUE, "none"), m, "none")
    /\ EntryOf(Entry(m, TRUE, "queued"), m, "queued")
    /\ EntryOf(Entry(m, TRUE, "acknowledged"), m, "acknowledged")
<1>1. ASSUME NEW m \in Nat, NEW id \in BOOLEAN, NEW status \in Status
      PROVE  EntryOf(Entry(m, id, status), m, status)
  BY DEF EntryOf, Entry, Entries
<1>2. "none" \in Status /\ "queued" \in Status /\ "acknowledged" \in Status
  BY DEF Status
<1>. QED  BY <1>1, <1>2

\* The message is on its way, and on the list if nobody will send it back.
Encrypted(u, m, list) == [view[u] EXCEPT !.composing = @ \ {m}, !.list = list]

LEMMA EncryptedDoes ==
    ASSUME Types, NEW u \in Users, NEW m, EncryptedChannel(u, m) \/ EncryptedDM(u, m)
    PROVE  /\ Types'
           /\ m \in view[u].composing /\ m \in Nat
           /\ \E list \in Seq(Entries) :
                /\ Turns(u, Encrypted(u, m, list))
                /\ RoomOf(m) \in Channels /\ online[u] => list = view[u].list
                /\ list # view[u].list => \E x \in Entries :
                      /\ x.msg = m /\ x.status # "read" /\ list = Append(view[u].list, x)
           /\ \E e \in Events :
                /\ Emit(u, <<e>>)
                /\ e.msg = m
                /\ RoomOf(m) \in Channels => e.type = "send" /\ e.room = RoomOf(m)
                /\ RoomOf(m) \notin Channels => e.type = "direct" /\ RoomOf(m) \in Direct
           /\ ServerSame /\ UNCHANGED <<online, inbox, sent, note>>
<1>1. view[u] \in Views /\ m \in view[u].composing /\ m \in Nat /\ view[u].list \in Seq(Entries)
  BY DEF Types, Views, EncryptedChannel, EncryptedDM
<1>. DEFINE Result(list, e) ==
            /\ view' = [view EXCEPT ![u] = [view[u] EXCEPT !.composing = @ \ {m}, !.list = list]]
            /\ Emit(u, <<e>>)
            /\ UNCHANGED <<online, inbox, tables, sockets, job, history>>
<1>2. CASE EncryptedChannel(u, m)
  <2>. DEFINE x == Entry(m, TRUE, "none")
              list == IF online[u] THEN view[u].list ELSE Append(view[u].list, x)
              e == Event("send", m, RoomOf(m))
  <2>1. RoomOf(m) \in Channels /\ Result(list, e)
    BY <1>2, <1>1 DEF EncryptedChannel, Types, Views
  <2>2. x \in Entries /\ x.msg = m /\ x.status # "read"
    BY <1>1, EntryTypes DEF EntryOf
  <2>3. e \in Events /\ e.type = "send" /\ e.msg = m /\ e.room = RoomOf(m)
    BY <1>1, <2>1, EventTypes DEF OutTypes, Rooms
  <2>. HIDE DEF x, e
  <2>4. list \in Seq(Entries) /\ <<e>> \in Seq(Events)
    BY <1>1, <2>2, <2>3
  <2>5. RoomOf(m) \in Channels /\ online[u] => list = view[u].list
    OBVIOUS
  <2>6. list # view[u].list => list = Append(view[u].list, x)
    OBVIOUS
  <2>. HIDE DEF list
  <2>7. [view[u] EXCEPT !.composing = @ \ {m}, !.list = list] \in Views
    BY <1>1, <2>4 DEF Views
  <2>8. Turns(u, Encrypted(u, m, list))
    BY <2>1, <2>7, ViewDoes DEF Encrypted
  <2>9. out' \in [Users -> Seq(Events)]
    BY <2>1, <2>4, EmitDoes
  <2>10. Types' /\ ServerSame /\ UNCHANGED <<online, inbox, sent, note>>
    BY <2>1, <2>8, <2>9 DEF Types, Turns, tables, sockets, history, ServerSame
  <2>. QED  BY <1>1, <2>1, <2>2, <2>3, <2>4, <2>5, <2>6, <2>8, <2>10
<1>3. CASE EncryptedDM(u, m)
  <2>. DEFINE x == Entry(m, TRUE, "queued")
              list == Append(view[u].list, x)
              e == Event("direct", m, None)
  <2>1. RoomOf(m) \in Direct /\ Result(list, e)
    BY <1>3, <1>1 DEF EncryptedDM, Types, Views
  <2>2. x \in Entries /\ x.msg = m /\ x.status # "read"
    BY <1>1, EntryTypes DEF EntryOf
  <2>3. e \in Events /\ e.type = "direct" /\ e.msg = m
    BY <1>1, <2>1, EventTypes DEF OutTypes, Rooms
  <2>. HIDE DEF x, e
  <2>4. list \in Seq(Entries) /\ <<e>> \in Seq(Events)
    BY <1>1, <2>2, <2>3
  <2>5. RoomOf(m) \notin Channels
    BY <2>1, Kinds
  <2>6. list = Append(view[u].list, x)
    OBVIOUS
  <2>. HIDE DEF list
  <2>7. [view[u] EXCEPT !.composing = @ \ {m}, !.list = list] \in Views
    BY <1>1, <2>4 DEF Views
  <2>8. Turns(u, Encrypted(u, m, list))
    BY <2>1, <2>7, ViewDoes DEF Encrypted
  <2>9. out' \in [Users -> Seq(Events)]
    BY <2>1, <2>4, EmitDoes
  <2>10. Types' /\ ServerSame /\ UNCHANGED <<online, inbox, sent, note>>
    BY <2>1, <2>8, <2>9 DEF Types, Turns, tables, sockets, history, ServerSame
  <2>. QED  BY <1>1, <2>1, <2>2, <2>3, <2>4, <2>5, <2>6, <2>8, <2>10
<1>. QED  BY <1>2, <1>3

LEMMA EncryptFailsDoes ==
    ASSUME Types, NEW u \in Users, NEW m, EncryptFails(u, m)
    PROVE  /\ Types'
           /\ Turns(u, [view[u] EXCEPT !.composing = @ \ {m}])
           /\ ServerSame /\ UNCHANGED <<online, out, inbox, sent, note>>
<1>. DEFINE v == [view[u] EXCEPT !.composing = @ \ {m}]
<1>1. view[u] \in Views
  BY DEF Types
<1>2. v \in Views
  BY <1>1 DEF Views
<1>3. /\ view' = [view EXCEPT ![u] = v]
      /\ UNCHANGED <<online, out, inbox, tables, sockets, job, sent, note, asked, steps>>
  BY DEF EncryptFails, Types, Fails
<1>. HIDE DEF v
<1>4. Turns(u, v)
  BY <1>2, <1>3, ViewDoes
<1>5. Types'
  BY <1>3, <1>4 DEF Types, Turns, tables, sockets
<1>. QED  BY <1>3, <1>4, <1>5 DEF v, ServerSame, tables, sockets

LEMMA DeleteMessageDoes ==
    ASSUME Types, NEW u \in Users, NEW i \in DOMAIN view[u].list,
           DeleteMessage(u, view[u].list[i])
    PROVE  /\ Types'
           /\ \E e \in Events : /\ Emit(u, <<e>>) /\ e.type = "delete" /\ e.room \in Rooms
                                /\ e.msg \in {0, view[u].list[i].msg}
           /\ ServerSame /\ UNCHANGED <<view, online, inbox, sent, note>>
<1>. DEFINE x == view[u].list[i]
            m == IF x.id THEN x.msg ELSE 0
            e == Event("delete", m, view[u].room)
<1>1. x \in Entries /\ view[u].room \in Rooms
  BY DEF Types, Views
<1>2. m \in Nat /\ m \in {0, x.msg}
  BY <1>1 DEF Entries
<1>3. /\ Emit(u, <<e>>) /\ steps' \in 0..MaxSteps
      /\ UNCHANGED <<client, inbox, tables, sockets, job, sent, note, faults>>
  BY ConversationAssumption DEF DeleteMessage, Acts, Types
<1>. HIDE DEF m, x
<1>4. e \in Events /\ e.type = "delete" /\ e.room \in Rooms /\ e.msg = m
  BY <1>1, <1>2, EventTypes DEF OutTypes
<1>. HIDE DEF e
<1>5. <<e>> \in Seq(Events)
  BY <1>4
<1>6. out' \in [Users -> Seq(Events)]
  BY <1>3, <1>5, EmitDoes
<1>7. Types'
  BY <1>3, <1>6 DEF Types, client, tables, sockets
<1>. QED  BY <1>2, <1>3, <1>4, <1>7 DEF x, ServerSame, client, tables, sockets

LEMMA ListsAre ==
    ASSUME NEW S, NEW n \in Nat, NEW f, f = [i \in 1..n |-> f[i]], \A i \in 1..n : f[i] \in S
    PROVE  f \in Seq(S) /\ Len(f) = n /\ DOMAIN f = 1..n
<1>1. f \in [1..n -> S]
  OBVIOUS
<1>. QED  BY <1>1

Fetched(u, f, g, list) == [view[u] EXCEPT !.fetches = (@ \ {f}) \cup g, !.list = list]
Fetch(u, f) == FetchAnswered(u, f) \/ FetchStored(u, f) \/ FetchDecrypted(u, f) \/ FetchFails(u, f)

FetchBrings(u, f, g, list) ==
    /\ FetchStep(u, f, g, list)
    /\ \A k \in g : /\ k.room = f.room
                    /\ \A i \in DOMAIN k.rows : k.rows[i] \in stored /\ RoomOf(k.rows[i]) = f.room
    /\ \/ list = view[u].list /\ g # {}
       \/ \A i \in DOMAIN list : /\ list[i].status = "none"
                                 /\ list[i].msg \in stored /\ RoomOf(list[i].msg) = f.room
    /\ UNCHANGED <<sent, note, asked>> /\ steps' = steps

\* A request goes on, or ends with what it brought on the list.
LEMMA FetchesDo ==
    ASSUME Types, Sound, NEW u \in Users, NEW f, Fetch(u, f)
    PROVE  /\ Types'
           /\ f \in view[u].fetches
           /\ \E g \in SUBSET Fetches, list \in Seq(Entries) :
                /\ Turns(u, Fetched(u, f, g, list))
                /\ \A k \in g : /\ k.room = f.room
                                /\ \A i \in DOMAIN k.rows : k.rows[i] \in stored /\ RoomOf(k.rows[i]) = f.room
                /\ \/ list = view[u].list /\ g # {}
                   \/ \A i \in DOMAIN list : /\ list[i].status = "none"
                                             /\ list[i].msg \in stored /\ RoomOf(list[i].msg) = f.room
           /\ ServerSame /\ UNCHANGED <<online, out, inbox, sent, note>>
<1>1. /\ view[u] \in Views /\ view[u].list \in Seq(Entries) /\ f \in view[u].fetches /\ f \in Fetches
      /\ f.rows \in Seq(Nat)
      /\ \A i \in DOMAIN f.rows : f.rows[i] \in stored /\ RoomOf(f.rows[i]) = f.room
  <2>1. f \in view[u].fetches
    BY DEF Fetch, FetchAnswered, FetchStored, FetchDecrypted, FetchFails, FetchStep
  <2>. QED  BY <2>1 DEF Types, Sound, ViewSound, Views, Fetches
<1>2. /\ Listed(f.rows) \in Seq(Entries)
      /\ \A i \in DOMAIN Listed(f.rows) : /\ Listed(f.rows)[i].status = "none"
                                          /\ Listed(f.rows)[i].msg \in stored
                                          /\ RoomOf(Listed(f.rows)[i].msg) = f.room
  <2>1. \A i \in DOMAIN f.rows : f.rows[i] \in Nat
    BY <1>1
  <2>2. \A i \in DOMAIN f.rows : /\ Entry(f.rows[i], TRUE, "none") \in Entries
                                 /\ Entry(f.rows[i], TRUE, "none").status = "none"
                                 /\ Entry(f.rows[i], TRUE, "none").msg = f.rows[i]
    BY <2>1, EntryTypes DEF EntryOf
  <2>3. /\ Listed(f.rows) = [i \in DOMAIN f.rows |-> Entry(f.rows[i], TRUE, "none")]
        /\ DOMAIN f.rows = 1..Len(f.rows) /\ Len(f.rows) \in Nat
    BY <1>1 DEF Listed
  <2>4. \A i \in DOMAIN f.rows : Listed(f.rows)[i] \in Entries
    BY <2>2, <2>3
  <2>5. Listed(f.rows) \in Seq(Entries)
    <3>. DEFINE list == Listed(f.rows)
    <3>1. list = [i \in 1..Len(f.rows) |-> list[i]]
      BY <2>3
    <3>. HIDE DEF list
    <3>2. list \in Seq(Entries)
      BY <2>3, <2>4, <3>1, ListsAre DEF list
    <3>. QED  BY <3>2 DEF list
  <2>. QED  BY <1>1, <2>2, <2>3, <2>5
<1>. SUFFICES \E g \in SUBSET Fetches, list \in Seq(Entries) : FetchBrings(u, f, g, list)
  <2>1. PICK g \in SUBSET Fetches, list \in Seq(Entries) : FetchBrings(u, f, g, list)
    OBVIOUS
  <2>2. FetchStep(u, f, g, list) /\ UNCHANGED <<sent, note, asked>> /\ steps' = steps
    BY <2>1 DEF FetchBrings
  <2>3. /\ Turns(u, Fetched(u, f, g, list))
        /\ UNCHANGED <<online, out, inbox, rooms, stored, erased, box, members, home, astray, recent, job>>
    BY <2>2, FetchDoes DEF Fetched
  <2>. HIDE DEF FetchBrings
  <2>4. Types'
    BY <2>2, <2>3 DEF Types, Turns
  <2>5. ServerSame
    BY <2>3 DEF ServerSame
  <2>6. /\ \A k \in g : /\ k.room = f.room
                        /\ \A i \in DOMAIN k.rows : k.rows[i] \in stored /\ RoomOf(k.rows[i]) = f.room
        /\ \/ list = view[u].list /\ g # {}
           \/ \A i \in DOMAIN list : /\ list[i].status = "none"
                                     /\ list[i].msg \in stored /\ RoomOf(list[i].msg) = f.room
    BY <2>1 DEF FetchBrings
  <2>7. UNCHANGED <<online, out, inbox, sent, note>>
    BY <2>2, <2>3
  <2>8. \E g_1 \in SUBSET Fetches, list_1 \in Seq(Entries) :
          /\ Turns(u, Fetched(u, f, g_1, list_1))
          /\ \A k \in g_1 : /\ k.room = f.room
                          /\ \A i \in DOMAIN k.rows : k.rows[i] \in stored /\ RoomOf(k.rows[i]) = f.room
          /\ \/ list_1 = view[u].list /\ g_1 # {}
             \/ \A i \in DOMAIN list_1 : /\ list_1[i].status = "none"
                                         /\ list_1[i].msg \in stored /\ RoomOf(list_1[i].msg) = f.room
    <3>. WITNESS g \in SUBSET Fetches, list \in Seq(Entries)
    <3>. QED  BY <2>3, <2>6
  <2>. QED  BY <1>1, <2>4, <2>5, <2>7, <2>8
<1>3. CASE FetchAnswered(u, f)
  <2>1. PICK rows \in Stored(f.room) :
             FetchStep(u, f, {[f EXCEPT !.at = "answered", !.rows = rows]}, view[u].list)
    BY <1>3 DEF FetchAnswered
  <2>2. PICK S : /\ S \subseteq {m \in stored \ erased : RoomOf(m) = f.room}
                 /\ rows = SetToSeq(S)
    BY <2>1 DEF Stored
  <2>3. \A m \in S : m \in 1..Len(sent) /\ m \in Nat /\ m \in stored /\ RoomOf(m) = f.room
    BY <2>2 DEF Sound, InChannel, Messages, Types
  <2>4. IsFiniteSet(S)
    <3>1. S \in SUBSET (1..Len(sent)) /\ Len(sent) \in Nat
      BY <2>3 DEF Types
    <3>. QED  BY <3>1, FiniteInterval
  <2>5. rows \in Seq(S) /\ \A i \in DOMAIN rows : rows[i] \in S
    BY <2>2, <2>4, SetToSeqLists
  <2>6. rows \in Seq(Nat) /\ \A i \in DOMAIN rows : rows[i] \in stored /\ RoomOf(rows[i]) = f.room
    BY <2>3, <2>5
  <2>. DEFINE k == [f EXCEPT !.at = "answered", !.rows = rows]
  <2>7. k \in Fetches /\ k.rows = rows /\ k.room = f.room
    BY <1>1, <2>6 DEF Fetches
  <2>8. FetchStep(u, f, {k}, view[u].list) /\ UNCHANGED history
    BY <1>3, <2>1 DEF FetchAnswered
  <2>. HIDE DEF k
  <2>9. /\ \A j \in {k} : /\ j.room = f.room
                          /\ \A i \in DOMAIN j.rows : j.rows[i] \in stored /\ RoomOf(j.rows[i]) = f.room
        /\ {k} \in SUBSET Fetches /\ {k} # {}
    BY <2>6, <2>7
  <2>10. UNCHANGED <<sent, note, asked>> /\ steps' = steps
    BY <2>8 DEF history
  <2>. QED  BY <1>1, <2>8, <2>9, <2>10 DEF FetchBrings
<1>4. CASE FetchStored(u, f) /\ f.rows # <<>>
  <2>. DEFINE k == [f EXCEPT !.at = "stored"]
  <2>1. FetchStep(u, f, {k}, Listed(f.rows)) /\ UNCHANGED history
    BY <1>4 DEF FetchStored
  <2>2. k \in Fetches /\ k.rows = f.rows /\ k.room = f.room
    BY <1>1 DEF Fetches
  <2>. HIDE DEF k
  <2>3. /\ \A j \in {k} : /\ j.room = f.room
                          /\ \A i \in DOMAIN j.rows : j.rows[i] \in stored /\ RoomOf(j.rows[i]) = f.room
        /\ {k} \in SUBSET Fetches
    BY <1>1, <2>2
  <2>4. UNCHANGED <<sent, note, asked>> /\ steps' = steps
    BY <2>1 DEF history
  <2>. QED  BY <1>2, <2>1, <2>3, <2>4 DEF FetchBrings
<1>5. CASE (FetchStored(u, f) /\ f.rows = <<>>) \/ FetchDecrypted(u, f)
  <2>1. FetchStep(u, f, {}, Listed(f.rows)) /\ UNCHANGED history
    BY <1>5 DEF FetchStored, FetchDecrypted
  <2>2. UNCHANGED <<sent, note, asked>> /\ steps' = steps
    BY <2>1 DEF history
  <2>. QED  BY <1>2, <2>1, <2>2 DEF FetchBrings
<1>6. CASE FetchFails(u, f)
  <2>1. FetchStep(u, f, {}, <<>>) /\ UNCHANGED <<sent, note, asked>> /\ steps' = steps
    BY <1>6 DEF FetchFails, Fails
  <2>2. <<>> \in Seq(Entries) /\ \A i \in DOMAIN <<>> : FALSE
    OBVIOUS
  <2>. QED  BY <2>1, <2>2 DEF FetchBrings
<1>. QED  BY <1>3, <1>4, <1>5, <1>6 DEF Fetch

\* An event is taken from the connection, and the browser goes on.
LEMMA ReceiveDoes ==
    ASSUME Types, NEW u \in Users,
           ReceiveMessage(u) \/ ReceiveDirect(u) \/ ReceiveStatus(u) \/ ReceiveDeleted(u)
    PROVE  /\ Types'
           /\ \E e \in News, v \in Views :
                /\ inbox[u] # <<>> /\ e = inbox[u][1] /\ 1 \in DOMAIN inbox[u]
                /\ inbox'[u] = Tail(inbox[u])
                /\ Turns(u, v)
                /\ \/ /\ e.type = "message"
                      /\ v = [view[u] EXCEPT !.showing = @ \cup {[msg |-> e.msg, room |-> view[u].room]}]
                   \/ /\ e.type = "direct"
                      /\ v = [view[u] EXCEPT !.queue = Append(@, [msg |-> e.msg, room |-> view[u].room])]
                   \/ /\ e.type \in {"status", "deleted"}
                      /\ \E list \in Seq(Entries) :
                           /\ v = [view[u] EXCEPT !.list = list]
                           /\ Len(list) = Len(view[u].list)
                           /\ \A i \in DOMAIN list :
                                /\ list[i].msg = view[u].list[i].msg
                                /\ \/ list[i].status = view[u].list[i].status
                                   \/ /\ e.type = "status" /\ list[i].status = e.status
                                      /\ list[i].msg = e.msg \/ e.msg = 0
           /\ \A w \in Users \ {u} : inbox'[w] = inbox[w]
           /\ ServerSame /\ UNCHANGED <<online, out, sent, note>>
<1>. DEFINE e == Received(u)
            l == view[u].list
            s == [msg |-> e.msg, room |-> view[u].room]
            Result(v) == view' = [view EXCEPT ![u] = v] /\ UNCHANGED out
<1>1. /\ view[u] \in Views /\ l \in Seq(Entries) /\ view[u].queue \in Seq(Sights)
      /\ \A type : Take(u, type) =>
            /\ inbox' \in [Users -> Seq(News)]
            /\ \A w \in Users \ {u} : inbox'[w] = inbox[w]
            /\ inbox[u] # <<>> /\ inbox'[u] = Tail(inbox[u])
            /\ e \in News /\ e.type = type
            /\ 1 \in DOMAIN inbox[u] /\ e = inbox[u][1]
            /\ UNCHANGED <<online, tables, sockets, job, history>>
  BY TakeDoes DEF Types, Views, Take
<1>2. e \in News => s \in Sights
  BY <1>1 DEF News, Sights, Views
<1>3. ASSUME NEW type, Take(u, type), NEW v \in Views, Result(v)
      PROVE  /\ Turns(u, v) /\ Types' /\ e \in News
             /\ e = inbox[u][1] /\ inbox[u] # <<>> /\ 1 \in DOMAIN inbox[u] /\ inbox'[u] = Tail(inbox[u])
             /\ \A w \in Users \ {u} : inbox'[w] = inbox[w]
             /\ ServerSame /\ UNCHANGED <<online, out, sent, note>>
  <2>. HIDE DEF e
  <2>1. Turns(u, v)
    BY <1>3, ViewDoes
  <2>2. Types'
    BY <1>1, <1>3, <2>1 DEF Types, Turns, tables, sockets, history
  <2>. QED  BY <1>1, <1>3, <2>1, <2>2 DEF ServerSame, tables, sockets, history
<1>4. CASE ReceiveMessage(u)
  <2>. DEFINE v == [view[u] EXCEPT !.showing = @ \cup {s}]
  <2>1. Take(u, "message") /\ Result(v)
    BY <1>4 DEF ReceiveMessage, Got, Types
  <2>2. v \in Views /\ e.type = "message"
    BY <1>1, <1>2, <2>1 DEF Views
  <2>. QED  BY <1>3, <2>1, <2>2
<1>5. CASE ReceiveDirect(u)
  <2>. DEFINE v == [view[u] EXCEPT !.queue = Append(@, s)]
  <2>1. Take(u, "direct") /\ Result(v)
    BY <1>5 DEF ReceiveDirect, Got, Types
  <2>2. e.type = "direct" /\ Append(view[u].queue, s) \in Seq(Sights)
    BY <1>1, <1>2, <2>1
  <2>3. v \in Views
    BY <1>1, <2>2 DEF Views
  <2>. QED  BY <1>3, <2>1, <2>2, <2>3
<1>6. CASE ReceiveStatus(u)
  <2>. DEFINE list == [i \in DOMAIN l |->
                  IF Named(l[i], e.msg) THEN [l[i] EXCEPT !.status = e.status] ELSE l[i]]
              v == [view[u] EXCEPT !.list = list]
  <2>1. Take(u, "status") /\ Result(v)
    BY <1>6 DEF ReceiveStatus, Types
  <2>2. e.type = "status" /\ e.status \in Status /\ e.msg \in Nat
    BY <1>1, <2>1 DEF News
  <2>. HIDE DEF e
  <2>3. \A i \in DOMAIN l :
          /\ list[i] \in Entries /\ list[i].msg = l[i].msg
          /\ \/ list[i].status = l[i].status
             \/ list[i].status = e.status /\ (list[i].msg = e.msg \/ e.msg = 0)
    <3>1. \A i \in DOMAIN l : l[i] \in Entries
      BY <1>1
    <3>. QED  BY <2>2, <3>1 DEF Entries, Named
  <2>4. list \in Seq(Entries) /\ Len(list) = Len(l) /\ DOMAIN list = DOMAIN l
    <3>1. DOMAIN l = 1..Len(l) /\ Len(l) \in Nat
      BY <1>1
    <3>2. list = [i \in 1..Len(l) |-> list[i]] /\ DOMAIN list = 1..Len(l)
      BY <3>1
    <3>3. \A i \in 1..Len(l) : list[i] \in Entries
      BY <2>3, <3>1
    <3>. HIDE DEF list
    <3>4. list \in Seq(Entries) /\ Len(list) = Len(l) /\ DOMAIN list = 1..Len(l)
      BY <3>1, <3>2, <3>3, ListsAre
    <3>. QED  BY <3>1, <3>4
  <2>. HIDE DEF list
  <2>5. v \in Views
    BY <1>1, <2>4 DEF Views
  <2>6. \A i \in DOMAIN list : list[i].msg = l[i].msg
    BY <2>3, <2>4
  <2>7. \A i \in DOMAIN list : \/ list[i].status = view[u].list[i].status
                                 \/ /\ e.type = "status" /\ list[i].status = e.status
                                    /\ list[i].msg = e.msg \/ e.msg = 0
    BY <2>2, <2>3, <2>4
  <2>8. v = [view[u] EXCEPT !.list = list]
    OBVIOUS
  <2>. HIDE DEF v, Result
  <2>9. e.type \in {"status", "deleted"} /\ Turns(u, v) /\ Len(list) = Len(view[u].list)
    BY <1>3, <2>1, <2>2, <2>4, <2>5
  <2>. QED  BY <1>3, <2>1, <2>4, <2>5, <2>6, <2>7, <2>8, <2>9
<1>7. CASE ReceiveDeleted(u)
  <2>. DEFINE list == [i \in DOMAIN l |->
                  IF Named(l[i], e.msg) THEN [l[i] EXCEPT !.gone = TRUE] ELSE l[i]]
              v == [view[u] EXCEPT !.list = list]
  <2>1. Take(u, "deleted") /\ Result(v)
    BY <1>7 DEF ReceiveDeleted, Types
  <2>2. e.type = "deleted"
    BY <1>1, <2>1 DEF News
  <2>. HIDE DEF e
  <2>3. \A i \in DOMAIN l :
          list[i] \in Entries /\ list[i].msg = l[i].msg /\ list[i].status = l[i].status
    <3>1. \A i \in DOMAIN l : l[i] \in Entries
      BY <1>1
    <3>. QED  BY <2>2, <3>1 DEF Entries
  <2>4. list \in Seq(Entries) /\ Len(list) = Len(l) /\ DOMAIN list = DOMAIN l
    <3>1. DOMAIN l = 1..Len(l) /\ Len(l) \in Nat
      BY <1>1
    <3>2. list = [i \in 1..Len(l) |-> list[i]] /\ DOMAIN list = 1..Len(l)
      BY <3>1
    <3>3. \A i \in 1..Len(l) : list[i] \in Entries
      BY <2>3, <3>1
    <3>. HIDE DEF list
    <3>4. list \in Seq(Entries) /\ Len(list) = Len(l) /\ DOMAIN list = 1..Len(l)
      BY <3>1, <3>2, <3>3, ListsAre
    <3>. QED  BY <3>1, <3>4
  <2>. HIDE DEF list
  <2>5. v \in Views
    BY <1>1, <2>4 DEF Views
  <2>6. \A i \in DOMAIN list : list[i].msg = l[i].msg
    BY <2>3, <2>4
  <2>7. \A i \in DOMAIN list : \/ list[i].status = view[u].list[i].status
                                 \/ /\ e.type = "status" /\ list[i].status = e.status
                                    /\ list[i].msg = e.msg \/ e.msg = 0
    BY <2>2, <2>3, <2>4
  <2>8. v = [view[u] EXCEPT !.list = list]
    OBVIOUS
  <2>. HIDE DEF v, Result
  <2>9. e.type \in {"status", "deleted"} /\ Turns(u, v) /\ Len(list) = Len(view[u].list)
    BY <1>3, <2>1, <2>2, <2>4, <2>5
  <2>. QED  BY <1>3, <2>1, <2>4, <2>5, <2>6, <2>7, <2>8, <2>9
<1>. QED  BY <1>4, <1>5, <1>6, <1>7

LEMMA ListGrows ==
    ASSUME NEW l \in Seq(Entries), NEW x \in Entries, NEW list, list = l \/ list = Append(l, x)
    PROVE  list \in Seq(Entries) /\ \A i \in DOMAIN list : Old(l, list[i]) \/ list[i] = x
<1>1. CASE list = l
  BY <1>1 DEF Old
<1>2. CASE list = Append(l, x)
  BY <1>2, Sequences
<1>. QED  BY <1>1, <1>2

\* A message was decrypted: it is listed in the room its closure saw, or counted.
Shows(u, s, list) ==
    [view[u] EXCEPT !.showing = @ \ {s}, !.unread = Counted(u, s), !.list = list]

LEMMA RoomsOf == Types => \A m \in Messages : RoomOf(m) \in Rooms /\ By(m) \in Users /\ m \in Nat
<1>. DEFINE S == [by : Users, room : Rooms]
<1>1. Types => sent \in Seq(S) /\ Messages = 1..Len(sent)
  BY DEF Types, Messages
<1>. HIDE DEF S
<1>2. Types => \A m \in Messages : sent[m] \in S /\ m \in Nat
  BY <1>1
<1>. QED  BY <1>2 DEF RoomOf, By, S

LEMMA CountedDoes ==
    ASSUME Types, NEW u \in Users, NEW s \in Sights, s.msg \in Messages
    PROVE  /\ Counted(u, s) \in [Rooms -> Nat]
           /\ \A r \in Rooms : Counted(u, s)[r] = view[u].unread[r] \/ (r = RoomOf(s.msg) /\ ~Belongs(s))
<1>1. view[u].unread \in [Rooms -> Nat]
  BY DEF Types, Views
<1>2. RoomOf(s.msg) \in Rooms
  BY RoomsOf
<1>. DEFINE c == view[u].unread
            k == RoomOf(s.msg)
            d == Counted(u, s)
<1>3. d = IF Belongs(s) THEN c ELSE [c EXCEPT ![k] = c[k] + 1]
  BY DEF Counted
<1>. HIDE DEF c, d, k
<1>4. c \in [Rooms -> Nat] /\ k \in Rooms /\ c[k] + 1 \in Nat
  BY <1>1, <1>2 DEF c, k
<1>5. d \in [Rooms -> Nat]
  BY <1>3, <1>4
<1>6. \A r \in Rooms : d[r] = c[r] \/ (r = k /\ ~Belongs(s))
  <2>1. CASE Belongs(s)
    BY <1>3, <2>1 DEF Belongs
  <2>2. CASE ~Belongs(s)
    <3>1. d = [c EXCEPT ![k] = c[k] + 1]
      BY <1>3, <2>2
    <3>2. \A r \in Rooms : d[r] = c[r] \/ r = k
      BY <1>4, <3>1
    <3>. QED  BY <2>2, <3>2
  <2>. QED  BY <2>1, <2>2
<1>. QED  BY <1>5, <1>6 DEF c, d, k

LEMMA ShowMessageDoes ==
    ASSUME Types, Sound, NEW u \in Users, NEW s, ShowMessage(u, s)
    PROVE  /\ Types'
           /\ s \in view[u].showing /\ s \in Sights
           /\ \E list \in Seq(Entries) :
                /\ Turns(u, Shows(u, s, list))
                /\ ~Belongs(s) => list = view[u].list
                /\ Belongs(s) => list = Append(view[u].list, Entry(s.msg, FALSE, "none"))
           /\ ServerSame /\ UNCHANGED <<online, out, inbox, sent, note>>
<1>1. /\ view[u] \in Views /\ view[u].list \in Seq(Entries)
      /\ s \in view[u].showing /\ s \in Sights /\ s.msg \in Messages /\ s.msg \in Nat
  <2>1. view[u] \in Views /\ view[u].list \in Seq(Entries) /\ view[u].showing \in SUBSET Sights
    BY DEF Types, Views
  <2>2. s \in view[u].showing
    BY DEF ShowMessage
  <2>3. InChannel(s.msg)
    BY <2>2 DEF Sound, ViewSound
  <2>. QED  BY <2>1, <2>2, <2>3, RoomsOf DEF InChannel
<1>. DEFINE x == Entry(s.msg, FALSE, "none")
            list == IF Belongs(s) THEN Append(view[u].list, x) ELSE view[u].list
            v == Shows(u, s, list)
<1>2. x \in Entries
  BY <1>1, EntryTypes DEF EntryOf
<1>. HIDE DEF x
<1>3. list \in Seq(Entries)
  BY <1>1, <1>2
<1>4. /\ view' = [view EXCEPT ![u] = v]
      /\ UNCHANGED <<online, out, inbox, tables, sockets, job, history>>
  BY DEF ShowMessage, Shows, x, Types
<1>. HIDE DEF list
<1>5. v \in Views
  <2>. DEFINE c == Counted(u, s)
  <2>1. c \in [Rooms -> Nat]
    BY <1>1, CountedDoes
  <2>. HIDE DEF c
  <2>2. v = [view[u] EXCEPT !.showing = @ \ {s}, !.unread = c, !.list = list]
    BY DEF Shows, c
  <2>. HIDE DEF v
  <2>. QED  BY <1>1, <1>3, <2>1, <2>2 DEF Views
<1>. HIDE DEF v
<1>6. Turns(u, v)
  BY <1>4, <1>5, ViewDoes
<1>7. Types'
  BY <1>4, <1>6 DEF Types, Turns, tables, sockets, history
<1>8. ServerSame /\ UNCHANGED <<online, out, inbox, sent, note>>
  BY <1>4 DEF ServerSame, tables, sockets, history
<1>9. /\ ~Belongs(s) => list = view[u].list
      /\ Belongs(s) => list = Append(view[u].list, Entry(s.msg, FALSE, "none"))
  BY DEF list, x
<1>. QED  BY <1>1, <1>3, <1>6, <1>7, <1>8, <1>9 DEF v

\* The next direct message was decrypted.
ShowsDirect(u, s, list) ==
    [view[u] EXCEPT !.queue = Tail(@), !.unread = Counted(u, s), !.processed = @ \cup {s.msg},
                    !.list = list]

LEMMA ShowDirectDoes ==
    ASSUME Types, Sound, NEW u \in Users, ShowDirect(u)
    PROVE  /\ Types'
           /\ view[u].queue # <<>>
           /\ \E s \in Sights : \E list \in Seq(Entries) : \E events \in Seq(Events) :
                /\ s = view[u].queue[1] /\ 1 \in DOMAIN view[u].queue
                /\ Turns(u, ShowsDirect(u, s, list))
                /\ \/ list = view[u].list
                   \/ list = Append(view[u].list, Entry(s.msg, TRUE, "acknowledged"))
                /\ Emit(u, events)
                /\ \A i \in DOMAIN events :
                     /\ events[i].msg = s.msg
                     /\ events[i].type = "ack" \/ (events[i].type = "read" /\ Belongs(s))
                /\ note'[u] = [note[u] EXCEPT !.shown = @ \cup {s.msg}]
           /\ \A w \in Users \ {u} : note'[w] = note[w]
           /\ ServerSame /\ UNCHANGED <<online, inbox, sent>>
<1>. DEFINE s == Head(view[u].queue)
            x == Entry(s.msg, TRUE, "acknowledged")
            list == IF \E y \in ToSet(view[u].list) : y.id /\ y.msg = s.msg THEN view[u].list
                    ELSE Append(view[u].list, x)
            v == ShowsDirect(u, s, list)
            ack == Event("ack", s.msg, None)
            read == Event("read", s.msg, None)
            events == <<ack>> \o (IF Belongs(s) THEN <<read>> ELSE <<>>)
            n == [note[u] EXCEPT !.shown = @ \cup {s.msg}]
<1>1. /\ view[u] \in Views /\ view[u].list \in Seq(Entries) /\ view[u].queue \in Seq(Sights)
      /\ view[u].queue # <<>>
  BY DEF Types, Views, ShowDirect
<1>2. /\ s \in Sights /\ Tail(view[u].queue) \in Seq(Sights)
      /\ s = view[u].queue[1] /\ 1 \in DOMAIN view[u].queue
  BY <1>1
<1>3. /\ view' = [view EXCEPT ![u] = v]
      /\ Emit(u, events)
      /\ note' = [note EXCEPT ![u] = n]
      /\ UNCHANGED <<online, inbox, tables, sockets, job, sent, asked, steps, faults>>
  BY DEF ShowDirect, ShowsDirect, Types
<1>. HIDE DEF s
<1>4. s.msg \in Messages /\ s.msg \in Nat
  BY <1>2 DEF Sound, ViewSound, InDirect, Sights
<1>5. /\ x \in Entries
      /\ ack \in Events /\ ack.type = "ack" /\ ack.msg = s.msg
      /\ read \in Events /\ read.type = "read" /\ read.msg = s.msg
  <2>1. x \in Entries
    BY <1>4, EntryTypes DEF EntryOf
  <2>2. ack \in Events /\ ack.type = "ack" /\ ack.msg = s.msg
    BY <1>4, EventTypes DEF OutTypes
  <2>3. read \in Events /\ read.type = "read" /\ read.msg = s.msg
    BY <1>4, EventTypes DEF OutTypes
  <2>. QED  BY <2>1, <2>2, <2>3
<1>. HIDE DEF x, ack, read
<1>6. /\ list \in Seq(Entries)
      /\ list = view[u].list \/ list = Append(view[u].list, x)
  BY <1>1, <1>5
<1>7. /\ events \in Seq(Events)
      /\ \A i \in DOMAIN events : events[i] = ack \/ (events[i] = read /\ Belongs(s))
  <2>1. CASE Belongs(s)
    <3>1. events = <<ack>> \o <<read>> /\ <<ack>> \in Seq(Events) /\ <<read>> \in Seq(Events)
      BY <1>5, <2>1
    <3>. QED  BY <2>1, <3>1, Sequences DEF Old
  <2>2. CASE ~Belongs(s)
    <3>1. events = <<ack>> \o <<>> /\ <<ack>> \in Seq(Events) /\ <<>> \in Seq(Events)
      BY <1>5, <2>2
    <3>2. events = <<ack>>
      BY <3>1
    <3>3. DOMAIN events = 1..1 /\ events[1] = ack
      BY <3>2
    <3>4. \A i \in DOMAIN events : events[i] = ack
      BY <3>3
    <3>. HIDE DEF events
    <3>5. events \in Seq(Events)
      BY <3>1, <3>2
    <3>. QED  BY <3>4, <3>5 DEF Belongs
  <2>. QED  BY <2>1, <2>2
<1>. HIDE DEF list, events
<1>8. v \in Views
  <2>. DEFINE c == Counted(u, s)
              q == Tail(view[u].queue)
              p == view[u].processed \cup {s.msg}
  <2>1. c \in [Rooms -> Nat] /\ q \in Seq(Sights) /\ p \in SUBSET Nat
    BY <1>1, <1>2, <1>4, CountedDoes DEF Views
  <2>2. v = [view[u] EXCEPT !.queue = q, !.unread = c, !.processed = p, !.list = list]
    BY DEF ShowsDirect
  <2>. HIDE DEF v, c, q, p
  <2>. QED  BY <1>1, <1>6, <2>1, <2>2 DEF Views
<1>. HIDE DEF v
<1>9. Turns(u, v)
  BY <1>3, <1>8, ViewDoes
<1>10. n \in Notes /\ note \in [Users -> Notes]
  BY <1>4 DEF Types, Notes
<1>. HIDE DEF n
<1>11. /\ note' \in [Users -> Notes] /\ note'[u] = n
       /\ \A w \in Users \ {u} : note'[w] = note[w]
  BY <1>3, <1>10
<1>12. out' \in [Users -> Seq(Events)]
  BY <1>3, <1>7, EmitDoes
<1>13. Types'
  BY <1>3, <1>9, <1>11, <1>12 DEF Types, Turns, tables, sockets
<1>14. ServerSame /\ UNCHANGED <<online, inbox, sent>>
  BY <1>3 DEF ServerSame, tables, sockets
<1>15. \A i \in DOMAIN events :
         /\ events[i].msg = s.msg
         /\ events[i].type = "ack" \/ (events[i].type = "read" /\ Belongs(s))
  BY <1>5, <1>7
<1>16. \E list_1 \in Seq(Entries) : \E events_1 \in Seq(Events) :
         /\ Turns(u, ShowsDirect(u, s, list_1))
         /\ \/ list_1 = view[u].list
            \/ list_1 = Append(view[u].list, Entry(s.msg, TRUE, "acknowledged"))
         /\ Emit(u, events_1)
         /\ \A i \in DOMAIN events_1 :
              /\ events_1[i].msg = s.msg
              /\ events_1[i].type = "ack" \/ (events_1[i].type = "read" /\ Belongs(s))
  BY <1>3, <1>6, <1>7, <1>9, <1>15 DEF v, x
<1>17. note'[u] = [note[u] EXCEPT !.shown = @ \cup {s.msg}]
  BY <1>11 DEF n
<1>. QED  BY <1>1, <1>2, <1>11, <1>13, <1>14, <1>16, <1>17

LEMMA DropCopyDoes ==
    ASSUME Types, Sound, NEW u \in Users, DropCopy(u)
    PROVE  /\ Types'
           /\ \E e \in Events : \E i \in DOMAIN view[u].queue :
                /\ Turns(u, [view[u] EXCEPT !.queue = Tail(@)])
                /\ view[u].queue # <<>> /\ i = 1
                /\ Emit(u, <<e>>) /\ e.type = "ack" /\ e.msg = view[u].queue[i].msg
           /\ ServerSame /\ UNCHANGED <<online, inbox, sent, note>>
<1>. DEFINE v == [view[u] EXCEPT !.queue = Tail(@)]
            m == Head(view[u].queue).msg
            e == Event("ack", m, None)
<1>1. view[u] \in Views /\ view[u].queue \in Seq(Sights) /\ view[u].queue # <<>>
  BY DEF Types, Views, DropCopy
<1>2. /\ Tail(view[u].queue) \in Seq(Sights) /\ 1 \in DOMAIN view[u].queue
      /\ Head(view[u].queue) = view[u].queue[1] /\ view[u].queue[1] \in Sights
  BY <1>1
<1>3. /\ view' = [view EXCEPT ![u] = v]
      /\ Emit(u, <<e>>)
      /\ UNCHANGED <<online, inbox, tables, sockets, job, history>>
  BY DEF DropCopy, Types
<1>4. m \in Nat /\ m = view[u].queue[1].msg
  BY <1>2 DEF Sights
<1>. HIDE DEF m
<1>5. e \in Events /\ e.type = "ack" /\ e.msg = m
  BY <1>4, EventTypes DEF OutTypes
<1>. HIDE DEF e
<1>6. <<e>> \in Seq(Events)
  BY <1>5
<1>7. v \in Views
  <2>. DEFINE q == Tail(view[u].queue)
  <2>. HIDE DEF q
  <2>1. v = [view[u] EXCEPT !.queue = q] /\ q \in Seq(Sights)
    BY <1>2 DEF q
  <2>. HIDE DEF v
  <2>. QED  BY <1>1, <2>1 DEF Views
<1>. HIDE DEF v
<1>8. Turns(u, v)
  BY <1>3, <1>7, ViewDoes
<1>9. out' \in [Users -> Seq(Events)]
  BY <1>3, <1>6, EmitDoes
<1>10. Types'
  BY <1>3, <1>8, <1>9 DEF Types, Turns, tables, sockets, history
<1>11. ServerSame /\ UNCHANGED <<online, inbox, sent, note>>
  BY <1>3 DEF ServerSame, tables, sockets, history
<1>12. Turns(u, [view[u] EXCEPT !.queue = Tail(@)])
  BY <1>8 DEF v
<1>. QED  BY <1>1, <1>2, <1>3, <1>4, <1>5, <1>10, <1>11, <1>12

-----------------------------------------------------------------------------
(* What the server does.                                                   *)

\* A switch or a join of u begins as the handler h; two at a time excuse its browser.
LEMMA MoveDoes ==
    ASSUME Types, NEW u \in Users, NEW h \in Handlers, SwitchRoom(u, h) \/ Join(u, h)
    PROVE  /\ Types'
           /\ \A w \in Users \ {u} : out'[w] = out[w] /\ note'[w] = note[w]
           /\ 1 \in DOMAIN out[u] /\ out'[u] = Tail(out[u]) /\ online[u]
           /\ \E e \in Events :
                /\ e = out[u][1]
                /\ job[h].at = "idle" /\ job'[h].by = u /\ job'[h].msg = e.msg /\ job'[h].room = e.room
                /\ \/ /\ e.type = "switch"
                      /\ job'[h].at = IF e.room = General THEN "home" ELSE "room"
                   \/ /\ e.type = "join"
                      /\ job'[h].at = IF e.room = General THEN "register" ELSE "find"
           /\ \A g \in Handlers \ {h} : job'[g] = job[g]
           /\ \E t \in BOOLEAN : /\ t = (note[u].torn \/ Switching(u) # {})
                                 /\ note'[u] = [note[u] EXCEPT !.torn = t]
           /\ UNCHANGED <<view, online, inbox, rooms, stored, erased, box, members, home, astray, recent, sent>>
<1>1. ASSUME NEW type, NEW lookup \in Labels, NEW next \in Labels, MoveBegins(u, h, type, lookup, next)
      PROVE  /\ Types'
             /\ \A w \in Users \ {u} : out'[w] = out[w] /\ note'[w] = note[w]
             /\ 1 \in DOMAIN out[u] /\ out'[u] = Tail(out[u]) /\ online[u]
             /\ out[u][1] \in Events /\ out[u][1].type = type
             /\ job[h].at = "idle" /\ job'[h].by = u
             /\ job'[h].msg = out[u][1].msg /\ job'[h].room = out[u][1].room
             /\ job'[h].at = IF out[u][1].room = General THEN next ELSE lookup
             /\ \A g \in Handlers \ {h} : job'[g] = job[g]
             /\ \E t \in BOOLEAN : /\ t = (note[u].torn \/ Switching(u) # {})
                                   /\ note'[u] = [note[u] EXCEPT !.torn = t]
             /\ UNCHANGED <<view, online, inbox, rooms, stored, erased, box, members, home, astray, recent, sent>>
  <2>. DEFINE label == IF Head(out[u]).room = General THEN next ELSE lookup
              t == note[u].torn \/ Switching(u) # {}
              n == [note[u] EXCEPT !.torn = t]
  <2>1. /\ Arrives(u, type) /\ Begin(u, h, label)
        /\ note' = [note EXCEPT ![u] = n]
        /\ UNCHANGED <<client, inbox, tables, sockets, sent, asked, steps, faults>>
    BY <1>1 DEF MoveBegins, Types
  <2>2. label \in Labels /\ t \in BOOLEAN /\ note \in [Users -> Notes]
    BY DEF Types
  <2>3. /\ out' \in [Users -> Seq(Events)]
        /\ \A w \in Users \ {u} : out'[w] = out[w]
        /\ out'[u] = Tail(out[u]) /\ online[u]
        /\ Head(out[u]) \in Events /\ Head(out[u]).type = type
        /\ 1 \in DOMAIN out[u] /\ Head(out[u]) = out[u][1]
    BY <2>1, ArrivesDoes
  <2>. HIDE DEF label, t
  <2>4. /\ job' \in [Handlers -> Jobs] /\ job[h].at = "idle"
        /\ \A g \in Handlers \ {h} : job'[g] = job[g]
        /\ job'[h].at = label /\ job'[h].by = u
        /\ job'[h].msg = Head(out[u]).msg /\ job'[h].room = Head(out[u]).room
    BY <2>1, <2>2, <2>3, BeginDoes
  <2>5. n \in Notes
    BY <2>2 DEF Notes
  <2>. HIDE DEF n
  <2>6. /\ note' \in [Users -> Notes] /\ note'[u] = n
        /\ \A w \in Users \ {u} : note'[w] = note[w]
    BY <2>1, <2>2, <2>5
  <2>7. Types'
    BY <2>1, <2>3, <2>4, <2>6 DEF Types, client, tables, sockets
  <2>8. UNCHANGED <<view, online, inbox, rooms, stored, erased, box, members, home, astray, recent, sent>>
    BY <2>1 DEF client, tables, sockets
  <2>9. \E t_1 \in BOOLEAN : /\ t_1 = (note[u].torn \/ Switching(u) # {})
                             /\ note'[u] = [note[u] EXCEPT !.torn = t_1]
    BY <2>2, <2>6 DEF n, t
  <2>10. job'[h].at = IF out[u][1].room = General THEN next ELSE lookup
    BY <2>3, <2>4 DEF label
  <2>. QED  BY <2>3, <2>4, <2>6, <2>7, <2>8, <2>9, <2>10
<1>2. CASE SwitchRoom(u, h)
  <2>1. MoveBegins(u, h, "switch", "room", "home") /\ "room" \in Labels /\ "home" \in Labels
    BY <1>2 DEF SwitchRoom, Labels, Moving
  <2>2. job'[h].at = IF out[u][1].room = General THEN "home" ELSE "room"
    BY <2>1, <1>1
  <2>3. out[u][1] \in Events /\ out[u][1].type = "switch"
    BY <2>1, <1>1
  <2>. QED  BY <1>1, <2>1, <2>2, <2>3
<1>3. CASE Join(u, h)
  <2>1. MoveBegins(u, h, "join", "find", "register") /\ "find" \in Labels /\ "register" \in Labels
    BY <1>3 DEF Join, Labels, Moving
  <2>2. job'[h].at = IF out[u][1].room = General THEN "register" ELSE "find"
    BY <2>1, <1>1
  <2>3. out[u][1] \in Events /\ out[u][1].type = "join"
    BY <2>1, <1>1
  <2>. QED  BY <1>1, <2>1, <2>2, <2>3
<1>. QED  BY <1>2, <1>3

\* Any other event begins a handler, or is dropped by the limit on messages.
Label(type) == IF type = "send" THEN "insert" ELSE FirstAwait[type]

LEMMA BeginsDoes ==
    ASSUME Types, NEW u \in Users, NEW h \in Handlers, SendMessage(u, h) \/ Handle(u, h)
    PROVE  /\ Types'
           /\ \A w \in Users \ {u} : out'[w] = out[w]
           /\ 1 \in DOMAIN out[u] /\ out'[u] = Tail(out[u]) /\ online[u]
           /\ \E e \in Events :
                /\ e = out[u][1] /\ e.type \in OutTypes \ {"switch", "join"}
                /\ \/ job' = job
                   \/ /\ job[h].at = "idle" /\ job'[h].at = Label(e.type) /\ job'[h].by = u
                      /\ job'[h].msg = e.msg /\ job'[h].room = e.room
                      /\ \A g \in Handlers \ {h} : job'[g] = job[g]
           /\ UNCHANGED <<view, online, inbox, rooms, stored, erased, box, members, home, astray, sent, note>>
<1>1. ASSUME NEW type \in OutTypes \ {"switch", "join"}, Arrives(u, type), Label(type) \in Labels,
             job' = job \/ Begin(u, h, Label(type)), recent' \in [Users -> Nat],
             UNCHANGED <<client, inbox, tables, members, home, astray, history>>
      PROVE  /\ Types'
             /\ \A w \in Users \ {u} : out'[w] = out[w]
             /\ 1 \in DOMAIN out[u] /\ out'[u] = Tail(out[u]) /\ online[u]
             /\ \E e \in Events :
                  /\ e = out[u][1] /\ e.type \in OutTypes \ {"switch", "join"}
                  /\ \/ job' = job
                     \/ /\ job[h].at = "idle" /\ job'[h].at = Label(e.type) /\ job'[h].by = u
                        /\ job'[h].msg = e.msg /\ job'[h].room = e.room
                        /\ \A g \in Handlers \ {h} : job'[g] = job[g]
             /\ UNCHANGED <<view, online, inbox, rooms, stored, erased, box, members, home, astray, sent, note>>
  <2>1. /\ out' \in [Users -> Seq(Events)]
        /\ \A w \in Users \ {u} : out'[w] = out[w]
        /\ out'[u] = Tail(out[u]) /\ online[u]
        /\ Head(out[u]) \in Events /\ Head(out[u]).type = type
        /\ 1 \in DOMAIN out[u] /\ Head(out[u]) = out[u][1]
    BY <1>1, ArrivesDoes
  <2>. DEFINE label == Label(type)
  <2>. HIDE DEF label
  <2>2. /\ job' \in [Handlers -> Jobs]
        /\ \/ job' = job
           \/ /\ job[h].at = "idle" /\ job'[h].at = label /\ job'[h].by = u
              /\ job'[h].msg = Head(out[u]).msg /\ job'[h].room = Head(out[u]).room
              /\ \A g \in Handlers \ {h} : job'[g] = job[g]
    <3>1. CASE job' = job
      BY <3>1 DEF Types
    <3>2. CASE Begin(u, h, Label(type))
      BY <1>1, <3>2, <2>1, BeginDoes DEF label
    <3>. QED  BY <1>1, <3>1, <3>2
  <2>3. Types'
    BY <1>1, <2>1, <2>2 DEF Types, client, tables, history
  <2>4. UNCHANGED <<view, online, inbox, rooms, stored, erased, box, members, home, astray, sent, note>>
    BY <1>1 DEF client, tables, history
  <2>5. \E e \in Events :
          /\ e = out[u][1] /\ e.type \in OutTypes \ {"switch", "join"}
          /\ \/ job' = job
             \/ /\ job[h].at = "idle" /\ job'[h].at = Label(e.type) /\ job'[h].by = u
                /\ job'[h].msg = e.msg /\ job'[h].room = e.room
                /\ \A g \in Handlers \ {h} : job'[g] = job[g]
    BY <1>1, <2>1, <2>2 DEF label
  <2>. QED  BY <2>1, <2>3, <2>4, <2>5
<1>2. CASE SendMessage(u, h)
  <2>1. /\ Arrives(u, "send") /\ UNCHANGED <<client, inbox, tables, members, home, astray, history>>
        /\ job' = job \/ Begin(u, h, "insert")
    BY <1>2 DEF SendMessage
  <2>2. recent' \in [Users -> Nat]
    BY <1>2 DEF SendMessage, Types
  <2>3. Label("send") = "insert" /\ "insert" \in Labels /\ "send" \in OutTypes \ {"switch", "join"}
    BY DEF Label, Labels, OutTypes
  <2>4. Label("send") \in Labels /\ (job' = job \/ Begin(u, h, Label("send")))
    BY <2>1, <2>3
  <2>. QED  BY <1>1, <2>1, <2>2, <2>3, <2>4
<1>3. CASE Handle(u, h)
  <2>1. PICK type \in DOMAIN FirstAwait : Arrives(u, type) /\ Begin(u, h, FirstAwait[type])
    BY <1>3 DEF Handle
  <2>2. UNCHANGED <<client, inbox, tables, sockets, history>> /\ recent' \in [Users -> Nat]
    BY <1>3 DEF Handle, Types, sockets
  <2>3. type \in {"delete", "direct", "ack", "read"}
    BY DEF FirstAwait
  <2>4. /\ type \in OutTypes \ {"switch", "join"}
        /\ Label(type) = FirstAwait[type] /\ Label(type) \in Labels
    BY <2>3 DEF Label, FirstAwait, Labels, OutTypes
  <2>5. UNCHANGED <<client, inbox, tables, members, home, astray, history>>
    BY <2>2 DEF sockets
  <2>6. job' = job \/ Begin(u, h, Label(type))
    BY <2>1, <2>4
  <2>. QED  BY <1>1, <2>1, <2>2, <2>4, <2>5, <2>6
<1>. QED  BY <1>2, <1>3

-----------------------------------------------------------------------------
(* The choices of a user.                                                  *)

\* The effect runs for room r, new or the same.
Goes(u, r, joins, receipts) ==
    /\ Effect(u, r, joins, receipts)
    /\ \/ receipts = <<>>
       \/ r \in Direct /\ receipts = Receipts(u, r)
    /\ r \in Direct => u \in r \/ r = view[u].room
    /\ rooms \subseteq rooms' /\ rooms' \subseteq Channels
    /\ UNCHANGED <<online, inbox, stored, erased, box, members, home, astray, recent, job, sent, asked>>
    /\ steps' \in 0..MaxSteps

\* The conversation that is open is selected again, or created again.
Stays(u) ==
    /\ \/ /\ view[u].room \in Direct /\ u \in view[u].room
          /\ view' = [view EXCEPT ![u].unread = [@ EXCEPT ![view[u].room] = 0]]
          /\ Emit(u, Receipts(u, view[u].room))
       \/ UNCHANGED <<view, out>>
    /\ rooms \subseteq rooms' /\ rooms' \subseteq Channels
    /\ UNCHANGED <<online, inbox, stored, erased, box, members, home, astray, recent, job, sent, note>>
    /\ steps' \in 0..MaxSteps

LEMMA Selections ==
    ASSUME Types, NEW u \in Users,
           \/ \E r \in Channels : SelectChannel(u, r) \/ CreateRoom(u, r)
           \/ \E r \in Direct : SelectDM(u, r)
           \/ Rerun(u)
    PROVE  \/ Stays(u)
           \/ \E r \in Rooms, joins \in SUBSET Channels, receipts \in Seq(Events) :
                Goes(u, r, joins, receipts)
<1>1. /\ view[u] \in Views /\ rooms \subseteq Channels /\ <<>> \in Seq(Events)
      /\ Acts => steps' \in 0..MaxSteps
  BY ConversationAssumption DEF Types, Acts
<1>2. view[u].room \in Rooms /\ view[u].channel \in Channels
  BY <1>1 DEF Views
<1>3. ASSUME NEW r \in Channels, SelectChannel(u, r)
      PROVE  Goes(u, r, {r} \ {view[u].channel}, <<>>)
  BY <1>1, <1>3, Kinds DEF SelectChannel, Goes, tables, sockets
<1>4. ASSUME NEW r \in Channels, CreateRoom(u, r), r # view[u].room
      PROVE  Goes(u, r, {r} \ {view[u].channel}, <<>>)
  BY <1>1, <1>4, Kinds DEF CreateRoom, Goes, sockets
<1>5. ASSUME NEW r \in Channels, CreateRoom(u, r), r = view[u].room
      PROVE  Stays(u)
  BY <1>1, <1>5 DEF CreateRoom, Stays, sockets
<1>6. ASSUME NEW r \in Direct, SelectDM(u, r), r # view[u].room
      PROVE  Goes(u, r, {}, Receipts(u, r))
  BY <1>1, <1>6 DEF SelectDM, Goes, tables, sockets
<1>7. ASSUME NEW r \in Direct, SelectDM(u, r), r = view[u].room
      PROVE  Stays(u)
  BY <1>1, <1>7 DEF SelectDM, Stays, tables, sockets
<1>8. Rerun(u) => Goes(u, view[u].room, {view[u].channel}, <<>>)
  BY <1>1, Kinds DEF Rerun, Goes, tables, sockets
<1>9. /\ \A r \in Channels : r \in Rooms /\ {r} \ {view[u].channel} \in SUBSET Channels
      /\ \A r \in Direct : r \in Rooms /\ Receipts(u, r) \in Seq(Events)
      /\ {view[u].channel} \in SUBSET Channels /\ {} \in SUBSET Channels
  BY <1>2, ReceiptsSound DEF Rooms
<1>10. CASE \E r \in Channels : SelectChannel(u, r) \/ CreateRoom(u, r)
  BY <1>1, <1>3, <1>4, <1>5, <1>9, <1>10
<1>11. CASE \E r \in Direct : SelectDM(u, r)
  BY <1>6, <1>7, <1>9, <1>11
<1>12. CASE Rerun(u)
  BY <1>1, <1>2, <1>8, <1>9, <1>12
<1>. QED  BY <1>10, <1>11, <1>12

\* The view after the effect.
Opened(u, r, joins, f) ==
    [view[u] EXCEPT !.room = r, !.unread = [@ EXCEPT ![r] = 0],
                    !.channel = IF r \in Channels THEN r ELSE @,
                    !.joining = @ \cup joins, !.fetches = @ \cup {f}]

LEMMA GoesDoes ==
    ASSUME Types, NEW u \in Users, NEW r \in Rooms, NEW joins \in SUBSET Channels,
           NEW receipts \in Seq(Events), Goes(u, r, joins, receipts)
    PROVE  /\ Types'
           /\ \E f \in Fetches : f.room = r /\ f.rows = <<>> /\ Turns(u, Opened(u, r, joins, f))
           /\ Append(receipts, Event("switch", 0, r)) \in Seq(Events)
           /\ Emit(u, Append(receipts, Event("switch", 0, r)))
           /\ \A w \in Users \ {u} : note'[w] = note[w]
           /\ note'[u].shown = note[u].shown /\ note'[u].opened = note[u].opened \cup {r}
           /\ note'[u].awaited = {}
           /\ note'[u].blurred <=> Busy(u)
           /\ note'[u].torn <=> (note[u].torn \/ r \in Channels \ rooms' \/ Outruns(u, r))
           /\ note'[u].deaf <=> (~online[u] \/ r \notin rooms')
           /\ rooms \subseteq rooms'
           /\ UNCHANGED <<online, inbox, stored, erased, box, members, home, astray, recent, job, sent>>
<1>1. Effect(u, r, joins, receipts)
  BY DEF Goes
<1>2. \E f \in Fetches : f.room = r /\ f.rows = <<>> /\ Turns(u, Opened(u, r, joins, f))
  BY <1>1, EffectDoes DEF Opened
<1>3. /\ Emit(u, Append(receipts, Event("switch", 0, r)))
      /\ Append(receipts, Event("switch", 0, r)) \in Seq(Events)
      /\ out' \in [Users -> Seq(Events)]
      /\ note' \in [Users -> Notes]
      /\ \A w \in Users \ {u} : note'[w] = note[w]
      /\ note'[u].shown = note[u].shown /\ note'[u].opened = note[u].opened \cup {r}
      /\ note'[u].awaited = {}
  BY <1>1, EffectDoes
<1>4. /\ note'[u].blurred <=> Busy(u)
      /\ note'[u].torn <=> (note[u].torn \/ r \in Channels \ rooms' \/ Outruns(u, r))
      /\ note'[u].deaf <=> (~online[u] \/ r \notin rooms')
  BY <1>1, EffectDoes
<1>5. Types'
  BY <1>2, <1>3 DEF Types, Turns, Goes
<1>6. /\ rooms \subseteq rooms'
      /\ UNCHANGED <<online, inbox, stored, erased, box, members, home, astray, recent, job, sent>>
  BY DEF Goes
<1>. QED  BY <1>2, <1>3, <1>4, <1>5, <1>6

\* Its unread count is 0 then.
Reset(u) == [view[u] EXCEPT !.unread = [@ EXCEPT ![view[u].room] = 0]]

LEMMA StaysDoes ==
    ASSUME Types, NEW u \in Users, Stays(u)
    PROVE  /\ Types'
           /\ \/ view[u].room \in Direct /\ u \in view[u].room /\ Turns(u, Reset(u))
                 /\ Receipts(u, view[u].room) \in Seq(Events) /\ Emit(u, Receipts(u, view[u].room))
              \/ UNCHANGED <<view, out>>
           /\ rooms \subseteq rooms'
           /\ UNCHANGED <<online, inbox, stored, erased, box, members, home, astray, recent, job, sent, note>>
<1>1. /\ view[u] \in Views /\ view[u].room \in Rooms /\ view[u].unread \in [Rooms -> Nat]
      /\ Receipts(u, view[u].room) \in Seq(Events)
  <2>1. view[u] \in Views
    BY DEF Types
  <2>2. Receipts(u, view[u].room) \in Seq(Events)
    BY ReceiptsSound
  <2>. QED  BY <2>1, <2>2 DEF Views
<1>2. Reset(u) \in Views
  <2>. DEFINE c == [view[u].unread EXCEPT ![view[u].room] = 0]
  <2>1. c \in [Rooms -> Nat] /\ Reset(u) = [view[u] EXCEPT !.unread = c]
    BY <1>1 DEF Reset
  <2>. HIDE DEF c
  <2>. QED  BY <1>1, <2>1 DEF Views
<1>3. CASE UNCHANGED <<view, out>>
  BY <1>3 DEF Stays, Types
<1>4. CASE /\ view[u].room \in Direct /\ u \in view[u].room
           /\ view' = [view EXCEPT ![u].unread = [@ EXCEPT ![view[u].room] = 0]]
           /\ Emit(u, Receipts(u, view[u].room))
  <2>1. Turns(u, Reset(u))
    <3>1. view' = [view EXCEPT ![u] = Reset(u)]
      BY <1>4 DEF Reset, Types
    <3>. QED  BY <1>2, <3>1, ViewDoes
  <2>2. out' \in [Users -> Seq(Events)]
    BY <1>1, <1>4, EmitDoes
  <2>3. Types'
    BY <2>1, <2>2 DEF Types, Turns, Stays
  <2>. QED  BY <1>1, <1>4, <2>1, <2>3 DEF Stays
<1>. QED  BY <1>3, <1>4 DEF Stays

-----------------------------------------------------------------------------
(* The handlers after their first await.                                   *)

Later(h) ==
    \/ FindRoom(h) \/ Move(h) \/ Mark(h) \/ Enter(h)
    \/ Insert(h) \/ InsertFails(h) \/ Cast(h) \/ Erase(h) \/ TellDeleted(h)
    \/ Queue(h) \/ Dispatch(h) \/ Acknowledge(h) \/ MarkRead(h)
    \/ Abort(h)

\* A handler that moves its user is one of a user.
LEMMA MovingDoes ==
    ASSUME Types, Sound, NEW h \in Handlers, FindRoom(h) \/ Move(h) \/ Mark(h) \/ Enter(h)
    PROVE  /\ Types'
           /\ job[h].by \in Users /\ job[h].room \in Rooms /\ job[h].at \in Moving
           /\ job[h].room \in rooms \/ (job[h].at \in {"room", "find"} /\ job'[h] = Idle)
           /\ \A g \in Handlers \ {h} : job'[g] = job[g]
           /\ \/ job'[h] = Idle
              \/ /\ job'[h].by = job[h].by /\ job'[h].room = job[h].room
                 /\ job'[h].msg = job[h].msg
           /\ \A w \in Users \ {job[h].by} : /\ members'[w] = members[w] /\ home'[w] = home[w]
                                             /\ w \in astray' <=> w \in astray
           /\ UNCHANGED <<view, online, out, inbox, rooms, stored, erased, box, recent, sent, note>>
<1>1. /\ job[h].at \in Moving /\ JobSound(job[h]) /\ job[h] \in Jobs
      /\ members \in [Users -> SUBSET Channels] /\ home \in [Users -> Channels \cup {None}]
      /\ rooms \subseteq Channels /\ astray \subseteq Users
  BY JobDoes DEF FindRoom, Move, Mark, Enter, Moving, Sound, Types
<1>2. job[h].by \in Users
  BY <1>1 DEF JobSound, Moving
<1>3. /\ job[h].room \in Rooms
      /\ job[h].room \in rooms \/ (FindRoom(h) /\ Done(h))
  BY <1>1 DEF FindRoom, Move, Mark, Enter, JobSound, Rooms
<1>a. job[h].room \in rooms \/ (job[h].at \in {"room", "find"} /\ job'[h] = Idle)
  BY <1>3, JobDoes DEF FindRoom
<1>4. /\ job' \in [Handlers -> Jobs]
      /\ \A g \in Handlers \ {h} : job'[g] = job[g]
      /\ \/ job'[h] = Idle
         \/ /\ job'[h].by = job[h].by /\ job'[h].room = job[h].room
            /\ job'[h].msg = job[h].msg
  <2>1. Done(h) \/ \E label \in Labels : Becomes(h, label)
    BY DEF FindRoom, Move, Mark, Enter, Labels, Moving
  <2>. QED  BY <2>1, JobDoes
<1>5. /\ members' \in [Users -> SUBSET Channels] /\ home' \in [Users -> Channels \cup {None}]
      /\ \A w \in Users \ {job[h].by} : members'[w] = members[w] /\ home'[w] = home[w]
      /\ astray' \subseteq Users
      /\ \A w \in Users \ {job[h].by} : w \in astray' <=> w \in astray
  <2>1. CASE FindRoom(h)
    BY <1>1, <2>1 DEF FindRoom, sockets
  <2>2. CASE Move(h) \/ Mark(h) \/ Enter(h)
    <3>1. job[h].room \in Channels
      BY <1>1, <2>2 DEF Move, Mark, Enter, JobSound
    <3>2. CASE Move(h)
      BY <1>1, <1>2, <3>1, <3>2 DEF Move, Moved
    <3>3. CASE Mark(h)
      BY <1>1, <1>2, <3>1, <3>3 DEF Mark
    <3>4. CASE Enter(h)
      BY <1>1, <1>2, <3>1, <3>4 DEF Enter
    <3>. QED  BY <2>2, <3>2, <3>3, <3>4
  <2>. QED  BY <2>1, <2>2
<1>6. UNCHANGED <<view, online, out, inbox, rooms, stored, erased, box, recent, sent, note, steps>>
  BY DEF FindRoom, Move, Mark, Enter, client, tables, sockets, history
<1>7. Types'
  BY <1>4, <1>5, <1>6 DEF Types
<1>. QED  BY <1>1, <1>2, <1>3, <1>a, <1>4, <1>5, <1>6, <1>7

\* A handler for a message that is stored and broadcast.
LEMMA InsertDoes ==
    ASSUME Types, Sound, NEW h \in Handlers, Insert(h) \/ InsertFails(h)
    PROVE  /\ Types'
           /\ job[h].at = "insert" /\ job'[h].at = "cast" /\ job'[h].by = job[h].by
           /\ job'[h].msg = job[h].msg /\ job'[h].room = job[h].room
           /\ \A g \in Handlers \ {h} : job'[g] = job[g]
           /\ stored' \in {stored, stored \cup {job[h].msg}}
           /\ \A u \in Users :
                \/ note'[u] = note[u]
                \/ /\ Insert(h) /\ Attentive(u, job[h].room)
                   /\ note'[u] = [note[u] EXCEPT !.awaited = @ \cup {job[h].msg}]
           /\ Insert(h) => stored' = stored \cup {job[h].msg}
           /\ UNCHANGED <<view, online, out, inbox, rooms, erased, box, members, home, astray, recent, sent>>
<1>1. job[h].at = "insert" /\ Becomes(h, "cast") /\ "cast" \in Labels
  BY DEF Insert, InsertFails, Labels
<1>2. /\ job' \in [Handlers -> Jobs] /\ job'[h].at = "cast" /\ job'[h].by = job[h].by
      /\ job'[h].msg = job[h].msg /\ job'[h].room = job[h].room
      /\ \A g \in Handlers \ {h} : job'[g] = job[g]
  BY <1>1, JobDoes
<1>3. /\ note' \in [Users -> Notes]
      /\ \A u \in Users :
                \/ note'[u] = note[u]
                \/ /\ Insert(h) /\ Attentive(u, job[h].room)
                   /\ note'[u] = [note[u] EXCEPT !.awaited = @ \cup {job[h].msg}]
  <2>1. CASE Insert(h)
    <3>. DEFINE m == job[h].msg
    <3>1. note' = [u \in Users |-> IF Attentive(u, job[h].room)
                                   THEN [note[u] EXCEPT !.awaited = @ \cup {m}] ELSE note[u]]
      BY <2>1 DEF Insert
    <3>2. m \in Nat
      BY JobDoes DEF Jobs
    <3>. HIDE DEF m
    <3>3. \A u \in Users : note[u] \in Notes /\ [note[u] EXCEPT !.awaited = @ \cup {m}] \in Notes
      BY <3>2 DEF Types, Notes
    <3>4. \A u \in Users : /\ note'[u] \in Notes
                           /\ \/ note'[u] = note[u]
                              \/ /\ Attentive(u, job[h].room)
                                 /\ note'[u] = [note[u] EXCEPT !.awaited = @ \cup {m}]
      BY <3>1, <3>3
    <3>5. note' \in [Users -> Notes]
      BY <3>1, <3>4
    <3>. QED  BY <2>1, <3>4, <3>5 DEF m
  <2>2. CASE InsertFails(h)
    BY <2>2 DEF InsertFails, Types
  <2>. QED  BY <2>1, <2>2
<1>4. /\ stored' \in {stored, stored \cup {job[h].msg}} /\ steps' = steps
      /\ Insert(h) => stored' = stored \cup {job[h].msg}
      /\ UNCHANGED <<view, online, out, inbox, rooms, erased, box, members, home, astray, recent, sent>>
  BY DEF Insert, InsertFails, client, tables, sockets, Fails
<1>5. erased' \subseteq stored'
  BY <1>4 DEF Types
<1>6. Types'
  BY <1>2, <1>3, <1>4, <1>5 DEF Types
<1>. QED  BY <1>1, <1>2, <1>3, <1>4, <1>6

\* A handler tells browsers of a message.
LEMMA TellsDoes ==
    ASSUME Types, Sound, NEW h \in Handlers,
           Cast(h) \/ Erase(h) \/ TellDeleted(h) \/ Queue(h) \/ Dispatch(h) \/ Acknowledge(h) \/ MarkRead(h)
    PROVE  /\ Types'
           /\ job[h].at \in {"cast", "erase", "tell", "queue", "dispatch", "ack", "read"}
           /\ \A g \in Handlers \ {h} : job'[g] = job[g]
           /\ \/ job'[h] = Idle
              \/ /\ \/ job[h].at = "erase" /\ job'[h].at = "tell"
                    \/ job[h].at = "queue" /\ job'[h].at = "dispatch"
                 /\ job'[h].by = job[h].by /\ job'[h].room = job[h].room /\ job'[h].msg = job[h].msg
           /\ box' \subseteq box \cup {job[h].msg} /\ (job[h].at # "queue" => box' \subseteq box)
           /\ \A u \in Users :
                \/ inbox'[u] = inbox[u]
                \/ \E e \in News :
                     /\ inbox'[u] = Append(inbox[u], e) /\ e.msg = job[h].msg
                     /\ \/ job[h].at = "cast" /\ e.type = "message" /\ u \in Audience(h) /\ online[u]
                        \/ job[h].at = "tell" /\ e.type = "deleted"
                        \/ job[h].at \in {"queue", "dispatch", "ack"}
                           /\ e.type = "status" /\ e.status # "read"
                        \/ job[h].at = "dispatch" /\ e.type = "direct" /\ u = Peer(e.msg)
                        \/ job[h].at = "read" /\ e.type = "status" /\ e.status = "read"
           /\ \A u \in Users : job[h].at = "cast" /\ u \in Audience(h) /\ online[u] =>
                inbox'[u] = Append(inbox[u], [type |-> "message", msg |-> job[h].msg, status |-> "none"])
           /\ UNCHANGED <<view, online, out, rooms, stored, members, home, astray, recent, sent, note>>
<1>. DEFINE m == job[h].msg
            Brought ==
              \A u \in Users :
                \/ inbox'[u] = inbox[u]
                \/ \E e \in News :
                     /\ inbox'[u] = Append(inbox[u], e) /\ e.msg = job[h].msg
                     /\ \/ job[h].at = "cast" /\ e.type = "message" /\ u \in Audience(h) /\ online[u]
                        \/ job[h].at = "tell" /\ e.type = "deleted"
                        \/ job[h].at \in {"queue", "dispatch", "ack"}
                           /\ e.type = "status" /\ e.status # "read"
                        \/ job[h].at = "dispatch" /\ e.type = "direct" /\ u = Peer(e.msg)
                        \/ job[h].at = "read" /\ e.type = "status" /\ e.status = "read"
<1>1. m \in Nat /\ inbox \in [Users -> Seq(News)]
  BY JobDoes DEF Jobs, Types
<1>2. /\ job' \in [Handlers -> Jobs]
      /\ \A g \in Handlers \ {h} : job'[g] = job[g]
      /\ \/ job'[h] = Idle
         \/ /\ \/ job[h].at = "erase" /\ job'[h].at = "tell"
               \/ job[h].at = "queue" /\ job'[h].at = "dispatch"
            /\ job'[h].by = job[h].by /\ job'[h].room = job[h].room /\ job'[h].msg = job[h].msg
  <2>1. "tell" \in Labels /\ "dispatch" \in Labels
    BY DEF Labels
  <2>2. \/ Done(h) \/ (job[h].at = "erase" /\ Becomes(h, "tell"))
        \/ (job[h].at = "queue" /\ Becomes(h, "dispatch"))
    BY DEF Cast, Erase, TellDeleted, Queue, Dispatch, Acknowledge, MarkRead
  <2>. QED  BY <2>1, <2>2, JobDoes
<1>3. /\ job[h].at \in {"cast", "erase", "tell", "queue", "dispatch", "ack", "read"}
      /\ box' \subseteq box \cup {job[h].msg} /\ (job[h].at # "queue" => box' \subseteq box)
      /\ erased' \subseteq stored' /\ steps' = steps
      /\ UNCHANGED <<view, online, out, rooms, stored, members, home, astray, recent, sent, note>>
  BY DEF Cast, Erase, TellDeleted, Queue, Dispatch, Acknowledge, MarkRead, Marked, Types,
         client, tables, sockets, history
<1>4. inbox' \in [Users -> Seq(News)] /\ Brought
  <2>1. CASE Cast(h)
    <3>. DEFINE e == [type |-> "message", msg |-> m, status |-> "none"]
    <3>1. Tell(Audience(h), e) /\ job[h].at = "cast"
      BY <2>1 DEF Cast
    <3>2. e \in News /\ e.msg = m /\ e.type = "message"
      BY <1>1 DEF News, Status
    <3>. HIDE DEF e
    <3>. QED  BY <3>1, <3>2, TellDoes
  <2>2. CASE Erase(h)
    BY <1>1, <2>2 DEF Erase
  <2>3. CASE TellDeleted(h)
    <3>. DEFINE e == [type |-> "deleted", msg |-> m, status |-> "none"]
    <3>1. Tell(Audience(h), e) /\ job[h].at = "tell"
      BY <2>3 DEF TellDeleted
    <3>2. e \in News /\ e.msg = m /\ e.type = "deleted"
      BY <1>1 DEF News, Status
    <3>. HIDE DEF e
    <3>. QED  BY <3>1, <3>2, TellDoes
  <2>4. CASE Queue(h) \/ Acknowledge(h) \/ MarkRead(h)
    <3>1. PICK status, users :
            /\ status \in Status
            /\ Tell(users, StatusEvent(h, status))
            /\ \/ job[h].at \in {"queue", "ack"} /\ status # "read"
               \/ job[h].at = "read" /\ status = "read"
      BY <2>4 DEF Queue, Acknowledge, MarkRead, Acknowledged, Status
    <3>. DEFINE e == StatusEvent(h, status)
    <3>2. e \in News /\ e.msg = m /\ e.type = "status" /\ e.status = status
      BY <1>1, <3>1 DEF News, StatusEvent
    <3>. HIDE DEF e
    <3>3. Tell(users, e)
      BY <3>1 DEF e
    <3>. QED  BY <3>1, <3>2, <3>3, TellDoes
  <2>5. CASE Dispatch(h)
    <3>1. job[h].at = "dispatch" /\ (UNCHANGED inbox \/ Dispatched(m))
      BY <2>5 DEF Dispatch
    <3>. DEFINE d == [type |-> "direct", msg |-> m, status |-> "none"]
                s == [type |-> "status", msg |-> m, status |-> "delivered"]
    <3>2. /\ d \in News /\ d.type = "direct" /\ d.msg = m
          /\ s \in News /\ s.type = "status" /\ s.msg = m /\ s.status # "read"
      BY <1>1 DEF News, Status
    <3>3. Dispatched(m) => /\ inbox' \in [Users -> Seq(News)]
                           /\ \A w \in Users :
                                \/ inbox'[w] = inbox[w]
                                \/ w = Peer(m) /\ inbox'[w] = Append(inbox[w], d)
                                \/ inbox'[w] = Append(inbox[w], s)
      BY <1>1, DispatchedDoes
    <3>. HIDE DEF d, s
    <3>. QED  BY <1>1, <3>1, <3>2, <3>3
  <2>. QED  BY <2>1, <2>2, <2>3, <2>4, <2>5
<1>5. \A u \in Users : job[h].at = "cast" /\ u \in Audience(h) /\ online[u] =>
          inbox'[u] = Append(inbox[u], [type |-> "message", msg |-> m, status |-> "none"])
  BY DEF Cast, Erase, TellDeleted, Queue, Dispatch, Acknowledge, MarkRead, Tell
<1>6. Types'
  BY <1>2, <1>3, <1>4 DEF Types
<1>. QED  BY <1>2, <1>3, <1>4, <1>5, <1>6

\* A message of the mailbox is sent again, or has not been acknowledged in time.
Retries(m) == Redeliver(m) \/ AckTimesOut(m)

LEMMA RetriesDo ==
    ASSUME Types, Sound, NEW m \in box, Retries(m)
    PROVE  /\ Types'
           /\ \A u \in Users :
                \/ inbox'[u] = inbox[u]
                \/ \E e \in News :
                     /\ inbox'[u] = Append(inbox[u], e) /\ e.msg = m
                     /\ \/ e.type = "status" /\ e.status # "read"
                        \/ e.type = "direct" /\ u = Peer(e.msg)
           /\ box' \subseteq box
           /\ UNCHANGED <<view, online, out, rooms, stored, erased, members, home, astray, recent, job,
                          sent, note>>
<1>1. m \in Nat
  BY RoomsOf DEF Sound, InDirect
<1>2. /\ inbox' \in [Users -> Seq(News)]
      /\ \A u \in Users :
           \/ inbox'[u] = inbox[u]
           \/ \E e \in News :
                /\ inbox'[u] = Append(inbox[u], e) /\ e.msg = m
                /\ \/ e.type = "status" /\ e.status # "read"
                   \/ e.type = "direct" /\ u = Peer(e.msg)
  <2>1. CASE Redeliver(m)
    <3>. DEFINE d == [type |-> "direct", msg |-> m, status |-> "none"]
                s == [type |-> "status", msg |-> m, status |-> "delivered"]
    <3>1. /\ d \in News /\ d.type = "direct" /\ d.msg = m
          /\ s \in News /\ s.type = "status" /\ s.msg = m /\ s.status # "read"
      BY <1>1 DEF News, Status
    <3>2. /\ inbox' \in [Users -> Seq(News)]
          /\ \A w \in Users : \/ inbox'[w] = inbox[w]
                              \/ w = Peer(m) /\ inbox'[w] = Append(inbox[w], d)
                              \/ inbox'[w] = Append(inbox[w], s)
      BY <1>1, <2>1, DispatchedDoes DEF Redeliver
    <3>. HIDE DEF d, s
    <3>. QED  BY <3>1, <3>2
  <2>2. CASE AckTimesOut(m)
    <3>1. PICK status \in {"queued", "failed"} :
                 Tell({By(m)}, [type |-> "status", msg |-> m, status |-> status])
      BY <2>2 DEF AckTimesOut
    <3>. DEFINE e == [type |-> "status", msg |-> m, status |-> status]
    <3>2. e \in News /\ e.type = "status" /\ e.msg = m /\ e.status # "read"
      BY <1>1 DEF News, Status
    <3>3. Tell({By(m)}, e)
      BY <3>1
    <3>. HIDE DEF e
    <3>4. /\ inbox' \in [Users -> Seq(News)]
          /\ \A w \in Users : inbox'[w] = inbox[w] \/ inbox'[w] = Append(inbox[w], e)
      BY <3>2, <3>3, TellDoes
    <3>. QED  BY <3>2, <3>4
  <2>. QED  BY <2>1, <2>2 DEF Retries
<1>3. /\ box' \subseteq box
      /\ UNCHANGED <<view, online, out, rooms, stored, erased, members, home, astray, recent, job,
                     sent, note, steps>>
  BY DEF Retries, Redeliver, AckTimesOut, client, tables, sockets, Fails
<1>4. Types'
  BY <1>2, <1>3 DEF Types
<1>. QED  BY <1>2, <1>3, <1>4

LEMMA AbortDoes ==
    ASSUME Types, Sound, NEW h \in Handlers, Abort(h)
    PROVE  /\ Types'
           /\ job'[h] = Idle /\ job[h].at \notin {"insert", "cast"}
           /\ \A g \in Handlers \ {h} : job'[g] = job[g]
           /\ job[h].by \in Users
           /\ \E t \in BOOLEAN :
                /\ t = (note[job[h].by].torn \/ job[h].at \in Moving)
                /\ note'[job[h].by] = [note[job[h].by] EXCEPT !.torn = t]
           /\ \A w \in Users \ {job[h].by} : note'[w] = note[w]
           /\ UNCHANGED <<view, online, out, inbox, rooms, stored, erased, box, members, home, astray, recent, sent>>
<1>. DEFINE u == job[h].by
            t == note[u].torn \/ job[h].at \in Moving
            n == [note[u] EXCEPT !.torn = t]
<1>1. job[h].at \notin {"idle", "insert", "cast"} /\ Done(h) /\ JobSound(job[h])
  BY DEF Abort, Sound
<1>2. u \in Users
  BY <1>1 DEF JobSound
<1>3. t \in BOOLEAN /\ note[u] \in Notes
  BY <1>2 DEF Types, Notes
<1>4. note' = [note EXCEPT ![u] = n]
  BY <1>2 DEF Abort, Types
<1>. HIDE DEF t
<1>5. n \in Notes
  BY <1>3 DEF Notes
<1>. HIDE DEF n, u
<1>6. /\ note' \in [Users -> Notes] /\ note'[u] = n
      /\ \A w \in Users \ {u} : note'[w] = note[w]
  BY <1>2, <1>4, <1>5 DEF Types
<1>7. /\ job' \in [Handlers -> Jobs] /\ job'[h] = Idle
      /\ \A g \in Handlers \ {h} : job'[g] = job[g]
  BY <1>1, JobDoes
<1>8. UNCHANGED <<view, online, out, inbox, rooms, stored, erased, box, members, home, astray, recent, sent, steps>>
  BY DEF Abort, client, tables, sockets, Fails
<1>9. Types'
  BY <1>6, <1>7, <1>8 DEF Types
<1>. QED  BY <1>1, <1>2, <1>3, <1>6, <1>7, <1>8, <1>9 DEF u, t, n

LEMMA DisconnectDoes ==
    ASSUME Types, NEW u \in Users, Disconnect(u)
    PROVE  /\ Types'
           /\ \A w \in Users \ {u} : /\ out'[w] = out[w] /\ inbox'[w] = inbox[w]
                                     /\ online'[w] = online[w] /\ members'[w] = members[w]
                                     /\ home'[w] = home[w] /\ note'[w] = note[w]
                                     /\ w \in astray' <=> w \in astray
           /\ out'[u] = <<>> /\ inbox'[u] = <<>> /\ ~online'[u] /\ online[u]
           /\ members'[u] = {} /\ home'[u] = None
           /\ note'[u] = [note[u] EXCEPT !.awaited = {}, !.torn = FALSE, !.deaf = TRUE]
           /\ \A h \in Handlers : job'[h] = IF h \in Switching(u) THEN Idle ELSE job[h]
           /\ UNCHANGED <<view, rooms, stored, erased, box, sent>>
<1>. DEFINE n == [note[u] EXCEPT !.awaited = {}, !.torn = FALSE, !.deaf = TRUE]
<1>1. note[u] \in Notes /\ <<>> \in Seq(Events) /\ <<>> \in Seq(News) /\ Idle \in Jobs
  BY DEF Types, Idle, Jobs, Labels
<1>2. n \in Notes
  BY <1>1 DEF Notes
<1>3. note' = [note EXCEPT ![u] = n]
  BY <1>1 DEF Disconnect, Types
<1>. HIDE DEF n
<1>4. /\ note' \in [Users -> Notes] /\ note'[u] = n
      /\ \A w \in Users \ {u} : note'[w] = note[w]
  BY <1>2, <1>3 DEF Types
<1>5. /\ out' \in [Users -> Seq(Events)] /\ inbox' \in [Users -> Seq(News)]
      /\ out'[u] = <<>> /\ inbox'[u] = <<>>
      /\ \A w \in Users \ {u} : out'[w] = out[w] /\ inbox'[w] = inbox[w]
  BY <1>1 DEF Disconnect, Types
<1>6. /\ online' \in [Users -> BOOLEAN] /\ members' \in [Users -> SUBSET Channels]
      /\ home' \in [Users -> Channels \cup {None}] /\ recent' \in [Users -> Nat]
      /\ ~online'[u] /\ online[u] /\ members'[u] = {} /\ home'[u] = None
      /\ \A w \in Users \ {u} : /\ online'[w] = online[w] /\ members'[w] = members[w]
                                /\ home'[w] = home[w]
                                /\ w \in astray' <=> w \in astray
      /\ astray' \subseteq Users
  BY DEF Disconnect, Types
<1>7. /\ job' \in [Handlers -> Jobs]
      /\ \A h \in Handlers : job'[h] = IF h \in Switching(u) THEN Idle ELSE job[h]
  BY <1>1 DEF Disconnect, Types
<1>8. UNCHANGED <<view, rooms, stored, erased, box, sent, steps>>
  BY DEF Disconnect, tables, Fails
<1>9. Types'
  BY <1>4, <1>5, <1>6, <1>7, <1>8 DEF Types
<1>. QED  BY <1>4, <1>5, <1>6, <1>7, <1>8, <1>9 DEF n

LEMMA ReconnectDoes ==
    ASSUME Types, NEW u \in Users, Reconnect(u)
    PROVE  /\ Types'
           /\ ~online[u] /\ online'[u] /\ \A w \in Users \ {u} : online'[w] = online[w]
           /\ UNCHANGED <<view, out, inbox, rooms, stored, erased, box, members, home, astray, recent, job, sent, note>>
<1>1. /\ online' \in [Users -> BOOLEAN] /\ ~online[u] /\ online'[u]
      /\ \A w \in Users \ {u} : online'[w] = online[w]
  BY DEF Reconnect, Types
<1>2. UNCHANGED <<view, out, inbox, rooms, stored, erased, box, members, home, astray, recent, job, sent, note, steps>>
  BY DEF Reconnect, tables, sockets, history
<1>3. Types'
  BY <1>1, <1>2 DEF Types
<1>. QED  BY <1>1, <1>2, <1>3

LEMMA LapseDoes ==
    ASSUME Types, NEW u \in Users, Lapse(u)
    PROVE  /\ Types'
           /\ \A w \in Users : home'[w] \in {None, home[w]}
           /\ UNCHANGED <<view, online, out, inbox, rooms, stored, erased, box, members, astray, recent, job,
                          sent, note>>
<1>1. home' \in [Users -> Channels \cup {None}] /\ \A w \in Users : home'[w] \in {None, home[w]}
  BY DEF Lapse, Types
<1>2. UNCHANGED <<view, online, out, inbox, rooms, stored, erased, box, members, astray, recent, job, sent, note,
                  steps>>
  BY DEF Lapse, client, tables, Fails
<1>3. Types'
  BY <1>1, <1>2 DEF Types
<1>. QED  BY <1>1, <1>2, <1>3

-----------------------------------------------------------------------------
(* Sound: what is referred to is there, and stays what it was.             *)

\* A message, once written, stays what it is.
Grown == \/ sent' = sent
         \/ \E x \in [by : Users, room : Rooms] : sent' = Append(sent, x)

LEMMA Grows ==
    ASSUME Types, Grown
    PROVE  /\ Len(sent) \in Nat /\ Len(sent)' \in Nat /\ Len(sent) <= Len(sent)'
           /\ \A m \in Messages : /\ m \in Messages' /\ By(m)' = By(m) /\ RoomOf(m)' = RoomOf(m)
                                  /\ Peer(m)' = Peer(m)
           /\ \A m : InChannel(m) => InChannel(m)'
           /\ \A m : InDirect(m) => InDirect(m)'
<1>1. /\ Len(sent) \in Nat /\ Len(sent)' \in Nat /\ Len(sent) <= Len(sent)'
      /\ \A m \in 1..Len(sent) : m \in 1..Len(sent)' /\ sent'[m] = sent[m]
  <2>1. sent \in Seq([by : Users, room : Rooms])
    BY DEF Types
  <2>2. CASE sent' = sent
    BY <2>1, <2>2
  <2>3. CASE \E x \in [by : Users, room : Rooms] : sent' = Append(sent, x)
    <3>1. PICK x \in [by : Users, room : Rooms] : sent' = Append(sent, x)
      BY <2>3
    <3>. DEFINE S == [by : Users, room : Rooms]
    <3>2. sent \in Seq(S) /\ x \in S /\ sent' = Append(sent, x)
      BY <2>1, <3>1
    <3>. HIDE DEF S
    <3>. QED  BY <3>2
  <2>. QED  BY <2>2, <2>3 DEF Grown
<1>2. \A m \in Messages : m \in Messages' /\ By(m)' = By(m) /\ RoomOf(m)' = RoomOf(m)
  BY <1>1 DEF Messages, By, RoomOf
<1>3. \A m \in Messages : Peer(m)' = Peer(m)
  BY <1>2 DEF Peer
<1>. QED  BY <1>1, <1>2, <1>3 DEF InChannel, InDirect

LEMMA SoundGrows ==
    ASSUME Types, Grown, rooms \subseteq rooms'
    PROVE  /\ \A u, e : EventSound(u, e) => EventSound(u, e)'
           /\ \A u, e : NewsSound(u, e) => NewsSound(u, e)'
           /\ \A j : JobSound(j) => JobSound(j)'
<1>1. /\ \A m \in Messages : /\ m \in Messages' /\ By(m)' = By(m) /\ RoomOf(m)' = RoomOf(m)
                             /\ Peer(m)' = Peer(m)
      /\ \A m : InChannel(m) => InChannel(m)' /\ m \in Messages
      /\ \A m : InDirect(m) => InDirect(m)' /\ m \in Messages
      /\ \A m \in 0..Len(sent) : m \in 0..Len(sent)'
  BY Grows DEF InChannel, InDirect
<1>2. \A u, e : EventSound(u, e) => EventSound(u, e)'
  BY <1>1 DEF EventSound
<1>3. \A u, e : NewsSound(u, e) => NewsSound(u, e)'
  BY <1>1 DEF NewsSound
<1>4. \A j : JobSound(j) => JobSound(j)'
  BY <1>1 DEF JobSound
<1>. QED  BY <1>2, <1>3, <1>4

LEMMA ViewGrows ==
    ASSUME Types, Grown, stored \subseteq stored', NEW u \in Users, NEW v \in Views, ViewSound(u, v),
           \A m \in stored : m \in Messages
    PROVE  ViewSound(u, v)'
<1>1. /\ \A m \in Messages : /\ m \in Messages' /\ By(m)' = By(m) /\ RoomOf(m)' = RoomOf(m)
                             /\ Peer(m)' = Peer(m)
      /\ \A m : InChannel(m) => InChannel(m)'
      /\ \A m : InDirect(m) => InDirect(m)' /\ m \in Messages
  BY Grows DEF InDirect
<1>. QED  BY <1>1 DEF ViewSound

LEMMA SoundStep ==
    ASSUME Types, Types', Sound, Grown, rooms \subseteq rooms', stored \subseteq stored',
           \A m \in Messages' : m \in Messages \/ (RoomOf(m)' \in Direct => By(m)' \in RoomOf(m)'),
           \A m \in stored' : m \in stored \/ InChannel(m),
           \A m \in box' : m \in box \/ InDirect(m),
           \A u \in Users : \A i \in DOMAIN out'[u] :
              Old(out[u], out'[u][i]) \/ EventSound(u, out'[u][i]),
           \A u \in Users : \A i \in DOMAIN inbox'[u] :
              Old(inbox[u], inbox'[u][i]) \/ NewsSound(u, inbox'[u][i]),
           \A h \in Handlers : job'[h] = job[h] \/ JobSound(job'[h]),
           \A u \in Users : view'[u] = view[u] \/ ViewSound(u, view'[u]) \/ ViewSound(u, view[u])'
    PROVE  Sound'
<1>1. \A m \in Messages' : RoomOf(m)' \in Direct => By(m)' \in RoomOf(m)'
  BY Grows DEF Sound
<1>2. (\A m \in stored' : InChannel(m)') /\ (\A m \in box' : InDirect(m)')
  BY Grows DEF Sound
<1>3. ASSUME NEW u \in Users, NEW i \in DOMAIN out'[u] PROVE EventSound(u, out[u][i])'
  <2>1. EventSound(u, out'[u][i])
    BY DEF Sound, Old
  <2>. DEFINE e == out'[u][i]
  <2>. HIDE DEF e
  <2>2. EventSound(u, e)
    BY <2>1 DEF e
  <2>. QED  BY <2>1, SoundGrows DEF EventSound
<1>4. ASSUME NEW u \in Users, NEW i \in DOMAIN inbox'[u] PROVE NewsSound(u, inbox[u][i])'
  <2>1. NewsSound(u, inbox'[u][i])
    BY DEF Sound, Old
  <2>. QED  BY <2>1, SoundGrows DEF NewsSound
<1>5. ASSUME NEW h \in Handlers PROVE JobSound(job[h])'
  <2>1. JobSound(job'[h])
    BY DEF Sound
  <2>. QED  BY <2>1, SoundGrows DEF JobSound
<1>6. ASSUME NEW u \in Users PROVE ViewSound(u, view[u])'
  <2>1. ViewSound(u, view'[u]) \/ ViewSound(u, view[u])'
    BY DEF Sound
  <2>2. view'[u] \in Views /\ \A m \in stored : m \in Messages
    BY DEF Types, Sound, InChannel
  <2>. QED  BY <2>1, <2>2, ViewGrows DEF ViewSound
<1>. QED  BY <1>1, <1>2, <1>3, <1>4, <1>5, <1>6 DEF Sound

\* What one emits is added to what one has emitted.
LEMMA EmitSound ==
    ASSUME Types, NEW u \in Users, NEW events \in Seq(Events), Emit(u, events),
           \A i \in DOMAIN events : EventSound(u, events[i])
    PROVE  \A w \in Users : \A i \in DOMAIN out'[w] :
              Old(out[w], out'[w][i]) \/ EventSound(w, out'[w][i])
<1>1. out[u] \in Seq(Events)
  BY DEF Types
<1>2. \A i \in DOMAIN (out[u] \o events) :
         Old(out[u], (out[u] \o events)[i]) \/ Old(events, (out[u] \o events)[i])
  BY <1>1, Sequences
<1>3. \A w \in Users : out'[w] = IF w = u /\ online[u] THEN out[u] \o events ELSE out[w]
  BY EmitDoes
<1>4. ASSUME NEW w \in Users, NEW i \in DOMAIN out'[w]
      PROVE  Old(out[w], out'[w][i]) \/ EventSound(w, out'[w][i])
  <2>1. CASE w = u /\ online[u]
    <3>1. w = u /\ out'[w] = out[u] \o events
      BY <1>3, <2>1
    <3>. QED  BY <1>2, <1>4, <3>1 DEF Old
  <2>2. CASE ~(w = u /\ online[u])
    BY <1>3, <1>4, <2>2 DEF Old
  <2>. QED  BY <2>1, <2>2
<1>. QED  BY <1>4

LEMMA EmitOneSound ==
    ASSUME Types, NEW u \in Users, NEW e \in Events, Emit(u, <<e>>), EventSound(u, e)
    PROVE  \A w \in Users : \A i \in DOMAIN out'[w] :
              Old(out[w], out'[w][i]) \/ EventSound(w, out'[w][i])
<1>. DEFINE events == <<e>>
<1>1. /\ events \in Seq(Events) /\ Emit(u, events)
      /\ \A i \in DOMAIN events : events[i] = e
  OBVIOUS
<1>. HIDE DEF events
<1>. QED  BY <1>1, EmitSound

LEMMA Unmoved ==
    /\ out' = out => \A u \in Users : \A i \in DOMAIN out'[u] : Old(out[u], out'[u][i])
    /\ inbox' = inbox => \A u \in Users : \A i \in DOMAIN inbox'[u] : Old(inbox[u], inbox'[u][i])
    /\ sent' = sent => Grown /\ Messages' = Messages
  BY DEF Old, Grown, Messages

LEMMA ReceiptsAreSound ==
    ASSUME Types, Sound, NEW u \in Users, NEW r
    PROVE  \A k \in DOMAIN Receipts(u, r) : EventSound(u, Receipts(u, r)[k])
<1>1. ASSUME NEW k \in DOMAIN Receipts(u, r) PROVE EventSound(u, Receipts(u, r)[k])
  <2>1. PICK i \in DOMAIN view[u].list : Receipts(u, r)[k] = Event("read", view[u].list[i].msg, None)
    BY <1>1, ReceiptsSound
  <2>2. view[u].list[i].msg \in Messages
    BY DEF Sound, ViewSound
  <2>3. view[u].list[i].msg \in 0..Len(sent)
    BY <2>2 DEF Messages, Types
  <2>. QED  BY <2>1, <2>2, <2>3 DEF EventSound, Event
<1>. QED  BY <1>1

LEMMA IdleSound == Types => JobSound(Idle)
  BY DEF JobSound, Idle, Types

LEMMA GoesSound ==
    ASSUME Types, Sound, NEW u \in Users, NEW r \in Rooms, NEW joins \in SUBSET Channels,
           NEW receipts \in Seq(Events), Goes(u, r, joins, receipts)
    PROVE  Sound'
<1>1. PICK f \in Fetches : f.room = r /\ f.rows = <<>> /\ Turns(u, Opened(u, r, joins, f))
  BY GoesDoes
<1>2. ViewSound(u, Opened(u, r, joins, f))
  <2>1. view[u] \in Views /\ ViewSound(u, view[u]) /\ (r \in Direct => u \in r) /\ r \notin Channels \cap Direct
    BY Kinds DEF Types, Sound, Goes, ViewSound
  <2>. DEFINE v == Opened(u, r, joins, f)
  <2>2. /\ v.room = r /\ v.channel = (IF r \in Channels THEN r ELSE view[u].channel)
        /\ v.list = view[u].list /\ v.processed = view[u].processed
        /\ v.composing = view[u].composing /\ v.showing = view[u].showing /\ v.queue = view[u].queue
        /\ v.fetches = view[u].fetches \cup {f}
    BY <2>1 DEF Opened, Views
  <2>. HIDE DEF v
  <2>3. \A k \in v.fetches : \A i \in DOMAIN k.rows :
          k.rows[i] \in stored /\ RoomOf(k.rows[i]) = k.room
    BY <1>1, <2>1, <2>2 DEF ViewSound
  <2>4. ViewSound(u, v)
    BY <2>1, <2>2, <2>3 DEF ViewSound
  <2>. QED  BY <2>4 DEF v
<1>3. \A i \in DOMAIN receipts : EventSound(u, receipts[i])
  BY ReceiptsAreSound DEF Goes
<1>4. EventSound(u, Event("switch", 0, r))
  BY DEF EventSound, Event, Types
<1>5. Event("switch", 0, r) \in Events
  BY EventTypes DEF OutTypes
<1>6. \A i \in DOMAIN Append(receipts, Event("switch", 0, r)) :
          EventSound(u, Append(receipts, Event("switch", 0, r))[i])
  BY <1>3, <1>4, <1>5
<1>7. /\ Emit(u, Append(receipts, Event("switch", 0, r)))
      /\ Append(receipts, Event("switch", 0, r)) \in Seq(Events)
      /\ Types' /\ rooms \subseteq rooms'
      /\ UNCHANGED <<inbox, stored, box, job, sent>>
  BY GoesDoes
<1>8. \A w \in Users : \A i \in DOMAIN out'[w] : Old(out[w], out'[w][i]) \/ EventSound(w, out'[w][i])
  BY <1>6, <1>7, EmitSound
<1>9. \A w \in Users : view'[w] = view[w] \/ ViewSound(w, view'[w])
  BY <1>1, <1>2 DEF Turns
<1>. QED  BY <1>7, <1>8, <1>9, Unmoved, SoundStep

LEMMA StaysSound ==
    ASSUME Types, Sound, NEW u \in Users, Stays(u)
    PROVE  Sound'
<1>1. /\ Types' /\ rooms \subseteq rooms' /\ UNCHANGED <<inbox, stored, box, job, sent>>
      /\ \/ Turns(u, Reset(u))
            /\ Receipts(u, view[u].room) \in Seq(Events) /\ Emit(u, Receipts(u, view[u].room))
         \/ UNCHANGED <<view, out>>
  BY StaysDoes
<1>2. view[u] \in Views /\ ViewSound(u, view[u])
  BY DEF Types, Sound
<1>3. ViewSound(u, Reset(u))
  BY <1>2 DEF ViewSound, Reset, Views
<1>4. \A w \in Users : view'[w] = view[w] \/ ViewSound(w, view'[w])
  BY <1>1, <1>3 DEF Turns
<1>5. \A w \in Users : \A i \in DOMAIN out'[w] : Old(out[w], out'[w][i]) \/ EventSound(w, out'[w][i])
  BY <1>1, EmitSound, ReceiptsAreSound, Unmoved
<1>. QED  BY <1>1, <1>4, <1>5, Unmoved, SoundStep

LEMMA JoinRoomSound ==
    ASSUME Types, Sound, NEW u \in Users, NEW r \in Channels, JoinRoom(u, r)
    PROVE  Sound'
<1>. DEFINE e == Event("join", 0, r)
            v == [view[u] EXCEPT !.joining = @ \ {r}]
<1>1. /\ Types' /\ Turns(u, v) /\ e \in Events
      /\ \A w \in Users : out'[w] = IF w = u THEN Append(out[u], e) ELSE out[w]
      /\ UNCHANGED <<inbox, rooms, stored, box, job, sent>>
  BY JoinRoomDoes DEF ServerSame
<1>2. view[u] \in Views /\ ViewSound(u, view[u]) /\ out[u] \in Seq(Events)
  BY DEF Types, Sound
<1>3. ViewSound(u, v)
  BY <1>2 DEF ViewSound, Views
<1>4. EventSound(u, e)
  BY DEF EventSound, Event, Types
<1>. HIDE DEF v, e
<1>5. \A w \in Users : view'[w] = view[w] \/ ViewSound(w, view'[w])
  BY <1>1, <1>3 DEF Turns
<1>6. \A w \in Users : \A i \in DOMAIN out'[w] : Old(out[w], out'[w][i]) \/ EventSound(w, out'[w][i])
  <2>1. \A i \in DOMAIN Append(out[u], e) : Old(out[u], Append(out[u], e)[i]) \/ Append(out[u], e)[i] = e
    BY <1>1, <1>2, Sequences
  <2>. QED  BY <1>1, <1>4, <2>1 DEF Old
<1>. QED  BY <1>1, <1>5, <1>6, Unmoved, SoundStep

LEMMA ComposeSound ==
    ASSUME Types, Sound, NEW u \in Users, Compose(u)
    PROVE  Sound'
<1>. DEFINE x == [by |-> u, room |-> view[u].room]
            n == Len(sent) + 1
<1>1. /\ Types' /\ sent' = Append(sent, x)
      /\ Turns(u, [view[u] EXCEPT !.composing = @ \cup {n}])
      /\ UNCHANGED <<inbox, out, rooms, stored, box, job>>
  BY ComposeDoes DEF ServerSame
<1>2. view[u] \in Views /\ ViewSound(u, view[u]) /\ Len(sent) \in Nat
  BY DEF Types, Sound
<1>3. x \in [by : Users, room : Rooms]
  BY <1>2 DEF Views
<1>4. Grown
  BY <1>1, <1>3 DEF Grown
<1>5. sent'[n] = x /\ Messages' = Messages \cup {n}
  <2>. DEFINE S == [by : Users, room : Rooms]
  <2>1. sent \in Seq(S) /\ x \in S
    BY <1>3 DEF Types
  <2>. HIDE DEF S, x
  <2>2. sent'[n] = x /\ Len(sent') = n /\ 1..n = 1..Len(sent) \cup {n}
    BY <1>1, <2>1
  <2>. QED  BY <2>2 DEF Messages
<1>6. PICK k \in Nat : k = n
  BY <1>2
<1>7. By(k)' = u /\ RoomOf(k)' = view[u].room /\ k \in Messages'
  BY <1>5, <1>6 DEF By, RoomOf
<1>8. \A m \in Messages' : m \in Messages \/ (RoomOf(m)' \in Direct => By(m)' \in RoomOf(m)')
  BY <1>2, <1>5, <1>6, <1>7 DEF ViewSound
<1>9. ViewSound(u, view[u])'
  <2>1. \A m \in stored : m \in Messages
    BY DEF Sound, InChannel
  <2>2. PICK w \in Views : w = view[u]
    BY <1>2
  <2>3. ViewSound(u, w) /\ stored \subseteq stored'
    BY <1>1, <1>2, <2>2
  <2>4. ViewSound(u, w)'
    BY <2>1, <2>3, <1>4, ViewGrows
  <2>5. /\ view'[u] = [w EXCEPT !.composing = @ \cup {k}]
        /\ view'[u].room = w.room /\ view'[u].channel = w.channel /\ view'[u].list = w.list
        /\ view'[u].processed = w.processed
        /\ view'[u].showing = w.showing /\ view'[u].queue = w.queue /\ view'[u].fetches = w.fetches
        /\ view'[u].composing = w.composing \cup {k}
    BY <1>1, <1>6, <2>2 DEF Views, Turns
  <2>. QED  BY <1>7, <2>4, <2>5 DEF ViewSound
<1>10. \A w \in Users : view'[w] = view[w] \/ ViewSound(w, view[w])'
  BY <1>1, <1>9 DEF Turns
<1>. QED  BY <1>1, <1>4, <1>8, <1>10, Unmoved, SoundStep

LEMMA EncryptedSound ==
    ASSUME Types, Sound, NEW u \in Users, NEW m, EncryptedChannel(u, m) \/ EncryptedDM(u, m)
    PROVE  Sound'
<1>1. /\ Types' /\ m \in view[u].composing /\ m \in Nat
      /\ UNCHANGED <<inbox, rooms, stored, box, job, sent>>
  BY EncryptedDoes DEF ServerSame
<1>2. PICK list \in Seq(Entries) :
        /\ Turns(u, Encrypted(u, m, list))
        /\ list # view[u].list => \E x \in Entries :
              /\ x.msg = m /\ x.status # "read" /\ list = Append(view[u].list, x)
  BY EncryptedDoes
<1>3. PICK e \in Events :
        /\ Emit(u, <<e>>)
        /\ e.msg = m
        /\ RoomOf(m) \in Channels => e.type = "send" /\ e.room = RoomOf(m)
        /\ RoomOf(m) \notin Channels => e.type = "direct" /\ RoomOf(m) \in Direct
  BY EncryptedDoes
<1>4. view[u] \in Views /\ ViewSound(u, view[u]) /\ m \in Messages /\ By(m) = u
  BY <1>1 DEF Types, Sound, ViewSound
<1>5. EventSound(u, e)
  <2>1. m \in 0..Len(sent) /\ (RoomOf(m) \in Direct => By(m) \in RoomOf(m))
    BY <1>4 DEF Messages, Types, Sound
  <2>. QED  BY <1>3, <1>4, <2>1 DEF EventSound, InChannel, InDirect
<1>6. \A w \in Users : \A i \in DOMAIN out'[w] : Old(out[w], out'[w][i]) \/ EventSound(w, out'[w][i])
  BY <1>3, <1>5, EmitOneSound
<1>7. \A i \in DOMAIN list : list[i].msg \in Messages
  <2>1. \A i \in DOMAIN view[u].list : view[u].list[i].msg \in Messages
    BY <1>4 DEF ViewSound
  <2>2. ASSUME NEW x \in Entries, x.msg = m, list = Append(view[u].list, x)
        PROVE  \A i \in DOMAIN list : list[i].msg \in Messages
    <3>1. view[u].list \in Seq(Entries)
      BY <1>4 DEF Views
    <3>. QED  BY <1>4, <2>1, <2>2, <3>1, Sequences DEF Old
  <2>. QED  BY <1>2, <2>1, <2>2
<1>8. ViewSound(u, Encrypted(u, m, list))
  BY <1>4, <1>7 DEF ViewSound, Views, Encrypted
<1>9. \A w \in Users : view'[w] = view[w] \/ ViewSound(w, view'[w])
  BY <1>2, <1>8 DEF Turns
<1>. QED  BY <1>1, <1>6, <1>9, Unmoved, SoundStep

LEMMA EncryptFailsSound ==
    ASSUME Types, Sound, NEW u \in Users, NEW m, EncryptFails(u, m)
    PROVE  Sound'
<1>1. /\ Types' /\ Turns(u, [view[u] EXCEPT !.composing = @ \ {m}])
      /\ UNCHANGED <<out, inbox, rooms, stored, box, job, sent>>
  BY EncryptFailsDoes DEF ServerSame
<1>2. view[u] \in Views /\ ViewSound(u, view[u])
  BY DEF Types, Sound
<1>3. ViewSound(u, [view[u] EXCEPT !.composing = @ \ {m}])
  BY <1>2 DEF ViewSound, Views
<1>4. \A w \in Users : view'[w] = view[w] \/ ViewSound(w, view'[w])
  BY <1>1, <1>3 DEF Turns
<1>. QED  BY <1>1, <1>4, Unmoved, SoundStep

LEMMA DeleteMessageSound ==
    ASSUME Types, Sound, NEW u \in Users, NEW j \in DOMAIN view[u].list,
           DeleteMessage(u, view[u].list[j])
    PROVE  Sound'
<1>1. /\ Types' /\ UNCHANGED <<view, inbox, rooms, stored, box, job, sent>>
  BY DeleteMessageDoes DEF ServerSame
<1>2. PICK e \in Events : /\ Emit(u, <<e>>) /\ e.type = "delete" /\ e.room \in Rooms
                          /\ e.msg \in {0, view[u].list[j].msg}
  BY DeleteMessageDoes
<1>3. view[u].list[j].msg \in Messages
  BY DEF Sound, ViewSound
<1>4. EventSound(u, e)
  <2>1. Len(sent) \in Nat
    BY DEF Types
  <2>2. e.msg \in 0..Len(sent)
    BY <1>2, <1>3, <2>1 DEF Messages
  <2>. QED  BY <1>2, <2>2 DEF EventSound
<1>5. \A w \in Users : \A i \in DOMAIN out'[w] : Old(out[w], out'[w][i]) \/ EventSound(w, out'[w][i])
  BY <1>2, <1>4, EmitOneSound
<1>6. \A w \in Users : view'[w] = view[w]
  BY <1>1
<1>. QED  BY <1>1, <1>5, <1>6, Unmoved, SoundStep

LEMMA FetchSound ==
    ASSUME Types, Sound, NEW u \in Users, NEW f, Fetch(u, f)
    PROVE  Sound'
<1>1. Types' /\ UNCHANGED <<out, inbox, rooms, stored, box, job, sent>>
  BY FetchesDo DEF ServerSame
<1>2. PICK g \in SUBSET Fetches, list \in Seq(Entries) :
        /\ Turns(u, Fetched(u, f, g, list))
        /\ \A k \in g : /\ k.room = f.room
                        /\ \A i \in DOMAIN k.rows : k.rows[i] \in stored /\ RoomOf(k.rows[i]) = f.room
        /\ \/ list = view[u].list /\ g # {}
           \/ \A i \in DOMAIN list : /\ list[i].status = "none"
                                     /\ list[i].msg \in stored /\ RoomOf(list[i].msg) = f.room
  BY FetchesDo
<1>3. view[u] \in Views /\ ViewSound(u, view[u])
  BY DEF Types, Sound
<1>4. \A i \in DOMAIN list : list[i].msg \in Messages
  BY <1>2, <1>3 DEF ViewSound, Sound, InChannel
<1>5. ViewSound(u, Fetched(u, f, g, list))
  <2>. DEFINE v == Fetched(u, f, g, list)
  <2>1. /\ v.room = view[u].room /\ v.channel = view[u].channel /\ v.list = list
        /\ v.processed = view[u].processed /\ v.composing = view[u].composing
        /\ v.showing = view[u].showing /\ v.queue = view[u].queue
        /\ v.fetches = (view[u].fetches \ {f}) \cup g
    BY <1>3 DEF Fetched, Views
  <2>. HIDE DEF v
  <2>2. \A k \in v.fetches : \A i \in DOMAIN k.rows : k.rows[i] \in stored /\ RoomOf(k.rows[i]) = k.room
    BY <1>2, <1>3, <2>1 DEF ViewSound
  <2>3. ViewSound(u, v)
    BY <1>3, <1>4, <2>1, <2>2 DEF ViewSound
  <2>. QED  BY <2>3 DEF v
<1>6. \A w \in Users : view'[w] = view[w] \/ ViewSound(w, view'[w])
  BY <1>2, <1>5 DEF Turns
<1>. QED  BY <1>1, <1>6, Unmoved, SoundStep

LEMMA TailSound ==
    ASSUME Types, NEW u \in Users, inbox[u] # <<>>, inbox'[u] = Tail(inbox[u]),
           \A w \in Users \ {u} : inbox'[w] = inbox[w]
    PROVE  \A w \in Users : \A i \in DOMAIN inbox'[w] : Old(inbox[w], inbox'[w][i])
<1>1. inbox[u] \in Seq(News)
  BY DEF Types
<1>2. \A i \in DOMAIN Tail(inbox[u]) : Old(inbox[u], Tail(inbox[u])[i])
  BY <1>1, Sequences
<1>. QED  BY <1>2 DEF Old

Receives(u) == ReceiveMessage(u) \/ ReceiveDirect(u) \/ ReceiveStatus(u) \/ ReceiveDeleted(u)

LEMMA ReceiveSound ==
    ASSUME Types, Sound, NEW u \in Users, Receives(u)
    PROVE  Sound'
<1>1. /\ Types' /\ UNCHANGED <<out, rooms, stored, box, job, sent>>
      /\ inbox[u] # <<>> /\ inbox'[u] = Tail(inbox[u]) /\ \A w \in Users \ {u} : inbox'[w] = inbox[w]
  BY ReceiveDoes DEF ServerSame, Receives
<1>2. PICK e \in News, v \in Views :
        /\ e = inbox[u][1] /\ 1 \in DOMAIN inbox[u]
        /\ Turns(u, v)
        /\ \/ /\ e.type = "message"
              /\ v = [view[u] EXCEPT !.showing = @ \cup {[msg |-> e.msg, room |-> view[u].room]}]
           \/ /\ e.type = "direct"
              /\ v = [view[u] EXCEPT !.queue = Append(@, [msg |-> e.msg, room |-> view[u].room])]
           \/ \E list \in Seq(Entries) :
                /\ v = [view[u] EXCEPT !.list = list]
                /\ Len(list) = Len(view[u].list)
                /\ \A i \in DOMAIN list : list[i].msg = view[u].list[i].msg
  BY ReceiveDoes DEF Receives
<1>3. view[u] \in Views /\ ViewSound(u, view[u]) /\ NewsSound(u, e)
  BY <1>2 DEF Types, Sound
<1>4. ViewSound(u, v)
  <2>1. ASSUME e.type = "message",
               v = [view[u] EXCEPT !.showing = @ \cup {[msg |-> e.msg, room |-> view[u].room]}]
        PROVE  ViewSound(u, v)
    <3>1. InChannel(e.msg)
      BY <1>3, <2>1 DEF NewsSound
    <3>. DEFINE s == [msg |-> e.msg, room |-> view[u].room]
    <3>2. /\ v.room = view[u].room /\ v.channel = view[u].channel /\ v.list = view[u].list
          /\ v.processed = view[u].processed /\ v.composing = view[u].composing
          /\ v.showing = view[u].showing \cup {s} /\ v.queue = view[u].queue
          /\ v.fetches = view[u].fetches
      BY <1>3, <2>1 DEF Views
    <3>. QED  BY <1>3, <3>1, <3>2 DEF ViewSound
  <2>2. ASSUME e.type = "direct",
               v = [view[u] EXCEPT !.queue = Append(@, [msg |-> e.msg, room |-> view[u].room])]
        PROVE  ViewSound(u, v)
    <3>. DEFINE s == [msg |-> e.msg, room |-> view[u].room]
    <3>1. InDirect(e.msg) /\ u = Peer(e.msg) /\ s \in Sights /\ s.msg = e.msg /\ view[u].queue \in Seq(Sights)
      BY <1>3, <2>2 DEF NewsSound, Sights, Views, News
    <3>2. /\ v.room = view[u].room /\ v.channel = view[u].channel /\ v.list = view[u].list
          /\ v.processed = view[u].processed /\ v.composing = view[u].composing
          /\ v.showing = view[u].showing /\ v.queue = Append(view[u].queue, s)
          /\ v.fetches = view[u].fetches
      BY <1>3, <2>2 DEF Views
    <3>. HIDE DEF s
    <3>3. \A i \in DOMAIN v.queue : Old(view[u].queue, v.queue[i]) \/ v.queue[i] = s
      BY <3>1, <3>2, Sequences
    <3>4. \A i \in DOMAIN v.queue : InDirect(v.queue[i].msg) /\ u = Peer(v.queue[i].msg)
      BY <1>3, <3>1, <3>3 DEF ViewSound, Old
    <3>. QED  BY <1>3, <3>2, <3>4 DEF ViewSound
  <2>3. ASSUME NEW list \in Seq(Entries), v = [view[u] EXCEPT !.list = list],
               Len(list) = Len(view[u].list), \A i \in DOMAIN list : list[i].msg = view[u].list[i].msg
        PROVE  ViewSound(u, v)
    <3>1. view[u].list \in Seq(Entries)
      BY <1>3 DEF Views
    <3>2. \A i \in DOMAIN list : list[i].msg \in Messages
      BY <1>3, <2>3, <3>1 DEF ViewSound
    <3>. QED  BY <1>3, <2>3, <3>2 DEF ViewSound, Views
  <2>. QED  BY <1>2, <2>1, <2>2, <2>3
<1>5. \A w \in Users : view'[w] = view[w] \/ ViewSound(w, view'[w])
  BY <1>2, <1>4 DEF Turns
<1>. QED  BY <1>1, <1>5, Unmoved, TailSound, SoundStep

LEMMA ShowMessageSound ==
    ASSUME Types, Sound, NEW u \in Users, NEW s, ShowMessage(u, s)
    PROVE  Sound'
<1>1. /\ Types' /\ s \in view[u].showing /\ s \in Sights
      /\ UNCHANGED <<out, inbox, rooms, stored, box, job, sent>>
  BY ShowMessageDoes DEF ServerSame
<1>2. PICK list \in Seq(Entries) :
        /\ Turns(u, Shows(u, s, list))
        /\ list = view[u].list \/ list = Append(view[u].list, Entry(s.msg, FALSE, "none"))
  BY ShowMessageDoes
<1>3. view[u] \in Views /\ view[u].list \in Seq(Entries) /\ ViewSound(u, view[u]) /\ s.msg \in Messages
  BY <1>1 DEF Types, Views, Sound, ViewSound, InChannel
<1>4. \A i \in DOMAIN list : list[i].msg \in Messages
  <2>. DEFINE x == Entry(s.msg, FALSE, "none")
  <2>1. x \in Entries /\ x.msg = s.msg
    BY <1>1, EntryTypes DEF EntryOf, Sights
  <2>. HIDE DEF x
  <2>2. list = view[u].list \/ list = Append(view[u].list, x)
    BY <1>2 DEF x
  <2>3. view[u].list \in Seq(Entries)
    BY <1>3
  <2>4. \A i \in DOMAIN list : Old(view[u].list, list[i]) \/ list[i] = x
    BY <2>3, <2>1, <2>2, ListGrows
  <2>. QED  BY <1>3, <2>1, <2>4 DEF ViewSound, Old
<1>5. ViewSound(u, Shows(u, s, list))
  <2>. DEFINE v == Shows(u, s, list)
  <2>1. /\ v.room = view[u].room /\ v.channel = view[u].channel /\ v.list = list
        /\ v.processed = view[u].processed /\ v.composing = view[u].composing
        /\ v.showing = view[u].showing \ {s} /\ v.queue = view[u].queue
        /\ v.fetches = view[u].fetches
    BY <1>3 DEF Shows, Views
  <2>. HIDE DEF v
  <2>2. ViewSound(u, v)
    BY <1>3, <1>4, <2>1 DEF ViewSound
  <2>. QED  BY <2>2 DEF v
<1>6. \A w \in Users : view'[w] = view[w] \/ ViewSound(w, view'[w])
  BY <1>2, <1>5 DEF Turns
<1>. QED  BY <1>1, <1>6, Unmoved, SoundStep

LEMMA ShowDirectSound ==
    ASSUME Types, Sound, NEW u \in Users, ShowDirect(u)
    PROVE  Sound'
<1>1. /\ Types' /\ view[u].queue # <<>>
      /\ UNCHANGED <<inbox, rooms, stored, box, job, sent>>
  BY ShowDirectDoes DEF ServerSame
<1>2. PICK s \in Sights, list \in Seq(Entries), events \in Seq(Events) :
        /\ s = view[u].queue[1] /\ 1 \in DOMAIN view[u].queue
        /\ Turns(u, ShowsDirect(u, s, list))
        /\ \/ list = view[u].list
           \/ list = Append(view[u].list, Entry(s.msg, TRUE, "acknowledged"))
        /\ Emit(u, events)
        /\ \A i \in DOMAIN events :
             /\ events[i].msg = s.msg
             /\ events[i].type = "ack" \/ (events[i].type = "read" /\ Belongs(s))
        /\ note'[u] = [note[u] EXCEPT !.shown = @ \cup {s.msg}]
  BY ShowDirectDoes
<1>3. /\ view[u] \in Views /\ view[u].list \in Seq(Entries) /\ view[u].queue \in Seq(Sights)
      /\ ViewSound(u, view[u]) /\ InDirect(s.msg) /\ s.msg \in Messages
  BY <1>2 DEF Types, Views, Sound, ViewSound, InDirect
<1>4. \A i \in DOMAIN list : list[i].msg \in Messages
  <2>. DEFINE x == Entry(s.msg, TRUE, "acknowledged")
  <2>1. x \in Entries /\ x.msg = s.msg
    BY EntryTypes DEF EntryOf, Sights
  <2>. HIDE DEF x
  <2>2. list = view[u].list \/ list = Append(view[u].list, x)
    BY <1>2 DEF x
  <2>3. view[u].list \in Seq(Entries)
    BY <1>3
  <2>4. \A i \in DOMAIN list : Old(view[u].list, list[i]) \/ list[i] = x
    <3>1. x \in Entries
      BY <2>1
    <3>. QED  BY <2>3, <3>1, <2>2, ListGrows, Zenon
  <2>. QED  BY <1>3, <2>1, <2>4 DEF ViewSound, Old
<1>5. ViewSound(u, ShowsDirect(u, s, list))
  <2>. DEFINE v == ShowsDirect(u, s, list)
  <2>1. /\ v.room = view[u].room /\ v.channel = view[u].channel /\ v.list = list
        /\ v.processed = view[u].processed \cup {s.msg} /\ v.composing = view[u].composing
        /\ v.showing = view[u].showing /\ v.queue = Tail(view[u].queue)
        /\ v.fetches = view[u].fetches
    BY <1>3 DEF ShowsDirect, Views
  <2>. HIDE DEF v
  <2>2. \A i \in DOMAIN v.queue : Old(view[u].queue, v.queue[i])
    BY <1>1, <1>3, <2>1, Sequences
  <2>3. \A i \in DOMAIN v.queue : InDirect(v.queue[i].msg) /\ u = Peer(v.queue[i].msg)
    BY <1>3, <2>2 DEF ViewSound, Old
  <2>4. ViewSound(u, v)
    BY <1>3, <1>4, <2>1, <2>3 DEF ViewSound
  <2>. QED  BY <2>4 DEF v
<1>6. \A w \in Users : view'[w] = view[w] \/ ViewSound(w, view'[w])
  BY <1>2, <1>5 DEF Turns
<1>7. s.msg \in 0..Len(sent)
  BY <1>3 DEF Messages, Types
<1>8. \A i \in DOMAIN events : EventSound(u, events[i])
  BY <1>2, <1>3, <1>7 DEF EventSound
<1>9. \A w \in Users : \A i \in DOMAIN out'[w] : Old(out[w], out'[w][i]) \/ EventSound(w, out'[w][i])
  BY <1>2, <1>8, EmitSound
<1>. QED  BY <1>1, <1>6, <1>9, Unmoved, SoundStep

LEMMA DropCopySound ==
    ASSUME Types, Sound, NEW u \in Users, DropCopy(u)
    PROVE  Sound'
<1>1. /\ Types' /\ Turns(u, [view[u] EXCEPT !.queue = Tail(@)]) /\ view[u].queue # <<>>
      /\ UNCHANGED <<inbox, rooms, stored, box, job, sent>>
  BY DropCopyDoes DEF ServerSame
<1>2. PICK e \in Events, j \in DOMAIN view[u].queue :
        Emit(u, <<e>>) /\ e.type = "ack" /\ e.msg = view[u].queue[j].msg
  BY DropCopyDoes
<1>3. view[u] \in Views /\ view[u].queue \in Seq(Sights) /\ ViewSound(u, view[u])
  BY DEF Types, Views, Sound
<1>4. InDirect(e.msg) /\ e.msg \in 0..Len(sent)
  BY <1>2, <1>3 DEF ViewSound, InDirect, Messages, Types
<1>5. EventSound(u, e)
  BY <1>2, <1>4 DEF EventSound
<1>6. \A w \in Users : \A i \in DOMAIN out'[w] : Old(out[w], out'[w][i]) \/ EventSound(w, out'[w][i])
  BY <1>2, <1>5, EmitOneSound
<1>7. \A i \in DOMAIN Tail(view[u].queue) : Old(view[u].queue, Tail(view[u].queue)[i])
  BY <1>1, <1>3, Sequences
<1>8. ViewSound(u, [view[u] EXCEPT !.queue = Tail(@)])
  <2>. DEFINE q == Tail(view[u].queue)
  <2>1. \A i \in DOMAIN q : InDirect(q[i].msg) /\ u = Peer(q[i].msg)
    BY <1>3, <1>7 DEF ViewSound, Old
  <2>2. [view[u] EXCEPT !.queue = Tail(@)] = [view[u] EXCEPT !.queue = q]
    OBVIOUS
  <2>. HIDE DEF q
  <2>3. ViewSound(u, [view[u] EXCEPT !.queue = q])
    BY <1>3, <2>1 DEF ViewSound, Views
  <2>. QED  BY <2>2, <2>3
<1>9. \A w \in Users : view'[w] = view[w] \/ ViewSound(w, view'[w])
  BY <1>1, <1>8 DEF Turns
<1>. QED  BY <1>1, <1>6, <1>9, Unmoved, SoundStep

\* What a handler starts with comes from the event it handles.
LEMMA StartSound ==
    ASSUME Types, NEW u \in Users, NEW e \in Events, EventSound(u, e), NEW j \in Jobs,
           j.by = u, j.msg = e.msg, j.room = e.room,
           \/ e.type = "switch" /\ (j.at = "room" \/ (j.at = "home" /\ e.room \in rooms))
           \/ e.type = "join" /\ (j.at = "find" \/ (j.at = "register" /\ e.room \in rooms))
           \/ e.type \in OutTypes \ {"switch", "join"} /\ j.at = Label(e.type)
    PROVE  JobSound(j)
<1>1. CASE e.type \in {"switch", "join"}
  BY <1>1 DEF JobSound, EventSound, Rooms
<1>2. CASE e.type \in {"send", "delete", "direct", "ack", "read"}
  BY <1>2 DEF JobSound, EventSound, Label, FirstAwait
<1>. QED  BY <1>1, <1>2 DEF OutTypes

\* A handler goes on, and the events are the old ones without the first.
LEMMA TakesSound ==
    ASSUME Types, NEW u \in Users, out[u] # <<>>, out'[u] = Tail(out[u]),
           \A w \in Users \ {u} : out'[w] = out[w]
    PROVE  \A w \in Users : \A i \in DOMAIN out'[w] : Old(out[w], out'[w][i])
<1>1. out[u] \in Seq(Events)
  BY DEF Types
<1>2. \A i \in DOMAIN Tail(out[u]) : Old(out[u], Tail(out[u])[i])
  BY <1>1, Sequences
<1>. QED  BY <1>2 DEF Old

LEMMA MoveSound ==
    ASSUME Types, Sound, NEW u \in Users, NEW h \in Handlers, SwitchRoom(u, h) \/ Join(u, h)
    PROVE  Sound'
<1>1. /\ Types' /\ \A w \in Users \ {u} : out'[w] = out[w]
      /\ 1 \in DOMAIN out[u] /\ out'[u] = Tail(out[u])
      /\ \A g \in Handlers \ {h} : job'[g] = job[g]
      /\ UNCHANGED <<view, inbox, rooms, stored, box, sent>>
  BY MoveDoes
<1>2. PICK e \in Events :
        /\ e = out[u][1]
        /\ job[h].at = "idle" /\ job'[h].by = u /\ job'[h].msg = e.msg /\ job'[h].room = e.room
        /\ \/ /\ e.type = "switch"
              /\ job'[h].at = IF e.room = General THEN "home" ELSE "room"
           \/ /\ e.type = "join"
              /\ job'[h].at = IF e.room = General THEN "register" ELSE "find"
  BY MoveDoes
<1>3. General \in rooms /\ EventSound(u, e) /\ out[u] # <<>>
  BY <1>1, <1>2, Kinds DEF Types, Sound
<1>4. JobSound(job'[h])
  <2>1. job'[h] \in Jobs
    BY <1>1 DEF Types
  <2>. DEFINE j == job'[h]
  <2>2. /\ j \in Jobs /\ j.by = u /\ j.msg = e.msg /\ j.room = e.room
        /\ \/ e.type = "switch" /\ (j.at = "room" \/ (j.at = "home" /\ e.room \in rooms))
           \/ e.type = "join" /\ (j.at = "find" \/ (j.at = "register" /\ e.room \in rooms))
    BY <1>2, <1>3, <2>1
  <2>. HIDE DEF j
  <2>3. JobSound(j)
    BY <1>3, <2>2, StartSound
  <2>. QED  BY <2>3 DEF j
<1>5. \A g \in Handlers : job'[g] = job[g] \/ JobSound(job'[g])
  BY <1>1, <1>4
<1>6. \A w \in Users : view'[w] = view[w]
  BY <1>1
<1>. QED  BY <1>1, <1>3, <1>5, <1>6, TakesSound, Unmoved, SoundStep

LEMMA BeginsSound ==
    ASSUME Types, Sound, NEW u \in Users, NEW h \in Handlers, SendMessage(u, h) \/ Handle(u, h)
    PROVE  Sound'
<1>1. /\ Types' /\ \A w \in Users \ {u} : out'[w] = out[w]
      /\ 1 \in DOMAIN out[u] /\ out'[u] = Tail(out[u])
      /\ UNCHANGED <<view, inbox, rooms, stored, box, sent>>
  BY BeginsDoes
<1>2. PICK e \in Events :
        /\ e = out[u][1] /\ e.type \in OutTypes \ {"switch", "join"}
        /\ \/ job' = job
           \/ /\ job[h].at = "idle" /\ job'[h].at = Label(e.type) /\ job'[h].by = u
              /\ job'[h].msg = e.msg /\ job'[h].room = e.room
              /\ \A g \in Handlers \ {h} : job'[g] = job[g]
  BY BeginsDoes
<1>3. EventSound(u, e) /\ out[u] # <<>>
  BY <1>1, <1>2 DEF Types, Sound
<1>4. \A g \in Handlers : job'[g] = job[g] \/ JobSound(job'[g])
  <2>1. job'[h] \in Jobs
    BY <1>1 DEF Types
  <2>. DEFINE j == job'[h]
  <2>. HIDE DEF j
  <2>2. ASSUME j.at = Label(e.type), j.by = u, j.msg = e.msg, j.room = e.room
        PROVE  JobSound(j)
    <3>1. j \in Jobs
      BY <2>1 DEF j
    <3>. QED  BY <1>2, <1>3, <2>2, <3>1, StartSound
  <2>. QED  BY <1>2, <2>2 DEF j
<1>5. \A w \in Users : view'[w] = view[w]
  BY <1>1
<1>. QED  BY <1>1, <1>3, <1>4, <1>5, TakesSound, Unmoved, SoundStep

LEMMA MovingSound ==
    ASSUME Types, Sound, NEW h \in Handlers, FindRoom(h) \/ Move(h) \/ Mark(h) \/ Enter(h)
    PROVE  Sound'
<1>1. /\ Types' /\ \A g \in Handlers \ {h} : job'[g] = job[g]
      /\ job[h].by \in Users /\ job[h].at \in Moving
      /\ job[h].room \in rooms \/ (job[h].at \in {"room", "find"} /\ job'[h] = Idle)
      /\ UNCHANGED <<view, out, inbox, rooms, stored, box, sent>>
  BY MovingDoes
<1>2. \/ job'[h] = Idle
      \/ /\ job'[h].by = job[h].by /\ job'[h].room = job[h].room /\ job'[h].msg = job[h].msg
         /\ job'[h].at \in {"home", "mark", "register", "enter"}
  <2>1. job'[h] = Idle \/ \E label \in {"home", "mark", "register", "enter"} : Becomes(h, label)
    BY JobDoes DEF FindRoom, Move, Mark, Enter
  <2>. QED  BY <2>1, JobDoes DEF Labels, Moving
<1>3. JobSound(job[h])
  BY DEF Sound
<1>4. JobSound(job'[h])
  BY <1>1, <1>2, <1>3, IdleSound DEF JobSound, Idle
<1>5. (\A g \in Handlers : job'[g] = job[g] \/ JobSound(job'[g])) /\ \A w \in Users : view'[w] = view[w]
  BY <1>1, <1>4
<1>. QED  BY <1>1, <1>5, Unmoved, SoundStep

LEMMA InsertSound ==
    ASSUME Types, Sound, NEW h \in Handlers, Insert(h) \/ InsertFails(h)
    PROVE  Sound'
<1>1. /\ Types' /\ job[h].at = "insert" /\ job'[h].at = "cast" /\ job'[h].by = job[h].by
      /\ job'[h].msg = job[h].msg /\ job'[h].room = job[h].room
      /\ \A g \in Handlers \ {h} : job'[g] = job[g]
      /\ stored' \in {stored, stored \cup {job[h].msg}}
      /\ UNCHANGED <<view, out, inbox, rooms, box, sent>>
  BY InsertDoes
<1>2. JobSound(job[h])
  BY DEF Sound
<1>3. JobSound(job'[h]) /\ InChannel(job[h].msg)
  BY <1>1, <1>2 DEF JobSound
<1>4. /\ \A g \in Handlers : job'[g] = job[g] \/ JobSound(job'[g])
      /\ \A w \in Users : view'[w] = view[w]
      /\ stored \subseteq stored' /\ \A m \in stored' : m \in stored \/ InChannel(m)
  BY <1>1, <1>3
<1>. QED  BY <1>1, <1>4, Unmoved, SoundStep

LEMMA TellsSound ==
    ASSUME Types, Sound, NEW h \in Handlers,
           Cast(h) \/ Erase(h) \/ TellDeleted(h) \/ Queue(h) \/ Dispatch(h) \/ Acknowledge(h) \/ MarkRead(h)
    PROVE  Sound'
<1>1. /\ Types' /\ job[h].at \in {"cast", "erase", "tell", "queue", "dispatch", "ack", "read"}
      /\ \A g \in Handlers \ {h} : job'[g] = job[g]
      /\ \/ job'[h] = Idle
         \/ /\ \/ job[h].at = "erase" /\ job'[h].at = "tell"
               \/ job[h].at = "queue" /\ job'[h].at = "dispatch"
            /\ job'[h].by = job[h].by /\ job'[h].room = job[h].room /\ job'[h].msg = job[h].msg
      /\ box' \subseteq box \cup {job[h].msg} /\ (job[h].at # "queue" => box' \subseteq box)
      /\ UNCHANGED <<view, out, rooms, stored, sent>>
  BY TellsDoes
<1>2. JobSound(job[h])
  BY DEF Sound
<1>3. JobSound(job'[h])
  BY <1>1, <1>2, IdleSound DEF JobSound
<1>4. ASSUME NEW u \in Users, NEW i \in DOMAIN inbox'[u]
      PROVE  Old(inbox[u], inbox'[u][i]) \/ NewsSound(u, inbox'[u][i])
  <2>1. CASE inbox'[u] = inbox[u]
    BY <2>1 DEF Old
  <2>2. ASSUME NEW e \in News, inbox'[u] = Append(inbox[u], e), e.msg = job[h].msg,
               \/ job[h].at = "cast" /\ e.type = "message"
               \/ job[h].at = "tell" /\ e.type = "deleted"
               \/ job[h].at \in {"queue", "dispatch", "ack"} /\ e.type = "status"
               \/ job[h].at = "dispatch" /\ e.type = "direct" /\ u = Peer(e.msg)
               \/ job[h].at = "read" /\ e.type = "status"
        PROVE  Old(inbox[u], inbox'[u][i]) \/ NewsSound(u, inbox'[u][i])
    <3>1. inbox[u] \in Seq(News)
      BY DEF Types
    <3>2. Old(inbox[u], inbox'[u][i]) \/ inbox'[u][i] = e
      BY <2>2, <3>1, Sequences
    <3>3. NewsSound(u, e)
      BY <1>2, <2>2 DEF NewsSound, JobSound, InDirect
    <3>. QED  BY <3>2, <3>3
  <2>3. \/ inbox'[u] = inbox[u]
        \/ \E e \in News :
             /\ inbox'[u] = Append(inbox[u], e) /\ e.msg = job[h].msg
             /\ \/ job[h].at = "cast" /\ e.type = "message"
                \/ job[h].at = "tell" /\ e.type = "deleted"
                \/ job[h].at \in {"queue", "dispatch", "ack"} /\ e.type = "status"
                \/ job[h].at = "dispatch" /\ e.type = "direct" /\ u = Peer(e.msg)
                \/ job[h].at = "read" /\ e.type = "status"
    BY TellsDoes
  <2>. QED  BY <2>1, <2>2, <2>3
<1>5. /\ \A g \in Handlers : job'[g] = job[g] \/ JobSound(job'[g])
      /\ \A w \in Users : view'[w] = view[w]
      /\ \A m \in box' : m \in box \/ InDirect(m)
  BY <1>1, <1>2, <1>3 DEF JobSound
<1>. QED  BY <1>1, <1>4, <1>5, Unmoved, SoundStep

LEMMA RetriesSound ==
    ASSUME Types, Sound, NEW m \in box, Retries(m)
    PROVE  Sound'
<1>1. Types' /\ box' \subseteq box /\ UNCHANGED <<view, out, rooms, stored, job, sent>>
  BY RetriesDo
<1>2. InDirect(m) /\ m \in 0..Len(sent)
  BY DEF Sound, InDirect, Messages, Types
<1>3. ASSUME NEW u \in Users, NEW i \in DOMAIN inbox'[u]
      PROVE  Old(inbox[u], inbox'[u][i]) \/ NewsSound(u, inbox'[u][i])
  <2>1. CASE inbox'[u] = inbox[u]
    BY <2>1 DEF Old
  <2>2. ASSUME NEW e \in News, inbox'[u] = Append(inbox[u], e), e.msg = m,
               e.type = "status" \/ (e.type = "direct" /\ u = Peer(e.msg))
        PROVE  Old(inbox[u], inbox'[u][i]) \/ NewsSound(u, inbox'[u][i])
    <3>1. inbox[u] \in Seq(News)
      BY DEF Types
    <3>2. Old(inbox[u], inbox'[u][i]) \/ inbox'[u][i] = e
      BY <2>2, <3>1, Sequences
    <3>3. NewsSound(u, e)
      BY <1>2, <2>2 DEF NewsSound, InDirect
    <3>. QED  BY <3>2, <3>3
  <2>. QED  BY <2>1, <2>2, RetriesDo
<1>4. /\ \A g \in Handlers : job'[g] = job[g]
      /\ \A w \in Users : view'[w] = view[w]
  BY <1>1
<1>. QED  BY <1>1, <1>3, <1>4, Unmoved, SoundStep

LEMMA AbortSound ==
    ASSUME Types, Sound, NEW h \in Handlers, Abort(h)
    PROVE  Sound'
<1>1. /\ Types' /\ job'[h] = Idle
      /\ \A g \in Handlers \ {h} : job'[g] = job[g]
      /\ UNCHANGED <<view, out, inbox, rooms, stored, box, sent>>
  BY AbortDoes
<1>2. /\ \A g \in Handlers : job'[g] = job[g] \/ JobSound(job'[g])
      /\ \A w \in Users : view'[w] = view[w]
  BY <1>1, IdleSound
<1>. QED  BY <1>1, <1>2, Unmoved, SoundStep

LEMMA DisconnectSound ==
    ASSUME Types, Sound, NEW u \in Users, Disconnect(u)
    PROVE  Sound'
<1>1. /\ Types'
      /\ \A w \in Users \ {u} : out'[w] = out[w] /\ inbox'[w] = inbox[w]
      /\ out'[u] = <<>> /\ inbox'[u] = <<>>
      /\ \A h \in Handlers : job'[h] = IF h \in Switching(u) THEN Idle ELSE job[h]
      /\ UNCHANGED <<view, rooms, stored, box, sent>>
  BY DisconnectDoes
<1>2. /\ \A g \in Handlers : job'[g] = job[g] \/ JobSound(job'[g])
      /\ \A w \in Users : view'[w] = view[w]
  BY <1>1, IdleSound
<1>3. /\ \A w \in Users : \A i \in DOMAIN out'[w] : Old(out[w], out'[w][i])
      /\ \A w \in Users : \A i \in DOMAIN inbox'[w] : Old(inbox[w], inbox'[w][i])
  BY <1>1 DEF Old
<1>. QED  BY <1>1, <1>2, <1>3, Unmoved, SoundStep

LEMMA ReconnectSound ==
    ASSUME Types, Sound, NEW u \in Users, Reconnect(u)
    PROVE  Sound'
<1>1. Types' /\ UNCHANGED <<view, out, inbox, rooms, stored, box, job, sent>>
  BY ReconnectDoes
<1>2. /\ \A g \in Handlers : job'[g] = job[g]
      /\ \A w \in Users : view'[w] = view[w]
  BY <1>1
<1>. QED  BY <1>1, <1>2, Unmoved, SoundStep

LEMMA LapseSound ==
    ASSUME Types, Sound, NEW u \in Users, Lapse(u)
    PROVE  Sound'
<1>1. Types' /\ UNCHANGED <<view, out, inbox, rooms, stored, box, job, sent>>
  BY LapseDoes
<1>2. /\ \A g \in Handlers : job'[g] = job[g]
      /\ \A w \in Users : view'[w] = view[w]
  BY <1>1
<1>. QED  BY <1>1, <1>2, Unmoved, SoundStep

-----------------------------------------------------------------------------
(* Reading: who sees a message as read.                                    *)

\* An entry of the list of u is read only if its reader opened the conversation.
ReadSound(u, x) ==
    /\ x.status = "read" => SeenByReader(x.msg)
    /\ RoomOf(x.msg) \in Direct => \/ By(x.msg) = u
                                   \/ u = Peer(x.msg) /\ x.msg \in note[u].shown

\* What was shown and opened stays so.
Remembers == \A u \in Users : /\ note[u].shown \subseteq note'[u].shown
                              /\ note[u].opened \subseteq note'[u].opened

LEMMA SeenStays ==
    ASSUME Types, Sound, Grown, Remembers
    PROVE  /\ \A m \in Messages : SeenByReader(m) => SeenByReader(m)'
           /\ \A u \in Users : \A x : x.msg \in Messages /\ ReadSound(u, x) => ReadSound(u, x)'
<1>1. ASSUME NEW m \in Messages
      PROVE  /\ RoomOf(m)' = RoomOf(m) /\ By(m)' = By(m) /\ Peer(m)' = Peer(m)
             /\ RoomOf(m) \in Direct => Peer(m) \in Users
  BY Grows, PeerOf DEF Sound
<1>2. \A m \in Messages : SeenByReader(m) => SeenByReader(m)'
  BY <1>1 DEF SeenByReader, Remembers
<1>3. \A u \in Users : \A x : x.msg \in Messages /\ ReadSound(u, x) => ReadSound(u, x)'
  BY <1>1, <1>2 DEF ReadSound, Remembers
<1>. QED  BY <1>2, <1>3

LEMMA ReadingStep ==
    ASSUME Types, Sound, Sound', Reading, Grown, Remembers,
           \A u \in Users : view'[u].room \in note'[u].opened,
           \A u \in Users : \A i \in DOMAIN view'[u].queue :
              Old(view[u].queue, view'[u].queue[i]) \/ view'[u].queue[i].room \in note'[u].opened,
           \A u \in Users : \A i \in DOMAIN out'[u] :
              \/ Old(out[u], out'[u][i])
              \/ out'[u][i].type # "read" \/ SeenByReader(out[u][i].msg)',
           \A h \in Handlers : job'[h] = job[h] \/ job'[h].at # "read" \/ SeenByReader(job[h].msg)',
           \A u \in Users : \A i \in DOMAIN inbox'[u] :
              \/ Old(inbox[u], inbox'[u][i])
              \/ inbox'[u][i].type # "status" \/ inbox'[u][i].status # "read"
              \/ SeenByReader(inbox[u][i].msg)',
           \A u \in Users : \A i \in DOMAIN view'[u].list :
              Old(view[u].list, view'[u].list[i]) \/ ReadSound(u, view[u].list[i])'
    PROVE  Reading'
<1>1. /\ \A m \in Messages : SeenByReader(m) => SeenByReader(m)'
      /\ \A u \in Users : \A x : x.msg \in Messages /\ ReadSound(u, x) => ReadSound(u, x)'
  BY SeenStays
<1>2. \A u \in Users : \A i \in DOMAIN view'[u].queue : view'[u].queue[i].room \in note'[u].opened
  BY DEF Reading, Old, Remembers
<1>3. ASSUME NEW u \in Users, NEW i \in DOMAIN out'[u], out'[u][i].type = "read"
      PROVE  SeenByReader(out[u][i].msg)'
  <2>1. CASE Old(out[u], out'[u][i])
    <3>1. PICK k \in DOMAIN out[u] : out[u][k] = out'[u][i]
      BY <2>1 DEF Old
    <3>2. PICK m \in Messages : m = out[u][k].msg
      BY <1>3, <3>1 DEF Sound, EventSound
    <3>3. SeenByReader(m)
      BY <1>3, <3>1, <3>2 DEF Reading
    <3>4. SeenByReader(m)'
      BY <1>1, <3>3
    <3>. QED  BY <3>1, <3>2, <3>4 DEF SeenByReader
  <2>. QED  BY <1>3, <2>1
<1>4. ASSUME NEW h \in Handlers, job'[h].at = "read"
      PROVE  SeenByReader(job[h].msg)'
  <2>1. CASE job'[h] = job[h]
    <3>1. PICK m \in Messages : m = job[h].msg
      BY <1>4, <2>1 DEF Sound, JobSound
    <3>2. SeenByReader(m)
      BY <1>4, <2>1, <3>1 DEF Reading
    <3>3. SeenByReader(m)'
      BY <1>1, <3>2
    <3>. QED  BY <2>1, <3>1, <3>3 DEF SeenByReader
  <2>. QED  BY <1>4, <2>1
<1>5. ASSUME NEW u \in Users, NEW i \in DOMAIN inbox'[u],
             inbox'[u][i].type = "status", inbox'[u][i].status = "read"
      PROVE  SeenByReader(inbox[u][i].msg)'
  <2>1. CASE Old(inbox[u], inbox'[u][i])
    <3>1. PICK k \in DOMAIN inbox[u] : inbox[u][k] = inbox'[u][i]
      BY <2>1 DEF Old
    <3>2. PICK m \in Messages : m = inbox[u][k].msg
      BY <1>5, <3>1 DEF Sound, NewsSound
    <3>3. SeenByReader(m)
      BY <1>5, <3>1, <3>2 DEF Reading
    <3>4. SeenByReader(m)'
      BY <1>1, <3>3
    <3>. QED  BY <3>1, <3>2, <3>4 DEF SeenByReader
  <2>. QED  BY <1>5, <2>1
<1>6. ASSUME NEW u \in Users, NEW i \in DOMAIN view'[u].list
      PROVE  ReadSound(u, view[u].list[i])'
  <2>1. CASE Old(view[u].list, view'[u].list[i])
    <3>1. PICK k \in DOMAIN view[u].list : view[u].list[k] = view'[u].list[i]
      BY <2>1 DEF Old
    <3>2. PICK x : x = view[u].list[k]
      OBVIOUS
    <3>3. x.msg \in Messages /\ ReadSound(u, x)
      BY <3>2 DEF Reading, Sound, ViewSound, ReadSound
    <3>4. ReadSound(u, x)'
      BY <1>1, <3>3
    <3>. QED  BY <3>1, <3>2, <3>4 DEF ReadSound
  <2>. QED  BY <1>6, <2>1
<1>. QED  BY <1>2, <1>3, <1>4, <1>5, <1>6 DEF Reading, ReadSound

LEMMA EmitOld ==
    ASSUME Types, NEW u \in Users, NEW events \in Seq(Events), Emit(u, events)
    PROVE  \A w \in Users : \A i \in DOMAIN out'[w] :
              Old(out[w], out'[w][i]) \/ (w = u /\ Old(events, out'[w][i]))
<1>1. out[u] \in Seq(Events)
  BY DEF Types
<1>2. \A i \in DOMAIN (out[u] \o events) :
         Old(out[u], (out[u] \o events)[i]) \/ Old(events, (out[u] \o events)[i])
  BY <1>1, Sequences
<1>3. \A w \in Users : out'[w] = IF w = u /\ online[u] THEN out[u] \o events ELSE out[w]
  BY EmitDoes
<1>. QED  BY <1>2, <1>3 DEF Old

LEMMA EmitOne ==
    ASSUME Types, NEW u \in Users, NEW e \in Events, Emit(u, <<e>>)
    PROVE  \A w \in Users : \A i \in DOMAIN out'[w] :
              Old(out[w], out'[w][i]) \/ (w = u /\ out'[w][i] = e)
<1>. DEFINE events == <<e>>
<1>1. /\ events \in Seq(Events) /\ Emit(u, events)
      /\ \A i \in DOMAIN events : events[i] = e
  OBVIOUS
<1>. HIDE DEF events
<1>. QED  BY <1>1, EmitOld DEF Old

\* What is the same is old.
LEMMA Olds ==
    /\ \A u : out'[u] = out[u] => \A i \in DOMAIN out'[u] : Old(out[u], out'[u][i])
    /\ \A u : inbox'[u] = inbox[u] => \A i \in DOMAIN inbox'[u] : Old(inbox[u], inbox'[u][i])
    /\ \A u : view'[u] = view[u] =>
         /\ view'[u].room = view[u].room
         /\ \A i \in DOMAIN view'[u].list : Old(view[u].list, view'[u].list[i])
         /\ \A i \in DOMAIN view'[u].queue : Old(view[u].queue, view'[u].queue[i])
    /\ \A l : \A i \in DOMAIN l : Old(l, l[i])
    /\ note' = note => Remembers
  BY DEF Old, Remembers

\* Who sends receipts for a conversation has it open, with the messages on its list.
LEMMA ReceiptsReading ==
    ASSUME Types, Sound, Reading, Remembers, sent' = sent, NEW u \in Users, NEW r \in Direct,
           u \in r, r \in note'[u].opened, NEW k \in DOMAIN Receipts(u, r)
    PROVE  \E m \in Messages : m = Receipts(u, r)[k].msg /\ SeenByReader(m)'
<1>1. PICK i \in DOMAIN view[u].list :
        /\ Receipts(u, r)[k] = Event("read", view[u].list[i].msg, None)
        /\ By(view[u].list[i].msg) \in r \ {u}
  BY ReceiptsSound
<1>2. PICK m \in Messages : m = view[u].list[i].msg
  BY DEF Sound, ViewSound
<1>3. CASE RoomOf(m) \in Direct
  <2>1. u = Peer(m) /\ m \in note[u].shown
    BY <1>1, <1>2, <1>3 DEF Reading
  <2>2. RoomOf(m) = {By(m), u}
    BY <1>3, <2>1, PeerOf DEF Sound
  <2>3. r = {By(m), u}
    BY <1>1, <1>2, Kinds
  <2>4. RoomOf(m)' = RoomOf(m) /\ Peer(m)' = Peer(m)
    BY Grows, Unmoved
  <2>5. SeenByReader(m)'
    BY <2>1, <2>2, <2>3, <2>4 DEF SeenByReader, Remembers
  <2>. QED  BY <1>1, <1>2, <2>5 DEF Event
<1>4. CASE RoomOf(m) \notin Direct
  <2>1. RoomOf(m)' = RoomOf(m)
    BY Grows, Unmoved
  <2>2. SeenByReader(m)'
    BY <1>4, <2>1, Kinds DEF SeenByReader, Direct
  <2>. QED  BY <1>1, <1>2, <2>2 DEF Event
<1>. QED  BY <1>3, <1>4

LEMMA GoesReading ==
    ASSUME Types, Sound, Sound', Reading, NEW u \in Users, NEW r \in Rooms,
           NEW joins \in SUBSET Channels, NEW receipts \in Seq(Events), Goes(u, r, joins, receipts)
    PROVE  Reading'
<1>1. PICK f \in Fetches : f.room = r /\ f.rows = <<>> /\ Turns(u, Opened(u, r, joins, f))
  BY GoesDoes
<1>. DEFINE e == Event("switch", 0, r)
            v == Opened(u, r, joins, f)
<1>2. /\ Emit(u, Append(receipts, e)) /\ Append(receipts, e) \in Seq(Events)
      /\ \A w \in Users \ {u} : note'[w] = note[w]
      /\ note'[u].shown = note[u].shown /\ note'[u].opened = note[u].opened \cup {r}
      /\ UNCHANGED <<inbox, job, sent>>
  BY GoesDoes
<1>3. Remembers
  BY <1>2 DEF Remembers
<1>4. v.room = r /\ v.list = view[u].list /\ v.queue = view[u].queue
  BY DEF Opened, Types, Views
<1>5. e.type # "read" /\ e \in Events
  BY EventTypes DEF OutTypes
<1>. HIDE DEF v, e
<1>6. \A w \in Users : view'[w] = IF w = u THEN v ELSE view[w]
  BY <1>1 DEF Turns, v
<1>7. /\ \A w \in Users : view'[w].room \in note'[w].opened
      /\ \A w \in Users : \A i \in DOMAIN view'[w].queue : Old(view[w].queue, view'[w].queue[i])
      /\ \A w \in Users : \A i \in DOMAIN view'[w].list : Old(view[w].list, view'[w].list[i])
  BY <1>2, <1>4, <1>6 DEF Reading, Old
<1>8. \A k \in DOMAIN receipts : \E m \in Messages : m = receipts[k].msg /\ SeenByReader(m)'
  <2>1. CASE receipts = <<>>
    BY <2>1
  <2>2. CASE r \in Direct /\ receipts = Receipts(u, r)
    <3>1. u \in r /\ r \in note'[u].opened
      BY <1>2, <2>2 DEF Goes, Sound, ViewSound
    <3>. QED  BY <1>2, <1>3, <2>2, <3>1, ReceiptsReading
  <2>. QED  BY <2>1, <2>2 DEF Goes
<1>9. \A w \in Users : \A i \in DOMAIN out'[w] :
        Old(out[w], out'[w][i]) \/ out'[w][i].type # "read" \/ SeenByReader(out[w][i].msg)'
  <2>1. \A i \in DOMAIN Append(receipts, e) :
          Old(receipts, Append(receipts, e)[i]) \/ Append(receipts, e)[i] = e
    BY <1>5, Sequences
  <2>2. ASSUME NEW w \in Users, NEW i \in DOMAIN out'[w], out'[w][i].type = "read"
        PROVE  Old(out[w], out'[w][i]) \/ SeenByReader(out[w][i].msg)'
    <3>1. Old(out[w], out'[w][i]) \/ Old(Append(receipts, e), out'[w][i])
      BY <1>2, EmitOld
    <3>2. Old(out[w], out'[w][i]) \/ \E k \in DOMAIN receipts : receipts[k] = out'[w][i]
      BY <1>5, <2>1, <2>2, <3>1 DEF Old
    <3>. QED  BY <1>8, <3>2 DEF SeenByReader
  <2>. QED  BY <2>2
<1>10. (\A h \in Handlers : job'[h] = job[h]) /\ \A w \in Users : inbox'[w] = inbox[w]
  BY <1>2
<1>. QED  BY <1>2, <1>3, <1>7, <1>9, <1>10, Unmoved, Olds, ReadingStep

LEMMA StaysReading ==
    ASSUME Types, Sound, Sound', Reading, NEW u \in Users, Stays(u)
    PROVE  Reading'
<1>1. UNCHANGED <<inbox, job, sent, note>>
  BY StaysDoes
<1>2. /\ \/ /\ view[u].room \in Direct /\ u \in view[u].room /\ Turns(u, Reset(u))
            /\ Receipts(u, view[u].room) \in Seq(Events) /\ Emit(u, Receipts(u, view[u].room))
         \/ UNCHANGED <<view, out>>
  BY StaysDoes
<1>3. Remembers
  BY <1>1, Olds
<1>4. \A w \in Users : /\ view'[w].room = view[w].room /\ view'[w].list = view[w].list
                        /\ view'[w].queue = view[w].queue
  <2>1. view[u] \in Views
    BY DEF Types
  <2>2. Reset(u).room = view[u].room /\ Reset(u).list = view[u].list /\ Reset(u).queue = view[u].queue
    BY <2>1 DEF Reset, Views
  <2>. QED  BY <1>2, <2>2 DEF Turns
<1>5. /\ \A w \in Users : view'[w].room \in note'[w].opened
      /\ \A w \in Users : \A i \in DOMAIN view'[w].queue : Old(view[w].queue, view'[w].queue[i])
      /\ \A w \in Users : \A i \in DOMAIN view'[w].list : Old(view[w].list, view'[w].list[i])
  BY <1>1, <1>4 DEF Reading, Old
<1>6. \A w \in Users : \A i \in DOMAIN out'[w] :
        Old(out[w], out'[w][i]) \/ out'[w][i].type # "read" \/ SeenByReader(out[w][i].msg)'
  <2>1. CASE UNCHANGED <<view, out>>
    BY <2>1, Olds
  <2>2. CASE /\ view[u].room \in Direct /\ u \in view[u].room
             /\ Receipts(u, view[u].room) \in Seq(Events) /\ Emit(u, Receipts(u, view[u].room))
    <3>1. PICK r \in Direct : r = view[u].room
      BY <2>2
    <3>2. u \in r /\ r \in note'[u].opened
      BY <1>1, <2>2, <3>1 DEF Reading
    <3>3. \A k \in DOMAIN Receipts(u, r) : \E m \in Messages : m = Receipts(u, r)[k].msg /\ SeenByReader(m)'
      BY <1>1, <1>3, <3>2, ReceiptsReading
    <3>4. ASSUME NEW w \in Users, NEW i \in DOMAIN out'[w]
          PROVE  Old(out[w], out'[w][i]) \/ SeenByReader(out[w][i].msg)'
      <4>1. Old(out[w], out'[w][i]) \/ \E k \in DOMAIN Receipts(u, r) : Receipts(u, r)[k] = out'[w][i]
        BY <2>2, <3>1, EmitOld DEF Old
      <4>. QED  BY <3>3, <4>1 DEF SeenByReader
    <3>. QED  BY <3>4
  <2>. QED  BY <1>2, <2>1, <2>2
<1>7. (\A h \in Handlers : job'[h] = job[h]) /\ \A w \in Users : inbox'[w] = inbox[w]
  BY <1>1
<1>. QED  BY <1>1, <1>3, <1>5, <1>6, <1>7, Unmoved, Olds, ReadingStep

\* The browsers show what they showed.
Looks == \A u \in Users : /\ view'[u].room = view[u].room
                          /\ \A i \in DOMAIN view'[u].queue : Old(view[u].queue, view'[u].queue[i])
                          /\ \A i \in DOMAIN view'[u].list : Old(view[u].list, view'[u].list[i])

LEMMA ReadingLooks ==
    ASSUME Reading, Remembers, Looks
    PROVE  /\ \A u \in Users : view'[u].room \in note'[u].opened
           /\ \A u \in Users : \A i \in DOMAIN view'[u].queue :
                Old(view[u].queue, view'[u].queue[i]) \/ view'[u].queue[i].room \in note'[u].opened
           /\ \A u \in Users : \A i \in DOMAIN view'[u].list :
                Old(view[u].list, view'[u].list[i]) \/ ReadSound(u, view[u].list[i])'
  BY DEF Reading, Remembers, Looks

LEMMA LooksOne ==
    ASSUME NEW u \in Users, NEW v, Turns(u, v), v.room = view[u].room,
           \A i \in DOMAIN v.queue : Old(view[u].queue, v.queue[i]),
           \A i \in DOMAIN v.list : Old(view[u].list, v.list[i])
    PROVE  Looks
<1>1. \A w \in Users : view'[w] = IF w = u THEN v ELSE view[w]
  BY DEF Turns
<1>. QED  BY <1>1, Olds DEF Looks

LEMMA RemembersOne ==
    ASSUME NEW u \in Users, note'[u].shown = note[u].shown, note'[u].opened = note[u].opened,
           \A w \in Users \ {u} : note'[w] = note[w]
    PROVE  Remembers
  BY DEF Remembers

LEMMA JoinRoomReading ==
    ASSUME Types, Sound, Sound', Reading, NEW u \in Users, NEW r \in Channels, JoinRoom(u, r)
    PROVE  Reading'
<1>. DEFINE e == Event("join", 0, r)
<1>1. /\ Turns(u, [view[u] EXCEPT !.joining = @ \ {r}])
      /\ e \in Events /\ e.type # "read"
      /\ \A w \in Users : out'[w] = IF w = u THEN Append(out[u], e) ELSE out[w]
      /\ \A w \in Users \ {u} : note'[w] = note[w]
      /\ UNCHANGED <<job, inbox, sent>>
  BY JoinRoomDoes DEF ServerSame, Event
<1>2. note'[u].shown = note[u].shown /\ note'[u].opened = note[u].opened
  <2>1. PICK t \in BOOLEAN : note'[u] = [note[u] EXCEPT !.torn = t]
    BY JoinRoomDoes
  <2>2. note[u] \in Notes
    BY DEF Types
  <2>. QED  BY <2>1, <2>2 DEF Notes
<1>3. Remembers
  BY <1>1, <1>2, RemembersOne
<1>4. Looks
  <2>1. PICK v : v = [view[u] EXCEPT !.joining = @ \ {r}]
    OBVIOUS
  <2>2. v.room = view[u].room /\ v.queue = view[u].queue /\ v.list = view[u].list
    BY <2>1 DEF Types, Views
  <2>3. Turns(u, v)
    BY <1>1, <2>1
  <2>. QED  BY <2>2, <2>3, LooksOne, Olds
<1>. HIDE DEF e
<1>5. \A w \in Users : \A i \in DOMAIN out'[w] : Old(out[w], out'[w][i]) \/ out'[w][i].type # "read"
  <2>1. \A i \in DOMAIN Append(out[u], e) : Old(out[u], Append(out[u], e)[i]) \/ Append(out[u], e)[i] = e
    BY <1>1, Sequences DEF Types
  <2>. QED  BY <1>1, <2>1 DEF Old
<1>. QED  BY <1>1, <1>3, <1>4, <1>5, ReadingLooks, Unmoved, Olds, ReadingStep

LEMMA ComposeReading ==
    ASSUME Types, Sound, Sound', Reading, NEW u \in Users, Compose(u)
    PROVE  Reading'
<1>1. /\ sent' = Append(sent, [by |-> u, room |-> view[u].room])
      /\ Turns(u, [view[u] EXCEPT !.composing = @ \cup {Len(sent')}])
      /\ UNCHANGED <<out, job, inbox, note>>
  BY ComposeDoes DEF ServerSame
<1>2. view[u] \in Views
  BY DEF Types
<1>3. Grown
  BY <1>1, <1>2 DEF Grown, Views
<1>4. Looks
  <2>1. PICK n : n = Len(sent')
    OBVIOUS
  <2>2. PICK v : v = [view[u] EXCEPT !.composing = @ \cup {n}]
    OBVIOUS
  <2>3. v.room = view[u].room /\ v.queue = view[u].queue /\ v.list = view[u].list
    BY <1>2, <2>2 DEF Views
  <2>4. Turns(u, v)
    BY <1>1, <2>1, <2>2
  <2>. QED  BY <2>3, <2>4, LooksOne, Olds
<1>5. Remembers
  BY <1>1, Olds
<1>. QED  BY <1>1, <1>3, <1>4, <1>5, ReadingLooks, Olds, ReadingStep

\* What is added to a list is an own message, or one that is shown now.
LEMMA ListReading ==
    ASSUME Types, Sound, Reading, Remembers, sent' = sent, NEW u \in Users,
           NEW x \in Entries, x.msg \in Messages, x.status # "read",
           RoomOf(x.msg) \in Direct => \/ By(x.msg) = u
                                       \/ u = Peer(x.msg) /\ x.msg \in note'[u].shown,
           NEW list \in Seq(Entries), list = view[u].list \/ list = Append(view[u].list, x),
           \A w \in Users : view'[w].list = IF w = u THEN list ELSE view[w].list
    PROVE  \A w \in Users : \A i \in DOMAIN view'[w].list :
              Old(view[w].list, view'[w].list[i]) \/ ReadSound(w, view[w].list[i])'
<1>1. view[u].list \in Seq(Entries)
  BY DEF Types, Views
<1>2. \A i \in DOMAIN list : Old(view[u].list, list[i]) \/ list[i] = x
  BY <1>1, ListGrows
<1>3. RoomOf(x.msg)' = RoomOf(x.msg) /\ By(x.msg)' = By(x.msg) /\ Peer(x.msg)' = Peer(x.msg)
  BY Grows, Unmoved
<1>4. ReadSound(u, x)'
  BY <1>3 DEF ReadSound
<1>. QED  BY <1>2, <1>4 DEF Old, ReadSound

LEMMA EncryptedReading ==
    ASSUME Types, Sound, Sound', Reading, NEW u \in Users, NEW m,
           EncryptedChannel(u, m) \/ EncryptedDM(u, m)
    PROVE  Reading'
<1>1. m \in view[u].composing /\ UNCHANGED <<inbox, job, sent, note>>
  BY EncryptedDoes DEF ServerSame
<1>2. PICK list \in Seq(Entries) :
        /\ Turns(u, Encrypted(u, m, list))
        /\ list # view[u].list => \E x \in Entries :
              /\ x.msg = m /\ x.status # "read" /\ list = Append(view[u].list, x)
  BY EncryptedDoes
<1>3. PICK e \in Events :
        /\ Emit(u, <<e>>)
        /\ e.msg = m
        /\ RoomOf(m) \in Channels => e.type = "send" /\ e.room = RoomOf(m)
        /\ RoomOf(m) \notin Channels => e.type = "direct" /\ RoomOf(m) \in Direct
  BY EncryptedDoes
<1>4. view[u] \in Views /\ m \in Messages /\ By(m) = u
  BY <1>1 DEF Types, Sound, ViewSound
<1>5. Remembers
  BY <1>1, Olds
<1>6. \A w \in Users : view'[w].list = IF w = u THEN list ELSE view[w].list
  BY <1>2, <1>4 DEF Turns, Encrypted, Views
<1>7. /\ \A w \in Users : view'[w].room \in note'[w].opened
      /\ \A w \in Users : \A i \in DOMAIN view'[w].queue : Old(view[w].queue, view'[w].queue[i])
  <2>1. PICK v : v = Encrypted(u, m, list)
    OBVIOUS
  <2>2. v.room = view[u].room /\ v.queue = view[u].queue
    BY <1>4, <2>1 DEF Encrypted, Views
  <2>3. \A w \in Users : view'[w].room = view[w].room /\ view'[w].queue = view[w].queue
    BY <1>2, <2>1, <2>2 DEF Turns
  <2>. QED  BY <1>1, <2>3, Olds DEF Reading
<1>8. \A w \in Users : \A i \in DOMAIN view'[w].list :
        Old(view[w].list, view'[w].list[i]) \/ ReadSound(w, view[w].list[i])'
  <2>1. CASE list = view[u].list
    BY <1>6, <2>1 DEF Old
  <2>2. CASE list # view[u].list
    <3>1. PICK x \in Entries : x.msg = m /\ x.status # "read" /\ list = Append(view[u].list, x)
      BY <1>2, <2>2
    <3>. QED  BY <1>1, <1>4, <1>5, <1>6, <3>1, ListReading
  <2>. QED  BY <2>1, <2>2
<1>9. \A w \in Users : \A i \in DOMAIN out'[w] : Old(out[w], out'[w][i]) \/ out'[w][i].type # "read"
  BY <1>3, EmitOne
<1>. QED  BY <1>1, <1>5, <1>7, <1>8, <1>9, Unmoved, Olds, ReadingStep

LEMMA EncryptFailsReading ==
    ASSUME Types, Sound, Sound', Reading, NEW u \in Users, NEW m, EncryptFails(u, m)
    PROVE  Reading'
<1>1. /\ Turns(u, [view[u] EXCEPT !.composing = @ \ {m}])
      /\ UNCHANGED <<out, inbox, job, sent, note>>
  BY EncryptFailsDoes DEF ServerSame
<1>2. Looks /\ Remembers
  <2>1. PICK v : v = [view[u] EXCEPT !.composing = @ \ {m}]
    OBVIOUS
  <2>2. v.room = view[u].room /\ v.queue = view[u].queue /\ v.list = view[u].list
    BY <2>1 DEF Types, Views
  <2>3. Turns(u, v)
    BY <1>1, <2>1
  <2>. QED  BY <1>1, <2>2, <2>3, LooksOne, Olds
<1>. QED  BY <1>1, <1>2, ReadingLooks, Unmoved, Olds, ReadingStep

LEMMA DeleteMessageReading ==
    ASSUME Types, Sound, Sound', Reading, NEW u \in Users, NEW j \in DOMAIN view[u].list,
           DeleteMessage(u, view[u].list[j])
    PROVE  Reading'
<1>1. UNCHANGED <<view, inbox, job, sent, note>>
  BY DeleteMessageDoes DEF ServerSame
<1>2. PICK e \in Events : Emit(u, <<e>>) /\ e.type = "delete"
  BY DeleteMessageDoes
<1>3. \A w \in Users : \A i \in DOMAIN out'[w] : Old(out[w], out'[w][i]) \/ out'[w][i].type # "read"
  BY <1>2, EmitOne
<1>4. Looks /\ Remembers
  BY <1>1, Olds DEF Looks
<1>. QED  BY <1>1, <1>3, <1>4, ReadingLooks, Unmoved, Olds, ReadingStep

LEMMA FetchReading ==
    ASSUME Types, Sound, Sound', Reading, NEW u \in Users, NEW f, Fetch(u, f)
    PROVE  Reading'
<1>1. UNCHANGED <<out, inbox, job, sent, note>>
  BY FetchesDo DEF ServerSame
<1>2. PICK g \in SUBSET Fetches, list \in Seq(Entries) :
        /\ Turns(u, Fetched(u, f, g, list))
        /\ \A k \in g : /\ k.room = f.room
                        /\ \A i \in DOMAIN k.rows : k.rows[i] \in stored /\ RoomOf(k.rows[i]) = f.room
        /\ \/ list = view[u].list /\ g # {}
           \/ \A i \in DOMAIN list : /\ list[i].status = "none"
                                     /\ list[i].msg \in stored /\ RoomOf(list[i].msg) = f.room
  BY FetchesDo
<1>3. view[u] \in Views
  BY DEF Types
<1>4. \A w \in Users : /\ view'[w].room = view[w].room /\ view'[w].queue = view[w].queue
                       /\ view'[w].list = IF w = u THEN list ELSE view[w].list
  <2>1. PICK v : v = Fetched(u, f, g, list)
    OBVIOUS
  <2>2. v.room = view[u].room /\ v.queue = view[u].queue /\ v.list = list
    BY <1>3, <2>1 DEF Fetched, Views
  <2>. QED  BY <1>2, <2>1, <2>2 DEF Turns
<1>5. Remembers
  BY <1>1, Olds
<1>6. /\ \A w \in Users : view'[w].room \in note'[w].opened
      /\ \A w \in Users : \A i \in DOMAIN view'[w].queue : Old(view[w].queue, view'[w].queue[i])
  BY <1>1, <1>4, Olds DEF Reading
<1>7. ASSUME NEW w \in Users, NEW i \in DOMAIN view'[w].list
      PROVE  Old(view[w].list, view'[w].list[i]) \/ ReadSound(w, view[w].list[i])'
  <2>1. CASE view'[w].list = view[w].list
    BY <2>1 DEF Old
  <2>2. CASE w = u /\ list[i].status = "none" /\ list[i].msg \in stored
    <3>1. PICK x \in Entries : x = list[i]
      BY <1>4, <1>7, <2>2
    <3>2. RoomOf(x.msg) \in Channels /\ x.msg \in Messages
      BY <2>2, <3>1 DEF Sound, InChannel
    <3>3. RoomOf(x.msg)' = RoomOf(x.msg)
      BY <1>1, <3>2, Grows, Unmoved
    <3>4. ReadSound(u, x)'
      BY <2>2, <3>1, <3>2, <3>3, Kinds DEF ReadSound, Direct
    <3>. QED  BY <1>4, <2>2, <3>1, <3>4 DEF ReadSound
  <2>. QED  BY <1>2, <1>4, <2>1, <2>2
<1>. QED  BY <1>1, <1>5, <1>6, <1>7, Unmoved, Olds, ReadingStep

LEMMA ReceiveReading ==
    ASSUME Types, Sound, Sound', Reading, NEW u \in Users, Receives(u)
    PROVE  Reading'
<1>1. /\ UNCHANGED <<out, job, sent, note>>
      /\ inbox[u] # <<>> /\ inbox'[u] = Tail(inbox[u]) /\ \A w \in Users \ {u} : inbox'[w] = inbox[w]
  BY ReceiveDoes DEF ServerSame, Receives
<1>2. PICK e \in News, v \in Views :
        /\ inbox[u] # <<>> /\ e = inbox[u][1] /\ 1 \in DOMAIN inbox[u]
        /\ inbox'[u] = Tail(inbox[u])
        /\ Turns(u, v)
        /\ \/ /\ e.type = "message"
              /\ v = [view[u] EXCEPT !.showing = @ \cup {[msg |-> e.msg, room |-> view[u].room]}]
           \/ /\ e.type = "direct"
              /\ v = [view[u] EXCEPT !.queue = Append(@, [msg |-> e.msg, room |-> view[u].room])]
           \/ /\ e.type \in {"status", "deleted"}
              /\ \E list \in Seq(Entries) :
                   /\ v = [view[u] EXCEPT !.list = list]
                   /\ Len(list) = Len(view[u].list)
                   /\ \A i \in DOMAIN list :
                        /\ list[i].msg = view[u].list[i].msg
                        /\ \/ list[i].status = view[u].list[i].status
                           \/ /\ e.type = "status" /\ list[i].status = e.status
                              /\ list[i].msg = e.msg \/ e.msg = 0
  BY ReceiveDoes DEF Receives
<1>3. view[u] \in Views /\ NewsSound(u, e) /\ view[u].list \in Seq(Entries)
  BY <1>2 DEF Types, Sound, Views
<1>4. Remembers
  BY <1>1, Olds
<1>5. \A w \in Users : view'[w] = IF w = u THEN v ELSE view[w]
  BY <1>2 DEF Turns
<1>6. v.room = view[u].room
  BY <1>2, <1>3 DEF Views
<1>7. /\ \A i \in DOMAIN v.queue : Old(view[u].queue, v.queue[i]) \/ v.queue[i].room = view[u].room
      /\ \A i \in DOMAIN v.list : Old(view[u].list, v.list[i]) \/ ReadSound(u, v.list[i])
  <2>1. CASE v = [view[u] EXCEPT !.showing = @ \cup {[msg |-> e.msg, room |-> view[u].room]}]
    <3>1. v.queue = view[u].queue /\ v.list = view[u].list
      BY <1>3, <2>1 DEF Views
    <3>. QED  BY <3>1 DEF Old
  <2>2. CASE v = [view[u] EXCEPT !.queue = Append(@, [msg |-> e.msg, room |-> view[u].room])]
    <3>. DEFINE s == [msg |-> e.msg, room |-> view[u].room]
    <3>1. s \in Sights /\ s.room = view[u].room /\ view[u].queue \in Seq(Sights)
      BY <1>3 DEF Sights, News, Views
    <3>2. v.queue = Append(view[u].queue, s) /\ v.list = view[u].list
      BY <1>3, <2>2 DEF Views
    <3>. HIDE DEF s
    <3>3. \A i \in DOMAIN v.queue : Old(view[u].queue, v.queue[i]) \/ v.queue[i] = s
      BY <3>1, <3>2, Sequences
    <3>. QED  BY <3>1, <3>2, <3>3 DEF Old
  <2>3. ASSUME NEW list \in Seq(Entries), v = [view[u] EXCEPT !.list = list],
               Len(list) = Len(view[u].list), NEW i \in DOMAIN list,
               list[i].msg = view[u].list[i].msg,
               \/ list[i].status = view[u].list[i].status
               \/ /\ e.type = "status" /\ list[i].status = e.status
                  /\ list[i].msg = e.msg \/ e.msg = 0
        PROVE  ReadSound(u, list[i])
    <3>1. i \in DOMAIN view[u].list
      BY <1>3, <2>3
    <3>2. view[u].list[i].msg \in Messages /\ ReadSound(u, view[u].list[i])
      BY <3>1 DEF Sound, ViewSound, Reading, ReadSound
    <3>3. CASE list[i].status = view[u].list[i].status
      BY <2>3, <3>2, <3>3 DEF ReadSound
    <3>4. CASE /\ e.type = "status" /\ list[i].status = e.status
               /\ list[i].msg = e.msg \/ e.msg = 0
      <4>1. e.msg \in Messages
        BY <1>3, <3>4 DEF NewsSound
      <4>2. list[i].msg = e.msg
        BY <3>4, <4>1 DEF Messages
      <4>3. list[i].status = "read" => SeenByReader(e.msg)
        BY <1>2, <3>4 DEF Reading
      <4>. QED  BY <2>3, <3>2, <4>2, <4>3 DEF ReadSound
    <3>. QED  BY <2>3, <3>3, <3>4
  <2>4. ASSUME NEW list \in Seq(Entries), v = [view[u] EXCEPT !.list = list]
        PROVE  v.queue = view[u].queue /\ v.list = list
    BY <1>3, <2>4 DEF Views
  <2>. QED  BY <1>2, <2>1, <2>2, <2>3, <2>4 DEF Old
<1>8. /\ \A w \in Users : view'[w].room \in note'[w].opened
      /\ \A w \in Users : \A i \in DOMAIN view'[w].queue :
            Old(view[w].queue, view'[w].queue[i]) \/ view'[w].queue[i].room \in note'[w].opened
  BY <1>1, <1>5, <1>6, <1>7, Olds DEF Reading
<1>9. ASSUME NEW w \in Users, NEW i \in DOMAIN view'[w].list
      PROVE  Old(view[w].list, view'[w].list[i]) \/ ReadSound(w, view[w].list[i])'
  <2>1. CASE w # u
    BY <1>5, <2>1 DEF Old
  <2>2. CASE w = u /\ ReadSound(u, v.list[i])
    <3>1. PICK x : x = v.list[i]
      OBVIOUS
    <3>2. ReadSound(u, x)
      BY <2>2, <3>1
    <3>4. x.msg \in Messages
      <4>1. view'[u].list = v.list /\ i \in DOMAIN view'[u].list
        BY <1>5, <1>9, <2>2
      <4>2. view'[u].list[i].msg \in Messages'
        BY <4>1 DEF Sound, ViewSound
      <4>3. Messages' = Messages
        BY <1>1 DEF Messages
      <4>. QED  BY <3>1, <4>1, <4>2, <4>3
    <3>3. ReadSound(u, x)'
      BY <1>1, <1>4, <3>2, <3>4, Unmoved, SeenStays
    <3>. QED  BY <1>5, <2>2, <3>1, <3>3 DEF ReadSound
  <2>. QED  BY <1>5, <1>7, <1>9, <2>1, <2>2
<1>10. /\ \A w \in Users : \A i \in DOMAIN inbox'[w] : Old(inbox[w], inbox'[w][i])
       /\ \A h \in Handlers : job'[h] = job[h]
  BY <1>1, TailSound
<1>. QED  BY <1>1, <1>4, <1>8, <1>9, <1>10, Unmoved, Olds, ReadingStep

LEMMA ShowMessageReading ==
    ASSUME Types, Sound, Sound', Reading, NEW u \in Users, NEW s, ShowMessage(u, s)
    PROVE  Reading'
<1>1. /\ s \in view[u].showing /\ s \in Sights
      /\ UNCHANGED <<out, inbox, job, sent, note>>
  BY ShowMessageDoes DEF ServerSame
<1>2. PICK list \in Seq(Entries) :
        /\ Turns(u, Shows(u, s, list))
        /\ list = view[u].list \/ list = Append(view[u].list, Entry(s.msg, FALSE, "none"))
  BY ShowMessageDoes
<1>3. view[u] \in Views /\ InChannel(s.msg)
  BY <1>1 DEF Types, Sound, ViewSound
<1>4. \A w \in Users : /\ view'[w].room = view[w].room /\ view'[w].queue = view[w].queue
                       /\ view'[w].list = IF w = u THEN list ELSE view[w].list
  <2>1. PICK v : v = Shows(u, s, list)
    OBVIOUS
  <2>2. v.room = view[u].room /\ v.queue = view[u].queue /\ v.list = list
    BY <1>3, <2>1 DEF Shows, Views
  <2>. QED  BY <1>2, <2>1, <2>2 DEF Turns
<1>5. Remembers
  BY <1>1, Olds
<1>6. \A w \in Users : \A i \in DOMAIN view'[w].list :
        Old(view[w].list, view'[w].list[i]) \/ ReadSound(w, view[w].list[i])'
  <2>3. s.msg \in Nat
    BY <1>1 DEF Sights
  <2>4. PICK x : x = Entry(s.msg, FALSE, "none")
    OBVIOUS
  <2>1. x \in Entries /\ x.msg = s.msg /\ x.status = "none"
    BY <2>3, <2>4, EntryTypes DEF EntryOf
  <2>2. x.msg \in Messages /\ RoomOf(x.msg) \notin Direct
    BY <1>3, <2>1, Kinds DEF InChannel
  <2>. QED  BY <1>1, <1>2, <1>4, <1>5, <2>1, <2>2, <2>4, ListReading
<1>7. /\ \A w \in Users : view'[w].room \in note'[w].opened
      /\ \A w \in Users : \A i \in DOMAIN view'[w].queue : Old(view[w].queue, view'[w].queue[i])
  BY <1>1, <1>4, Olds DEF Reading
<1>. QED  BY <1>1, <1>5, <1>6, <1>7, Unmoved, Olds, ReadingStep

LEMMA ShowDirectReading ==
    ASSUME Types, Sound, Sound', Reading, NEW u \in Users, ShowDirect(u)
    PROVE  Reading'
<1>1. /\ view[u].queue # <<>> /\ \A w \in Users \ {u} : note'[w] = note[w]
      /\ UNCHANGED <<inbox, job, sent>>
  BY ShowDirectDoes DEF ServerSame
<1>2. PICK s \in Sights, list \in Seq(Entries), events \in Seq(Events) :
        /\ s = view[u].queue[1] /\ 1 \in DOMAIN view[u].queue
        /\ Turns(u, ShowsDirect(u, s, list))
        /\ \/ list = view[u].list
           \/ list = Append(view[u].list, Entry(s.msg, TRUE, "acknowledged"))
        /\ Emit(u, events)
        /\ \A i \in DOMAIN events :
             /\ events[i].msg = s.msg
             /\ events[i].type = "ack" \/ (events[i].type = "read" /\ Belongs(s))
        /\ note'[u] = [note[u] EXCEPT !.shown = @ \cup {s.msg}]
  BY ShowDirectDoes
<1>3. /\ view[u] \in Views /\ view[u].queue \in Seq(Sights)
      /\ InDirect(s.msg) /\ s.msg \in Messages /\ u = Peer(s.msg) /\ s.room \in note[u].opened
  BY <1>2 DEF Types, Views, Sound, ViewSound, InDirect, Reading
<1>4. note'[u].shown = note[u].shown \cup {s.msg} /\ note'[u].opened = note[u].opened
  <2>1. note[u] \in Notes
    BY DEF Types
  <2>. QED  BY <1>2, <2>1 DEF Notes
<1>5. Remembers
  BY <1>1, <1>4 DEF Remembers
<1>6. \A w \in Users : /\ view'[w].room = view[w].room
                       /\ view'[w].queue = IF w = u THEN Tail(view[u].queue) ELSE view[w].queue
                       /\ view'[w].list = IF w = u THEN list ELSE view[w].list
  <2>1. PICK v : v = ShowsDirect(u, s, list)
    OBVIOUS
  <2>2. v.room = view[u].room /\ v.queue = Tail(view[u].queue) /\ v.list = list
    BY <1>3, <2>1 DEF ShowsDirect, Views
  <2>. QED  BY <1>2, <2>1, <2>2 DEF Turns
<1>7. \A w \in Users : \A i \in DOMAIN view'[w].list :
        Old(view[w].list, view'[w].list[i]) \/ ReadSound(w, view[w].list[i])'
  <2>1. s.msg \in Nat
    BY <1>2 DEF Sights
  <2>2. PICK x : x = Entry(s.msg, TRUE, "acknowledged")
    OBVIOUS
  <2>3. x \in Entries /\ x.msg = s.msg /\ x.status = "acknowledged"
    BY <2>1, <2>2, EntryTypes DEF EntryOf
  <2>4. /\ x.msg \in Messages /\ x.status # "read"
        /\ u = Peer(x.msg) /\ x.msg \in note'[u].shown
    BY <1>3, <1>4, <2>3
  <2>5. list = view[u].list \/ list = Append(view[u].list, x)
    BY <1>2, <2>2
  <2>6. \A w \in Users : view'[w].list = IF w = u THEN list ELSE view[w].list
    BY <1>6
  <2>. QED  BY <1>1, <1>5, <2>3, <2>4, <2>5, <2>6, ListReading
<1>8. \A i \in DOMAIN Tail(view[u].queue) : Old(view[u].queue, Tail(view[u].queue)[i])
  BY <1>1, <1>3, Sequences
<1>9. /\ \A w \in Users : view'[w].room \in note'[w].opened
      /\ \A w \in Users : \A i \in DOMAIN view'[w].queue : Old(view[w].queue, view'[w].queue[i])
  BY <1>5, <1>6, <1>8, Olds DEF Reading, Remembers
<1>10. ASSUME NEW w \in Users, NEW i \in DOMAIN out'[w]
       PROVE  Old(out[w], out'[w][i]) \/ out'[w][i].type # "read" \/ SeenByReader(out[w][i].msg)'
  <2>1. ASSUME NEW k \in DOMAIN events, events[k] = out'[w][i], events[k].type = "read"
        PROVE  SeenByReader(out[w][i].msg)'
    <3>1. PICK m \in Messages : m = s.msg
      BY <1>3
    <3>2. RoomOf(m) \in note'[u].opened /\ m \in note'[u].shown
      BY <1>2, <1>3, <1>4, <2>1, <3>1 DEF Belongs
    <3>3. RoomOf(m)' = RoomOf(m) /\ Peer(m)' = u
      BY <1>1, <1>3, <3>1, Grows, Unmoved
    <3>4. SeenByReader(m)'
      BY <3>2, <3>3 DEF SeenByReader
    <3>. QED  BY <1>2, <2>1, <3>1, <3>4 DEF SeenByReader
  <2>2. Old(out[w], out'[w][i]) \/ \E k \in DOMAIN events : events[k] = out'[w][i]
    BY <1>2, <1>10, EmitOld DEF Old
  <2>. QED  BY <2>1, <2>2
<1>. QED  BY <1>1, <1>5, <1>7, <1>9, <1>10, Unmoved, Olds, ReadingStep

LEMMA DropCopyReading ==
    ASSUME Types, Sound, Sound', Reading, NEW u \in Users, DropCopy(u)
    PROVE  Reading'
<1>1. /\ Turns(u, [view[u] EXCEPT !.queue = Tail(@)]) /\ view[u].queue # <<>>
      /\ UNCHANGED <<inbox, job, sent, note>>
  BY DropCopyDoes DEF ServerSame
<1>2. PICK e \in Events : Emit(u, <<e>>) /\ e.type = "ack"
  BY DropCopyDoes
<1>3. \A w \in Users : \A i \in DOMAIN out'[w] : Old(out[w], out'[w][i]) \/ out'[w][i].type # "read"
  BY <1>2, EmitOne
<1>4. Looks
  <2>1. PICK v : v = [view[u] EXCEPT !.queue = Tail(@)]
    OBVIOUS
  <2>2. view[u].queue \in Seq(Sights) /\ view[u] \in Views
    BY DEF Types, Views
  <2>3. v.room = view[u].room /\ v.queue = Tail(view[u].queue) /\ v.list = view[u].list
    BY <2>1, <2>2 DEF Views
  <2>4. \A i \in DOMAIN Tail(view[u].queue) : Old(view[u].queue, Tail(view[u].queue)[i])
    BY <1>1, <2>2, Sequences
  <2>5. Turns(u, v)
    BY <1>1, <2>1
  <2>. QED  BY <2>3, <2>4, <2>5, LooksOne, Olds
<1>5. Remembers
  BY <1>1, Olds
<1>. QED  BY <1>1, <1>3, <1>4, <1>5, ReadingLooks, Unmoved, Olds, ReadingStep

\* A step of the server in which no browser changes.
LEMMA ServerReading ==
    ASSUME Types, Sound, Sound', Reading, UNCHANGED <<view, sent>>, Remembers,
           \A u \in Users : \A i \in DOMAIN out'[u] : Old(out[u], out'[u][i]),
           \A h \in Handlers : job'[h] = job[h] \/ job'[h].at # "read" \/ SeenByReader(job'[h].msg),
           \A u \in Users : \A i \in DOMAIN inbox'[u] :
              \/ Old(inbox[u], inbox'[u][i])
              \/ inbox'[u][i].type # "status" \/ inbox'[u][i].status # "read"
              \/ SeenByReader(inbox'[u][i].msg)
    PROVE  Reading'
<1>1. Looks
  BY Olds DEF Looks
<1>2. \A m \in Messages : SeenByReader(m) => SeenByReader(m)'
  BY SeenStays, Unmoved
<1>3. ASSUME NEW h \in Handlers
      PROVE  job'[h] = job[h] \/ job'[h].at # "read" \/ SeenByReader(job[h].msg)'
  <2>1. ASSUME job'[h].at = "read", SeenByReader(job'[h].msg) PROVE SeenByReader(job[h].msg)'
    <3>1. PICK m \in Messages : m = job'[h].msg
      BY <2>1 DEF Sound, JobSound, Messages
    <3>. QED  BY <1>2, <2>1, <3>1 DEF SeenByReader
  <2>. QED  BY <2>1
<1>4. ASSUME NEW u \in Users, NEW i \in DOMAIN inbox'[u]
      PROVE  \/ Old(inbox[u], inbox'[u][i])
             \/ inbox'[u][i].type # "status" \/ inbox'[u][i].status # "read"
             \/ SeenByReader(inbox[u][i].msg)'
  <2>1. ASSUME inbox'[u][i].type = "status", SeenByReader(inbox'[u][i].msg) PROVE SeenByReader(inbox[u][i].msg)'
    <3>1. PICK m \in Messages : m = inbox'[u][i].msg
      BY <1>4, <2>1 DEF Sound, NewsSound, Messages
    <3>. QED  BY <1>2, <2>1, <3>1 DEF SeenByReader
  <2>. QED  BY <2>1
<1>. QED  BY <1>1, <1>3, <1>4, ReadingLooks, Unmoved, Olds, ReadingStep

LEMMA MoveReading ==
    ASSUME Types, Sound, Sound', Reading, NEW u \in Users, NEW h \in Handlers, SwitchRoom(u, h) \/ Join(u, h)
    PROVE  Reading'
<1>1. /\ \A w \in Users \ {u} : out'[w] = out[w] /\ note'[w] = note[w]
      /\ 1 \in DOMAIN out[u] /\ out'[u] = Tail(out[u])
      /\ job'[h].at # "read" /\ \A g \in Handlers \ {h} : job'[g] = job[g]
      /\ UNCHANGED <<view, inbox, sent>>
  BY MoveDoes
<1>2. note'[u].shown = note[u].shown /\ note'[u].opened = note[u].opened
  <2>1. note[u] \in Notes
    BY DEF Types
  <2>2. PICK t \in BOOLEAN : /\ t = (note[u].torn \/ Switching(u) # {})
                             /\ note'[u] = [note[u] EXCEPT !.torn = t]
    BY MoveDoes
  <2>. QED  BY <2>1, <2>2 DEF Notes
<1>3. out[u] # <<>>
  BY <1>1 DEF Types
<1>4. \A w \in Users : \A i \in DOMAIN inbox'[w] : Old(inbox[w], inbox'[w][i])
  BY <1>1, Unmoved
<1>5. \A g \in Handlers : job'[g] = job[g] \/ job'[g].at # "read"
  BY <1>1
<1>. QED  BY <1>1, <1>2, <1>3, <1>4, <1>5, TakesSound, RemembersOne, ServerReading

LEMMA BeginsReading ==
    ASSUME Types, Sound, Sound', Reading, NEW u \in Users, NEW h \in Handlers, SendMessage(u, h) \/ Handle(u, h)
    PROVE  Reading'
<1>1. /\ \A w \in Users \ {u} : out'[w] = out[w]
      /\ 1 \in DOMAIN out[u] /\ out'[u] = Tail(out[u])
      /\ UNCHANGED <<view, inbox, sent, note>>
  BY BeginsDoes
<1>2. PICK e \in Events :
        /\ e = out[u][1] /\ e.type \in OutTypes \ {"switch", "join"}
        /\ \/ job' = job
           \/ /\ job[h].at = "idle" /\ job'[h].at = Label(e.type) /\ job'[h].by = u
              /\ job'[h].msg = e.msg /\ job'[h].room = e.room
              /\ \A g \in Handlers \ {h} : job'[g] = job[g]
  BY BeginsDoes
<1>3. Label(e.type) = "read" => e.type = "read"
  BY <1>2 DEF Label, FirstAwait, OutTypes
<1>4. e.type = "read" => SeenByReader(e.msg)
  BY <1>1, <1>2 DEF Reading
<1>5. \A g \in Handlers : job'[g] = job[g] \/ job'[g].at # "read" \/ SeenByReader(job'[g].msg)
  BY <1>2, <1>3, <1>4
<1>6. out[u] # <<>>
  BY <1>1 DEF Types
<1>. QED  BY <1>1, <1>5, <1>6, TakesSound, Unmoved, Olds, ServerReading

LEMMA MovingReading ==
    ASSUME Types, Sound, Sound', Reading, NEW h \in Handlers, FindRoom(h) \/ Move(h) \/ Mark(h) \/ Enter(h)
    PROVE  Reading'
<1>1. \A g \in Handlers \ {h} : job'[g] = job[g]
  BY MovingDoes
<1>2. UNCHANGED <<view, out, inbox, sent, note>>
  BY MovingDoes
<1>3. job'[h].at # "read"
  <2>1. Done(h) \/ \E label \in Labels \ {"read"} : Becomes(h, label)
    BY DEF FindRoom, Move, Mark, Enter, Labels, Moving
  <2>. QED  BY <2>1, JobDoes
<1>4. \A g \in Handlers : job'[g] = job[g] \/ job'[g].at # "read"
  BY <1>1, <1>3
<1>. QED  BY <1>2, <1>4, Unmoved, Olds, ServerReading

LEMMA InsertReading ==
    ASSUME Types, Sound, Sound', Reading, NEW h \in Handlers, Insert(h) \/ InsertFails(h)
    PROVE  Reading'
<1>1. /\ job'[h].at = "cast" /\ \A g \in Handlers \ {h} : job'[g] = job[g]
      /\ UNCHANGED <<view, out, inbox, sent>>
  BY InsertDoes
<1>2. Remembers
  <2>1. \A u \in Users : \/ note'[u] = note[u]
                         \/ note'[u] = [note[u] EXCEPT !.awaited = @ \cup {job[h].msg}]
    BY InsertDoes
  <2>2. \A u \in Users : note[u] \in Notes
    BY DEF Types
  <2>. QED  BY <2>1, <2>2 DEF Remembers, Notes
<1>3. \A g \in Handlers : job'[g] = job[g] \/ job'[g].at # "read"
  BY <1>1
<1>. QED  BY <1>1, <1>2, <1>3, Unmoved, ServerReading

LEMMA TellsReading ==
    ASSUME Types, Sound, Sound', Reading, NEW h \in Handlers,
           Cast(h) \/ Erase(h) \/ TellDeleted(h) \/ Queue(h) \/ Dispatch(h) \/ Acknowledge(h) \/ MarkRead(h)
    PROVE  Reading'
<1>1. /\ \A g \in Handlers \ {h} : job'[g] = job[g]
      /\ UNCHANGED <<view, out, sent, note>>
  BY TellsDoes
<1>4. job'[h].at # "read"
  <2>1. job'[h] = Idle \/ job'[h].at = "tell" \/ job'[h].at = "dispatch"
    BY TellsDoes
  <2>. QED  BY <2>1 DEF Idle
<1>2. ASSUME NEW u \in Users, NEW i \in DOMAIN inbox'[u]
      PROVE  \/ Old(inbox[u], inbox'[u][i])
             \/ inbox'[u][i].type # "status" \/ inbox'[u][i].status # "read"
             \/ SeenByReader(inbox'[u][i].msg)
  <2>1. CASE inbox'[u] = inbox[u]
    BY <2>1 DEF Old
  <2>2. ASSUME NEW e \in News, inbox'[u] = Append(inbox[u], e), e.msg = job[h].msg,
               \/ e.type # "status" \/ e.status # "read"
               \/ job[h].at = "read"
        PROVE  \/ Old(inbox[u], inbox'[u][i])
               \/ inbox'[u][i].type # "status" \/ inbox'[u][i].status # "read"
               \/ SeenByReader(inbox'[u][i].msg)
    <3>1. inbox[u] \in Seq(News)
      BY DEF Types
    <3>2. Old(inbox[u], inbox'[u][i]) \/ inbox'[u][i] = e
      BY <1>2, <2>2, <3>1, Sequences
    <3>3. job[h].at = "read" => SeenByReader(e.msg)
      BY <2>2 DEF Reading
    <3>. QED  BY <2>2, <3>2, <3>3
  <2>. QED  BY <2>1, <2>2, TellsDoes
<1>3. \A g \in Handlers : job'[g] = job[g] \/ job'[g].at # "read"
  BY <1>1, <1>4
<1>. QED  BY <1>1, <1>2, <1>3, Unmoved, Olds, ServerReading

LEMMA RetriesReading ==
    ASSUME Types, Sound, Sound', Reading, NEW m \in box, Retries(m)
    PROVE  Reading'
<1>1. UNCHANGED <<view, out, job, sent, note>>
  BY RetriesDo
<1>2. ASSUME NEW u \in Users, NEW i \in DOMAIN inbox'[u]
      PROVE  \/ Old(inbox[u], inbox'[u][i])
             \/ inbox'[u][i].type # "status" \/ inbox'[u][i].status # "read"
  <2>1. CASE inbox'[u] = inbox[u]
    BY <2>1 DEF Old
  <2>2. ASSUME NEW e \in News, inbox'[u] = Append(inbox[u], e),
               e.type # "status" \/ e.status # "read"
        PROVE  \/ Old(inbox[u], inbox'[u][i])
               \/ inbox'[u][i].type # "status" \/ inbox'[u][i].status # "read"
    <3>1. inbox[u] \in Seq(News)
      BY DEF Types
    <3>2. Old(inbox[u], inbox'[u][i]) \/ inbox'[u][i] = e
      BY <1>2, <2>2, <3>1, Sequences
    <3>. QED  BY <2>2, <3>2
  <2>. QED  BY <2>1, <2>2, RetriesDo
<1>3. \A g \in Handlers : job'[g] = job[g]
  BY <1>1
<1>. QED  BY <1>1, <1>2, <1>3, Unmoved, Olds, ServerReading

LEMMA AbortReading ==
    ASSUME Types, Sound, Sound', Reading, NEW h \in Handlers, Abort(h)
    PROVE  Reading'
<1>1. /\ job'[h] = Idle /\ \A g \in Handlers \ {h} : job'[g] = job[g]
      /\ UNCHANGED <<view, out, inbox, sent>>
  BY AbortDoes
<1>2. Remembers
  <2>. DEFINE u == job[h].by
  <2>1. u \in Users /\ note[u] \in Notes /\ \A w \in Users \ {u} : note'[w] = note[w]
    BY AbortDoes DEF Types
  <2>2. \E t : note'[u] = [note[u] EXCEPT !.torn = t]
    BY AbortDoes
  <2>3. note'[u].shown = note[u].shown /\ note'[u].opened = note[u].opened
    BY <2>1, <2>2 DEF Notes
  <2>. QED  BY <2>1, <2>3, RemembersOne
<1>3. \A g \in Handlers : job'[g] = job[g] \/ job'[g].at # "read"
  BY <1>1 DEF Idle
<1>. QED  BY <1>1, <1>2, <1>3, Unmoved, ServerReading

LEMMA DisconnectReading ==
    ASSUME Types, Sound, Sound', Reading, NEW u \in Users, Disconnect(u)
    PROVE  Reading'
<1>1. /\ \A w \in Users \ {u} : out'[w] = out[w] /\ inbox'[w] = inbox[w] /\ note'[w] = note[w]
      /\ out'[u] = <<>> /\ inbox'[u] = <<>>
      /\ note'[u] = [note[u] EXCEPT !.awaited = {}, !.torn = FALSE, !.deaf = TRUE]
      /\ \A h \in Handlers : job'[h] = IF h \in Switching(u) THEN Idle ELSE job[h]
      /\ UNCHANGED <<view, sent>>
  BY DisconnectDoes
<1>2. note'[u].shown = note[u].shown /\ note'[u].opened = note[u].opened
  <2>1. note[u] \in Notes
    BY DEF Types
  <2>. QED  BY <1>1, <2>1 DEF Notes
<1>3. Remembers
  BY <1>1, <1>2, RemembersOne
<1>4. /\ \A w \in Users : \A i \in DOMAIN out'[w] : Old(out[w], out'[w][i])
      /\ \A w \in Users : \A i \in DOMAIN inbox'[w] : Old(inbox[w], inbox'[w][i])
  BY <1>1 DEF Old
<1>5. \A g \in Handlers : job'[g] = job[g] \/ job'[g].at # "read"
  BY <1>1 DEF Idle
<1>. QED  BY <1>1, <1>3, <1>4, <1>5, ServerReading

LEMMA ReconnectReading ==
    ASSUME Types, Sound, Sound', Reading, NEW u \in Users, Reconnect(u)
    PROVE  Reading'
<1>1. UNCHANGED <<view, out, inbox, job, sent, note>>
  BY ReconnectDoes
<1>. QED  BY <1>1, Unmoved, Olds, ServerReading

LEMMA LapseReading ==
    ASSUME Types, Sound, Sound', Reading, NEW u \in Users, Lapse(u)
    PROVE  Reading'
<1>1. UNCHANGED <<view, out, inbox, job, sent, note>>
  BY LapseDoes
<1>. QED  BY <1>1, Unmoved, Olds, ServerReading

-----------------------------------------------------------------------------
(* Showing: what a list holds when nothing is under way.                   *)

\* A step of the browser of u.
LEMMA ShowingOne ==
    ASSUME Showing, sent' = sent, NEW u \in Users, NEW v \in Views, Turns(u, v),
           ~note'[u].blurred => Tidy(v),
           \A w \in Users \ {u} : note'[w].blurred = note[w].blurred
    PROVE  Showing'
<1>1. \A w \in Users : view'[w] = IF w = u THEN v ELSE view[w]
  BY DEF Turns
<1>2. \A w \in Users : ~note'[w].blurred => Tidy(view'[w])
  BY <1>1 DEF Showing
<1>3. \A m : RoomOf(m)' = RoomOf(m)
  BY DEF RoomOf
<1>. QED  BY <1>2, <1>3 DEF Showing, Tidy

\* A step of the server.
LEMMA ShowingSame ==
    ASSUME Showing, UNCHANGED <<view, sent>>,
           \A w \in Users : note'[w].blurred = note[w].blurred
    PROVE  Showing'
  BY DEF Showing, Tidy, RoomOf

LEMMA GoesShowing ==
    ASSUME Types, Showing, NEW u \in Users, NEW r \in Rooms,
           NEW joins \in SUBSET Channels, NEW receipts \in Seq(Events), Goes(u, r, joins, receipts)
    PROVE  Showing'
<1>1. PICK f \in Fetches : f.room = r /\ f.rows = <<>> /\ Turns(u, Opened(u, r, joins, f))
  BY GoesDoes
<1>2. PICK v : v = Opened(u, r, joins, f)
  OBVIOUS
<1>3. /\ (note'[u].blurred <=> Busy(u)) /\ \A w \in Users \ {u} : note'[w] = note[w]
      /\ sent' = sent
  BY GoesDoes
<1>4. v \in Views /\ Turns(u, v)
  BY <1>1, <1>2 DEF Turns
<1>5. /\ v.room = r /\ v.fetches = view[u].fetches \cup {f} /\ v.composing = view[u].composing
      /\ v.showing = view[u].showing /\ v.queue = view[u].queue
      /\ v.unread = [view[u].unread EXCEPT ![r] = 0]
  BY <1>2 DEF Opened, Types, Views
<1>6. v.unread[r] = 0
  <2>1. view[u].unread \in [Rooms -> Nat]
    BY DEF Types, Views
  <2>. QED  BY <1>5, <2>1
<1>7. ~Busy(u) => Tidy(v)
  BY <1>1, <1>5, <1>6 DEF Busy, Tidy
<1>. QED  BY <1>3, <1>4, <1>7, ShowingOne

LEMMA StaysShowing ==
    ASSUME Types, Showing, NEW u \in Users, Stays(u)
    PROVE  Showing'
<1>1. sent' = sent /\ note' = note
  BY StaysDoes
<1>2. CASE UNCHANGED view
  BY <1>1, <1>2, ShowingSame
<1>3. CASE Turns(u, Reset(u))
  <2>1. PICK v : v = Reset(u)
    OBVIOUS
  <2>2. view[u] \in Views /\ v \in Views /\ Turns(u, v)
    BY <1>3, <2>1 DEF Types, Turns
  <2>3. /\ v.room = view[u].room /\ v.fetches = view[u].fetches /\ v.composing = view[u].composing
        /\ v.showing = view[u].showing /\ v.queue = view[u].queue /\ v.list = view[u].list
        /\ v.unread = [view[u].unread EXCEPT ![view[u].room] = 0]
    BY <2>1, <2>2 DEF Reset, Views
  <2>4. v.unread[v.room] = 0
    <3>1. view[u].unread \in [Rooms -> Nat] /\ view[u].room \in Rooms
      BY <2>2 DEF Views
    <3>. QED  BY <2>3, <3>1
  <2>5. Tidy(view[u]) => Tidy(v)
    BY <2>3, <2>4 DEF Tidy
  <2>. QED  BY <1>1, <2>2, <2>5, ShowingOne DEF Showing
<1>. QED  BY <1>2, <1>3, StaysDoes

LEMMA JoinRoomShowing ==
    ASSUME Types, Showing, NEW u \in Users, NEW r \in Channels, JoinRoom(u, r)
    PROVE  Showing'
<1>1. /\ Turns(u, [view[u] EXCEPT !.joining = @ \ {r}]) /\ sent' = sent
      /\ \A w \in Users \ {u} : note'[w] = note[w]
  BY JoinRoomDoes
<1>2. PICK v : v = [view[u] EXCEPT !.joining = @ \ {r}]
  OBVIOUS
<1>3. view[u] \in Views /\ v \in Views /\ Turns(u, v)
  BY <1>1, <1>2 DEF Types, Turns
<1>4. /\ v.room = view[u].room /\ v.fetches = view[u].fetches /\ v.composing = view[u].composing
      /\ v.showing = view[u].showing /\ v.queue = view[u].queue /\ v.list = view[u].list
      /\ v.unread = view[u].unread
  BY <1>2, <1>3 DEF Views
<1>5. note'[u].blurred = note[u].blurred
  <2>1. note[u] \in Notes
    BY DEF Types
  <2>. QED  BY <2>1, JoinRoomDoes DEF Notes
<1>6. Tidy(view[u]) => Tidy(v)
  BY <1>4 DEF Tidy
<1>. QED  BY <1>1, <1>3, <1>5, <1>6, ShowingOne DEF Showing

LEMMA ComposeShowing ==
    ASSUME Types, Sound, Showing, NEW u \in Users, Compose(u)
    PROVE  Showing'
<1>0. PICK n : n = Len(sent) + 1
  OBVIOUS
<1>1. /\ sent' = Append(sent, [by |-> u, room |-> view[u].room])
      /\ Len(sent') = n /\ Turns(u, [view[u] EXCEPT !.composing = @ \cup {Len(sent')}])
      /\ note' = note
  BY <1>0, ComposeDoes
<1>2. PICK v : v = [view[u] EXCEPT !.composing = @ \cup {n}]
  OBVIOUS
<1>3. view[u] \in Views /\ v \in Views /\ \A w \in Users : view'[w] = IF w = u THEN v ELSE view[w]
  BY <1>1, <1>2 DEF Types, Turns
<1>4. /\ v.room = view[u].room /\ v.fetches = view[u].fetches /\ v.composing = view[u].composing \cup {n}
      /\ v.showing = view[u].showing /\ v.queue = view[u].queue /\ v.list = view[u].list
      /\ v.unread = view[u].unread
  BY <1>2, <1>3 DEF Views
<1>5. Grown
  BY <1>1, <1>3 DEF Grown, Views
<1>6. \A m \in Messages : RoomOf(m)' = RoomOf(m)
  BY <1>5, Grows
<1>7. RoomOf(n)' = view[u].room
  <2>1. PICK x : x = [by |-> u, room |-> view[u].room]
    OBVIOUS
  <2>2. PICK S : S = [by : Users, room : Rooms]
    OBVIOUS
  <2>3. sent \in Seq(S) /\ x \in S /\ sent' = Append(sent, x) /\ x.room = view[u].room
    BY <1>1, <1>3, <2>1, <2>2 DEF Types, Views
  <2>4. sent'[n] = x
    BY <1>0, <2>3
  <2>. QED  BY <2>3, <2>4 DEF RoomOf
<1>8. ASSUME NEW w \in Users, ~note[w].blurred PROVE Tidy(view[w])'
  <2>1. /\ Tidy(view[w]) /\ \A m \in view[w].composing : m \in Messages
        /\ \A i \in DOMAIN view[w].list : view[w].list[i].msg \in Messages
    BY <1>8 DEF Showing, Sound, ViewSound
  <2>2. CASE w # u
    BY <1>3, <1>6, <2>1, <2>2 DEF Tidy
  <2>3. CASE w = u
    <3>2. /\ Tidy(view[u]) /\ \A m \in view[u].composing : m \in Messages
          /\ \A i \in DOMAIN view[u].list : view[u].list[i].msg \in Messages
      BY <2>1, <2>3
    <3>3. \A m \in v.composing : RoomOf(m)' = v.room
      BY <1>4, <1>6, <1>7, <3>2 DEF Tidy
    <3>4. v.fetches = {} => \A i \in DOMAIN v.list :
            RoomOf(v.list[i].msg)' \in Channels => RoomOf(v.list[i].msg)' = v.room
      BY <1>4, <1>6, <3>2 DEF Tidy
    <3>1. Tidy(v)'
      BY <1>4, <3>2, <3>3, <3>4 DEF Tidy
    <3>. QED  BY <1>3, <2>3, <3>1 DEF Tidy
  <2>. QED  BY <2>2, <2>3
<1>. QED  BY <1>1, <1>8 DEF Showing

LEMMA EncryptedShowing ==
    ASSUME Types, Sound, Showing, NEW u \in Users, NEW m, EncryptedChannel(u, m) \/ EncryptedDM(u, m)
    PROVE  Showing'
<1>1. m \in view[u].composing /\ UNCHANGED <<sent, note>>
  BY EncryptedDoes
<1>2. PICK list \in Seq(Entries) :
        /\ Turns(u, Encrypted(u, m, list))
        /\ RoomOf(m) \in Channels /\ online[u] => list = view[u].list
        /\ list # view[u].list => \E x \in Entries :
              /\ x.msg = m /\ x.status # "read" /\ list = Append(view[u].list, x)
  BY EncryptedDoes
<1>3. PICK v : v = Encrypted(u, m, list)
  OBVIOUS
<1>4. view[u] \in Views /\ v \in Views /\ Turns(u, v)
  BY <1>2, <1>3 DEF Types, Turns
<1>5. /\ v.room = view[u].room /\ v.fetches = view[u].fetches /\ v.composing = view[u].composing \ {m}
      /\ v.showing = view[u].showing /\ v.queue = view[u].queue /\ v.list = list
      /\ v.unread = view[u].unread
  BY <1>3, <1>4 DEF Encrypted, Views
<1>6. \A i \in DOMAIN list : Old(view[u].list, list[i]) \/ list[i].msg = m
  <2>1. view[u].list \in Seq(Entries)
    BY <1>4 DEF Views
  <2>2. CASE list = view[u].list
    BY <2>2 DEF Old
  <2>3. CASE list # view[u].list
    BY <1>2, <2>1, <2>3, ListGrows
  <2>. QED  BY <2>2, <2>3
<1>7. Tidy(view[u]) => Tidy(v)
  BY <1>1, <1>5, <1>6 DEF Tidy, Old
<1>. QED  BY <1>1, <1>4, <1>7, ShowingOne DEF Showing

LEMMA EncryptFailsShowing ==
    ASSUME Types, Showing, NEW u \in Users, NEW m, EncryptFails(u, m)
    PROVE  Showing'
<1>1. Turns(u, [view[u] EXCEPT !.composing = @ \ {m}]) /\ UNCHANGED <<sent, note>>
  BY EncryptFailsDoes
<1>2. PICK v : v = [view[u] EXCEPT !.composing = @ \ {m}]
  OBVIOUS
<1>3. view[u] \in Views /\ v \in Views /\ Turns(u, v)
  BY <1>1, <1>2 DEF Types, Turns
<1>4. /\ v.room = view[u].room /\ v.fetches = view[u].fetches /\ v.composing = view[u].composing \ {m}
      /\ v.showing = view[u].showing /\ v.queue = view[u].queue /\ v.list = view[u].list
      /\ v.unread = view[u].unread
  BY <1>2, <1>3 DEF Views
<1>5. Tidy(view[u]) => Tidy(v)
  BY <1>4 DEF Tidy
<1>. QED  BY <1>1, <1>3, <1>5, ShowingOne DEF Showing

LEMMA FetchShowing ==
    ASSUME Types, Sound, Showing, NEW u \in Users, NEW f, Fetch(u, f)
    PROVE  Showing'
<1>1. f \in view[u].fetches /\ UNCHANGED <<sent, note>>
  BY FetchesDo
<1>2. PICK g \in SUBSET Fetches, list \in Seq(Entries) :
        /\ Turns(u, Fetched(u, f, g, list))
        /\ \A k \in g : /\ k.room = f.room
                        /\ \A i \in DOMAIN k.rows : k.rows[i] \in stored /\ RoomOf(k.rows[i]) = f.room
        /\ \/ list = view[u].list /\ g # {}
           \/ \A i \in DOMAIN list : /\ list[i].status = "none"
                                     /\ list[i].msg \in stored /\ RoomOf(list[i].msg) = f.room
  BY FetchesDo
<1>3. PICK v : v = Fetched(u, f, g, list)
  OBVIOUS
<1>4. view[u] \in Views /\ v \in Views /\ Turns(u, v)
  BY <1>2, <1>3 DEF Types, Turns
<1>5. /\ v.room = view[u].room /\ v.fetches = (view[u].fetches \ {f}) \cup g
      /\ v.composing = view[u].composing
      /\ v.showing = view[u].showing /\ v.queue = view[u].queue /\ v.list = list
      /\ v.unread = view[u].unread
  BY <1>3, <1>4 DEF Fetched, Views
<1>6. Tidy(view[u]) => Tidy(v)
  BY <1>1, <1>2, <1>5 DEF Tidy
<1>. QED  BY <1>1, <1>4, <1>6, ShowingOne DEF Showing

LEMMA ReceiveShowing ==
    ASSUME Types, Showing, NEW u \in Users, Receives(u)
    PROVE  Showing'
<1>1. UNCHANGED <<sent, note>>
  BY ReceiveDoes DEF Receives
<1>2. PICK e \in News, v \in Views :
        /\ inbox[u] # <<>> /\ e = inbox[u][1] /\ 1 \in DOMAIN inbox[u]
        /\ inbox'[u] = Tail(inbox[u])
        /\ Turns(u, v)
        /\ \/ /\ e.type = "message"
              /\ v = [view[u] EXCEPT !.showing = @ \cup {[msg |-> e.msg, room |-> view[u].room]}]
           \/ /\ e.type = "direct"
              /\ v = [view[u] EXCEPT !.queue = Append(@, [msg |-> e.msg, room |-> view[u].room])]
           \/ /\ e.type \in {"status", "deleted"}
              /\ \E list \in Seq(Entries) :
                   /\ v = [view[u] EXCEPT !.list = list]
                   /\ Len(list) = Len(view[u].list)
                   /\ \A i \in DOMAIN list :
                        /\ list[i].msg = view[u].list[i].msg
                        /\ \/ list[i].status = view[u].list[i].status
                           \/ /\ e.type = "status" /\ list[i].status = e.status
                              /\ list[i].msg = e.msg \/ e.msg = 0
  BY ReceiveDoes DEF Receives
<1>3. view[u] \in Views /\ view[u].list \in Seq(Entries) /\ view[u].queue \in Seq(Sights)
  BY DEF Types, Views
<1>. DEFINE s == [msg |-> e.msg, room |-> view[u].room]
<1>4. s \in Sights /\ s.room = view[u].room
  BY <1>3 DEF Sights, News, Views
<1>. HIDE DEF s
<1>5. CASE v = [view[u] EXCEPT !.showing = @ \cup {s}]
  <2>1. /\ v.room = view[u].room /\ v.fetches = view[u].fetches /\ v.composing = view[u].composing
        /\ v.showing = view[u].showing \cup {s} /\ v.queue = view[u].queue /\ v.list = view[u].list
        /\ v.unread = view[u].unread
    BY <1>3, <1>5 DEF Views
  <2>. QED  BY <1>4, <1>1, <1>2, <2>1, ShowingOne DEF Showing, Tidy
<1>6. CASE v = [view[u] EXCEPT !.queue = Append(@, s)]
  <2>1. /\ v.room = view[u].room /\ v.fetches = view[u].fetches /\ v.composing = view[u].composing
        /\ v.showing = view[u].showing /\ v.queue = Append(view[u].queue, s) /\ v.list = view[u].list
        /\ v.unread = view[u].unread
    BY <1>3, <1>6 DEF Views
  <2>2. \A i \in DOMAIN v.queue : Old(view[u].queue, v.queue[i]) \/ v.queue[i] = s
    BY <1>3, <1>4, <2>1, Sequences
  <2>3. Tidy(view[u]) => Tidy(v)
    BY <1>4, <2>1, <2>2 DEF Tidy, Old
  <2>. QED  BY <1>1, <1>2, <2>3, ShowingOne DEF Showing
<1>7. ASSUME NEW list \in Seq(Entries), v = [view[u] EXCEPT !.list = list], Len(list) = Len(view[u].list),
             \A i \in DOMAIN list : list[i].msg = view[u].list[i].msg
      PROVE  Tidy(view[u]) => Tidy(v)
  <2>1. /\ v.room = view[u].room /\ v.fetches = view[u].fetches /\ v.composing = view[u].composing
        /\ v.showing = view[u].showing /\ v.queue = view[u].queue /\ v.list = list
        /\ v.unread = view[u].unread
    BY <1>3, <1>7 DEF Views
  <2>2. DOMAIN list = DOMAIN view[u].list
    BY <1>3, <1>7
  <2>. QED  BY <1>7, <2>1, <2>2 DEF Tidy
<1>. QED  BY <1>1, <1>2, <1>5, <1>6, <1>7, ShowingOne DEF Showing, s

LEMMA ShowMessageShowing ==
    ASSUME Types, Sound, Showing, NEW u \in Users, NEW s, ShowMessage(u, s)
    PROVE  Showing'
<1>1. /\ s \in view[u].showing /\ s \in Sights /\ UNCHANGED <<sent, note>>
      /\ s.msg \in Messages /\ s.msg \in Nat
  <2>1. s \in view[u].showing /\ s \in Sights /\ UNCHANGED <<sent, note>>
    BY ShowMessageDoes
  <2>. QED  BY <2>1 DEF Sound, ViewSound, InChannel, Sights
<1>2. PICK list \in Seq(Entries) :
        /\ Turns(u, Shows(u, s, list))
        /\ ~Belongs(s) => list = view[u].list
        /\ Belongs(s) => list = Append(view[u].list, Entry(s.msg, FALSE, "none"))
  BY ShowMessageDoes
<1>3. PICK v : v = Shows(u, s, list)
  OBVIOUS
<1>4. view[u] \in Views /\ v \in Views /\ Turns(u, v) /\ view[u].list \in Seq(Entries)
  BY <1>2, <1>3 DEF Types, Turns, Views
<1>5. /\ v.room = view[u].room /\ v.fetches = view[u].fetches /\ v.composing = view[u].composing
      /\ v.showing = view[u].showing \ {s} /\ v.queue = view[u].queue /\ v.list = list
      /\ v.unread = Counted(u, s)
  BY <1>3, <1>4 DEF Shows, Views
<1>6. PICK x : x = Entry(s.msg, FALSE, "none")
  OBVIOUS
<1>7. x \in Entries /\ x.msg = s.msg
  BY <1>1, <1>6, EntryTypes DEF EntryOf
<1>8. \A i \in DOMAIN list : Old(view[u].list, list[i]) \/ (Belongs(s) /\ list[i] = x)
  <2>1. CASE Belongs(s)
    <3>1. list = Append(view[u].list, x)
      BY <1>2, <1>6, <2>1
    <3>2. \A i \in DOMAIN list : Old(view[u].list, list[i]) \/ list[i] = x
      BY <1>4, <1>7, <3>1, ListGrows
    <3>. QED  BY <2>1, <3>2
  <2>2. CASE ~Belongs(s)
    BY <1>2, <2>2 DEF Old
  <2>. QED  BY <2>1, <2>2
<1>9. \A r \in Rooms : Counted(u, s)[r] = view[u].unread[r] \/ (r = RoomOf(s.msg) /\ ~Belongs(s))
  BY <1>1, CountedDoes
<1>10. view[u].room \in Rooms
  BY <1>4 DEF Views
<1>11. ASSUME Tidy(view[u]) PROVE Tidy(v)
  <2>1. s.room = view[u].room
    BY <1>1, <1>11 DEF Tidy
  <2>2. v.unread[v.room] = 0
    BY <1>5, <1>9, <1>10, <1>11, <2>1 DEF Tidy, Belongs
  <2>3. \A i \in DOMAIN list : \/ \E k \in DOMAIN view[u].list : view[u].list[k].msg = list[i].msg
                               \/ RoomOf(list[i].msg) = view[u].room
    BY <1>7, <1>8, <2>1 DEF Old, Belongs
  <2>. QED  BY <1>5, <1>11, <2>2, <2>3 DEF Tidy
<1>. QED  BY <1>1, <1>4, <1>11, ShowingOne DEF Showing

LEMMA ShowDirectShowing ==
    ASSUME Types, Sound, Showing, NEW u \in Users, ShowDirect(u)
    PROVE  Showing'
<1>1. /\ view[u].queue # <<>> /\ \A w \in Users \ {u} : note'[w] = note[w]
      /\ sent' = sent
  BY ShowDirectDoes
<1>2. PICK s \in Sights, list \in Seq(Entries), events \in Seq(Events) :
        /\ s = view[u].queue[1] /\ 1 \in DOMAIN view[u].queue
        /\ Turns(u, ShowsDirect(u, s, list))
        /\ \/ list = view[u].list
           \/ list = Append(view[u].list, Entry(s.msg, TRUE, "acknowledged"))
        /\ Emit(u, events)
        /\ \A i \in DOMAIN events :
             /\ events[i].msg = s.msg
             /\ events[i].type = "ack" \/ (events[i].type = "read" /\ Belongs(s))
        /\ note'[u] = [note[u] EXCEPT !.shown = @ \cup {s.msg}]
  BY ShowDirectDoes
<1>3. PICK v : v = ShowsDirect(u, s, list)
  OBVIOUS
<1>4. /\ view[u] \in Views /\ v \in Views /\ Turns(u, v) /\ view[u].list \in Seq(Entries)
      /\ view[u].queue \in Seq(Sights)
  BY <1>2, <1>3 DEF Types, Turns, Views
<1>5. /\ v.room = view[u].room /\ v.fetches = view[u].fetches /\ v.composing = view[u].composing
      /\ v.showing = view[u].showing /\ v.queue = Tail(view[u].queue) /\ v.list = list
      /\ v.unread = Counted(u, s)
  BY <1>3, <1>4 DEF ShowsDirect, Views
<1>6. /\ InDirect(s.msg) /\ s.msg \in Messages /\ s.msg \in Nat /\ RoomOf(s.msg) \notin Channels
  <2>1. InDirect(s.msg) /\ s.msg \in Nat
    BY <1>2 DEF Sound, ViewSound, Sights
  <2>. QED  BY <2>1, Kinds DEF InDirect
<1>7. PICK x : x = Entry(s.msg, TRUE, "acknowledged")
  OBVIOUS
<1>8. x \in Entries /\ x.msg = s.msg
  BY <1>6, <1>7, EntryTypes DEF EntryOf
<1>9. list = view[u].list \/ list = Append(view[u].list, x)
  BY <1>2, <1>7
<1>10. \A i \in DOMAIN list : Old(view[u].list, list[i]) \/ list[i].msg = s.msg
  <2>1. \A i \in DOMAIN list : Old(view[u].list, list[i]) \/ list[i] = x
    <3>1. CASE list = view[u].list
      BY <3>1 DEF Old
    <3>2. CASE list = Append(view[u].list, x)
      BY <1>4, <1>8, <3>2, ListGrows
    <3>. QED  BY <1>9, <3>1, <3>2
  <2>. QED  BY <1>8, <2>1
<1>11. \A r \in Rooms : Counted(u, s)[r] = view[u].unread[r] \/ (r = RoomOf(s.msg) /\ ~Belongs(s))
  BY <1>6, CountedDoes
<1>12. view[u].room \in Rooms /\ \A i \in DOMAIN Tail(view[u].queue) : Old(view[u].queue, Tail(view[u].queue)[i])
  BY <1>1, <1>4, Sequences DEF Views
<1>13. ASSUME Tidy(view[u]) PROVE Tidy(v)
  <2>1. s.room = view[u].room
    BY <1>2, <1>13 DEF Tidy
  <2>2. v.unread[v.room] = 0
    BY <1>5, <1>11, <1>12, <1>13, <2>1 DEF Tidy, Belongs
  <2>3. \A i \in DOMAIN list : \/ \E k \in DOMAIN view[u].list : view[u].list[k].msg = list[i].msg
                               \/ RoomOf(list[i].msg) \notin Channels
    BY <1>6, <1>10 DEF Old
  <2>4. \A i \in DOMAIN v.queue : v.queue[i].room = v.room
    BY <1>5, <1>12, <1>13 DEF Old, Tidy
  <2>. QED  BY <1>5, <1>13, <2>2, <2>3, <2>4 DEF Tidy
<1>14. note'[u].blurred = note[u].blurred
  <2>1. note[u] \in Notes
    BY DEF Types
  <2>. QED  BY <1>2, <2>1 DEF Notes
<1>. QED  BY <1>1, <1>4, <1>13, <1>14, ShowingOne DEF Showing

LEMMA DropCopyShowing ==
    ASSUME Types, Sound, Showing, NEW u \in Users, DropCopy(u)
    PROVE  Showing'
<1>1. /\ Turns(u, [view[u] EXCEPT !.queue = Tail(@)]) /\ view[u].queue # <<>>
      /\ UNCHANGED <<sent, note>>
  BY DropCopyDoes
<1>2. PICK v : v = [view[u] EXCEPT !.queue = Tail(@)]
  OBVIOUS
<1>3. /\ view[u] \in Views /\ v \in Views /\ Turns(u, v) /\ view[u].queue \in Seq(Sights)
  BY <1>1, <1>2 DEF Types, Turns, Views
<1>4. /\ v.room = view[u].room /\ v.fetches = view[u].fetches /\ v.composing = view[u].composing
      /\ v.showing = view[u].showing /\ v.queue = Tail(view[u].queue) /\ v.list = view[u].list
      /\ v.unread = view[u].unread
  BY <1>2, <1>3 DEF Views
<1>5. \A i \in DOMAIN Tail(view[u].queue) : Old(view[u].queue, Tail(view[u].queue)[i])
  BY <1>1, <1>3, Sequences
<1>6. Tidy(view[u]) => Tidy(v)
  BY <1>4, <1>5 DEF Tidy, Old
<1>. QED  BY <1>1, <1>3, <1>6, ShowingOne DEF Showing

-----------------------------------------------------------------------------
(* Single: a channel message is in one place before it is stored or cast.  *)

\* Why m may be shown by somebody after a step.
Loses(m) ==
    \/ InDirect(m)
    \/ \E h \in Handlers : job[h].at \in Sending /\ job[h].msg = m /\ job'[h].at # "insert"
    \/ \E u \in Users : ~online[u] /\ m \in view[u].composing /\ m \notin view'[u].composing

Arrivals ==
    /\ \A m \in stored' : m \in stored \/ Loses(m)
    /\ \A u \in Users : \A i \in DOMAIN view'[u].list :
          \E m : m = view'[u].list[i].msg /\ (InList(u, m) \/ m \in stored \/ Shown(u, m) \/ Loses(m))
    /\ \A u \in Users : \A i \in DOMAIN inbox'[u] : inbox'[u][i].type = "message" =>
          \E m : m = inbox'[u][i].msg /\ (Coming(u, m) \/ Loses(m))
    /\ \A u \in Users : \A s \in view'[u].showing : Shown(u, s.msg) \/ Coming(u, s.msg)

\* Of the events of u, the first d[u] are gone; a message is sent when it is encrypted.
SendsCarried(d) == \A u \in Users : \A i \in DOMAIN out'[u] : out'[u][i].type = "send" =>
    \/ i + d[u] \in DOMAIN out[u] /\ out'[u][i] = out[u][i + d[u]]
    \/ /\ i + d[u] = Len(out[u]) + 1 /\ online[u]
       /\ \E m \in view[u].composing : /\ m = out'[u][i].msg /\ RoomOf(m) \in Channels
                                       /\ m \notin view'[u].composing

SendingCarried(d) == \A h \in Handlers : job'[h].at \in Sending =>
    \/ /\ job[h].at \in Sending /\ job'[h].msg = job[h].msg
       /\ job'[h].at = "insert" => job[h].at = "insert"
    \/ /\ job'[h].at = "insert" /\ \A g \in Handlers \ {h} : job'[g] = job[g]
       /\ \E u \in Users : d[u] = 1 /\ 1 \in DOMAIN out[u] /\ Sends(u, 1, job'[h].msg)

LEMMA UnstoredStays ==
    ASSUME Arrivals, NEW m, Unstored(m), ~Loses(m)
    PROVE  Unstored(m)'
<1>1. m \notin stored'
  BY DEF Arrivals, Unstored
<1>2. ASSUME NEW u \in Users PROVE ~InList(u, m)' /\ ~Coming(u, m)' /\ ~Shown(u, m)'
  <2>1. ~InList(u, m)'
    BY DEF InList, Arrivals, Unstored
  <2>2. ~Coming(u, m)'
    BY DEF Coming, Brings, Arrivals, Unstored
  <2>3. ~Shown(u, m)'
    BY DEF Shown, Arrivals, Unstored
  <2>. QED  BY <2>1, <2>2, <2>3
<1>. QED  BY <1>1, <1>2 DEF Unstored

\* Only its author composes and sends a message, and only a channel message is sent here.
LEMMA Authors ==
    ASSUME Types, Sound
    PROVE  /\ \A u \in Users : \A m \in view[u].composing : m \in Messages /\ By(m) = u
           /\ \A u \in Users : \A i \in DOMAIN out[u] : \A m : Sends(u, i, m) => InChannel(m) /\ By(m) = u
           /\ \A h \in Handlers : job[h].at \in Sending => InChannel(job[h].msg)
           /\ \A m : InChannel(m) => m \in Messages /\ RoomOf(m) \in Channels /\ ~InDirect(m)
<1>1. \A u \in Users : \A m \in view[u].composing : m \in Messages /\ By(m) = u
  BY DEF Sound, ViewSound
<1>2. \A u \in Users : \A i \in DOMAIN out[u] : \A m : Sends(u, i, m) => InChannel(m) /\ By(m) = u
  BY DEF Sound, EventSound, Sends
<1>3. \A h \in Handlers : job[h].at \in Sending => InChannel(job[h].msg)
  BY DEF Sound, JobSound, Sending
<1>4. \A m : InChannel(m) => m \in Messages /\ RoomOf(m) \in Channels /\ ~InDirect(m)
  BY Kinds DEF InChannel, InDirect
<1>. QED  BY <1>1, <1>2, <1>3, <1>4

LEMMA SingleStep ==
    ASSUME Types, Types', Sound, Single, Grown, NEW d \in [Users -> Nat],
           \A u \in Users : view'[u].composing \subseteq view[u].composing,
           SendsCarried(d), SendingCarried(d), Arrivals
    PROVE  Single'
<1>1. /\ \A u \in Users : \A m \in view[u].composing : m \in Messages /\ By(m) = u
      /\ \A u \in Users : \A i \in DOMAIN out[u] : \A m : Sends(u, i, m) => InChannel(m) /\ By(m) = u
      /\ \A h \in Handlers : job[h].at \in Sending => InChannel(job[h].msg)
      /\ \A m : InChannel(m) => m \in Messages /\ RoomOf(m) \in Channels /\ ~InDirect(m)
      /\ \A m \in Messages : RoomOf(m)' = RoomOf(m)
  BY Authors, Grows
<1>2. /\ \A u \in Users : \A m \in view[u].composing : RoomOf(m) \in Channels =>
           /\ Unstored(m) /\ NoJob(m) /\ ~InDirect(m)
           /\ \A w \in Users : \A i \in DOMAIN out[w] : ~Sends(w, i, m)
      /\ \A u \in Users : \A i \in DOMAIN out[u] : \A m : Sends(u, i, m) =>
           /\ Unstored(m) /\ NoJob(m) /\ ~InDirect(m) /\ InChannel(m)
           /\ \A w \in Users : \A k \in DOMAIN out[w] : Sends(w, k, m) => w = u /\ k = i
           /\ \A w \in Users : m \notin view[w].composing
  <2>1. \A u \in Users : \A m \in view[u].composing : RoomOf(m) \in Channels =>
           /\ Unstored(m) /\ NoJob(m) /\ ~InDirect(m)
           /\ \A w \in Users : \A i \in DOMAIN out[w] : ~Sends(w, i, m)
    BY <1>1 DEF Single, InChannel
  <2>2. \A u \in Users : \A i \in DOMAIN out[u] : \A m : Sends(u, i, m) =>
           /\ Unstored(m) /\ NoJob(m) /\ ~InDirect(m) /\ InChannel(m)
           /\ \A w \in Users : \A k \in DOMAIN out[w] : Sends(w, k, m) => w = u /\ k = i
    BY <1>1 DEF Single, Sends
  <2>. QED  BY <1>1, <2>1, <2>2
<1>3. ASSUME NEW h \in Handlers, job'[h].at \in Sending, NEW m, m = job'[h].msg
      PROVE  /\ \/ job[h].at \in Sending /\ job[h].msg = m /\ (job'[h].at = "insert" => job[h].at = "insert")
                \/ /\ job'[h].at = "insert" /\ \A g \in Handlers \ {h} : job'[g] = job[g]
                   /\ \E u \in Users : d[u] = 1 /\ 1 \in DOMAIN out[u] /\ Sends(u, 1, m)
             /\ \A u \in Users : m \in view[u].composing => RoomOf(m) \notin Channels
  <2>1. \/ job[h].at \in Sending /\ job[h].msg = m /\ (job'[h].at = "insert" => job[h].at = "insert")
        \/ /\ job'[h].at = "insert" /\ \A g \in Handlers \ {h} : job'[g] = job[g]
           /\ \E u \in Users : d[u] = 1 /\ 1 \in DOMAIN out[u] /\ Sends(u, 1, m)
    BY <1>3 DEF SendingCarried
  <2>. QED  BY <2>1, <1>2 DEF NoJob
<1>4. ASSUME NEW u \in Users, NEW m \in view'[u].composing, RoomOf(m)' \in Channels
      PROVE  Unstored(m)' /\ NoJob(m)' /\ \A i \in DOMAIN out'[u] : ~Sends(u, i, m)'
  <2>1. m \in view[u].composing /\ RoomOf(m) \in Channels
    BY <1>1, <1>4
  <2>2. ~Loses(m)
    BY <1>1, <1>2, <1>4, <2>1 DEF Loses, NoJob
  <2>3. Unstored(m)'
    BY <1>2, <2>1, <2>2, UnstoredStays
  <2>4. NoJob(m)'
    BY <1>3, <2>1 DEF NoJob
  <2>5. \A i \in DOMAIN out'[u] : ~Sends(u, i, m)'
    BY <1>2, <1>4, <2>1 DEF SendsCarried, Sends
  <2>. QED  BY <2>3, <2>4, <2>5
<1>5. ASSUME NEW u \in Users, NEW i \in DOMAIN out'[u], out'[u][i].type = "send",
             NEW m, m = out'[u][i].msg
      PROVE  /\ Unstored(m)' /\ NoJob(m)'
             /\ \A k \in DOMAIN out'[u] : Sends(u, k, m)' => k = i
  <2>0. i \in Nat /\ i >= 1 /\ d[u] \in Nat /\ \A k \in DOMAIN out'[u] : k \in Nat
    <3>1. out'[u] \in Seq(Events)
      BY DEF Types
    <3>. QED  BY <3>1
  <2>1. CASE i + d[u] \in DOMAIN out[u] /\ out'[u][i] = out[u][i + d[u]]
    <3>1. Sends(u, i + d[u], m)
      BY <1>5, <2>1 DEF Sends
    <3>2. ~Loses(m)
      BY <1>1, <1>2, <2>1, <3>1 DEF Loses, NoJob
    <3>3. Unstored(m)'
      BY <1>2, <2>1, <3>1, <3>2, UnstoredStays
    <3>4. NoJob(m)'
      <4>1. ASSUME NEW h \in Handlers, job'[h].at \in Sending, job'[h].msg = m PROVE FALSE
        <5>1. \/ job[h].at \in Sending /\ job[h].msg = m
              \/ \E w \in Users : d[w] = 1 /\ 1 \in DOMAIN out[w] /\ Sends(w, 1, m)
          BY <1>3, <4>1
        <5>2. PICK w \in Users : d[w] = 1 /\ 1 \in DOMAIN out[w] /\ Sends(w, 1, m)
          BY <1>2, <2>1, <3>1, <5>1 DEF NoJob
        <5>3. d[u] = 1 /\ i + d[u] = 1
          BY <1>2, <2>1, <3>1, <5>2
        <5>. QED  BY <2>0, <5>3
      <4>. QED  BY <4>1 DEF NoJob
    <3>5. ASSUME NEW k \in DOMAIN out'[u], Sends(u, k, m)' PROVE k = i
      <4>1. out'[u][k].type = "send" /\ out'[u][k].msg = m
        BY <3>5 DEF Sends
      <4>2. \/ k + d[u] \in DOMAIN out[u] /\ out'[u][k] = out[u][k + d[u]]
            \/ m \in view[u].composing
        BY <4>1 DEF SendsCarried
      <4>3. k + d[u] = i + d[u]
        BY <1>2, <2>1, <3>1, <4>1, <4>2 DEF Sends
      <4>. QED  BY <2>0, <4>3
    <3>. QED  BY <3>3, <3>4, <3>5
  <2>2. CASE /\ i + d[u] = Len(out[u]) + 1 /\ online[u]
             /\ m \in view[u].composing /\ RoomOf(m) \in Channels
    <3>1. Unstored(m) /\ NoJob(m) /\ ~InDirect(m)
          /\ \A w \in Users : \A k \in DOMAIN out[w] : ~Sends(w, k, m)
      BY <1>2, <2>2
    <3>2. ~Loses(m)
      BY <1>1, <2>2, <3>1 DEF Loses, NoJob
    <3>3. Unstored(m)'
      BY <3>1, <3>2, UnstoredStays
    <3>4. NoJob(m)'
      BY <1>3, <3>1 DEF NoJob
    <3>5. ASSUME NEW k \in DOMAIN out'[u], Sends(u, k, m)' PROVE k = i
      <4>1. out'[u][k].type = "send" /\ out'[u][k].msg = m
        BY <3>5 DEF Sends
      <4>2. \/ k + d[u] \in DOMAIN out[u] /\ out'[u][k] = out[u][k + d[u]]
            \/ k + d[u] = Len(out[u]) + 1
        BY <4>1 DEF SendsCarried
      <4>3. k + d[u] = i + d[u]
        BY <2>2, <3>1, <4>1, <4>2 DEF Sends
      <4>. QED  BY <2>0, <4>3
    <3>. QED  BY <3>3, <3>4, <3>5
  <2>. QED  BY <1>5, <2>1, <2>2 DEF SendsCarried
<1>6. ASSUME NEW h \in Handlers, job'[h].at = "insert", NEW m, m = job'[h].msg
      PROVE  Unstored(m)'
  <2>1. CASE job[h].at = "insert" /\ job[h].msg = m
    <3>1. Unstored(m) /\ InChannel(m) /\ ~InDirect(m) /\ RoomOf(m) \in Channels /\ job[h].at \in Sending
      BY <1>1, <2>1 DEF Single, Sending
    <3>2. \A g \in Handlers : job[g].at \in Sending /\ job[g].msg = m => g = h
      BY <2>1, <3>1 DEF Single
    <3>3. \A u \in Users : m \notin view[u].composing
      BY <1>2, <2>1, <3>1 DEF NoJob
    <3>4. ~Loses(m)
      BY <1>6, <3>1, <3>2, <3>3 DEF Loses
    <3>. QED  BY <3>1, <3>4, UnstoredStays
  <2>2. ASSUME NEW u \in Users, 1 \in DOMAIN out[u], Sends(u, 1, m)
        PROVE  Unstored(m)'
    <3>1. ~Loses(m)
      BY <1>2, <2>2 DEF Loses, NoJob
    <3>. QED  BY <1>2, <2>2, <3>1, UnstoredStays
  <2>. QED  BY <1>3, <1>6, <2>1, <2>2 DEF Sending
<1>7. ASSUME NEW h \in Handlers, NEW g \in Handlers, job'[h].at \in Sending, job'[g].at \in Sending,
             job'[h].msg = job'[g].msg
      PROVE  h = g
  <2>. DEFINE m == job'[h].msg
  <2>. HIDE DEF m
  <2>0. m = job'[h].msg /\ m = job'[g].msg
    BY <1>7 DEF m
  <2>1. \/ job[h].at \in Sending /\ job[h].msg = m
        \/ (\A k \in Handlers \ {h} : job'[k] = job[k]) /\ NoJob(m)
    BY <1>2, <1>3, <1>7, <2>0
  <2>2. \/ job[g].at \in Sending /\ job[g].msg = m
        \/ (\A k \in Handlers \ {g} : job'[k] = job[k]) /\ NoJob(m)
    BY <1>2, <1>3, <1>7, <2>0
  <2>. QED  BY <1>7, <2>0, <2>1, <2>2 DEF NoJob, Single
<1>. QED  BY <1>4, <1>5, <1>6, <1>7 DEF Single

-----------------------------------------------------------------------------
(* Awaits: where a message is that a browser waits for.                    *)

StillAttends(u) ==
    /\ online'[u] = online[u] /\ view'[u].room = view[u].room
    /\ view'[u].fetches = view[u].fetches /\ view'[u].joining = view[u].joining
    /\ note'[u].torn = note[u].torn /\ note'[u].deaf = note[u].deaf
    /\ \A h \in Handlers : job'[h].at \in Moving /\ job'[h].by = u => h \in Switching(u)
    /\ \A i \in DOMAIN out'[u] :
          Old(out[u], out'[u][i]) \/ out'[u][i].type \notin {"switch", "join"}

\* d events of u are gone.
InboxKept(u, m, d) == \A i \in Nat :
    i \in DOMAIN inbox'[u] /\ inbox'[u][i].type = "message" /\ inbox'[u][i].msg = m
        <=> i + d \in DOMAIN inbox[u] /\ Brings(u, i + d, m)
ShowingKept(u, m) == \A s : s.msg = m => (s \in view'[u].showing <=> s \in view[u].showing)
ListKept(u, m) == \A i :
    i \in DOMAIN view'[u].list /\ view'[u].list[i].msg = m
        <=> i \in DOMAIN view[u].list /\ view[u].list[i].msg = m
CastKept(m) == \A h \in Handlers :
    job'[h].at = "cast" /\ job'[h].msg = m <=> job[h].at = "cast" /\ job[h].msg = m

LEMMA AttentiveStays ==
    ASSUME NEW u \in Users, NEW r, Attentive(u, r), StillAttends(u)
    PROVE  Attentive(u, r)'
<1>1. Switching(u)' = {}
  BY DEF Attentive, StillAttends, Switching
<1>2. \A i \in DOMAIN out'[u] : out'[u][i].type \notin {"switch", "join"}
  BY DEF Attentive, StillAttends, Old
<1>. QED  BY <1>1, <1>2 DEF Attentive, StillAttends

LEMMA AwaitedStays ==
    ASSUME Types, Types', Sound, Grown, stored \subseteq stored', NEW u \in Users, NEW m, Awaited(u, m),
           StillAttends(u), CastKept(m), NEW d \in {0, 1}, InboxKept(u, m, d), ShowingKept(u, m), ListKept(u, m)
    PROVE  Awaited(u, m)'
<1>1. /\ inbox[u] \in Seq(News) /\ inbox'[u] \in Seq(News)
  BY DEF Types
<1>2. /\ \A i \in DOMAIN inbox'[u] : i \in Nat /\ i >= 1
      /\ \A i \in DOMAIN inbox[u] : i \in Nat /\ i >= 1
  BY <1>1
<1>3. ToCast(m)' <=> ToCast(m)
  BY DEF ToCast, CastKept
<1>4. Shown(u, m)' <=> Shown(u, m)
  BY DEF Shown, ShowingKept
<1>5. /\ InList(u, m)' <=> InList(u, m)
      /\ ListedOnce(u, m) => ListedOnce(u, m)'
  BY DEF InList, ListedOnce, ListKept
<1>6. /\ Coming(u, m)' => Coming(u, m)
      /\ ComesOnce(u, m) => ComesOnce(u, m)'
  <2>1. \A i \in DOMAIN inbox'[u] : Brings(u, i, m)' => i + d \in DOMAIN inbox[u] /\ Brings(u, i + d, m)
    BY <1>2 DEF InboxKept, Brings
  <2>2. Coming(u, m)' => Coming(u, m)
    BY <2>1 DEF Coming
  <2>3. ASSUME ComesOnce(u, m), NEW i \in DOMAIN inbox'[u], NEW k \in DOMAIN inbox'[u],
               Brings(u, i, m)', Brings(u, k, m)'
        PROVE  i = k
    <3>1. i + d = k + d
      BY <2>1, <2>3 DEF ComesOnce
    <3>. QED  BY <1>2, <3>1
  <2>. QED  BY <2>2, <2>3 DEF ComesOnce
<1>7. Coming(u, m) => Coming(u, m)'
  <2>1. ASSUME NEW k \in DOMAIN inbox[u], Brings(u, k, m)
        PROVE  Coming(u, m)'
    <3>1. PICK i \in Nat : i + d = k
      BY <1>2, <2>1
    <3>2. i \in DOMAIN inbox'[u] /\ Brings(u, i, m)'
      BY <2>1, <3>1 DEF InboxKept, Brings
    <3>. QED  BY <3>2 DEF Coming
  <2>. QED  BY <2>1 DEF Coming
<1>8. Stage(u, m)'
  BY <1>3, <1>4, <1>5, <1>6, <1>7 DEF Stage, Awaited
<1>9. Attentive(u, view[u].room)'
  <2>1. PICK r : r = view[u].room
    OBVIOUS
  <2>2. Attentive(u, r)'
    BY <2>1, AttentiveStays DEF Awaited
  <2>. QED  BY <2>1, <2>2 DEF StillAttends, Attentive
<1>10. RoomOf(m)' = RoomOf(m) /\ m \in stored'
  <2>1. m \in Messages
    BY DEF Awaited, Sound, InChannel
  <2>. QED  BY <2>1, Grows DEF Awaited
<1>11. \A s \in view'[u].showing : s.msg = m => s.room = RoomOf(m)
  BY DEF ShowingKept, Awaited
<1>. QED  BY <1>8, <1>9, <1>10, <1>11 DEF Awaited, StillAttends

\* What a step leaves as it is.
LEMMA Kept ==
    /\ \A u, m : inbox'[u] = inbox[u] => InboxKept(u, m, 0)
    /\ \A u, m : view'[u].showing = view[u].showing => ShowingKept(u, m)
    /\ \A u, m : view'[u].list = view[u].list => ListKept(u, m)
    /\ \A m : job' = job => CastKept(m)
<1>1. ASSUME NEW u, NEW m, inbox'[u] = inbox[u] PROVE InboxKept(u, m, 0)
  <2>1. \A i \in Nat : i + 0 = i
    OBVIOUS
  <2>. QED  BY <1>1, <2>1 DEF InboxKept, Brings
<1>2. \A u, m : view'[u].showing = view[u].showing => ShowingKept(u, m)
  BY DEF ShowingKept
<1>3. \A u, m : view'[u].list = view[u].list => ListKept(u, m)
  BY DEF ListKept
<1>4. \A m : job' = job => CastKept(m)
  BY DEF CastKept
<1>. QED  BY <1>1, <1>2, <1>3, <1>4

LEMMA AwaitsStep ==
    ASSUME Types, Types', Sound, Awaits, Grown, stored \subseteq stored',
           \A u \in Users : \A m \in note'[u].awaited :
             \/ Awaited(u, m)'
             \/ /\ m \in note[u].awaited /\ StillAttends(u)
                /\ CastKept(m) /\ ShowingKept(u, m) /\ ListKept(u, m)
                /\ \E d \in {0, 1} : InboxKept(u, m, d)
    PROVE  Awaits'
<1>1. ASSUME NEW u \in Users, NEW m \in note'[u].awaited, m \in note[u].awaited, StillAttends(u),
             CastKept(m), ShowingKept(u, m), ListKept(u, m), \E d \in {0, 1} : InboxKept(u, m, d)
      PROVE  Awaited(u, m)'
  <2>1. PICK d \in {0, 1} : InboxKept(u, m, d)
    BY <1>1
  <2>2. Awaited(u, m)
    BY <1>1 DEF Awaits
  <2>. QED  BY <1>1, <2>1, <2>2, AwaitedStays
<1>. QED  BY <1>1 DEF Awaits

-----------------------------------------------------------------------------
(* Located: where the moves lead.                                          *)

\* What leads to g, before the position j of out, still does before j1 of out'.
LeadsOn(u, j, j1, g, d) ==
    /\ \A k \in DOMAIN out'[u] : k > 0 /\ k \in Nat
    /\ \A k \in DOMAIN out[u] : k \in Nat
    /\ \A i \in DOMAIN out'[u] : i < j1 /\ Moves(out'[u][i]) /\ out'[u][i].room # g =>
          /\ i + d \in DOMAIN out[u] /\ i + d < j
          /\ out[u][i + d] = out'[u][i]
    /\ \A k \in DOMAIN out[u] : k < j /\ out[u][k].type = "switch" /\ out[u][k].room = g =>
          \E i \in DOMAIN out'[u] : i + d = k /\ i < j1 /\ out'[u][i] = out[u][k]
    /\ \A h \in Handlers : job'[h].by = u /\ job'[h].at \in Moving =>
          job[h].by = u /\ job[h].at \in Moving /\ job[h].room = job'[h].room
    /\ \A h \in Switching(u) : job[h].at \in SwitchJobs /\ job[h].room = g =>
          job'[h].by = u /\ job'[h].at \in SwitchJobs /\ job'[h].room = g

\* A hash that is gone takes no one anywhere.
LEMMA WithinStays ==
    ASSUME NEW u, members'[u] = members[u], home'[u] \in {None, home[u]}, u \in astray' <=> u \in astray
    PROVE  /\ \A g : Within(u, g) => Within(u, g)'
           /\ Somewhere(u) => Somewhere(u)'
<1>1. \A g : Within(u, g) => Within(u, g)'
  BY DEF Within
<1>. QED  BY <1>1 DEF Somewhere

LEMMA PathKept ==
    ASSUME NEW u \in Users, NEW j, NEW j1, NEW g, NEW d \in Nat, PathTo(u, j, g),
           LeadsOn(u, j, j1, g, d), Within(u, g) => Within(u, g)'
    PROVE  PathTo(u, j1, g)'
<1>1. ASSUME NEW i \in Nat, NEW i1 \in Nat, i1 + d = i \/ i1 = 0, Corrected(u, i, j, g)
      PROVE  Corrected(u, i1, j1, g)'
  <2>1. PICK k \in DOMAIN out[u] : i < k /\ k < j /\ out[u][k].type = "switch" /\ out[u][k].room = g
    BY <1>1 DEF Corrected
  <2>2. PICK k1 \in DOMAIN out'[u] : k1 + d = k /\ k1 < j1 /\ out'[u][k1] = out[u][k]
    BY <2>1 DEF LeadsOn
  <2>3. i1 < k1
    BY <1>1, <2>1, <2>2 DEF LeadsOn
  <2>. QED  BY <2>1, <2>2, <2>3 DEF Corrected
<1>2. ASSUME NEW i \in DOMAIN out'[u], i < j1, Moves(out'[u][i]), out'[u][i].room # g
      PROVE  Corrected(u, i, j1, g)'
  <2>1. /\ i + d \in DOMAIN out[u] /\ i + d < j /\ out[u][i + d] = out'[u][i]
    BY <1>2 DEF LeadsOn
  <2>2. Corrected(u, i + d, j, g)
    BY <1>2, <2>1 DEF PathTo
  <2>. QED  BY <1>1, <2>1, <2>2 DEF LeadsOn
<1>3. ASSUME NEW h \in Handlers, job'[h].by = u, job'[h].at \in Moving,
             job'[h].room \in Channels, job'[h].room # g
      PROVE  Corrected(u, 0, j1, g)'
  <2>1. Corrected(u, 0, j, g)
    BY <1>3 DEF PathTo, Switching, LeadsOn
  <2>. QED  BY <1>1, <2>1
<1>4. ASSUME ~Within(u, g)'
      PROVE  \/ Corrected(u, 0, j1, g)'
             \/ \E h \in Handlers : /\ job'[h].by = u /\ job'[h].at \in Moving
                                    /\ job'[h].at \in SwitchJobs /\ job'[h].room = g
  <2>1. CASE Corrected(u, 0, j, g)
    BY <1>1, <2>1
  <2>2. CASE \E h \in Switching(u) : job[h].at \in SwitchJobs /\ job[h].room = g
    BY <2>2 DEF Switching, SwitchJobs, Moving, LeadsOn
  <2>. QED  BY <1>4, <2>1, <2>2 DEF PathTo
<1>. QED  BY <1>2, <1>3, <1>4 DEF PathTo, Switching

\* The moves of u are what they were; d of the events before them are gone.
MovesKept(u, d) ==
    /\ \A i \in Nat : i \in DOMAIN out'[u] /\ Moves(out'[u][i])
                        <=> i + d \in DOMAIN out[u] /\ Moves(out[u][i + d])
    /\ \A i \in DOMAIN out'[u] : Moves(out'[u][i]) => out'[u][i] = out[u][i + d]
    /\ Len(out[u]) <= Len(out'[u]) + d
HandlersKept(u) == \A h \in Handlers :
    \/ /\ job'[h].at = job[h].at /\ job'[h].by = job[h].by /\ job'[h].room = job[h].room
    \/ /\ job[h].at \notin Moving \/ job[h].by # u
       /\ job'[h].at \notin Moving \/ job'[h].by # u

LEMMA PartsStay ==
    ASSUME Types, Types', Sound, NEW u \in Users, NEW d \in {0, 1}, MovesKept(u, d), HandlersKept(u),
           rooms \subseteq rooms', home'[u] \in {None, home[u]}, members'[u] = members[u],
           u \in astray' <=> u \in astray,
           view'[u].channel = view[u].channel
    PROVE  /\ Path(u) => Path(u)'
           /\ Place(u) => Place(u)'
           /\ Told(u) => Told(u)'
           /\ Switching(u)' = Switching(u)
<1>1. /\ out[u] \in Seq(Events) /\ out'[u] \in Seq(Events)
  BY DEF Types
<1>2. /\ Len(out[u]) \in Nat /\ Len(out'[u]) \in Nat
      /\ \A i : i \in DOMAIN out'[u] <=> i \in Nat /\ i > 0 /\ i <= Len(out'[u])
      /\ \A i : i \in DOMAIN out[u] <=> i \in Nat /\ i > 0 /\ i <= Len(out[u])
      /\ \A i \in DOMAIN out[u] : out[u][i] \in Events
  BY <1>1
<1>3. /\ \A i \in DOMAIN out'[u] : Moves(out'[u][i]) =>
            i + d \in DOMAIN out[u] /\ Moves(out[u][i + d]) /\ out'[u][i] = out[u][i + d]
      /\ \A k \in DOMAIN out[u] : Moves(out[u][k]) =>
            \E i \in DOMAIN out'[u] : i + d = k /\ out'[u][i] = out[u][k]
  <2>1. \A i \in DOMAIN out'[u] : Moves(out'[u][i]) =>
            i + d \in DOMAIN out[u] /\ Moves(out[u][i + d]) /\ out'[u][i] = out[u][i + d]
    BY <1>2 DEF MovesKept
  <2>2. ASSUME NEW k \in DOMAIN out[u], Moves(out[u][k])
        PROVE  \E i \in DOMAIN out'[u] : i + d = k /\ out'[u][i] = out[u][k]
    <3>0. k - d \in Nat /\ (k - d) + d = k
      BY <1>2, <2>2
    <3>1. PICK i \in Nat : i + d = k
      BY <3>0
    <3>2. i \in DOMAIN out'[u] /\ Moves(out'[u][i])
      BY <2>2, <3>1 DEF MovesKept
    <3>. QED  BY <2>1, <3>1, <3>2
  <2>. QED  BY <2>1, <2>2
<1>4. \A h : h \in Switching(u)' <=> h \in Switching(u)
  BY DEF HandlersKept, Switching
<1>5. \A h \in Switching(u) : /\ job'[h].at = job[h].at /\ job'[h].by = job[h].by
                              /\ job'[h].room = job[h].room
  BY DEF HandlersKept, Switching
<1>w. /\ \A g : Within(u, g) => Within(u, g)'
      /\ Somewhere(u) => Somewhere(u)'
  BY WithinStays
<1>6. ASSUME NEW j, NEW j1, NEW g, j1 \in Nat, j1 + d = j \/ (j = Len(out[u]) + 1 /\ j1 = Len(out'[u]) + 1),
             g \in Channels, PathTo(u, j, g)
      PROVE  PathTo(u, j1, g)'
  <2>1. \A i \in DOMAIN out'[u] : i < j1 /\ Moves(out'[u][i]) /\ out'[u][i].room # g =>
              /\ i + d \in DOMAIN out[u] /\ i + d < j
              /\ out[u][i + d] = out'[u][i]
    BY <1>2, <1>3, <1>6
  <2>2. \A k \in DOMAIN out[u] : k < j /\ out[u][k].type = "switch" /\ out[u][k].room = g =>
              \E i \in DOMAIN out'[u] : i + d = k /\ i < j1 /\ out'[u][i] = out[u][k]
    <3>1. ASSUME NEW k \in DOMAIN out[u], k < j, out[u][k].type = "switch", out[u][k].room = g
          PROVE \E i \in DOMAIN out'[u] : i + d = k /\ i < j1 /\ out'[u][i] = out[u][k]
      <4>1. PICK i \in DOMAIN out'[u] : i + d = k /\ out'[u][i] = out[u][k]
        BY <1>3, <1>6, <3>1 DEF Moves, Switches
      <4>2. i < j1
        BY <1>2, <1>6, <3>1, <4>1
      <4>. QED  BY <4>1, <4>2
    <3>. QED  BY <3>1
  <2>3. \A h \in Handlers : job'[h].by = u /\ job'[h].at \in Moving =>
              job[h].by = u /\ job[h].at \in Moving /\ job[h].room = job'[h].room
    BY <1>4, <1>5 DEF Switching
  <2>4. \A h \in Switching(u) : job[h].at \in SwitchJobs /\ job[h].room = g =>
              job'[h].by = u /\ job'[h].at \in SwitchJobs /\ job'[h].room = g
    BY <1>5 DEF Switching
  <2>5. LeadsOn(u, j, j1, g, d)
    BY <1>2, <2>1, <2>2, <2>3, <2>4 DEF LeadsOn
  <2>. QED  BY <1>6, <1>w, <2>5, PathKept
<1>7. Path(u) => Path(u)'
  <2>1. ASSUME Path(u), NEW j1 \in DOMAIN out'[u], out'[u][j1].type = "join"
        PROVE  PathTo(u, j1, out[u][j1].room)'
    <3>1. PICK j : j = j1 + d /\ j \in DOMAIN out[u] /\ out'[u][j1] = out[u][j]
      BY <1>3, <2>1 DEF Moves
    <3>2. PICK g : g = out[u][j].room
      OBVIOUS
    <3>3. PathTo(u, j, g) /\ g \in Channels
      BY <2>1, <3>1, <3>2 DEF Path, Sound, EventSound
    <3>4. PathTo(u, j1, g)'
      BY <1>2, <1>6, <3>1, <3>3
    <3>. QED  BY <3>1, <3>2, <3>4
  <2>2. ASSUME Path(u) PROVE PathTo(u, Len(out[u]) + 1, view[u].channel)'
    <3>1. PICK j, j1, g : j = Len(out[u]) + 1 /\ j1 = Len(out'[u]) + 1 /\ g = view[u].channel
      OBVIOUS
    <3>2. PathTo(u, j, g) /\ g \in Channels
      BY <2>2, <3>1 DEF Path, Types, Views
    <3>3. PathTo(u, j1, g)'
      BY <1>2, <1>6, <3>1, <3>2
    <3>. QED  BY <3>1, <3>3
  <2>. QED  BY <2>1, <2>2 DEF Path
<1>8. Place(u) => Place(u)'
  <2>1. ASSUME Place(u), NEW i \in DOMAIN out'[u], Switches(out'[u][i]) PROVE out'[u][i].room \in rooms'
    BY <1>3, <2>1 DEF Place, Moves
  <2>2. ASSUME Place(u) PROVE \A h, g \in Switching(u)' : h = g
    BY <1>4, <2>2 DEF Place
  <2>3. ASSUME Place(u), \A h \in Switching(u)' : job'[h].at \notin {"mark", "enter"}
        PROVE  Somewhere(u)'
    BY <1>4, <1>5, <1>w, <2>3 DEF Place
  <2>4. ASSUME Place(u), NEW h \in Switching(u)'
        PROVE  /\ job'[h].at = "mark" => /\ job'[h].room \in members'[u]
                                         /\ u \notin astray' => members'[u] = {job'[h].room}
               /\ job'[h].at = "enter" => home'[u] \in {None, job'[h].room}
               /\ job'[h].at \in JoinJobs => Within(u, job[h].room)'
               /\ job'[h].at = "room" /\ job'[h].room \in Channels => job'[h].room \in rooms'
    BY <1>4, <1>5, <1>w, <2>4 DEF Place
  <2>. QED  BY <2>1, <2>2, <2>3, <2>4 DEF Place
<1>9. Told(u) => Told(u)'
  <2>1. ASSUME NEW h \in Switching(u), job[h].at \in SwitchJobs /\ job[h].room \in Channels
        PROVE  \E k \in Switching(u)' : job'[k].at \in SwitchJobs /\ job'[k].room \in Channels
    BY <1>4, <1>5, <2>1
  <2>2. ASSUME NEW k \in DOMAIN out[u], Switches(out[u][k])
        PROVE  \E i \in DOMAIN out'[u] : Switches(out'[u][i])
    BY <1>3, <2>2 DEF Moves
  <2>. QED  BY <2>1, <2>2 DEF Told
<1>10. Switching(u)' = Switching(u)
  BY <1>4
<1>. QED  BY <1>7, <1>8, <1>9, <1>10

LEMMA PlacedStays ==
    ASSUME Types, Types', Sound, NEW u \in Users, Placed(u), NEW d \in {0, 1}, MovesKept(u, d), HandlersKept(u),
           rooms \subseteq rooms', home'[u] \in {None, home[u]}, members'[u] = members[u],
           u \in astray' <=> u \in astray,
           online'[u] \/ ~online[u], view'[u].channel = view[u].channel, view'[u].room = view[u].room,
           note'[u].torn = note[u].torn, note'[u].deaf = note[u].deaf
    PROVE  Placed(u)'
<1>1. /\ Path(u) => Path(u)'
      /\ Place(u) => Place(u)'
      /\ Told(u) => Told(u)'
      /\ Switching(u)' = Switching(u)
  BY PartsStay
<1>2. ~online'[u] => home'[u] = None /\ members'[u] = {} /\ Switching(u)' = {}
  BY <1>1 DEF Placed
<1>. QED  BY <1>1, <1>2 DEF Placed

-----------------------------------------------------------------------------
(* What happens to the events of a browser.                                *)

Zero == [w \in Users |-> 0]
One(u) == [w \in Users |-> IF w = u THEN 1 ELSE 0]
Quiet(events) == \A i \in DOMAIN events : events[i].type \notin {"send", "switch", "join"}
NoMoves == \A w \in Users : \A i \in DOMAIN out'[w] :
    Old(out[w], out'[w][i]) \/ out'[w][i].type \notin {"switch", "join"}

LEMMA Counts == /\ Zero \in [Users -> Nat] /\ \A w \in Users : Zero[w] = 0
                /\ \A u : One(u) \in [Users -> Nat] /\ \A w \in Users : One(u)[w] = IF w = u THEN 1 ELSE 0
  BY DEF Zero, One

LEMMA OutSame ==
    ASSUME Types
    PROVE  /\ out' = out => SendsCarried(Zero) /\ NoMoves
           /\ \A w \in Users : out'[w] = out[w] => MovesKept(w, 0)
<1>1. \A w \in Users : Len(out[w]) \in Nat /\ \A i \in DOMAIN out[w] : i \in Nat /\ i + 0 = i
  BY DEF Types
<1>2. out' = out => SendsCarried(Zero)
  BY <1>1, Counts DEF SendsCarried
<1>3. out' = out => NoMoves
  BY DEF NoMoves, Old
<1>4. ASSUME NEW w \in Users, out'[w] = out[w] PROVE MovesKept(w, 0)
  <2>1. \A i \in Nat : i + 0 = i
    OBVIOUS
  <2>2. Len(out[w]) + 0 = Len(out[w]) /\ Len(out[w]) <= Len(out[w])
    BY <1>1
  <2>. QED  BY <1>1, <1>4, <2>1, <2>2 DEF MovesKept
<1>. QED  BY <1>2, <1>3, <1>4

LEMMA Joined ==
    ASSUME NEW S, NEW s \in Seq(S), NEW t \in Seq(S)
    PROVE  /\ s \o t \in Seq(S) /\ Len(s) \in Nat /\ Len(t) \in Nat /\ Len(s \o t) = Len(s) + Len(t)
           /\ \A i : i \in DOMAIN s <=> i \in Nat /\ 1 <= i /\ i <= Len(s)
           /\ \A i : i \in DOMAIN t <=> i \in Nat /\ 1 <= i /\ i <= Len(t)
           /\ \A i : i \in DOMAIN (s \o t) <=> i \in Nat /\ 1 <= i /\ i <= Len(s) + Len(t)
           /\ \A i \in DOMAIN s : (s \o t)[i] = s[i]
           /\ \A i \in DOMAIN (s \o t) : i > Len(s) => i - Len(s) \in DOMAIN t /\ (s \o t)[i] = t[i - Len(s)]
  OBVIOUS

\* Events that neither move nor send are added.
LEMMA EmitsQuietly ==
    ASSUME Types, NEW u \in Users, NEW events \in Seq(Events), Emit(u, events), Quiet(events)
    PROVE  SendsCarried(Zero) /\ NoMoves /\ \A w \in Users : MovesKept(w, 0)
<1>1. PICK s : s = out[u] /\ s \in Seq(Events)
  BY DEF Types
<1>2. \A w \in Users : out'[w] = IF w = u /\ online[u] THEN s \o events ELSE out[w]
  BY <1>1, EmitDoes
<1>3. \A i \in DOMAIN (s \o events) :
         \/ i \in DOMAIN s /\ (s \o events)[i] = s[i]
         \/ (s \o events)[i].type \notin {"send", "switch", "join"}
  BY <1>1, Joined DEF Quiet
<1>4. \A w \in Users : \A i \in DOMAIN out'[w] :
         \/ i \in DOMAIN out[w] /\ out'[w][i] = out[w][i]
         \/ out'[w][i].type \notin {"send", "switch", "join"}
  BY <1>1, <1>2, <1>3
<1>5. \A w \in Users : \A i \in DOMAIN out[w] : i \in Nat /\ i + 0 = i
  BY DEF Types
<1>6. SendsCarried(Zero)
  BY <1>4, <1>5, Counts DEF SendsCarried
<1>7. NoMoves
  BY <1>4 DEF NoMoves, Old
<1>9. /\ \A i \in DOMAIN s : i \in DOMAIN (s \o events) /\ (s \o events)[i] = s[i]
      /\ Len(s) <= Len(s \o events) + 0
  BY <1>1, Joined
<1>8. ASSUME NEW w \in Users PROVE MovesKept(w, 0)
  <2>1. \A i \in DOMAIN out[w] : i \in DOMAIN out'[w] /\ out'[w][i] = out[w][i]
    BY <1>1, <1>2, <1>9
  <2>2. Len(out[w]) <= Len(out'[w]) + 0
    <3>1. Len(out[w]) \in Nat
      BY DEF Types
    <3>2. CASE w = u /\ online[u]
      BY <1>1, <1>2, <1>9, <3>2
    <3>3. CASE ~(w = u /\ online[u])
      <4>1. out'[w] = out[w]
        BY <1>2, <3>3
      <4>. QED  BY <3>1, <4>1
    <3>. QED  BY <3>2, <3>3
  <2>3. \A i \in Nat : i + 0 = i
    OBVIOUS
  <2>4. \A i \in DOMAIN out'[w] : Moves(out'[w][i]) => i \in DOMAIN out[w] /\ out'[w][i] = out[w][i]
    BY <1>4 DEF Moves, Switches
  <2>. QED  BY <1>5, <2>1, <2>2, <2>3, <2>4 DEF MovesKept
<1>. QED  BY <1>6, <1>7, <1>8

LEMMA EmitsOneQuietly ==
    ASSUME Types, NEW u \in Users, NEW e \in Events, Emit(u, <<e>>),
           e.type \notin {"send", "switch", "join"}
    PROVE  SendsCarried(Zero) /\ NoMoves /\ \A w \in Users : MovesKept(w, 0)
<1>. DEFINE events == <<e>>
<1>1. events \in Seq(Events) /\ Emit(u, events) /\ \A i \in DOMAIN events : events[i] = e
  OBVIOUS
<1>. HIDE DEF events
<1>. QED  BY <1>1, EmitsQuietly DEF Quiet

\* The first event of u has gone.
LEMMA Takes ==
    ASSUME Types, NEW u \in Users, 1 \in DOMAIN out[u], out'[u] = Tail(out[u]),
           \A w \in Users \ {u} : out'[w] = out[w]
    PROVE  /\ SendsCarried(One(u)) /\ NoMoves
           /\ ~Moves(out[u][1]) => MovesKept(u, 1)
           /\ \A w \in Users \ {u} : MovesKept(w, 0)
<1>1. PICK s : s = out[u] /\ s \in Seq(Events) /\ s # <<>>
  BY DEF Types
<1>2. /\ \A i : i \in DOMAIN Tail(s) <=> i \in Nat /\ 1 <= i /\ i + 1 <= Len(s)
      /\ \A i : i \in DOMAIN s <=> i \in Nat /\ 1 <= i /\ i <= Len(s)
      /\ \A i \in DOMAIN Tail(s) : Tail(s)[i] = s[i + 1]
      /\ Len(Tail(s)) + 1 = Len(s) /\ Len(s) \in Nat
  BY <1>1
<1>3. \A i \in DOMAIN out'[u] : i + 1 \in DOMAIN out[u] /\ out'[u][i] = out[u][i + 1]
  BY <1>1, <1>2
<1>4. \A w \in Users : \A i \in DOMAIN out[w] : i \in Nat /\ i + 0 = i
  BY DEF Types
<1>5. SendsCarried(One(u))
  <2>1. ASSUME NEW w \in Users, NEW i \in DOMAIN out'[w], NEW d, d = One(u)[w]
        PROVE  i + d \in DOMAIN out[w] /\ out'[w][i] = out[w][i + d]
    <3>1. CASE w = u
      <4>1. d = 1
        BY <2>1, <3>1, Counts
      <4>. QED  BY <1>3, <2>1, <3>1, <4>1
    <3>2. CASE w # u
      <4>1. d = 0 /\ out'[w] = out[w]
        BY <2>1, <3>2, Counts
      <4>. QED  BY <1>4, <2>1, <4>1
    <3>. QED  BY <3>1, <3>2
  <2>. QED  BY <2>1 DEF SendsCarried
<1>6. NoMoves
  BY <1>3 DEF NoMoves, Old
<1>7. ASSUME ~Moves(out[u][1]) PROVE MovesKept(u, 1)
  <2>1. ASSUME NEW i \in Nat, i + 1 \in DOMAIN out[u], Moves(out[u][i + 1]) PROVE i \in DOMAIN out'[u]
    <3>1. i # 0
      BY <1>7, <2>1
    <3>. QED  BY <1>1, <1>2, <2>1, <3>1
  <2>2. Len(out[u]) <= Len(out'[u]) + 1
    BY <1>1, <1>2
  <2>. QED  BY <1>3, <2>1, <2>2 DEF MovesKept
<1>. QED  BY <1>5, <1>6, <1>7, OutSame

-----------------------------------------------------------------------------
(* Single, step by step.                                                   *)

LEMMA SendingSame == job' = job => \A d : SendingCarried(d)
  BY DEF SendingCarried

LEMMA NoNews ==
    ASSUME \A w \in Users : \A i \in DOMAIN inbox'[w] : Old(inbox[w], inbox'[w][i])
    PROVE  \A w \in Users : \A i \in DOMAIN inbox'[w] : inbox'[w][i].type = "message" =>
             \E m : m = inbox'[w][i].msg /\ (Coming(w, m) \/ Loses(m))
  BY DEF Old, Coming, Brings

\* A browser changes, and the server stores nothing.
LEMMA ArrivalsOne ==
    ASSUME NEW u \in Users, NEW v, Turns(u, v), stored' = stored,
           \A w \in Users : \A i \in DOMAIN inbox'[w] : Old(inbox[w], inbox'[w][i]),
           \A i \in DOMAIN v.list :
             \E m : m = v.list[i].msg /\ (InList(u, m) \/ m \in stored \/ Shown(u, m) \/ Loses(m)),
           \A s \in v.showing : Shown(u, s.msg) \/ Coming(u, s.msg)
    PROVE  Arrivals
<1>1. \A w \in Users : view'[w] = IF w = u THEN v ELSE view[w]
  BY DEF Turns
<1>2. \A w \in Users : \A i \in DOMAIN view'[w].list :
        \E m : m = view'[w].list[i].msg /\ (InList(w, m) \/ m \in stored \/ Shown(w, m) \/ Loses(m))
  BY <1>1 DEF InList
<1>3. \A w \in Users : \A s \in view'[w].showing : Shown(w, s.msg) \/ Coming(w, s.msg)
  BY <1>1 DEF Shown
<1>. QED  BY <1>2, <1>3, NoNews DEF Arrivals

\* The list and what is decrypted are as before.
LEMMA ArrivalsNone ==
    ASSUME \A w \in Users : view'[w].list = view[w].list /\ view'[w].showing = view[w].showing,
           \A m \in stored' : m \in stored \/ Loses(m),
           \A w \in Users : \A i \in DOMAIN inbox'[w] : inbox'[w][i].type = "message" =>
             \E m : m = inbox'[w][i].msg /\ (Coming(w, m) \/ Loses(m))
    PROVE  Arrivals
<1>1. \A w \in Users : \A i \in DOMAIN view'[w].list :
        \E m : m = view'[w].list[i].msg /\ (InList(w, m) \/ m \in stored \/ Shown(w, m) \/ Loses(m))
  BY DEF InList
<1>2. \A w \in Users : \A s \in view'[w].showing : Shown(w, s.msg) \/ Coming(w, s.msg)
  BY DEF Shown
<1>. QED  BY <1>1, <1>2 DEF Arrivals

\* A step of a browser that neither lists nor decrypts nor encrypts.
LEMMA SingleLooks ==
    ASSUME Types, Types', Sound, Single, SendsCarried(Zero), UNCHANGED <<inbox, stored, job, sent>>,
           \A w \in Users : /\ view'[w].list = view[w].list /\ view'[w].showing = view[w].showing
                            /\ view'[w].composing \subseteq view[w].composing
    PROVE  Single'
<1>1. Arrivals
  <2>1. \A w \in Users : \A i \in DOMAIN inbox'[w] : Old(inbox[w], inbox'[w][i])
    BY Unmoved
  <2>. QED  BY <2>1, NoNews, ArrivalsNone
<1>2. SendingCarried(Zero) /\ Grown /\ Zero \in [Users -> Nat]
  BY SendingSame, Unmoved, Counts
<1>3. \A w \in Users : view'[w].composing \subseteq view[w].composing
  OBVIOUS
<1>. QED  BY <1>1, <1>2, <1>3, SingleStep

LEMMA ReceiptsQuiet ==
    ASSUME Types, NEW u \in Users, NEW r
    PROVE  Quiet(Receipts(u, r))
<1>1. ASSUME NEW k \in DOMAIN Receipts(u, r) PROVE Receipts(u, r)[k].type = "read"
  BY ReceiptsSound DEF Event
<1>. QED  BY <1>1 DEF Quiet

\* What a change of rooms does to the events.
LEMMA GoesEvents ==
    ASSUME Types, NEW u \in Users, NEW r \in Rooms, NEW joins \in SUBSET Channels,
           NEW receipts \in Seq(Events), Goes(u, r, joins, receipts)
    PROVE  /\ Quiet(receipts) /\ Event("switch", 0, r) \in Events
           /\ Event("switch", 0, r).type = "switch" /\ Event("switch", 0, r).room = r
           /\ \A w \in Users : out'[w] = IF w = u /\ online[u]
                                         THEN out[u] \o Append(receipts, Event("switch", 0, r)) ELSE out[w]
           /\ SendsCarried(Zero)
<1>1. Quiet(receipts)
  <2>1. receipts = <<>> => Quiet(receipts)
    BY DEF Quiet
  <2>. QED  BY <2>1, ReceiptsQuiet DEF Goes
<1>. DEFINE e == Event("switch", 0, r)
            events == Append(receipts, e)
<1>2. e \in Events /\ e.type = "switch" /\ e.room = r
  BY EventTypes DEF OutTypes
<1>3. events \in Seq(Events) /\ Emit(u, events)
  BY GoesDoes
<1>4. \A w \in Users : out'[w] = IF w = u /\ online[u] THEN out[u] \o events ELSE out[w]
  BY <1>3, EmitDoes
<1>. HIDE DEF e
<1>5. \A i \in DOMAIN events : events[i].type # "send"
  BY <1>1, <1>2 DEF Quiet
<1>6. SendsCarried(Zero)
  <2>1. out[u] \in Seq(Events)
    BY DEF Types
  <2>. HIDE DEF events
  <2>2. \A i \in DOMAIN (out[u] \o events) :
          \/ i \in DOMAIN out[u] /\ (out[u] \o events)[i] = out[u][i]
          \/ (out[u] \o events)[i].type # "send"
    BY <1>3, <1>5, <2>1, Joined
  <2>3. \A w \in Users : \A i \in DOMAIN out[w] : i + 0 = i
    BY DEF Types
  <2>4. ASSUME NEW w \in Users, NEW i \in DOMAIN out'[w], out'[w][i].type = "send"
        PROVE  i \in DOMAIN out[w] /\ out'[w][i] = out[w][i]
    BY <1>4, <2>2, <2>4
  <2>. QED  BY <2>3, <2>4, Counts DEF SendsCarried
<1>. QED  BY <1>1, <1>2, <1>4, <1>6 DEF e

LEMMA GoesSingle ==
    ASSUME Types, Sound, Single, NEW u \in Users, NEW r \in Rooms, NEW joins \in SUBSET Channels,
           NEW receipts \in Seq(Events), Goes(u, r, joins, receipts)
    PROVE  Single'
<1>1. Types' /\ UNCHANGED <<inbox, stored, job, sent>>
  BY GoesDoes
<1>2. PICK f \in Fetches : Turns(u, Opened(u, r, joins, f))
  BY GoesDoes
<1>3. \A w \in Users : /\ view'[w].list = view[w].list /\ view'[w].showing = view[w].showing
                       /\ view'[w].composing = view[w].composing
  <2>1. PICK v : v = Opened(u, r, joins, f)
    OBVIOUS
  <2>2. v.list = view[u].list /\ v.showing = view[u].showing /\ v.composing = view[u].composing
    BY <2>1 DEF Opened, Types, Views
  <2>. QED  BY <1>2, <2>1, <2>2 DEF Turns
<1>. QED  BY <1>1, <1>3, GoesEvents, SingleLooks

LEMMA StaysSingle ==
    ASSUME Types, Sound, Single, NEW u \in Users, Stays(u)
    PROVE  Single'
<1>1. Types' /\ UNCHANGED <<inbox, stored, job, sent>>
  BY StaysDoes
<1>2. \/ /\ view[u].room \in Direct /\ u \in view[u].room /\ Turns(u, Reset(u))
         /\ Receipts(u, view[u].room) \in Seq(Events) /\ Emit(u, Receipts(u, view[u].room))
      \/ UNCHANGED <<view, out>>
  BY StaysDoes
<1>3. SendsCarried(Zero)
  <2>1. Quiet(Receipts(u, view[u].room))
    BY ReceiptsQuiet
  <2>. QED  BY <1>2, <2>1, OutSame, EmitsQuietly
<1>4. \A w \in Users : /\ view'[w].list = view[w].list /\ view'[w].showing = view[w].showing
                       /\ view'[w].composing = view[w].composing
  <2>1. PICK v : v = Reset(u)
    OBVIOUS
  <2>2. v.list = view[u].list /\ v.showing = view[u].showing /\ v.composing = view[u].composing
    BY <2>1 DEF Reset, Types, Views
  <2>. QED  BY <1>2, <2>1, <2>2 DEF Turns
<1>. QED  BY <1>1, <1>3, <1>4, SingleLooks

\* A join is added, connected or not.
LEMMA JoinRoomEvents ==
    ASSUME Types, NEW u \in Users, NEW r \in Channels, JoinRoom(u, r)
    PROVE  /\ SendsCarried(Zero)
           /\ \A w \in Users \ {u} : out'[w] = out[w]
           /\ Len(out'[u]) = Len(out[u]) + 1
           /\ \A i \in DOMAIN out[u] : i \in DOMAIN out'[u] /\ out'[u][i] = out[u][i]
           /\ \A i \in DOMAIN out'[u] : \/ i \in DOMAIN out[u]
                                        \/ /\ i = Len(out[u]) + 1
                                           /\ out'[u][i].type = "join" /\ out'[u][i].room = r
<1>. DEFINE e == Event("join", 0, r)
<1>1. /\ e \in Events
      /\ \A w \in Users : out'[w] = IF w = u THEN Append(out[u], e) ELSE out[w]
  BY JoinRoomDoes
<1>2. e.type = "join" /\ e.room = r
  BY DEF Event
<1>. HIDE DEF e
<1>4. PICK s : s = out[u] /\ s \in Seq(Events)
  BY DEF Types
<1>5. /\ Len(Append(s, e)) = Len(s) + 1
      /\ \A i \in DOMAIN s : i \in DOMAIN Append(s, e) /\ Append(s, e)[i] = s[i]
      /\ \A i \in DOMAIN Append(s, e) : i \in DOMAIN s \/ (i = Len(s) + 1 /\ Append(s, e)[i] = e)
  BY <1>1, <1>4
<1>6. \A w \in Users : \A i \in DOMAIN out'[w] :
        \/ i \in DOMAIN out[w] /\ out'[w][i] = out[w][i]
        \/ out'[w][i].type # "send"
  BY <1>1, <1>2, <1>4, <1>5
<1>7. \A w \in Users : \A i \in DOMAIN out[w] : i + 0 = i
  BY DEF Types
<1>8. SendsCarried(Zero)
  BY <1>6, <1>7, Counts DEF SendsCarried
<1>. QED  BY <1>1, <1>2, <1>4, <1>5, <1>8

LEMMA JoinRoomSingle ==
    ASSUME Types, Sound, Single, NEW u \in Users, NEW r \in Channels, JoinRoom(u, r)
    PROVE  Single'
<1>1. Types' /\ UNCHANGED <<inbox, stored, job, sent>> /\ Turns(u, [view[u] EXCEPT !.joining = @ \ {r}])
  BY JoinRoomDoes DEF ServerSame
<1>2. \A w \in Users : /\ view'[w].list = view[w].list /\ view'[w].showing = view[w].showing
                       /\ view'[w].composing = view[w].composing
  <2>1. PICK v : v = [view[u] EXCEPT !.joining = @ \ {r}]
    OBVIOUS
  <2>2. v.list = view[u].list /\ v.showing = view[u].showing /\ v.composing = view[u].composing
    BY <2>1 DEF Types, Views
  <2>. QED  BY <1>1, <2>1, <2>2 DEF Turns
<1>. QED  BY <1>1, <1>2, JoinRoomEvents, SingleLooks

LEMMA ComposeSingle ==
    ASSUME Types, Sound, Single, NEW u \in Users, Compose(u)
    PROVE  Single'
<1>0. PICK n : n = Len(sent) + 1
  OBVIOUS
<1>1. /\ sent' = Append(sent, [by |-> u, room |-> view[u].room]) /\ Len(sent') = n
      /\ Turns(u, [view[u] EXCEPT !.composing = @ \cup {Len(sent')}])
      /\ UNCHANGED <<out, stored, job, inbox>>
  BY <1>0, ComposeDoes DEF ServerSame
<1>2. \A w \in Users : /\ view'[w].list = view[w].list /\ view'[w].showing = view[w].showing
                       /\ view'[w].composing \subseteq view[w].composing \cup {n}
  <2>1. PICK v : v = [view[u] EXCEPT !.composing = @ \cup {n}]
    OBVIOUS
  <2>2. v.list = view[u].list /\ v.showing = view[u].showing /\ v.composing = view[u].composing \cup {n}
    BY <2>1 DEF Types, Views
  <2>3. \A w \in Users : view'[w] = IF w = u THEN v ELSE view[w]
    BY <1>1, <2>1 DEF Turns
  <2>. QED  BY <2>2, <2>3
<1>3. /\ \A m : Unstored(m)' <=> Unstored(m)
      /\ \A m : NoJob(m)' <=> NoJob(m)
      /\ \A w \in Users : \A i, m : Sends(w, i, m)' <=> Sends(w, i, m)
  BY <1>1, <1>2 DEF Unstored, InList, Coming, Brings, Shown, NoJob, Sends
<1>4. \A m \in Messages : RoomOf(m)' = RoomOf(m)
  <2>1. Grown
    BY <1>1 DEF Grown, Types, Views
  <2>. QED  BY <2>1, Grows
<1>5. /\ Unstored(n) /\ NoJob(n)
      /\ \A w \in Users : \A i \in DOMAIN out[w] : ~Sends(w, i, n)
  <2>1. /\ Len(sent) \in Nat /\ n \notin Messages /\ n \notin 0..Len(sent)
    BY <1>0 DEF Types, Messages
  <2>2. n \notin stored
    BY <2>1 DEF Sound, InChannel
  <2>3. \A w \in Users : ~InList(w, n) /\ ~Coming(w, n) /\ ~Shown(w, n)
    BY <2>1 DEF Sound, ViewSound, NewsSound, InChannel, InList, Coming, Brings, Shown
  <2>4. NoJob(n)
    BY <2>1 DEF Sound, JobSound, NoJob
  <2>5. \A w \in Users : \A i \in DOMAIN out[w] : ~Sends(w, i, n)
    BY <2>1 DEF Sound, EventSound, Sends
  <2>. QED  BY <2>2, <2>3, <2>4, <2>5 DEF Unstored
<1>6. ASSUME NEW w \in Users, NEW m \in view'[w].composing, RoomOf(m)' \in Channels
      PROVE  Unstored(m)' /\ NoJob(m)' /\ \A i \in DOMAIN out'[w] : ~Sends(w, i, m)'
  <2>1. CASE m = n
    BY <1>1, <1>3, <1>5, <2>1
  <2>2. CASE m \in view[w].composing
    <3>1. RoomOf(m) \in Channels
      BY <1>4, <1>6, <2>2 DEF Sound, ViewSound
    <3>. QED  BY <1>1, <1>3, <2>2, <3>1 DEF Single
  <2>. QED  BY <1>2, <1>6, <2>1, <2>2
<1>7. ASSUME NEW w \in Users, NEW i \in DOMAIN out'[w], out'[w][i].type = "send"
      PROVE  /\ Unstored(out[w][i].msg)' /\ NoJob(out[w][i].msg)'
             /\ \A k \in DOMAIN out'[w] : Sends(w, k, out[w][i].msg)' => k = i
  <2>1. PICK m : m = out[w][i].msg
    OBVIOUS
  <2>2. Unstored(m) /\ NoJob(m) /\ \A k \in DOMAIN out[w] : Sends(w, k, m) => k = i
    BY <1>1, <1>7, <2>1 DEF Single
  <2>3. Unstored(m)' /\ NoJob(m)' /\ \A k \in DOMAIN out'[w] : Sends(w, k, m)' => k = i
    BY <1>1, <1>3, <2>2
  <2>. QED  BY <1>1, <2>1, <2>3
<1>8. ASSUME NEW h \in Handlers, job'[h].at = "insert" PROVE Unstored(job[h].msg)'
  <2>1. PICK m : m = job[h].msg
    OBVIOUS
  <2>2. Unstored(m)
    BY <1>1, <1>8, <2>1 DEF Single
  <2>. QED  BY <1>1, <1>3, <2>1, <2>2
<1>9. \A h, g \in Handlers : job'[h].at \in Sending /\ job'[g].at \in Sending /\ job'[h].msg = job'[g].msg => h = g
  BY <1>1 DEF Single
<1>. QED  BY <1>6, <1>7, <1>8, <1>9 DEF Single

\* Encrypted, a channel message is sent, or listed if nobody will send it back.
LEMMA EncryptedEvents ==
    ASSUME Types, NEW u \in Users, NEW m, EncryptedChannel(u, m) \/ EncryptedDM(u, m)
    PROVE  /\ NoMoves /\ \A w \in Users : MovesKept(w, 0)
           /\ \A w \in Users : \A i \in DOMAIN out'[w] : out'[w][i].type = "send" =>
                \/ i \in DOMAIN out[w] /\ out'[w][i] = out[w][i]
                \/ w = u /\ online[u] /\ i = Len(out[u]) + 1 /\ out'[w][i].msg = m /\ RoomOf(m) \in Channels
<1>1. PICK e \in Events : /\ Emit(u, <<e>>)
                          /\ e.msg = m
                          /\ RoomOf(m) \in Channels => e.type = "send" /\ e.room = RoomOf(m)
                          /\ RoomOf(m) \notin Channels => e.type = "direct" /\ RoomOf(m) \in Direct
  BY EncryptedDoes
<1>. DEFINE events == <<e>>
<1>2. events \in Seq(Events) /\ Emit(u, events) /\ \A i \in DOMAIN events : events[i] = e /\ i = 1
  BY <1>1
<1>. HIDE DEF events
<1>3. PICK s : s = out[u] /\ s \in Seq(Events)
  BY DEF Types
<1>4. /\ \A i \in DOMAIN (s \o events) : \/ i \in DOMAIN s /\ (s \o events)[i] = s[i]
                                         \/ i = Len(s) + 1 /\ (s \o events)[i] = e
      /\ \A i \in DOMAIN s : i \in DOMAIN (s \o events) /\ (s \o events)[i] = s[i]
      /\ Len(s) <= Len(s \o events) + 0
  BY <1>2, <1>3, Joined
<1>5. \A w \in Users : out'[w] = IF w = u /\ online[u] THEN s \o events ELSE out[w]
  BY <1>2, <1>3, EmitDoes
<1>6. \A w \in Users : \A i \in DOMAIN out'[w] :
         \/ i \in DOMAIN out[w] /\ out'[w][i] = out[w][i]
         \/ w = u /\ online[u] /\ i = Len(out[u]) + 1 /\ out'[w][i] = e
  BY <1>3, <1>4, <1>5
<1>7. e.type \in {"send", "direct"} /\ ~Moves(e)
  BY <1>1 DEF Moves, Switches
<1>8. NoMoves
  BY <1>6, <1>7 DEF NoMoves, Old
<1>9. ASSUME NEW w \in Users PROVE MovesKept(w, 0)
  <2>1. CASE w = u /\ online[u]
    <3>1. \A i \in DOMAIN out[u] : i \in DOMAIN out'[u] /\ out'[u][i] = out[u][i]
      BY <1>3, <1>4, <1>5, <2>1
    <3>2. Len(out[u]) <= Len(out'[u]) + 0
      BY <1>3, <1>4, <1>5, <2>1
    <3>3. \A i \in Nat : i + 0 = i
      OBVIOUS
    <3>4. \A i \in DOMAIN out'[u] : Moves(out'[u][i]) => i \in DOMAIN out[u] /\ out'[u][i] = out[u][i]
      BY <1>6, <1>7
    <3>5. \A i \in DOMAIN out[u] : i \in Nat
      BY DEF Types
    <3>. QED  BY <2>1, <3>1, <3>2, <3>3, <3>4, <3>5 DEF MovesKept
  <2>2. CASE ~(w = u /\ online[u])
    <3>1. out'[w] = out[w]
      BY <1>5, <2>2
    <3>. QED  BY <3>1, OutSame
  <2>. QED  BY <2>1, <2>2
<1>10. \A w \in Users : \A i \in DOMAIN out'[w] : out'[w][i].type = "send" =>
          \/ i \in DOMAIN out[w] /\ out'[w][i] = out[w][i]
          \/ w = u /\ online[u] /\ i = Len(out[u]) + 1 /\ out'[w][i].msg = m /\ RoomOf(m) \in Channels
  BY <1>1, <1>6
<1>. QED  BY <1>8, <1>9, <1>10

LEMMA EncryptedSingle ==
    ASSUME Types, Sound, Single, NEW u \in Users, NEW m, EncryptedChannel(u, m) \/ EncryptedDM(u, m)
    PROVE  Single'
<1>1. Types' /\ m \in view[u].composing /\ UNCHANGED <<inbox, stored, job, sent>>
  BY EncryptedDoes DEF ServerSame
<1>2. PICK list \in Seq(Entries) :
        /\ Turns(u, Encrypted(u, m, list))
        /\ RoomOf(m) \in Channels /\ online[u] => list = view[u].list
        /\ list # view[u].list => \E x \in Entries :
              /\ x.msg = m /\ x.status # "read" /\ list = Append(view[u].list, x)
  BY EncryptedDoes
<1>3. PICK v : v = Encrypted(u, m, list)
  OBVIOUS
<1>4. v.list = list /\ v.showing = view[u].showing /\ v.composing = view[u].composing \ {m}
      /\ view[u].list \in Seq(Entries)
  BY <1>3 DEF Encrypted, Types, Views
<1>5. Turns(u, v) /\ \A w \in Users : view'[w] = IF w = u THEN v ELSE view[w]
  BY <1>2, <1>3 DEF Turns
<1>6. SendsCarried(Zero)
  <2>1. \A w \in Users : \A i \in DOMAIN out'[w] : out'[w][i].type = "send" =>
          \/ i \in DOMAIN out[w] /\ out'[w][i] = out[w][i]
          \/ w = u /\ online[u] /\ i = Len(out[u]) + 1 /\ out'[w][i].msg = m /\ RoomOf(m) \in Channels
    BY EncryptedEvents
  <2>2. m \notin view'[u].composing
    BY <1>4, <1>5
  <2>3. \A w \in Users : \A i \in DOMAIN out'[w] : i \in Nat /\ i + 0 = i
    BY <1>1 DEF Types
  <2>4. ASSUME NEW w \in Users, NEW i \in DOMAIN out'[w], out'[w][i].type = "send"
        PROVE  \/ i + Zero[w] \in DOMAIN out[w] /\ out'[w][i] = out[w][i + Zero[w]]
               \/ /\ i + Zero[w] = Len(out[w]) + 1 /\ online[w]
                  /\ \E n \in view[w].composing : /\ n = out'[w][i].msg /\ RoomOf(n) \in Channels
                                                  /\ n \notin view'[w].composing
    <3>1. i + Zero[w] = i
      BY <2>3, Counts
    <3>. QED  BY <1>1, <2>1, <2>2, <2>4, <3>1
  <2>. QED  BY <2>4 DEF SendsCarried
<1>7. \A i \in DOMAIN list : Old(view[u].list, list[i]) \/ (list[i].msg = m /\ Loses(m))
  <2>1. CASE list = view[u].list
    BY <2>1 DEF Old
  <2>2. CASE list # view[u].list
    <3>1. \A i \in DOMAIN list : Old(view[u].list, list[i]) \/ list[i].msg = m
      BY <1>2, <1>4, <2>2, ListGrows
    <3>2. Loses(m)
      <4>1. CASE RoomOf(m) \in Channels
        <5>1. ~online[u] /\ m \notin view'[u].composing
          BY <1>2, <1>4, <1>5, <2>2, <4>1
        <5>. QED  BY <1>1, <5>1 DEF Loses
      <4>2. CASE RoomOf(m) \notin Channels
        <5>1. m \in Messages /\ RoomOf(m) \in Direct
          BY <1>1, <4>2, RoomsOf DEF Sound, ViewSound, Rooms
        <5>2. InDirect(m)
          BY <5>1 DEF InDirect, Sound
        <5>. QED  BY <5>2 DEF Loses
      <4>. QED  BY <4>1, <4>2
    <3>. QED  BY <3>1, <3>2
  <2>. QED  BY <2>1, <2>2
<1>8. Arrivals
  <2>1. \A i \in DOMAIN v.list :
             \E n : n = v.list[i].msg /\ (InList(u, n) \/ n \in stored \/ Shown(u, n) \/ Loses(n))
    BY <1>4, <1>7 DEF Old, InList
  <2>2. \A s \in v.showing : Shown(u, s.msg) \/ Coming(u, s.msg)
    BY <1>4 DEF Shown
  <2>. QED  BY <1>1, <1>5, <2>1, <2>2, Unmoved, ArrivalsOne
<1>9. \A w \in Users : view'[w].composing \subseteq view[w].composing
  BY <1>4, <1>5
<1>. QED  BY <1>1, <1>6, <1>8, <1>9, SendingSame, Unmoved, Counts, SingleStep

LEMMA EncryptFailsSingle ==
    ASSUME Types, Sound, Single, NEW u \in Users, NEW m, EncryptFails(u, m)
    PROVE  Single'
<1>1. /\ Types' /\ UNCHANGED <<out, inbox, stored, job, sent>>
      /\ Turns(u, [view[u] EXCEPT !.composing = @ \ {m}])
  BY EncryptFailsDoes DEF ServerSame
<1>2. \A w \in Users : /\ view'[w].list = view[w].list /\ view'[w].showing = view[w].showing
                       /\ view'[w].composing \subseteq view[w].composing
  <2>1. PICK v : v = [view[u] EXCEPT !.composing = @ \ {m}]
    OBVIOUS
  <2>2. v.list = view[u].list /\ v.showing = view[u].showing /\ v.composing = view[u].composing \ {m}
    BY <2>1 DEF Types, Views
  <2>3. \A w \in Users : view'[w] = IF w = u THEN v ELSE view[w]
    BY <1>1, <2>1 DEF Turns
  <2>. QED  BY <2>2, <2>3
<1>. QED  BY <1>1, <1>2, OutSame, SingleLooks

LEMMA DeleteMessageSingle ==
    ASSUME Types, Sound, Single, NEW u \in Users, NEW i \in DOMAIN view[u].list,
           DeleteMessage(u, view[u].list[i])
    PROVE  Single'
<1>1. Types' /\ UNCHANGED <<view, inbox, stored, job, sent>>
  BY DeleteMessageDoes DEF ServerSame
<1>2. PICK e \in Events : /\ Emit(u, <<e>>) /\ e.type = "delete" /\ e.room \in Rooms
                          /\ e.msg \in {0, view[u].list[i].msg}
  BY DeleteMessageDoes
<1>3. SendsCarried(Zero)
  BY <1>2, EmitsOneQuietly
<1>. QED  BY <1>1, <1>3, SingleLooks

LEMMA FetchSingle ==
    ASSUME Types, Sound, Single, NEW u \in Users, NEW f, Fetch(u, f)
    PROVE  Single'
<1>1. Types' /\ UNCHANGED <<out, inbox, stored, job, sent>>
  BY FetchesDo DEF ServerSame
<1>2. PICK g \in SUBSET Fetches, list \in Seq(Entries) :
        /\ Turns(u, Fetched(u, f, g, list))
        /\ \A k \in g : /\ k.room = f.room
                        /\ \A i \in DOMAIN k.rows : k.rows[i] \in stored /\ RoomOf(k.rows[i]) = f.room
        /\ \/ list = view[u].list /\ g # {}
           \/ \A i \in DOMAIN list : /\ list[i].status = "none"
                                     /\ list[i].msg \in stored /\ RoomOf(list[i].msg) = f.room
  BY FetchesDo
<1>3. PICK v : v = Fetched(u, f, g, list)
  OBVIOUS
<1>4. v.list = list /\ v.showing = view[u].showing /\ v.composing = view[u].composing
  BY <1>3 DEF Fetched, Types, Views
<1>5. Turns(u, v) /\ \A w \in Users : view'[w] = IF w = u THEN v ELSE view[w]
  BY <1>2, <1>3 DEF Turns
<1>6. \A i \in DOMAIN v.list :
        \E m : m = v.list[i].msg /\ (InList(u, m) \/ m \in stored \/ Shown(u, m) \/ Loses(m))
  BY <1>2, <1>4 DEF InList
<1>7. \A s \in v.showing : Shown(u, s.msg) \/ Coming(u, s.msg)
  BY <1>4 DEF Shown
<1>8. Arrivals
  BY <1>1, <1>5, <1>6, <1>7, Unmoved, ArrivalsOne
<1>9. \A w \in Users : view'[w].composing \subseteq view[w].composing
  BY <1>4, <1>5
<1>. QED  BY <1>1, <1>8, <1>9, OutSame, SendingSame, Unmoved, Counts, SingleStep

\* What a browser makes of the event e.
LEMMA ReceiveViews ==
    ASSUME Types, NEW u \in Users, Receives(u)
    PROVE  \E e \in News, v \in Views :
             /\ inbox[u] # <<>> /\ e = inbox[u][1] /\ 1 \in DOMAIN inbox[u]
             /\ inbox'[u] = Tail(inbox[u])
             /\ Turns(u, v)
             /\ v.room = view[u].room /\ v.channel = view[u].channel
             /\ v.fetches = view[u].fetches /\ v.joining = view[u].joining
             /\ v.composing = view[u].composing
             /\ v.showing = IF e.type = "message"
                            THEN view[u].showing \cup {[msg |-> e.msg, room |-> view[u].room]}
                            ELSE view[u].showing
             /\ DOMAIN v.list = DOMAIN view[u].list
             /\ \A i \in DOMAIN v.list : v.list[i].msg = view[u].list[i].msg
<1>1. PICK e \in News, v \in Views :
        /\ inbox[u] # <<>> /\ e = inbox[u][1] /\ 1 \in DOMAIN inbox[u]
        /\ inbox'[u] = Tail(inbox[u])
        /\ Turns(u, v)
        /\ \/ /\ e.type = "message"
              /\ v = [view[u] EXCEPT !.showing = @ \cup {[msg |-> e.msg, room |-> view[u].room]}]
           \/ /\ e.type = "direct"
              /\ v = [view[u] EXCEPT !.queue = Append(@, [msg |-> e.msg, room |-> view[u].room])]
           \/ /\ e.type \in {"status", "deleted"}
              /\ \E list \in Seq(Entries) :
                   /\ v = [view[u] EXCEPT !.list = list]
                   /\ Len(list) = Len(view[u].list)
                   /\ \A i \in DOMAIN list :
                        /\ list[i].msg = view[u].list[i].msg
                        /\ \/ list[i].status = view[u].list[i].status
                           \/ /\ e.type = "status" /\ list[i].status = e.status
                              /\ list[i].msg = e.msg \/ e.msg = 0
  BY ReceiveDoes DEF Receives
<1>2. view[u] \in Views
  BY DEF Types
<1>3. /\ inbox[u] # <<>> /\ e = inbox[u][1] /\ 1 \in DOMAIN inbox[u]
      /\ inbox'[u] = Tail(inbox[u])
      /\ Turns(u, v)
  BY <1>1
<1>4. CASE /\ e.type = "message"
           /\ v = [view[u] EXCEPT !.showing = @ \cup {[msg |-> e.msg, room |-> view[u].room]}]
  <2>1. /\ v.room = view[u].room /\ v.channel = view[u].channel
        /\ v.fetches = view[u].fetches /\ v.joining = view[u].joining
        /\ v.composing = view[u].composing /\ v.list = view[u].list
        /\ v.showing = view[u].showing \cup {[msg |-> e.msg, room |-> view[u].room]}
    BY <1>2, <1>4 DEF Views
  <2>2. e.type = "message"
    BY <1>4
  <2>3. DOMAIN v.list = DOMAIN view[u].list /\ \A i \in DOMAIN v.list : v.list[i].msg = view[u].list[i].msg
    BY <2>1
  <2>. QED  BY <1>3, <2>1, <2>2, <2>3
<1>5. CASE /\ e.type = "direct"
           /\ v = [view[u] EXCEPT !.queue = Append(@, [msg |-> e.msg, room |-> view[u].room])]
  <2>1. /\ v.room = view[u].room /\ v.channel = view[u].channel
        /\ v.fetches = view[u].fetches /\ v.joining = view[u].joining
        /\ v.composing = view[u].composing /\ v.list = view[u].list
        /\ v.showing = view[u].showing
    BY <1>2, <1>5 DEF Views
  <2>2. e.type # "message"
    BY <1>5
  <2>3. DOMAIN v.list = DOMAIN view[u].list /\ \A i \in DOMAIN v.list : v.list[i].msg = view[u].list[i].msg
    BY <2>1
  <2>. QED  BY <1>3, <2>1, <2>2, <2>3
<1>6. ASSUME e.type \in {"status", "deleted"}, NEW list \in Seq(Entries),
             v = [view[u] EXCEPT !.list = list], Len(list) = Len(view[u].list),
             \A i \in DOMAIN list : list[i].msg = view[u].list[i].msg
      PROVE  /\ v.room = view[u].room /\ v.channel = view[u].channel
             /\ v.fetches = view[u].fetches /\ v.joining = view[u].joining
             /\ v.composing = view[u].composing /\ v.showing = view[u].showing
             /\ DOMAIN v.list = DOMAIN view[u].list
             /\ \A i \in DOMAIN v.list : v.list[i].msg = view[u].list[i].msg
  <2>1. /\ v.room = view[u].room /\ v.channel = view[u].channel
        /\ v.fetches = view[u].fetches /\ v.joining = view[u].joining
        /\ v.composing = view[u].composing /\ v.list = list
        /\ v.showing = view[u].showing /\ view[u].list \in Seq(Entries)
    BY <1>2, <1>6 DEF Views
  <2>2. DOMAIN list = DOMAIN view[u].list
    BY <1>6, <2>1
  <2>. QED  BY <1>6, <2>1, <2>2
<1>7. CASE /\ e.type \in {"status", "deleted"}
           /\ \E list \in Seq(Entries) :
                /\ v = [view[u] EXCEPT !.list = list]
                /\ Len(list) = Len(view[u].list)
                /\ \A i \in DOMAIN list :
                     /\ list[i].msg = view[u].list[i].msg
                     /\ \/ list[i].status = view[u].list[i].status
                        \/ /\ e.type = "status" /\ list[i].status = e.status
                           /\ list[i].msg = e.msg \/ e.msg = 0
  <2>1. /\ v.room = view[u].room /\ v.channel = view[u].channel
        /\ v.fetches = view[u].fetches /\ v.joining = view[u].joining
        /\ v.composing = view[u].composing /\ v.showing = view[u].showing
        /\ DOMAIN v.list = DOMAIN view[u].list
        /\ \A i \in DOMAIN v.list : v.list[i].msg = view[u].list[i].msg
    BY <1>6, <1>7
  <2>2. e.type # "message"
    BY <1>7
  <2>. QED  BY <1>3, <2>1, <2>2
<1>. QED  BY <1>1, <1>4, <1>5, <1>7

LEMMA ReceiveSingle ==
    ASSUME Types, Sound, Single, NEW u \in Users, Receives(u)
    PROVE  Single'
<1>1. /\ Types' /\ UNCHANGED <<out, stored, job, sent>>
      /\ \A w \in Users \ {u} : inbox'[w] = inbox[w]
  BY ReceiveDoes DEF ServerSame, Receives
<1>2. PICK e \in News, v \in Views :
        /\ inbox[u] # <<>> /\ e = inbox[u][1] /\ 1 \in DOMAIN inbox[u]
        /\ inbox'[u] = Tail(inbox[u])
        /\ Turns(u, v)
        /\ v.room = view[u].room /\ v.channel = view[u].channel
        /\ v.fetches = view[u].fetches /\ v.joining = view[u].joining
        /\ v.composing = view[u].composing
        /\ v.showing = IF e.type = "message"
                       THEN view[u].showing \cup {[msg |-> e.msg, room |-> view[u].room]}
                       ELSE view[u].showing
        /\ DOMAIN v.list = DOMAIN view[u].list
        /\ \A i \in DOMAIN v.list : v.list[i].msg = view[u].list[i].msg
  BY ReceiveViews
<1>3. \A w \in Users : \A i \in DOMAIN inbox'[w] : Old(inbox[w], inbox'[w][i])
  BY <1>1, <1>2, TailSound
<1>4. \A i \in DOMAIN v.list :
        \E m : m = v.list[i].msg /\ (InList(u, m) \/ m \in stored \/ Shown(u, m) \/ Loses(m))
  BY <1>2 DEF InList
<1>5. \A s \in v.showing : Shown(u, s.msg) \/ Coming(u, s.msg)
  <2>1. e.type = "message" => Coming(u, e.msg)
    BY <1>2 DEF Coming, Brings
  <2>. QED  BY <1>2, <2>1 DEF Shown
<1>6. Arrivals
  BY <1>1, <1>2, <1>3, <1>4, <1>5, ArrivalsOne
<1>7. \A w \in Users : view'[w].composing \subseteq view[w].composing
  BY <1>2 DEF Turns
<1>. QED  BY <1>1, <1>6, <1>7, OutSame, SendingSame, Unmoved, Counts, SingleStep

\* What a browser makes of the message it has decrypted.
LEMMA ShowMessageViews ==
    ASSUME Types, Sound, NEW u \in Users, NEW s, ShowMessage(u, s)
    PROVE  /\ s \in view[u].showing /\ s \in Sights /\ InChannel(s.msg)
           /\ \E v \in Views, x \in Entries :
                /\ Turns(u, v) /\ x.msg = s.msg
                /\ v.room = view[u].room /\ v.channel = view[u].channel
                /\ v.fetches = view[u].fetches /\ v.joining = view[u].joining
                /\ v.composing = view[u].composing /\ v.showing = view[u].showing \ {s}
                /\ v.list = IF Belongs(s) THEN Append(view[u].list, x) ELSE view[u].list
<1>1. s \in view[u].showing /\ s \in Sights
  BY ShowMessageDoes
<1>2. InChannel(s.msg)
  BY <1>1 DEF Sound, ViewSound
<1>3. PICK list \in Seq(Entries) :
        /\ Turns(u, Shows(u, s, list))
        /\ ~Belongs(s) => list = view[u].list
        /\ Belongs(s) => list = Append(view[u].list, Entry(s.msg, FALSE, "none"))
  BY ShowMessageDoes
<1>4. PICK v : v = Shows(u, s, list)
  OBVIOUS
<1>5. PICK x : x = Entry(s.msg, FALSE, "none")
  OBVIOUS
<1>6. s.msg \in Nat
  BY <1>1 DEF Sights
<1>7. x \in Entries /\ x.msg = s.msg
  BY <1>5, <1>6, EntryTypes DEF EntryOf
<1>8. Turns(u, v) /\ v \in Views
  BY <1>3, <1>4 DEF Turns
<1>9. /\ v.room = view[u].room /\ v.channel = view[u].channel
      /\ v.fetches = view[u].fetches /\ v.joining = view[u].joining
      /\ v.composing = view[u].composing /\ v.showing = view[u].showing \ {s} /\ v.list = list
  BY <1>4 DEF Shows, Types, Views
<1>10. v.list = IF Belongs(s) THEN Append(view[u].list, x) ELSE view[u].list
  BY <1>3, <1>5, <1>9
<1>. QED  BY <1>1, <1>2, <1>7, <1>8, <1>9, <1>10

LEMMA ShowMessageSingle ==
    ASSUME Types, Sound, Single, NEW u \in Users, NEW s, ShowMessage(u, s)
    PROVE  Single'
<1>1. Types' /\ UNCHANGED <<out, inbox, stored, job, sent>> /\ s \in view[u].showing
  BY ShowMessageDoes DEF ServerSame
<1>2. PICK v \in Views, x \in Entries :
        /\ Turns(u, v) /\ x.msg = s.msg
        /\ v.room = view[u].room /\ v.channel = view[u].channel
        /\ v.fetches = view[u].fetches /\ v.joining = view[u].joining
        /\ v.composing = view[u].composing /\ v.showing = view[u].showing \ {s}
        /\ v.list = IF Belongs(s) THEN Append(view[u].list, x) ELSE view[u].list
  BY ShowMessageViews
<1>3. \A i \in DOMAIN v.list : Old(view[u].list, v.list[i]) \/ v.list[i] = x
  <2>1. view[u].list \in Seq(Entries)
    BY DEF Types, Views
  <2>2. CASE Belongs(s)
    <3>1. v.list = Append(view[u].list, x)
      BY <1>2, <2>2
    <3>. QED  BY <2>1, <3>1, Sequences
  <2>3. CASE ~Belongs(s)
    BY <1>2, <2>3 DEF Old
  <2>. QED  BY <2>2, <2>3
<1>4. \A i \in DOMAIN v.list :
        \E m : m = v.list[i].msg /\ (InList(u, m) \/ m \in stored \/ Shown(u, m) \/ Loses(m))
  BY <1>1, <1>2, <1>3 DEF InList, Old, Shown
<1>5. \A t \in v.showing : Shown(u, t.msg) \/ Coming(u, t.msg)
  BY <1>2 DEF Shown
<1>6. Arrivals
  BY <1>1, <1>2, <1>4, <1>5, Unmoved, ArrivalsOne
<1>7. \A w \in Users : view'[w].composing \subseteq view[w].composing
  BY <1>2 DEF Turns
<1>. QED  BY <1>1, <1>6, <1>7, OutSame, SendingSame, Unmoved, Counts, SingleStep

\* A direct message goes to the list, and no channel message does.
LEMMA ShowDirectViews ==
    ASSUME Types, Sound, NEW u \in Users, ShowDirect(u)
    PROVE  \E v \in Views, x \in Entries :
             /\ Turns(u, v) /\ InDirect(x.msg)
             /\ v.room = view[u].room /\ v.channel = view[u].channel
             /\ v.fetches = view[u].fetches /\ v.joining = view[u].joining
             /\ v.composing = view[u].composing /\ v.showing = view[u].showing
             /\ v.list = view[u].list \/ v.list = Append(view[u].list, x)
             /\ SendsCarried(Zero) /\ NoMoves /\ \A w \in Users : MovesKept(w, 0)
             /\ note'[u].awaited = note[u].awaited /\ note'[u].torn = note[u].torn
             /\ note'[u].deaf = note[u].deaf
<1>1. view[u].queue # <<>>
  BY ShowDirectDoes
<1>2. PICK s \in Sights, list \in Seq(Entries), events \in Seq(Events) :
        /\ s = view[u].queue[1] /\ 1 \in DOMAIN view[u].queue
        /\ Turns(u, ShowsDirect(u, s, list))
        /\ \/ list = view[u].list
           \/ list = Append(view[u].list, Entry(s.msg, TRUE, "acknowledged"))
        /\ Emit(u, events)
        /\ \A i \in DOMAIN events :
             /\ events[i].msg = s.msg
             /\ events[i].type = "ack" \/ (events[i].type = "read" /\ Belongs(s))
        /\ note'[u] = [note[u] EXCEPT !.shown = @ \cup {s.msg}]
  BY ShowDirectDoes
<1>3. InDirect(s.msg) /\ s.msg \in Nat /\ view[u] \in Views
  BY <1>2 DEF Types, Views, Sound, ViewSound, Sights
<1>4. Quiet(events)
  BY <1>2 DEF Quiet
<1>5. SendsCarried(Zero) /\ NoMoves /\ \A w \in Users : MovesKept(w, 0)
  BY <1>2, <1>4, EmitsQuietly
<1>6. PICK v : v = ShowsDirect(u, s, list)
  OBVIOUS
<1>7. PICK x : x = Entry(s.msg, TRUE, "acknowledged")
  OBVIOUS
<1>8. x \in Entries /\ x.msg = s.msg
  BY <1>3, <1>7, EntryTypes DEF EntryOf
<1>9. Turns(u, v) /\ v \in Views
  BY <1>2, <1>6 DEF Turns
<1>10. /\ v.room = view[u].room /\ v.channel = view[u].channel
       /\ v.fetches = view[u].fetches /\ v.joining = view[u].joining
       /\ v.composing = view[u].composing /\ v.showing = view[u].showing /\ v.list = list
  BY <1>3, <1>6 DEF ShowsDirect, Views
<1>11. v.list = view[u].list \/ v.list = Append(view[u].list, x)
  BY <1>2, <1>7, <1>10
<1>12. note'[u].awaited = note[u].awaited /\ note'[u].torn = note[u].torn /\ note'[u].deaf = note[u].deaf
  BY <1>2 DEF Types, Notes
<1>. QED  BY <1>3, <1>5, <1>8, <1>9, <1>10, <1>11, <1>12

LEMMA ShowDirectSingle ==
    ASSUME Types, Sound, Single, NEW u \in Users, ShowDirect(u)
    PROVE  Single'
<1>1. Types' /\ UNCHANGED <<inbox, stored, job, sent>>
  BY ShowDirectDoes DEF ServerSame
<1>2. PICK v \in Views, x \in Entries :
        /\ Turns(u, v) /\ InDirect(x.msg)
        /\ v.room = view[u].room /\ v.channel = view[u].channel
        /\ v.fetches = view[u].fetches /\ v.joining = view[u].joining
        /\ v.composing = view[u].composing /\ v.showing = view[u].showing
        /\ v.list = view[u].list \/ v.list = Append(view[u].list, x)
        /\ SendsCarried(Zero) /\ NoMoves /\ \A w \in Users : MovesKept(w, 0)
        /\ note'[u].awaited = note[u].awaited /\ note'[u].torn = note[u].torn
        /\ note'[u].deaf = note[u].deaf
  BY ShowDirectViews
<1>3. \A i \in DOMAIN v.list : Old(view[u].list, v.list[i]) \/ v.list[i] = x
  <2>1. PICK l, list : l = view[u].list /\ l \in Seq(Entries) /\ list = v.list
    BY DEF Types, Views
  <2>2. list = l \/ list = Append(l, x)
    BY <1>2, <2>1
  <2>3. \A i \in DOMAIN list : Old(l, list[i]) \/ list[i] = x
    BY <2>1, <2>2, ListGrows
  <2>. QED  BY <2>1, <2>3
<1>4. \A i \in DOMAIN v.list :
        \E m : m = v.list[i].msg /\ (InList(u, m) \/ m \in stored \/ Shown(u, m) \/ Loses(m))
  BY <1>2, <1>3 DEF InList, Old, Loses
<1>5. \A t \in v.showing : Shown(u, t.msg) \/ Coming(u, t.msg)
  BY <1>2 DEF Shown
<1>6. Arrivals
  BY <1>1, <1>2, <1>4, <1>5, Unmoved, ArrivalsOne
<1>7. \A w \in Users : view'[w].composing \subseteq view[w].composing
  BY <1>2 DEF Turns
<1>. QED  BY <1>1, <1>2, <1>6, <1>7, SendingSame, Unmoved, Counts, SingleStep

LEMMA DropCopySingle ==
    ASSUME Types, Sound, Single, NEW u \in Users, DropCopy(u)
    PROVE  Single'
<1>1. Types' /\ UNCHANGED <<inbox, stored, job, sent>>
  BY DropCopyDoes DEF ServerSame
<1>2. PICK e \in Events, i \in DOMAIN view[u].queue :
        /\ Turns(u, [view[u] EXCEPT !.queue = Tail(@)])
        /\ view[u].queue # <<>> /\ i = 1
        /\ Emit(u, <<e>>) /\ e.type = "ack" /\ e.msg = view[u].queue[i].msg
  BY DropCopyDoes
<1>3. \A w \in Users : /\ view'[w].list = view[w].list /\ view'[w].showing = view[w].showing
                       /\ view'[w].composing = view[w].composing
  <2>1. PICK v : v = [view[u] EXCEPT !.queue = Tail(@)]
    OBVIOUS
  <2>2. v.list = view[u].list /\ v.showing = view[u].showing /\ v.composing = view[u].composing
    BY <2>1 DEF Types, Views
  <2>. QED  BY <1>2, <2>1, <2>2 DEF Turns
<1>4. SendsCarried(Zero)
  BY <1>2, EmitsOneQuietly
<1>. QED  BY <1>1, <1>3, <1>4, SingleLooks

\* A handler that neither stores nor casts a channel message.
LEMMA SendingOther ==
    ASSUME NEW h \in Handlers, \A g \in Handlers \ {h} : job'[g] = job[g], job'[h].at \notin Sending
    PROVE  \A d : SendingCarried(d)
  BY DEF SendingCarried

LEMMA IdleDoesNotSend == Idle.at \notin Sending /\ Idle.at \notin Moving /\ Idle.at # "insert"
  BY DEF Idle, Sending, Moving

\* A step of the server, or of a connection.
LEMMA SingleServes ==
    ASSUME Types, Types', Sound, Single, view' = view, sent' = sent, NEW d \in [Users -> Nat],
           SendsCarried(d), SendingCarried(d), \A m \in stored' : m \in stored \/ Loses(m),
           \A w \in Users : \A i \in DOMAIN inbox'[w] : inbox'[w][i].type = "message" =>
             \E m : m = inbox'[w][i].msg /\ (Coming(w, m) \/ Loses(m))
    PROVE  Single'
<1>1. \A w \in Users : /\ view'[w].list = view[w].list /\ view'[w].showing = view[w].showing
                       /\ view'[w].composing \subseteq view[w].composing
  OBVIOUS
<1>2. Arrivals
  BY <1>1, ArrivalsNone
<1>3. Grown
  BY DEF Grown
<1>. QED  BY <1>1, <1>2, <1>3, SingleStep

LEMMA SingleWorks ==
    ASSUME Types, Types', Sound, Single, view' = view, sent' = sent, stored' = stored, inbox' = inbox,
           NEW d \in [Users -> Nat], SendsCarried(d), SendingCarried(d)
    PROVE  Single'
<1>1. \A w \in Users : \A i \in DOMAIN inbox'[w] : inbox'[w][i].type = "message" =>
             \E m : m = inbox'[w][i].msg /\ (Coming(w, m) \/ Loses(m))
  BY Unmoved, NoNews
<1>. QED  BY <1>1, SingleServes

LEMMA MoveSingle ==
    ASSUME Types, Sound, Single, NEW u \in Users, NEW h \in Handlers, SwitchRoom(u, h) \/ Join(u, h)
    PROVE  Single'
<1>1. /\ Types' /\ \A w \in Users \ {u} : out'[w] = out[w]
      /\ 1 \in DOMAIN out[u] /\ out'[u] = Tail(out[u])
      /\ \A g \in Handlers \ {h} : job'[g] = job[g]
      /\ UNCHANGED <<view, inbox, stored, sent>>
  BY MoveDoes
<1>2. job'[h].at \notin Sending
  <2>1. job'[h].at \in Moving
    BY MoveDoes DEF Moving
  <2>. QED  BY <2>1 DEF Moving, Sending
<1>3. SendsCarried(One(u)) /\ SendingCarried(One(u)) /\ One(u) \in [Users -> Nat]
  BY <1>1, <1>2, Takes, SendingOther, Counts
<1>. QED  BY <1>1, <1>3, SingleWorks

LEMMA BeginsSingle ==
    ASSUME Types, Sound, Single, NEW u \in Users, NEW h \in Handlers, SendMessage(u, h) \/ Handle(u, h)
    PROVE  Single'
<1>1. /\ Types' /\ \A w \in Users \ {u} : out'[w] = out[w]
      /\ 1 \in DOMAIN out[u] /\ out'[u] = Tail(out[u])
      /\ UNCHANGED <<view, inbox, stored, sent>>
  BY BeginsDoes
<1>2. PICK e \in Events :
        /\ e = out[u][1] /\ e.type \in OutTypes \ {"switch", "join"}
        /\ \/ job' = job
           \/ /\ job[h].at = "idle" /\ job'[h].at = Label(e.type) /\ job'[h].by = u
              /\ job'[h].msg = e.msg /\ job'[h].room = e.room
              /\ \A g \in Handlers \ {h} : job'[g] = job[g]
  BY BeginsDoes
<1>3. SendsCarried(One(u)) /\ One(u) \in [Users -> Nat] /\ One(u)[u] = 1
  BY <1>1, Takes, Counts
<1>4. CASE job' = job
  BY <1>1, <1>3, <1>4, SendingSame, SingleWorks
<1>5. CASE /\ job'[h].at = Label(e.type) /\ job'[h].msg = e.msg
           /\ \A g \in Handlers \ {h} : job'[g] = job[g]
  <2>1. CASE e.type = "send"
    <3>1. job'[h].at = "insert" /\ Sends(u, 1, job'[h].msg)
      BY <1>2, <1>5, <2>1 DEF Label, Sends
    <3>2. SendingCarried(One(u))
      BY <1>1, <1>3, <1>5, <3>1 DEF SendingCarried
    <3>. QED  BY <1>1, <1>3, <3>2, SingleWorks
  <2>2. CASE e.type # "send"
    <3>1. e.type \in {"delete", "direct", "ack", "read"}
      BY <1>2, <2>2 DEF OutTypes
    <3>2. job'[h].at \in {"erase", "queue", "ack", "read"}
      BY <1>5, <3>1 DEF Label, FirstAwait
    <3>3. SendingCarried(One(u))
      BY <1>5, <3>2, SendingOther DEF Sending
    <3>. QED  BY <1>1, <1>3, <3>3, SingleWorks
  <2>. QED  BY <2>1, <2>2
<1>. QED  BY <1>2, <1>4, <1>5

LEMMA MovingSingle ==
    ASSUME Types, Sound, Single, NEW h \in Handlers, FindRoom(h) \/ Move(h) \/ Mark(h) \/ Enter(h)
    PROVE  Single'
<1>1. Types' /\ UNCHANGED <<view, out, inbox, stored, sent>> /\ \A g \in Handlers \ {h} : job'[g] = job[g]
  BY MovingDoes
<1>2. job'[h].at \notin Sending
  <2>1. FindRoom(h) => job'[h].at \in {"home", "register", "idle"}
    BY JobDoes DEF FindRoom, Labels, Moving
  <2>2. Move(h) => job'[h].at = "mark"
    BY JobDoes DEF Move, Labels, Moving
  <2>3. Mark(h) => job'[h].at \in {"enter", "idle"}
    BY JobDoes DEF Mark, Labels, Moving
  <2>4. Enter(h) => job'[h].at = "idle"
    BY JobDoes DEF Enter
  <2>. QED  BY <2>1, <2>2, <2>3, <2>4 DEF Sending
<1>. QED  BY <1>1, <1>2, OutSame, SendingOther, Counts, SingleWorks

LEMMA InsertSingle ==
    ASSUME Types, Sound, Single, NEW h \in Handlers, Insert(h) \/ InsertFails(h)
    PROVE  Single'
<1>1. /\ Types' /\ UNCHANGED <<view, out, inbox, sent>>
      /\ job[h].at = "insert" /\ job'[h].at = "cast" /\ job'[h].msg = job[h].msg
      /\ \A g \in Handlers \ {h} : job'[g] = job[g]
      /\ stored' \in {stored, stored \cup {job[h].msg}}
  BY InsertDoes
<1>2. \A d : SendingCarried(d)
  BY <1>1 DEF SendingCarried, Sending
<1>3. Loses(job[h].msg)
  BY <1>1 DEF Loses, Sending
<1>4. \A m \in stored' : m \in stored \/ Loses(m)
  BY <1>1, <1>3
<1>5. \A w \in Users : \A i \in DOMAIN inbox'[w] : inbox'[w][i].type = "message" =>
             \E m : m = inbox'[w][i].msg /\ (Coming(w, m) \/ Loses(m))
  BY <1>1, Unmoved, NoNews
<1>. QED  BY <1>1, <1>2, <1>4, <1>5, OutSame, Counts, SingleServes

\* News are of messages that may be shown.
LEMMA NewsLost ==
    ASSUME Types, \A w \in Users :
             \/ inbox'[w] = inbox[w]
             \/ \E e \in News : /\ inbox'[w] = Append(inbox[w], e)
                                /\ e.type = "message" => Loses(e.msg)
    PROVE  \A w \in Users : \A i \in DOMAIN inbox'[w] : inbox'[w][i].type = "message" =>
             \E m : m = inbox'[w][i].msg /\ (Coming(w, m) \/ Loses(m))
<1>1. SUFFICES ASSUME NEW w \in Users, NEW i \in DOMAIN inbox'[w], inbox'[w][i].type = "message"
               PROVE  \E m : m = inbox'[w][i].msg /\ (Coming(w, m) \/ Loses(m))
  OBVIOUS
<1>2. CASE inbox'[w] = inbox[w]
  BY <1>1, <1>2 DEF Coming, Brings
<1>3. ASSUME NEW e \in News, inbox'[w] = Append(inbox[w], e), e.type = "message" => Loses(e.msg)
      PROVE  \E m : m = inbox'[w][i].msg /\ (Coming(w, m) \/ Loses(m))
  <2>1. inbox[w] \in Seq(News)
    BY DEF Types
  <2>2. Old(inbox[w], inbox'[w][i]) \/ inbox'[w][i] = e
    BY <1>3, <2>1, Sequences
  <2>. QED  BY <1>1, <1>3, <2>2 DEF Old, Coming, Brings
<1>. QED  BY <1>2, <1>3

LEMMA TellsSingle ==
    ASSUME Types, Sound, Single, NEW h \in Handlers,
           Cast(h) \/ Erase(h) \/ TellDeleted(h) \/ Queue(h) \/ Dispatch(h) \/ Acknowledge(h) \/ MarkRead(h)
    PROVE  Single'
<1>1. /\ Types' /\ UNCHANGED <<view, out, stored, sent>>
      /\ \A g \in Handlers \ {h} : job'[g] = job[g]
      /\ job'[h] = Idle \/ job'[h].at \in {"tell", "dispatch"}
  BY TellsDoes
<1>2. job'[h].at \notin Sending /\ job'[h].at # "insert"
  BY <1>1, IdleDoesNotSend DEF Sending
<1>3. ASSUME NEW w \in Users
      PROVE  \/ inbox'[w] = inbox[w]
             \/ \E e \in News : /\ inbox'[w] = Append(inbox[w], e)
                                /\ e.type = "message" => e.msg = job[h].msg /\ job[h].at = "cast"
  <2>1. CASE inbox'[w] = inbox[w]
    BY <2>1
  <2>2. CASE inbox'[w] # inbox[w]
    <3>1. PICK e \in News :
            /\ inbox'[w] = Append(inbox[w], e) /\ e.msg = job[h].msg
            /\ \/ job[h].at = "cast" /\ e.type = "message" /\ w \in Audience(h) /\ online[w]
               \/ job[h].at = "tell" /\ e.type = "deleted"
               \/ job[h].at \in {"queue", "dispatch", "ack"}
                  /\ e.type = "status" /\ e.status # "read"
               \/ job[h].at = "dispatch" /\ e.type = "direct" /\ w = Peer(e.msg)
               \/ job[h].at = "read" /\ e.type = "status" /\ e.status = "read"
      BY <2>2, TellsDoes
    <3>. QED  BY <3>1
  <2>. QED  BY <2>1, <2>2
<1>4. job[h].at = "cast" => Loses(job[h].msg)
  BY <1>2 DEF Loses, Sending
<1>5. \A w \in Users : \A i \in DOMAIN inbox'[w] : inbox'[w][i].type = "message" =>
             \E m : m = inbox'[w][i].msg /\ (Coming(w, m) \/ Loses(m))
  BY <1>3, <1>4, NewsLost
<1>. QED  BY <1>1, <1>2, <1>5, OutSame, SendingOther, Counts, SingleServes

LEMMA RetriesSingle ==
    ASSUME Types, Sound, Single, NEW m \in box, Retries(m)
    PROVE  Single'
<1>1. Types' /\ UNCHANGED <<view, out, stored, job, sent>>
  BY RetriesDo
<1>2. \A w \in Users :
        \/ inbox'[w] = inbox[w]
        \/ \E e \in News : /\ inbox'[w] = Append(inbox[w], e)
                           /\ e.type = "message" => Loses(e.msg)
  BY RetriesDo
<1>3. \A w \in Users : \A i \in DOMAIN inbox'[w] : inbox'[w][i].type = "message" =>
             \E n : n = inbox'[w][i].msg /\ (Coming(w, n) \/ Loses(n))
  BY <1>2, NewsLost
<1>. QED  BY <1>1, <1>3, OutSame, SendingSame, Counts, SingleServes

LEMMA AbortSingle ==
    ASSUME Types, Sound, Single, NEW h \in Handlers, Abort(h)
    PROVE  Single'
<1>1. Types' /\ job'[h] = Idle /\ UNCHANGED <<view, out, inbox, stored, sent>>
      /\ \A g \in Handlers \ {h} : job'[g] = job[g]
  BY AbortDoes
<1>. QED  BY <1>1, IdleDoesNotSend, OutSame, SendingOther, Counts, SingleWorks

LEMMA DisconnectSingle ==
    ASSUME Types, Sound, Single, NEW u \in Users, Disconnect(u)
    PROVE  Single'
<1>1. /\ Types' /\ UNCHANGED <<view, stored, sent>>
      /\ \A w \in Users \ {u} : out'[w] = out[w] /\ inbox'[w] = inbox[w]
      /\ out'[u] = <<>> /\ inbox'[u] = <<>>
      /\ \A h \in Handlers : job'[h] = IF h \in Switching(u) THEN Idle ELSE job[h]
  BY DisconnectDoes
<1>2. SendsCarried(Zero)
  <2>1. \A w \in Users : \A i \in DOMAIN out'[w] : i \in DOMAIN out[w] /\ out'[w][i] = out[w][i]
    BY <1>1
  <2>2. \A w \in Users : \A i \in DOMAIN out[w] : i + 0 = i
    BY DEF Types
  <2>. QED  BY <2>1, <2>2, Counts DEF SendsCarried
<1>3. SendingCarried(Zero)
  BY <1>1, IdleDoesNotSend DEF SendingCarried
<1>4. \A w \in Users : \A i \in DOMAIN inbox'[w] : inbox'[w][i].type = "message" =>
             \E m : m = inbox'[w][i].msg /\ (Coming(w, m) \/ Loses(m))
  <2>1. \A w \in Users : \A i \in DOMAIN inbox'[w] : Old(inbox[w], inbox'[w][i])
    BY <1>1 DEF Old
  <2>. QED  BY <2>1, NoNews
<1>. QED  BY <1>1, <1>2, <1>3, <1>4, Counts, SingleServes

LEMMA ReconnectSingle ==
    ASSUME Types, Sound, Single, NEW u \in Users, Reconnect(u)
    PROVE  Single'
<1>1. Types' /\ UNCHANGED <<view, out, inbox, stored, job, sent>>
  BY ReconnectDoes
<1>. QED  BY <1>1, OutSame, SendingSame, Counts, SingleWorks

LEMMA LapseSingle ==
    ASSUME Types, Sound, Single, NEW u \in Users, Lapse(u)
    PROVE  Single'
<1>1. Types' /\ UNCHANGED <<view, out, inbox, stored, job, sent>>
  BY LapseDoes
<1>. QED  BY <1>1, OutSame, SendingSame, Counts, SingleWorks

-----------------------------------------------------------------------------
(* Awaits, step by step.                                                   *)

\* An attentive browser is in its channel at the server, and Redis names no other one.
LEMMA Hears ==
    ASSUME Types, Sound, Located, NEW u \in Users, Attentive(u, view[u].room)
    PROVE  /\ view[u].room \in members[u] /\ home[u] \in {None, view[u].room}
           /\ u \notin astray => members[u] = {view[u].room}
<1>1. /\ Path(u) /\ view[u].room \in Channels /\ Told(u) /\ Switching(u) = {}
      /\ \A i \in DOMAIN out[u] : out[u][i].type \notin {"switch", "join"}
  BY DEF Attentive, Located, Placed
<1>2. view[u].room = view[u].channel
  BY <1>1 DEF Sound, ViewSound
<1>3. \A i, j, g : ~Corrected(u, i, j, g)
  BY <1>1 DEF Corrected
<1>4. members[u] # {}
  BY <1>1 DEF Told, Switches
<1>5. Within(u, view[u].channel)
  BY <1>1, <1>3 DEF Path, PathTo
<1>. QED  BY <1>2, <1>4, <1>5 DEF Within

LEMMA AwaitsNone ==
    ASSUME Awaits, NEW u \in Users, ~Attentive(u, view[u].room)
    PROVE  note[u].awaited = {}
  BY DEF Awaits, Awaited

AwaitedKept(u, m) ==
    /\ m \in note[u].awaited /\ StillAttends(u)
    /\ CastKept(m) /\ ShowingKept(u, m) /\ ListKept(u, m)
    /\ \E d \in {0, 1} : InboxKept(u, m, d)

EventsQuiet(u) == \A i \in DOMAIN out'[u] :
    Old(out[u], out'[u][i]) \/ out'[u][i].type \notin {"switch", "join"}

HandlersQuiet(u) == \A h \in Handlers : job'[h].at \in Moving /\ job'[h].by = u => h \in Switching(u)

\* What a browser waits for, and nothing that bears on it, changes.
LEMMA AwaitedIsKept ==
    ASSUME NEW u \in Users, NEW m \in note[u].awaited,
           online'[u] = online[u], view'[u].room = view[u].room,
           view'[u].fetches = view[u].fetches, view'[u].joining = view[u].joining,
           note'[u].torn = note[u].torn, note'[u].deaf = note[u].deaf,
           HandlersQuiet(u), EventsQuiet(u),
           CastKept(m), ShowingKept(u, m), ListKept(u, m), NEW d \in {0, 1}, InboxKept(u, m, d)
    PROVE  AwaitedKept(u, m)
  BY DEF AwaitedKept, StillAttends, HandlersQuiet, EventsQuiet

\* A step of one browser, or for one: the others are aside.
Aside(w) ==
    /\ view'[w] = view[w] /\ online'[w] = online[w] /\ inbox'[w] = inbox[w]
    /\ note'[w].awaited = note[w].awaited
    /\ note'[w].torn = note[w].torn /\ note'[w].deaf = note[w].deaf
    /\ HandlersQuiet(w) /\ EventsQuiet(w)

LEMMA AsideKept ==
    ASSUME NEW w \in Users, Aside(w), NEW m \in note'[w].awaited, CastKept(m)
    PROVE  AwaitedKept(w, m)
<1>1. m \in note[w].awaited
  BY DEF Aside
<1>2. view'[w] = view[w] /\ inbox'[w] = inbox[w]
  BY DEF Aside
<1>3. ShowingKept(w, m) /\ ListKept(w, m) /\ InboxKept(w, m, 0)
  BY <1>2, Kept
<1>. QED  BY <1>1, <1>3, AwaitedIsKept DEF Aside

LEMMA AwaitsApart ==
    ASSUME Types, Types', Sound, Awaits, Grown, stored \subseteq stored', NEW u \in Users,
           \A m \in note'[u].awaited : Awaited(u, m)' \/ AwaitedKept(u, m),
           \A w \in Users \ {u} : Aside(w), \A m : CastKept(m)
    PROVE  Awaits'
<1>1. \A w \in Users : \A m \in note'[w].awaited : Awaited(w, m)' \/ AwaitedKept(w, m)
  BY AsideKept
<1>. QED  BY <1>1, AwaitsStep DEF AwaitedKept

\* Nobody is disturbed.
LEMMA AwaitsLooks ==
    ASSUME Types, Types', Sound, Awaits, Grown, stored \subseteq stored',
           \A m : CastKept(m), inbox' = inbox, online' = online,
           \A w \in Users :
             /\ view'[w].room = view[w].room /\ view'[w].fetches = view[w].fetches
             /\ view'[w].joining = view[w].joining /\ view'[w].showing = view[w].showing
             /\ \A m \in note[w].awaited : ListKept(w, m)
             /\ note'[w].awaited = note[w].awaited
             /\ note'[w].torn = note[w].torn /\ note'[w].deaf = note[w].deaf
             /\ HandlersQuiet(w) /\ EventsQuiet(w)
    PROVE  Awaits'
<1>1. ASSUME NEW w \in Users, NEW m \in note'[w].awaited PROVE AwaitedKept(w, m)
  <2>1. m \in note[w].awaited /\ CastKept(m) /\ ListKept(w, m)
    BY <1>1
  <2>2. ShowingKept(w, m) /\ InboxKept(w, m, 0)
    BY Kept
  <2>. QED  BY <2>1, <2>2, AwaitedIsKept
<1>. QED  BY <1>1, AwaitsStep DEF AwaitedKept

LEMMA QuietSteps ==
    /\ job' = job => \A w : HandlersQuiet(w)
    /\ \A w : out'[w] = out[w] => EventsQuiet(w)
    /\ NoMoves => \A w \in Users : EventsQuiet(w)
<1>1. job' = job => \A w : HandlersQuiet(w)
  BY DEF HandlersQuiet, Switching
<1>2. \A w : out'[w] = out[w] => EventsQuiet(w)
  BY DEF EventsQuiet, Old
<1>3. NoMoves => \A w \in Users : EventsQuiet(w)
  BY DEF NoMoves, EventsQuiet
<1>. QED  BY <1>1, <1>2, <1>3

LEMMA GoesAwaits ==
    ASSUME Types, Sound, Awaits, NEW u \in Users, NEW r \in Rooms, NEW joins \in SUBSET Channels,
           NEW receipts \in Seq(Events), Goes(u, r, joins, receipts)
    PROVE  Awaits'
<1>1. /\ Types' /\ UNCHANGED <<online, inbox, stored, job, sent>> /\ note'[u].awaited = {}
      /\ \A w \in Users \ {u} : note'[w] = note[w]
  BY GoesDoes
<1>2. \A w \in Users \ {u} : out'[w] = out[w]
  BY GoesEvents
<1>3. \A w \in Users \ {u} : view'[w] = view[w]
  <2>1. PICK f \in Fetches : Turns(u, Opened(u, r, joins, f))
    BY GoesDoes
  <2>. QED  BY <2>1 DEF Turns
<1>4. \A w \in Users \ {u} : Aside(w)
  BY <1>1, <1>2, <1>3, QuietSteps DEF Aside
<1>5. \A m : CastKept(m)
  BY <1>1, Kept
<1>6. Grown
  BY <1>1 DEF Grown
<1>. QED  BY <1>1, <1>4, <1>5, <1>6, AwaitsApart

LEMMA StaysAwaits ==
    ASSUME Types, Sound, Awaits, NEW u \in Users, Stays(u)
    PROVE  Awaits'
<1>1. Types' /\ UNCHANGED <<online, inbox, stored, job, sent, note>>
  BY StaysDoes
<1>2. \/ /\ view[u].room \in Direct /\ u \in view[u].room /\ Turns(u, Reset(u))
         /\ Receipts(u, view[u].room) \in Seq(Events) /\ Emit(u, Receipts(u, view[u].room))
      \/ UNCHANGED <<view, out>>
  BY StaysDoes
<1>3. NoMoves
  <2>1. Quiet(Receipts(u, view[u].room))
    BY ReceiptsQuiet
  <2>. QED  BY <1>2, <2>1, OutSame, EmitsQuietly
<1>4. \A w \in Users : /\ view'[w].room = view[w].room /\ view'[w].fetches = view[w].fetches
                       /\ view'[w].joining = view[w].joining
                       /\ view'[w].list = view[w].list /\ view'[w].showing = view[w].showing
  <2>1. PICK v : v = Reset(u)
    OBVIOUS
  <2>2. /\ v.room = view[u].room /\ v.fetches = view[u].fetches /\ v.joining = view[u].joining
        /\ v.list = view[u].list /\ v.showing = view[u].showing
    BY <2>1 DEF Reset, Types, Views
  <2>. QED  BY <1>2, <2>1, <2>2 DEF Turns
<1>5. \A w \in Users : \A m : ListKept(w, m)
  BY <1>4, Kept
<1>6. (\A m : CastKept(m)) /\ Grown
  BY <1>1, Kept DEF Grown
<1>. QED  BY <1>1, <1>3, <1>4, <1>5, <1>6, QuietSteps, AwaitsLooks

LEMMA JoinRoomAwaits ==
    ASSUME Types, Sound, Awaits, NEW u \in Users, NEW r \in Channels, JoinRoom(u, r)
    PROVE  Awaits'
<1>1. /\ Types' /\ UNCHANGED <<online, inbox, stored, job, sent>> /\ r \in view[u].joining
      /\ Turns(u, [view[u] EXCEPT !.joining = @ \ {r}])
      /\ \A w \in Users \ {u} : note'[w] = note[w]
  BY JoinRoomDoes DEF ServerSame
<1>2. note'[u].awaited = note[u].awaited
  <2>1. PICK t \in BOOLEAN : note'[u] = [note[u] EXCEPT !.torn = t]
    BY JoinRoomDoes
  <2>2. note[u] \in Notes
    BY DEF Types
  <2>. QED  BY <2>1, <2>2 DEF Notes
<1>3. \A w \in Users \ {u} : out'[w] = out[w] /\ view'[w] = view[w]
  BY <1>1, JoinRoomEvents DEF Turns
<1>4. note'[u].awaited = {}
  BY <1>1, <1>2, AwaitsNone DEF Attentive
<1>5. \A w \in Users \ {u} : Aside(w)
  BY <1>1, <1>3, QuietSteps DEF Aside
<1>6. (\A m : CastKept(m)) /\ Grown
  BY <1>1, Kept DEF Grown
<1>. QED  BY <1>1, <1>4, <1>5, <1>6, AwaitsApart

LEMMA ComposeAwaits ==
    ASSUME Types, Sound, Awaits, NEW u \in Users, Compose(u)
    PROVE  Awaits'
<1>0. PICK n : n = Len(sent')
  OBVIOUS
<1>1. /\ Types' /\ sent' = Append(sent, [by |-> u, room |-> view[u].room])
      /\ Turns(u, [view[u] EXCEPT !.composing = @ \cup {n}])
      /\ UNCHANGED <<online, out, inbox, stored, job, note>>
  BY <1>0, ComposeDoes DEF ServerSame
<1>2. \A w \in Users : /\ view'[w].room = view[w].room /\ view'[w].fetches = view[w].fetches
                       /\ view'[w].joining = view[w].joining
                       /\ view'[w].list = view[w].list /\ view'[w].showing = view[w].showing
  <2>1. PICK v : v = [view[u] EXCEPT !.composing = @ \cup {n}]
    OBVIOUS
  <2>2. /\ v.room = view[u].room /\ v.fetches = view[u].fetches /\ v.joining = view[u].joining
        /\ v.list = view[u].list /\ v.showing = view[u].showing
    BY <2>1 DEF Types, Views
  <2>. QED  BY <1>1, <2>1, <2>2 DEF Turns
<1>3. \A w \in Users : \A m : ListKept(w, m)
  BY <1>2, Kept
<1>4. (\A m : CastKept(m)) /\ Grown
  BY <1>1, Kept DEF Grown, Types, Views
<1>. QED  BY <1>1, <1>2, <1>3, <1>4, QuietSteps, AwaitsLooks

LEMMA EncryptedAwaits ==
    ASSUME Types, Sound, Single, Awaits, NEW u \in Users, NEW m, EncryptedChannel(u, m) \/ EncryptedDM(u, m)
    PROVE  Awaits'
<1>1. /\ Types' /\ m \in view[u].composing
      /\ UNCHANGED <<online, inbox, stored, job, sent, note>>
  BY EncryptedDoes DEF ServerSame
<1>2. PICK list \in Seq(Entries) :
        /\ Turns(u, Encrypted(u, m, list))
        /\ RoomOf(m) \in Channels /\ online[u] => list = view[u].list
        /\ list # view[u].list => \E x \in Entries :
              /\ x.msg = m /\ x.status # "read" /\ list = Append(view[u].list, x)
  BY EncryptedDoes
<1>3. \A w \in Users : /\ view'[w].room = view[w].room /\ view'[w].fetches = view[w].fetches
                       /\ view'[w].joining = view[w].joining /\ view'[w].showing = view[w].showing
                       /\ view'[w].list = IF w = u THEN list ELSE view[w].list
  <2>1. PICK v : v = Encrypted(u, m, list)
    OBVIOUS
  <2>2. /\ v.room = view[u].room /\ v.fetches = view[u].fetches /\ v.joining = view[u].joining
        /\ v.list = list /\ v.showing = view[u].showing
    BY <2>1 DEF Encrypted, Types, Views
  <2>. QED  BY <1>2, <2>1, <2>2 DEF Turns
<1>4. m \notin stored
  <2>1. RoomOf(m) \in Channels => m \notin stored
    BY <1>1 DEF Single, Unstored
  <2>2. m \in stored => RoomOf(m) \in Channels
    BY DEF Sound, InChannel
  <2>. QED  BY <2>1, <2>2
<1>5. ASSUME NEW w \in Users, NEW n \in note[w].awaited PROVE ListKept(w, n)
  <2>1. n # m
    BY <1>4, <1>5 DEF Awaits, Awaited
  <2>2. CASE view'[w].list = view[w].list
    BY <2>2, Kept
  <2>3. CASE view'[w].list # view[w].list
    <3>1. PICK x \in Entries, l \in Seq(Entries) :
            x.msg = m /\ l = view[w].list /\ view'[w].list = Append(l, x)
      BY <1>2, <1>3, <2>3 DEF Types, Views
    <3>. QED  BY <2>1, <3>1 DEF ListKept
  <2>. QED  BY <2>2, <2>3
<1>6. (\A n : CastKept(n)) /\ Grown
  BY <1>1, Kept DEF Grown
<1>. QED  BY <1>1, <1>3, <1>5, <1>6, EncryptedEvents, QuietSteps, AwaitsLooks

LEMMA EncryptFailsAwaits ==
    ASSUME Types, Sound, Awaits, NEW u \in Users, NEW m, EncryptFails(u, m)
    PROVE  Awaits'
<1>1. /\ Types' /\ UNCHANGED <<online, out, inbox, stored, job, sent, note>>
      /\ Turns(u, [view[u] EXCEPT !.composing = @ \ {m}])
  BY EncryptFailsDoes DEF ServerSame
<1>2. \A w \in Users : /\ view'[w].room = view[w].room /\ view'[w].fetches = view[w].fetches
                       /\ view'[w].joining = view[w].joining
                       /\ view'[w].list = view[w].list /\ view'[w].showing = view[w].showing
  <2>1. PICK v : v = [view[u] EXCEPT !.composing = @ \ {m}]
    OBVIOUS
  <2>2. /\ v.room = view[u].room /\ v.fetches = view[u].fetches /\ v.joining = view[u].joining
        /\ v.list = view[u].list /\ v.showing = view[u].showing
    BY <2>1 DEF Types, Views
  <2>. QED  BY <1>1, <2>1, <2>2 DEF Turns
<1>3. \A w \in Users : \A n : ListKept(w, n)
  BY <1>2, Kept
<1>4. (\A n : CastKept(n)) /\ Grown
  BY <1>1, Kept DEF Grown
<1>. QED  BY <1>1, <1>2, <1>3, <1>4, QuietSteps, AwaitsLooks

LEMMA DeleteMessageAwaits ==
    ASSUME Types, Sound, Awaits, NEW u \in Users, NEW i \in DOMAIN view[u].list,
           DeleteMessage(u, view[u].list[i])
    PROVE  Awaits'
<1>1. Types' /\ UNCHANGED <<view, online, inbox, stored, job, sent, note>>
  BY DeleteMessageDoes DEF ServerSame
<1>2. PICK e \in Events : /\ Emit(u, <<e>>) /\ e.type = "delete" /\ e.room \in Rooms
                          /\ e.msg \in {0, view[u].list[i].msg}
  BY DeleteMessageDoes
<1>3. NoMoves
  BY <1>2, EmitsOneQuietly
<1>4. (\A w, n : ListKept(w, n)) /\ (\A n : CastKept(n)) /\ Grown
  BY <1>1, Kept DEF Grown
<1>. QED  BY <1>1, <1>3, <1>4, QuietSteps, AwaitsLooks

LEMMA DropCopyAwaits ==
    ASSUME Types, Sound, Awaits, NEW u \in Users, DropCopy(u)
    PROVE  Awaits'
<1>1. Types' /\ UNCHANGED <<online, inbox, stored, job, sent, note>>
  BY DropCopyDoes DEF ServerSame
<1>2. PICK e \in Events, i \in DOMAIN view[u].queue :
        /\ Turns(u, [view[u] EXCEPT !.queue = Tail(@)])
        /\ view[u].queue # <<>> /\ i = 1
        /\ Emit(u, <<e>>) /\ e.type = "ack" /\ e.msg = view[u].queue[i].msg
  BY DropCopyDoes
<1>3. \A w \in Users : /\ view'[w].room = view[w].room /\ view'[w].fetches = view[w].fetches
                       /\ view'[w].joining = view[w].joining
                       /\ view'[w].list = view[w].list /\ view'[w].showing = view[w].showing
  <2>1. PICK v : v = [view[u] EXCEPT !.queue = Tail(@)]
    OBVIOUS
  <2>2. /\ v.room = view[u].room /\ v.fetches = view[u].fetches /\ v.joining = view[u].joining
        /\ v.list = view[u].list /\ v.showing = view[u].showing
    BY <2>1 DEF Types, Views
  <2>. QED  BY <1>2, <2>1, <2>2 DEF Turns
<1>4. NoMoves
  BY <1>2, EmitsOneQuietly
<1>5. (\A w \in Users : \A n : ListKept(w, n)) /\ (\A n : CastKept(n)) /\ Grown
  BY <1>1, <1>3, Kept DEF Grown
<1>. QED  BY <1>1, <1>3, <1>4, <1>5, QuietSteps, AwaitsLooks

LEMMA FetchAwaits ==
    ASSUME Types, Sound, Awaits, NEW u \in Users, NEW f, Fetch(u, f)
    PROVE  Awaits'
<1>1. /\ Types' /\ UNCHANGED <<online, out, inbox, stored, job, sent, note>>
      /\ f \in view[u].fetches
  BY FetchesDo DEF ServerSame
<1>2. \A w \in Users \ {u} : view'[w] = view[w]
  BY FetchesDo DEF Turns
<1>3. note'[u].awaited = {}
  BY <1>1, AwaitsNone DEF Attentive
<1>4. \A w \in Users \ {u} : Aside(w)
  BY <1>1, <1>2, QuietSteps DEF Aside
<1>5. (\A n : CastKept(n)) /\ Grown
  BY <1>1, Kept DEF Grown
<1>. QED  BY <1>1, <1>3, <1>4, <1>5, AwaitsApart

\* A message that arrives is decrypted.
LEMMA ReceiveAwaits ==
    ASSUME Types, Sound, Awaits, NEW u \in Users, Receives(u)
    PROVE  Awaits'
<1>1. /\ Types' /\ UNCHANGED <<online, out, stored, job, sent, note>>
      /\ \A w \in Users \ {u} : inbox'[w] = inbox[w]
  BY ReceiveDoes DEF ServerSame, Receives
<1>2. PICK e \in News, v \in Views :
        /\ inbox[u] # <<>> /\ e = inbox[u][1] /\ 1 \in DOMAIN inbox[u]
        /\ inbox'[u] = Tail(inbox[u])
        /\ Turns(u, v)
        /\ v.room = view[u].room /\ v.channel = view[u].channel
        /\ v.fetches = view[u].fetches /\ v.joining = view[u].joining
        /\ v.composing = view[u].composing
        /\ v.showing = IF e.type = "message"
                       THEN view[u].showing \cup {[msg |-> e.msg, room |-> view[u].room]}
                       ELSE view[u].showing
        /\ DOMAIN v.list = DOMAIN view[u].list
        /\ \A i \in DOMAIN v.list : v.list[i].msg = view[u].list[i].msg
  BY ReceiveViews
<1>3. /\ \A w \in Users \ {u} : view'[w] = view[w]
      /\ view'[u] = v
  BY <1>2 DEF Turns
<1>4. (\A m : CastKept(m)) /\ Grown
  BY <1>1, Kept DEF Grown
<1>5. \A w \in Users \ {u} : Aside(w)
  BY <1>1, <1>3, QuietSteps DEF Aside
<1>6. PICK s : s = inbox[u] /\ s \in Seq(News) /\ s # <<>>
  BY <1>2 DEF Types
<1>7. /\ \A i : i \in DOMAIN Tail(s) <=> i \in Nat /\ 1 <= i /\ i + 1 <= Len(s)
      /\ \A i : i \in DOMAIN s <=> i \in Nat /\ 1 <= i /\ i <= Len(s)
      /\ \A i \in DOMAIN Tail(s) : Tail(s)[i] = s[i + 1]
      /\ Len(s) \in Nat
  BY <1>6
<1>8. \A m : ListKept(u, m)
  BY <1>2, <1>3 DEF ListKept
<1>9. ASSUME NEW m \in note[u].awaited, e.type = "message" => e.msg # m
      PROVE  AwaitedKept(u, m)
  <2>1. InboxKept(u, m, 1)
    <3>1. ASSUME NEW i \in Nat
          PROVE  i \in DOMAIN Tail(s) /\ Tail(s)[i].type = "message" /\ Tail(s)[i].msg = m
                   <=> i + 1 \in DOMAIN s /\ s[i + 1].type = "message" /\ s[i + 1].msg = m
      <4>1. CASE i = 0
        BY <1>2, <1>6, <1>7, <1>9, <4>1
      <4>2. CASE i # 0
        BY <1>7, <4>2
      <4>. QED  BY <4>1, <4>2
    <3>. QED  BY <1>2, <1>6, <3>1 DEF InboxKept, Brings
  <2>2. ShowingKept(u, m)
    BY <1>2, <1>3, <1>9 DEF ShowingKept
  <2>. QED  BY <1>1, <1>2, <1>3, <1>4, <1>8, <2>1, <2>2, QuietSteps, AwaitedIsKept
<1>10. ASSUME NEW m \in note[u].awaited, e.type = "message", e.msg = m
       PROVE  Awaited(u, m)'
  <2>1. Awaited(u, m) /\ Brings(u, 1, m) /\ Coming(u, m)
    BY <1>2, <1>10 DEF Awaits, Brings, Coming
  <2>2. ~ToCast(m) /\ ComesOnce(u, m) /\ ~Shown(u, m) /\ ~InList(u, m)
    BY <2>1 DEF Awaited, Stage
  <2>3. ~ToCast(m)'
    BY <1>1, <2>2 DEF ToCast
  <2>4. ~Coming(u, m)'
    <3>1. ASSUME NEW i \in DOMAIN inbox'[u], Brings(u, i, m)' PROVE FALSE
      <4>1. i + 1 \in DOMAIN s /\ inbox'[u][i] = s[i + 1] /\ i >= 1 /\ i \in Nat
        BY <1>2, <1>6, <1>7
      <4>2. Brings(u, i + 1, m)
        BY <1>6, <3>1, <4>1 DEF Brings
      <4>3. i + 1 = 1
        BY <1>2, <1>6, <2>1, <2>2, <4>1, <4>2 DEF ComesOnce
      <4>. QED  BY <4>1, <4>3
    <3>. QED  BY <3>1 DEF Coming
  <2>5. Shown(u, m)' /\ \A t \in view'[u].showing : t.msg = m => t.room = view[u].room
    <3>1. PICK k : k = [msg |-> m, room |-> view[u].room]
      OBVIOUS
    <3>2. view'[u].showing = view[u].showing \cup {k} /\ k.msg = m /\ k.room = view[u].room
      BY <1>2, <1>3, <1>10, <3>1
    <3>3. \A t \in view[u].showing : t.msg # m
      BY <2>2 DEF Shown
    <3>4. Shown(u, m)'
      BY <3>2 DEF Shown
    <3>. QED  BY <3>2, <3>3, <3>4
  <2>6. ~InList(u, m)'
    BY <1>2, <1>3, <2>2 DEF InList
  <2>7. StillAttends(u)
    BY <1>1, <1>2, <1>3, QuietSteps DEF StillAttends, HandlersQuiet, EventsQuiet
  <2>8. Attentive(u, view[u].room)'
    <3>1. PICK r : r = view[u].room
      OBVIOUS
    <3>2. Attentive(u, r)'
      BY <2>1, <2>7, <3>1, AttentiveStays DEF Awaited
    <3>. QED  BY <1>2, <1>3, <3>1, <3>2
  <2>9. m \in stored' /\ RoomOf(m)' = view'[u].room /\ view[u].room = RoomOf(m)'
    BY <1>1, <1>2, <1>3, <2>1 DEF Awaited, RoomOf
  <2>. QED  BY <2>3, <2>4, <2>5, <2>6, <2>8, <2>9 DEF Awaited, Stage
<1>11. \A m \in note'[u].awaited : Awaited(u, m)' \/ AwaitedKept(u, m)
  BY <1>1, <1>9, <1>10
<1>. QED  BY <1>1, <1>4, <1>5, <1>11, AwaitsApart

\* A message that is decrypted is listed.
LEMMA ShowMessageAwaits ==
    ASSUME Types, Sound, Awaits, NEW u \in Users, NEW s, ShowMessage(u, s)
    PROVE  Awaits'
<1>1. /\ Types' /\ UNCHANGED <<online, out, inbox, stored, job, sent, note>>
      /\ s \in view[u].showing /\ s \in Sights
  BY ShowMessageDoes DEF ServerSame
<1>2. PICK v \in Views, x \in Entries :
        /\ Turns(u, v) /\ x.msg = s.msg
        /\ v.room = view[u].room /\ v.channel = view[u].channel
        /\ v.fetches = view[u].fetches /\ v.joining = view[u].joining
        /\ v.composing = view[u].composing /\ v.showing = view[u].showing \ {s}
        /\ v.list = IF Belongs(s) THEN Append(view[u].list, x) ELSE view[u].list
  BY ShowMessageViews
<1>3. /\ \A w \in Users \ {u} : view'[w] = view[w]
      /\ view'[u] = v
  BY <1>2 DEF Turns
<1>4. (\A m : CastKept(m)) /\ Grown /\ \A w, m : InboxKept(w, m, 0)
  BY <1>1, Kept DEF Grown
<1>5. \A w \in Users \ {u} : Aside(w)
  BY <1>1, <1>3, QuietSteps DEF Aside
<1>6. PICK l : l = view[u].list /\ l \in Seq(Entries)
  BY DEF Types, Views
<1>7. /\ \A i \in DOMAIN l : i \in DOMAIN Append(l, x) /\ Append(l, x)[i] = l[i]
      /\ \A i \in DOMAIN Append(l, x) : i \in DOMAIN l \/ (i = Len(l) + 1 /\ Append(l, x)[i] = x)
      /\ Len(l) + 1 \in DOMAIN Append(l, x) /\ Append(l, x)[Len(l) + 1] = x
  BY <1>6
<1>9. ASSUME NEW m \in note[u].awaited, s.msg # m
      PROVE  AwaitedKept(u, m)
  <2>1. ShowingKept(u, m)
    BY <1>2, <1>3, <1>9 DEF ShowingKept
  <2>2. ListKept(u, m)
    <3>1. CASE Belongs(s)
      <4>1. view'[u].list = Append(l, x) /\ x.msg # m
        BY <1>2, <1>3, <1>6, <1>9, <3>1
      <4>. QED  BY <1>6, <1>7, <4>1 DEF ListKept
    <3>2. CASE ~Belongs(s)
      BY <1>2, <1>3, <3>2 DEF ListKept
    <3>. QED  BY <3>1, <3>2
  <2>. QED  BY <1>1, <1>2, <1>3, <1>4, <2>1, <2>2, QuietSteps, AwaitedIsKept
<1>10. ASSUME NEW m \in note[u].awaited, s.msg = m
       PROVE  Awaited(u, m)'
  <2>1. Awaited(u, m) /\ Shown(u, m)
    BY <1>1, <1>10 DEF Awaits, Shown
  <2>2. ~ToCast(m) /\ ~Coming(u, m) /\ ~InList(u, m)
    BY <2>1 DEF Awaited, Stage
  <2>3. ~ToCast(m)' /\ ~Coming(u, m)'
    BY <1>1, <2>2 DEF ToCast, Coming, Brings
  <2>4. Belongs(s)
    BY <1>1, <1>10, <2>1 DEF Awaited, Belongs
  <2>5. ~Shown(u, m)'
    <3>1. ASSUME NEW t \in view'[u].showing, t.msg = m PROVE FALSE
      <4>1. t \in view[u].showing /\ t # s /\ t.room = s.room
        BY <1>1, <1>2, <1>3, <1>10, <2>1, <3>1 DEF Awaited
      <4>2. t \in Sights
        BY <4>1 DEF Types, Views
      <4>. QED  BY <1>1, <1>10, <3>1, <4>1, <4>2 DEF Sights
    <3>. QED  BY <3>1 DEF Shown
  <2>6. InList(u, m)' /\ ListedOnce(u, m)'
    <3>1. view'[u].list = Append(l, x)
      BY <1>2, <1>3, <1>6, <2>4
    <3>2. \A i \in DOMAIN Append(l, x) : Append(l, x)[i].msg = m => i = Len(l) + 1
      BY <1>6, <1>7, <2>2 DEF InList
    <3>. QED  BY <1>2, <1>7, <1>10, <3>1, <3>2 DEF InList, ListedOnce
  <2>7. StillAttends(u)
    BY <1>1, <1>2, <1>3, QuietSteps DEF StillAttends, HandlersQuiet, EventsQuiet
  <2>8. Attentive(u, view[u].room)'
    <3>1. PICK r : r = view[u].room
      OBVIOUS
    <3>2. Attentive(u, r)'
      BY <2>1, <2>7, <3>1, AttentiveStays DEF Awaited
    <3>. QED  BY <1>2, <1>3, <3>1, <3>2
  <2>9. m \in stored' /\ RoomOf(m)' = view'[u].room
    BY <1>1, <1>2, <1>3, <2>1 DEF Awaited, RoomOf
  <2>. QED  BY <2>3, <2>5, <2>6, <2>8, <2>9 DEF Awaited, Stage, Shown
<1>11. \A m \in note'[u].awaited : Awaited(u, m)' \/ AwaitedKept(u, m)
  BY <1>1, <1>9, <1>10
<1>. QED  BY <1>1, <1>4, <1>5, <1>11, AwaitsApart

LEMMA ShowDirectAwaits ==
    ASSUME Types, Sound, Awaits, NEW u \in Users, ShowDirect(u)
    PROVE  Awaits'
<1>1. /\ Types' /\ UNCHANGED <<online, inbox, stored, job, sent>>
      /\ \A w \in Users \ {u} : note'[w] = note[w]
  BY ShowDirectDoes DEF ServerSame
<1>2. PICK v \in Views, x \in Entries :
        /\ Turns(u, v) /\ InDirect(x.msg)
        /\ v.room = view[u].room /\ v.channel = view[u].channel
        /\ v.fetches = view[u].fetches /\ v.joining = view[u].joining
        /\ v.composing = view[u].composing /\ v.showing = view[u].showing
        /\ v.list = view[u].list \/ v.list = Append(view[u].list, x)
        /\ SendsCarried(Zero) /\ NoMoves /\ \A w \in Users : MovesKept(w, 0)
        /\ note'[u].awaited = note[u].awaited /\ note'[u].torn = note[u].torn
        /\ note'[u].deaf = note[u].deaf
  BY ShowDirectViews
<1>3. \A w \in Users : /\ view'[w].room = view[w].room /\ view'[w].fetches = view[w].fetches
                       /\ view'[w].joining = view[w].joining /\ view'[w].showing = view[w].showing
                       /\ view'[w].list = IF w = u THEN v.list ELSE view[w].list
  BY <1>2 DEF Turns
<1>4. \A w \in Users : /\ note'[w].awaited = note[w].awaited
                       /\ note'[w].torn = note[w].torn /\ note'[w].deaf = note[w].deaf
  BY <1>1, <1>2
<1>5. ASSUME NEW w \in Users, NEW n \in note[w].awaited PROVE ListKept(w, n)
  <2>1. n # x.msg
    BY <1>2, <1>5, Kinds DEF Awaits, Awaited, Sound, InChannel, InDirect
  <2>2. CASE view'[w].list = view[w].list
    BY <2>2, Kept
  <2>3. CASE view'[w].list # view[w].list
    <3>1. PICK l \in Seq(Entries) : l = view[w].list /\ view'[w].list = Append(l, x)
      BY <1>2, <1>3, <2>3 DEF Types, Views
    <3>. QED  BY <2>1, <3>1 DEF ListKept
  <2>. QED  BY <2>2, <2>3
<1>6. (\A n : CastKept(n)) /\ Grown
  BY <1>1, Kept DEF Grown
<1>. QED  BY <1>1, <1>2, <1>3, <1>4, <1>5, <1>6, QuietSteps, AwaitsLooks

\* Handlers that do not cast.
LEMMA CastOther ==
    ASSUME NEW h \in Handlers, \A g \in Handlers \ {h} : job'[g] = job[g],
           job[h].at # "cast", job'[h].at # "cast"
    PROVE  \A m : CastKept(m)
  BY DEF CastKept

LEMMA MoveAwaits ==
    ASSUME Types, Sound, Awaits, NEW u \in Users, NEW h \in Handlers, SwitchRoom(u, h) \/ Join(u, h)
    PROVE  Awaits'
<1>1. /\ Types'
      /\ \A w \in Users \ {u} : out'[w] = out[w] /\ note'[w] = note[w]
      /\ \A g \in Handlers \ {h} : job'[g] = job[g]
      /\ 1 \in DOMAIN out[u] /\ out[u][1].type \in {"switch", "join"}
      /\ job[h].at = "idle" /\ job'[h].by = u /\ job'[h].at \in Moving
      /\ UNCHANGED <<view, online, inbox, stored, sent>>
  BY MoveDoes DEF Moving
<1>2. note'[u].awaited = note[u].awaited
  <2>1. PICK t \in BOOLEAN : t = (note[u].torn \/ Switching(u) # {}) /\ note'[u] = [note[u] EXCEPT !.torn = t]
    BY MoveDoes
  <2>. QED  BY <2>1 DEF Types, Notes
<1>3. note'[u].awaited = {}
  BY <1>1, <1>2, AwaitsNone DEF Attentive
<1>4. \A w \in Users \ {u} : HandlersQuiet(w)
  BY <1>1 DEF HandlersQuiet, Switching
<1>5. \A w \in Users \ {u} : Aside(w)
  BY <1>1, <1>4, QuietSteps DEF Aside
<1>6. \A m : CastKept(m)
  BY <1>1, CastOther DEF Moving
<1>7. Grown
  BY <1>1 DEF Grown
<1>. QED  BY <1>1, <1>3, <1>5, <1>6, <1>7, AwaitsApart

LEMMA BeginsAwaits ==
    ASSUME Types, Sound, Awaits, NEW u \in Users, NEW h \in Handlers, SendMessage(u, h) \/ Handle(u, h)
    PROVE  Awaits'
<1>1. /\ Types' /\ \A w \in Users \ {u} : out'[w] = out[w]
      /\ 1 \in DOMAIN out[u] /\ out'[u] = Tail(out[u])
      /\ UNCHANGED <<view, online, inbox, stored, sent, note>>
  BY BeginsDoes
<1>2. PICK e \in Events :
        /\ e = out[u][1] /\ e.type \in OutTypes \ {"switch", "join"}
        /\ \/ job' = job
           \/ /\ job[h].at = "idle" /\ job'[h].at = Label(e.type) /\ job'[h].by = u
              /\ job'[h].msg = e.msg /\ job'[h].room = e.room
              /\ \A g \in Handlers \ {h} : job'[g] = job[g]
  BY BeginsDoes
<1>3. e.type \in OutTypes \ {"switch", "join"} => Label(e.type) \in {"insert", "erase", "queue", "ack", "read"}
  BY DEF OutTypes, Label, FirstAwait
<1>4. (\A m : CastKept(m)) /\ \A w : HandlersQuiet(w)
  <2>1. CASE job' = job
    BY <2>1, Kept, QuietSteps
  <2>2. CASE /\ job[h].at = "idle" /\ job'[h].at = Label(e.type)
             /\ \A g \in Handlers \ {h} : job'[g] = job[g]
    <3>1. job[h].at # "cast" /\ job'[h].at # "cast" /\ job'[h].at \notin Moving
      BY <1>2, <1>3, <2>2 DEF Moving
    <3>2. \A m : CastKept(m)
      BY <2>2, <3>1, CastOther
    <3>. QED  BY <2>2, <3>1, <3>2 DEF HandlersQuiet, Switching
  <2>. QED  BY <1>2, <2>1, <2>2
<1>5. \A w \in Users : EventsQuiet(w)
  BY <1>1, Takes, QuietSteps
<1>6. (\A w, m : ListKept(w, m)) /\ Grown
  BY <1>1, Kept DEF Grown
<1>. QED  BY <1>1, <1>4, <1>5, <1>6, AwaitsLooks

LEMMA MovingAwaits ==
    ASSUME Types, Sound, Awaits, NEW h \in Handlers, FindRoom(h) \/ Move(h) \/ Mark(h) \/ Enter(h)
    PROVE  Awaits'
<1>1. /\ Types' /\ UNCHANGED <<view, online, out, inbox, stored, sent, note>>
      /\ \A g \in Handlers \ {h} : job'[g] = job[g]
      /\ job[h].by \in Users /\ job[h].at \in Moving
  BY MovingDoes
<1>2. job'[h] = Idle \/ job'[h].by = job[h].by
  BY MovingDoes
<1>3. job'[h].at # "cast"
  <2>1. FindRoom(h) => job'[h].at \in {"home", "register", "idle"}
    BY JobDoes DEF FindRoom, Labels, Moving
  <2>2. Move(h) => job'[h].at = "mark"
    BY JobDoes DEF Move, Labels, Moving
  <2>3. Mark(h) => job'[h].at \in {"enter", "idle"}
    BY JobDoes DEF Mark, Labels, Moving
  <2>4. Enter(h) => job'[h].at = "idle"
    BY JobDoes DEF Enter
  <2>. QED  BY <2>1, <2>2, <2>3, <2>4
<1>4. PICK u \in Users : u = job[h].by
  BY <1>1
<1>5. note'[u].awaited = {}
  <2>1. Switching(u) # {}
    BY <1>1, <1>4 DEF Switching
  <2>. QED  BY <1>1, <2>1, AwaitsNone DEF Attentive
<1>6. \A w \in Users \ {u} : HandlersQuiet(w)
  BY <1>1, <1>2, <1>4, IdleDoesNotSend DEF HandlersQuiet, Switching
<1>7. \A w \in Users \ {u} : Aside(w)
  BY <1>1, <1>6, QuietSteps DEF Aside
<1>8. \A m : CastKept(m)
  BY <1>1, <1>3, CastOther DEF Moving
<1>9. Grown
  BY <1>1 DEF Grown
<1>. QED  BY <1>1, <1>5, <1>7, <1>8, <1>9, AwaitsApart

\* A message that is stored is waited for by those who attend to its channel.
LEMMA InsertAwaits ==
    ASSUME Types, Sound, Single, Awaits, NEW h \in Handlers, Insert(h) \/ InsertFails(h)
    PROVE  Awaits'
<1>0. PICK m : m = job[h].msg
  OBVIOUS
<1>1. /\ Types' /\ UNCHANGED <<view, online, out, inbox, sent>>
      /\ job[h].at = "insert" /\ job'[h].at = "cast" /\ job'[h].msg = m
      /\ \A g \in Handlers \ {h} : job'[g] = job[g]
      /\ stored' \in {stored, stored \cup {m}} /\ (Insert(h) => stored' = stored \cup {m})
      /\ \A u \in Users :
           \/ note'[u] = note[u]
           \/ /\ Insert(h) /\ Attentive(u, job[h].room)
              /\ note'[u] = [note[u] EXCEPT !.awaited = @ \cup {m}]
  BY <1>0, InsertDoes
<1>2. Unstored(m) /\ InChannel(m) /\ RoomOf(m) = job[h].room
  BY <1>0, <1>1 DEF Single, Sound, JobSound
<1>3. /\ \A u \in Users : note'[u].torn = note[u].torn /\ note'[u].deaf = note[u].deaf
      /\ \A u \in Users : \A n \in note'[u].awaited :
           n \in note[u].awaited \/ (n = m /\ Insert(h) /\ Attentive(u, job[h].room))
  <2>1. ASSUME NEW u \in Users, Insert(h), Attentive(u, job[h].room),
               note'[u] = [note[u] EXCEPT !.awaited = @ \cup {m}]
        PROVE  /\ note'[u].torn = note[u].torn /\ note'[u].deaf = note[u].deaf
               /\ note'[u].awaited = note[u].awaited \cup {m}
    BY <2>1 DEF Types, Notes
  <2>2. ASSUME NEW u \in Users
        PROVE  /\ note'[u].torn = note[u].torn /\ note'[u].deaf = note[u].deaf
               /\ \A n \in note'[u].awaited :
                    n \in note[u].awaited \/ (n = m /\ Insert(h) /\ Attentive(u, job[h].room))
    <3>1. CASE note'[u] = note[u]
      BY <3>1
    <3>2. CASE /\ Insert(h) /\ Attentive(u, job[h].room)
               /\ note'[u] = [note[u] EXCEPT !.awaited = @ \cup {m}]
      BY <2>1, <3>2
    <3>. QED  BY <1>1, <3>1, <3>2
  <2>. QED  BY <2>2
<1>4. Grown
  BY <1>1 DEF Grown
<1>5. \A u \in Users : HandlersQuiet(u) /\ EventsQuiet(u)
  <2>1. \A u \in Users : HandlersQuiet(u)
    BY <1>1 DEF HandlersQuiet, Switching, Moving
  <2>. QED  BY <1>1, <2>1, QuietSteps
<1>6. ASSUME NEW u \in Users, NEW n \in note[u].awaited PROVE AwaitedKept(u, n)
  <2>1. n # m
    BY <1>2, <1>6 DEF Awaits, Awaited, Unstored
  <2>2. CastKept(n)
    BY <1>0, <1>1, <2>1 DEF CastKept
  <2>3. ShowingKept(u, n) /\ ListKept(u, n) /\ InboxKept(u, n, 0)
    BY <1>1, Kept
  <2>. QED  BY <1>1, <1>3, <1>5, <2>2, <2>3, AwaitedIsKept
<1>7. ASSUME NEW u \in Users, Insert(h), Attentive(u, job[h].room) PROVE Awaited(u, m)'
  <2>1. StillAttends(u)
    BY <1>1, <1>3, <1>5 DEF StillAttends, HandlersQuiet, EventsQuiet
  <2>2. Attentive(u, view[u].room)'
    <3>1. PICK r : r = job[h].room
      OBVIOUS
    <3>2. Attentive(u, r)' /\ view[u].room = r
      BY <1>7, <2>1, <3>1, AttentiveStays DEF Attentive
    <3>. QED  BY <1>1, <3>2
  <2>3. m \in stored' /\ RoomOf(m)' = view'[u].room
    BY <1>1, <1>2, <1>7 DEF Attentive, RoomOf
  <2>4. ~Coming(u, m)' /\ ~Shown(u, m)' /\ ~InList(u, m)'
    BY <1>1, <1>2 DEF Unstored, Coming, Brings, Shown, InList
  <2>5. ToCast(m)'
    BY <1>1 DEF ToCast
  <2>. QED  BY <2>2, <2>3, <2>4, <2>5 DEF Awaited, Stage, Shown
<1>8. \A u \in Users : \A n \in note'[u].awaited : Awaited(u, n)' \/ AwaitedKept(u, n)
  BY <1>3, <1>6, <1>7
<1>9. stored \subseteq stored'
  BY <1>1
<1>. QED  BY <1>1, <1>4, <1>8, <1>9, AwaitsStep DEF AwaitedKept

\* An event of another kind, or of another message, is added.
LEMMA InboxAppends ==
    ASSUME Types, NEW u \in Users, NEW m, NEW e \in News, ~(e.type = "message" /\ e.msg = m),
           inbox'[u] = inbox[u] \/ inbox'[u] = Append(inbox[u], e)
    PROVE  InboxKept(u, m, 0)
<1>1. CASE inbox'[u] = inbox[u]
  BY <1>1, Kept
<1>2. CASE inbox'[u] = Append(inbox[u], e)
  <2>1. PICK s : s = inbox[u] /\ s \in Seq(News)
    BY DEF Types
  <2>2. /\ \A i \in DOMAIN s : i \in DOMAIN Append(s, e) /\ Append(s, e)[i] = s[i]
        /\ \A i \in DOMAIN Append(s, e) : i \in DOMAIN s \/ Append(s, e)[i] = e
    BY <2>1
  <2>3. \A i \in Nat : i + 0 = i
    OBVIOUS
  <2>. QED  BY <1>2, <2>1, <2>2, <2>3 DEF InboxKept, Brings
<1>. QED  BY <1>1, <1>2

\* A message that is cast arrives once at each attentive browser.
LEMMA CastAwaited ==
    ASSUME Types, Sound, Located, Single, Awaits, NEW h \in Handlers, Cast(h),
           NEW u \in Users, NEW m \in note[u].awaited, m = job[h].msg
    PROVE  Awaited(u, m)'
<1>1. /\ job[h].at = "cast" /\ \A g \in Handlers \ {h} : job'[g] = job[g]
      /\ job'[h].at = "idle"
      /\ UNCHANGED <<view, online, out, stored, sent, note>>
  <2>1. job[h].at = "cast" /\ UNCHANGED <<view, online, out, stored, sent, note>>
    BY DEF Cast, client, tables, sockets, history
  <2>2. Done(h)
    BY DEF Cast
  <2>. QED  BY <2>1, <2>2, JobDoes
<1>2. Awaited(u, m)
  BY DEF Awaits
<1>3. ToCast(m) /\ ~Coming(u, m) /\ ~Shown(u, m) /\ ~InList(u, m)
  BY <1>1, <1>2 DEF Awaited, Stage, ToCast
<1>4. Attentive(u, view[u].room) /\ RoomOf(m) = view[u].room /\ job[h].room = view[u].room
  BY <1>1, <1>2 DEF Awaited, Sound, JobSound
<1>5. u \in Audience(h) /\ online[u]
  BY <1>4, Hears DEF Audience, Attentive
<1>6. inbox'[u] = Append(inbox[u], [type |-> "message", msg |-> m, status |-> "none"])
  BY <1>1, <1>5, TellsDoes
<1>7. Coming(u, m)' /\ ComesOnce(u, m)'
  <2>1. PICK s : s = inbox[u] /\ s \in Seq(News)
    BY DEF Types
  <2>2. PICK e : e = [type |-> "message", msg |-> m, status |-> "none"]
    OBVIOUS
  <2>3. e \in News /\ e.type = "message" /\ e.msg = m
    <3>1. m \in Nat
      BY DEF Types, Jobs
    <3>. QED  BY <2>2, <3>1 DEF News, Status
  <2>4. /\ \A i \in DOMAIN Append(s, e) : (i \in DOMAIN s /\ Append(s, e)[i] = s[i]) \/ i = Len(s) + 1
        /\ Len(s) + 1 \in DOMAIN Append(s, e) /\ Append(s, e)[Len(s) + 1] = e
    BY <2>1, <2>3
  <2>5. \A i \in DOMAIN s : ~(s[i].type = "message" /\ s[i].msg = m)
    BY <1>3, <2>1 DEF Coming, Brings
  <2>6. inbox'[u] = Append(s, e)
    BY <1>6, <2>1, <2>2
  <2>. QED  BY <2>3, <2>4, <2>5, <2>6 DEF Coming, ComesOnce, Brings
<1>8. ~ToCast(m)'
  <2>1. \A g \in Handlers : job[g].at = "cast" /\ job[g].msg = m => g = h
    BY <1>1 DEF Single, Sending
  <2>. QED  BY <1>1, <2>1 DEF ToCast
<1>9. ~Shown(u, m)' /\ ~InList(u, m)'
  BY <1>1, <1>3 DEF Shown, InList
<1>10. StillAttends(u)
  <2>1. HandlersQuiet(u)
    BY <1>1 DEF HandlersQuiet, Switching, Moving
  <2>2. EventsQuiet(u)
    BY <1>1, QuietSteps
  <2>. QED  BY <1>1, <2>1, <2>2 DEF StillAttends, HandlersQuiet, EventsQuiet
<1>11. Attentive(u, view[u].room)'
  <2>1. PICK r : r = view[u].room
    OBVIOUS
  <2>2. Attentive(u, r)'
    BY <1>4, <1>10, <2>1, AttentiveStays
  <2>. QED  BY <1>1, <2>1, <2>2
<1>12. m \in stored' /\ RoomOf(m)' = view'[u].room
  BY <1>1, <1>2, <1>4 DEF Awaited, RoomOf
<1>. QED  BY <1>7, <1>8, <1>9, <1>11, <1>12 DEF Awaited, Stage, Shown

LEMMA TellsAwaits ==
    ASSUME Types, Sound, Located, Single, Awaits, NEW h \in Handlers,
           Cast(h) \/ Erase(h) \/ TellDeleted(h) \/ Queue(h) \/ Dispatch(h) \/ Acknowledge(h) \/ MarkRead(h)
    PROVE  Awaits'
<1>1. /\ Types' /\ UNCHANGED <<view, online, out, stored, sent, note>>
      /\ \A g \in Handlers \ {h} : job'[g] = job[g]
      /\ job'[h] = Idle \/ job'[h].at \in {"tell", "dispatch"}
  BY TellsDoes
<1>2. job'[h].at # "cast" /\ job'[h].at \notin Moving
  BY <1>1, IdleDoesNotSend DEF Sending, Moving
<1>3. \A u \in Users : HandlersQuiet(u) /\ EventsQuiet(u)
  <2>1. \A u \in Users : HandlersQuiet(u)
    BY <1>1, <1>2 DEF HandlersQuiet, Switching
  <2>. QED  BY <1>1, <2>1, QuietSteps
<1>4. job[h].at = "cast" => Cast(h)
  BY DEF Erase, TellDeleted, Queue, Dispatch, Acknowledge, MarkRead
<1>5. ASSUME NEW u \in Users, NEW m \in note[u].awaited, ~(job[h].at = "cast" /\ job[h].msg = m)
      PROVE  AwaitedKept(u, m)
  <2>1. CastKept(m)
    BY <1>1, <1>2, <1>5 DEF CastKept
  <2>2. InboxKept(u, m, 0)
    <3>1. CASE inbox'[u] = inbox[u]
      BY <3>1, Kept
    <3>2. CASE inbox'[u] # inbox[u]
      <4>1. PICK e \in News :
            /\ inbox'[u] = Append(inbox[u], e) /\ e.msg = job[h].msg
            /\ \/ job[h].at = "cast" /\ e.type = "message" /\ u \in Audience(h) /\ online[u]
               \/ job[h].at = "tell" /\ e.type = "deleted"
               \/ job[h].at \in {"queue", "dispatch", "ack"}
                  /\ e.type = "status" /\ e.status # "read"
               \/ job[h].at = "dispatch" /\ e.type = "direct" /\ u = Peer(e.msg)
               \/ job[h].at = "read" /\ e.type = "status" /\ e.status = "read"
        BY <3>2, TellsDoes
      <4>2. ~(e.type = "message" /\ e.msg = m)
        BY <1>5, <4>1
      <4>. QED  BY <4>1, <4>2, InboxAppends
    <3>. QED  BY <3>1, <3>2
  <2>3. ShowingKept(u, m) /\ ListKept(u, m)
    BY <1>1, Kept
  <2>. QED  BY <1>1, <1>3, <2>1, <2>2, <2>3, AwaitedIsKept
<1>6. \A u \in Users : \A m \in note'[u].awaited : Awaited(u, m)' \/ AwaitedKept(u, m)
  BY <1>1, <1>4, <1>5, CastAwaited
<1>7. Grown /\ stored \subseteq stored'
  BY <1>1 DEF Grown
<1>. QED  BY <1>1, <1>6, <1>7, AwaitsStep DEF AwaitedKept

LEMMA RetriesAwaits ==
    ASSUME Types, Sound, Awaits, NEW m \in box, Retries(m)
    PROVE  Awaits'
<1>1. Types' /\ UNCHANGED <<view, online, out, stored, job, sent, note>>
  BY RetriesDo
<1>2. \A u \in Users : HandlersQuiet(u) /\ EventsQuiet(u)
  BY <1>1, QuietSteps
<1>3. ASSUME NEW u \in Users, NEW n \in note[u].awaited
      PROVE  AwaitedKept(u, n)
  <2>1. InboxKept(u, n, 0)
    <3>1. CASE inbox'[u] = inbox[u]
      BY <3>1, Kept
    <3>2. CASE inbox'[u] # inbox[u]
      <4>1. PICK e \in News : inbox'[u] = Append(inbox[u], e) /\ e.type # "message"
        BY <3>2, RetriesDo
      <4>. QED  BY <4>1, InboxAppends
    <3>. QED  BY <3>1, <3>2
  <2>2. ShowingKept(u, n) /\ ListKept(u, n) /\ CastKept(n)
    BY <1>1, Kept
  <2>. QED  BY <1>1, <1>2, <2>1, <2>2, AwaitedIsKept
<1>4. Grown /\ stored \subseteq stored'
  BY <1>1 DEF Grown
<1>. QED  BY <1>1, <1>3, <1>4, AwaitsStep DEF AwaitedKept

LEMMA AbortAwaits ==
    ASSUME Types, Sound, Awaits, NEW h \in Handlers, Abort(h)
    PROVE  Awaits'
<1>1. /\ Types' /\ UNCHANGED <<view, online, out, inbox, stored, sent>>
      /\ job'[h] = Idle /\ job[h].at \notin {"insert", "cast"}
      /\ \A g \in Handlers \ {h} : job'[g] = job[g]
      /\ job[h].by \in Users
      /\ \A w \in Users \ {job[h].by} : note'[w] = note[w]
  BY AbortDoes
<1>2. PICK u \in Users : u = job[h].by
  BY <1>1
<1>3. /\ note'[u].awaited = note[u].awaited /\ note'[u].deaf = note[u].deaf
      /\ job[h].at \notin Moving => note'[u].torn = note[u].torn
  <2>1. PICK t \in BOOLEAN : /\ t = (note[job[h].by].torn \/ job[h].at \in Moving)
                             /\ note'[job[h].by] = [note[job[h].by] EXCEPT !.torn = t]
    BY AbortDoes
  <2>2. note[u] \in Notes
    BY DEF Types
  <2>. QED  BY <1>2, <2>1, <2>2 DEF Notes
<1>4. \A w \in Users : HandlersQuiet(w) /\ EventsQuiet(w)
  <2>1. \A w \in Users : HandlersQuiet(w)
    BY <1>1, IdleDoesNotSend DEF HandlersQuiet, Switching
  <2>. QED  BY <1>1, <2>1, QuietSteps
<1>5. \A m : CastKept(m)
  <2>1. job'[h].at # "cast"
    BY <1>1, IdleDoesNotSend DEF Sending
  <2>. QED  BY <1>1, <2>1, CastOther
<1>6. \A w \in Users \ {u} : Aside(w)
  BY <1>1, <1>2, <1>4 DEF Aside
<1>7. ASSUME NEW m \in note'[u].awaited PROVE AwaitedKept(u, m)
  <2>1. CASE job[h].at \in Moving
    <3>1. Switching(u) # {}
      BY <1>2, <2>1 DEF Switching
    <3>. QED  BY <1>3, <1>7, <3>1, AwaitsNone DEF Attentive
  <2>2. CASE job[h].at \notin Moving
    <3>1. Aside(u)
      BY <1>1, <1>3, <1>4, <2>2 DEF Aside
    <3>. QED  BY <1>5, <1>7, <3>1, AsideKept
  <2>. QED  BY <2>1, <2>2
<1>8. Grown /\ stored \subseteq stored'
  BY <1>1 DEF Grown
<1>. QED  BY <1>1, <1>5, <1>6, <1>7, <1>8, AwaitsApart

LEMMA DisconnectAwaits ==
    ASSUME Types, Sound, Awaits, NEW u \in Users, Disconnect(u)
    PROVE  Awaits'
<1>1. /\ Types' /\ UNCHANGED <<view, stored, sent>>
      /\ \A w \in Users \ {u} : /\ out'[w] = out[w] /\ inbox'[w] = inbox[w]
                                /\ online'[w] = online[w] /\ note'[w] = note[w]
      /\ note'[u] = [note[u] EXCEPT !.awaited = {}, !.torn = FALSE, !.deaf = TRUE]
      /\ \A h \in Handlers : job'[h] = IF h \in Switching(u) THEN Idle ELSE job[h]
  BY DisconnectDoes
<1>2. note'[u].awaited = {}
  BY <1>1 DEF Types, Notes
<1>3. \A w \in Users : HandlersQuiet(w)
  BY <1>1, IdleDoesNotSend DEF HandlersQuiet, Switching
<1>4. \A w \in Users \ {u} : Aside(w)
  BY <1>1, <1>3, QuietSteps DEF Aside
<1>5. \A m : CastKept(m)
  BY <1>1, IdleDoesNotSend DEF CastKept, Switching, Moving, Sending
<1>6. Grown /\ stored \subseteq stored'
  BY <1>1 DEF Grown
<1>. QED  BY <1>1, <1>2, <1>4, <1>5, <1>6, AwaitsApart

LEMMA ReconnectAwaits ==
    ASSUME Types, Sound, Awaits, NEW u \in Users, Reconnect(u)
    PROVE  Awaits'
<1>1. /\ Types' /\ UNCHANGED <<view, out, inbox, stored, job, sent, note>>
      /\ ~online[u] /\ \A w \in Users \ {u} : online'[w] = online[w]
  BY ReconnectDoes
<1>2. note'[u].awaited = {}
  BY <1>1, AwaitsNone DEF Attentive
<1>3. \A w \in Users \ {u} : Aside(w)
  BY <1>1, QuietSteps DEF Aside
<1>4. (\A m : CastKept(m)) /\ Grown /\ stored \subseteq stored'
  BY <1>1, Kept DEF Grown
<1>. QED  BY <1>1, <1>2, <1>3, <1>4, AwaitsApart

LEMMA LapseAwaits ==
    ASSUME Types, Sound, Awaits, NEW u \in Users, Lapse(u)
    PROVE  Awaits'
<1>1. Types' /\ UNCHANGED <<view, online, out, inbox, stored, members, job, sent, note>>
  BY LapseDoes
<1>. QED  BY <1>1 DEF Awaits, Awaited, Attentive, Switching, Stage, ToCast, Coming, ComesOnce,
                      Brings, Shown, InList, ListedOnce, RoomOf

-----------------------------------------------------------------------------
(* Located, step by step.                                                  *)

LEMMA HandlersSame ==
    /\ job' = job => \A w : HandlersKept(w)
    /\ \A h \in Handlers :
         (\A g \in Handlers \ {h} : job'[g] = job[g]) =>
           /\ job[h].at \notin Moving /\ job'[h].at \notin Moving => \A w : HandlersKept(w)
           /\ \A w : job[h].by # w /\ job'[h].by # w => HandlersKept(w)
           /\ \A w : job[h].by # w /\ job'[h].at \notin Moving => HandlersKept(w)
           /\ \A w : job[h].at \notin Moving /\ job'[h].by # w => HandlersKept(w)
<1>1. job' = job => \A w : HandlersKept(w)
  BY DEF HandlersKept
<1>2. ASSUME NEW h \in Handlers, \A g \in Handlers \ {h} : job'[g] = job[g], NEW w,
             job[h].at \notin Moving \/ job[h].by # w, job'[h].at \notin Moving \/ job'[h].by # w
      PROVE  HandlersKept(w)
  BY <1>2 DEF HandlersKept
<1>. QED  BY <1>1, <1>2

\* The connection of a browser, and what it shows, is as it was.
LEMMA LocatedLooks ==
    ASSUME Types, Types', Sound, Located, rooms \subseteq rooms', members' = members, astray' = astray,
           \A w \in Users :
             /\ home'[w] \in {None, home[w]}
             /\ HandlersKept(w) /\ \E d \in {0, 1} : MovesKept(w, d)
             /\ online'[w] \/ ~online[w]
             /\ view'[w].channel = view[w].channel /\ view'[w].room = view[w].room
             /\ note'[w].torn = note[w].torn /\ note'[w].deaf = note[w].deaf
    PROVE  Located'
<1>1. ASSUME NEW w \in Users PROVE Placed(w)'
  <2>1. PICK d \in {0, 1} : MovesKept(w, d)
    OBVIOUS
  <2>2. Placed(w) /\ HandlersKept(w) /\ home'[w] \in {None, home[w]} /\ members'[w] = members[w]
    BY DEF Located
  <2>. QED  BY <2>1, <2>2, PlacedStays
<1>. QED  BY <1>1 DEF Located

\* A step of one browser leaves the others where they are.
LEMMA PlacedAside ==
    ASSUME Types, Types', Sound, NEW w \in Users, Placed(w), HandlersKept(w), out'[w] = out[w],
           rooms \subseteq rooms', home'[w] = home[w], members'[w] = members[w],
           w \in astray' <=> w \in astray,
           online'[w] = online[w], view'[w] = view[w], note'[w] = note[w]
    PROVE  Placed(w)'
<1>1. MovesKept(w, 0)
  BY OutSame
<1>. QED  BY <1>1, PlacedStays

LEMMA StaysLocated ==
    ASSUME Types, Sound, Located, NEW u \in Users, Stays(u)
    PROVE  Located'
<1>1. Types' /\ rooms \subseteq rooms' /\ UNCHANGED <<online, home, members, astray, job, note>>
  BY StaysDoes
<1>2. \/ /\ view[u].room \in Direct /\ u \in view[u].room /\ Turns(u, Reset(u))
         /\ Receipts(u, view[u].room) \in Seq(Events) /\ Emit(u, Receipts(u, view[u].room))
      \/ UNCHANGED <<view, out>>
  BY StaysDoes
<1>3. \A w \in Users : MovesKept(w, 0)
  <2>1. Quiet(Receipts(u, view[u].room))
    BY ReceiptsQuiet
  <2>. QED  BY <1>2, <2>1, OutSame, EmitsQuietly
<1>4. \A w \in Users : view'[w].room = view[w].room /\ view'[w].channel = view[w].channel
  <2>1. PICK v : v = Reset(u)
    OBVIOUS
  <2>2. v.room = view[u].room /\ v.channel = view[u].channel
    BY <2>1 DEF Reset, Types, Views
  <2>. QED  BY <1>2, <2>1, <2>2 DEF Turns
<1>. QED  BY <1>1, <1>3, <1>4, HandlersSame, LocatedLooks

LEMMA ComposeLocated ==
    ASSUME Types, Sound, Located, NEW u \in Users, Compose(u)
    PROVE  Located'
<1>0. PICK n : n = Len(sent')
  OBVIOUS
<1>1. /\ Types' /\ UNCHANGED <<online, out, rooms, home, members, astray, job, note>>
      /\ Turns(u, [view[u] EXCEPT !.composing = @ \cup {n}])
  BY <1>0, ComposeDoes DEF ServerSame
<1>2. \A w \in Users : view'[w].room = view[w].room /\ view'[w].channel = view[w].channel
  <2>1. PICK v : v = [view[u] EXCEPT !.composing = @ \cup {n}]
    OBVIOUS
  <2>2. v.room = view[u].room /\ v.channel = view[u].channel
    BY <2>1 DEF Types, Views
  <2>. QED  BY <1>1, <2>1, <2>2 DEF Turns
<1>. QED  BY <1>1, <1>2, OutSame, HandlersSame, LocatedLooks

LEMMA EncryptedLocated ==
    ASSUME Types, Sound, Located, NEW u \in Users, NEW m, EncryptedChannel(u, m) \/ EncryptedDM(u, m)
    PROVE  Located'
<1>1. Types' /\ UNCHANGED <<online, rooms, home, members, astray, job, note>>
  BY EncryptedDoes DEF ServerSame
<1>2. PICK list \in Seq(Entries) : Turns(u, Encrypted(u, m, list))
  BY EncryptedDoes
<1>3. \A w \in Users : view'[w].room = view[w].room /\ view'[w].channel = view[w].channel
  <2>1. PICK v : v = Encrypted(u, m, list)
    OBVIOUS
  <2>2. v.room = view[u].room /\ v.channel = view[u].channel
    BY <2>1 DEF Encrypted, Types, Views
  <2>. QED  BY <1>2, <2>1, <2>2 DEF Turns
<1>. QED  BY <1>1, <1>3, EncryptedEvents, HandlersSame, LocatedLooks

LEMMA EncryptFailsLocated ==
    ASSUME Types, Sound, Located, NEW u \in Users, NEW m, EncryptFails(u, m)
    PROVE  Located'
<1>1. /\ Types' /\ UNCHANGED <<online, out, rooms, home, members, astray, job, note>>
      /\ Turns(u, [view[u] EXCEPT !.composing = @ \ {m}])
  BY EncryptFailsDoes DEF ServerSame
<1>2. \A w \in Users : view'[w].room = view[w].room /\ view'[w].channel = view[w].channel
  <2>1. PICK v : v = [view[u] EXCEPT !.composing = @ \ {m}]
    OBVIOUS
  <2>2. v.room = view[u].room /\ v.channel = view[u].channel
    BY <2>1 DEF Types, Views
  <2>. QED  BY <1>1, <2>1, <2>2 DEF Turns
<1>. QED  BY <1>1, <1>2, OutSame, HandlersSame, LocatedLooks

LEMMA DeleteMessageLocated ==
    ASSUME Types, Sound, Located, NEW u \in Users, NEW i \in DOMAIN view[u].list,
           DeleteMessage(u, view[u].list[i])
    PROVE  Located'
<1>1. Types' /\ UNCHANGED <<view, online, rooms, home, members, astray, job, note>>
  BY DeleteMessageDoes DEF ServerSame
<1>2. PICK e \in Events : /\ Emit(u, <<e>>) /\ e.type = "delete" /\ e.room \in Rooms
                          /\ e.msg \in {0, view[u].list[i].msg}
  BY DeleteMessageDoes
<1>3. \A w \in Users : MovesKept(w, 0)
  BY <1>2, EmitsOneQuietly
<1>. QED  BY <1>1, <1>3, HandlersSame, LocatedLooks

LEMMA FetchLocated ==
    ASSUME Types, Sound, Located, NEW u \in Users, NEW f, Fetch(u, f)
    PROVE  Located'
<1>1. Types' /\ UNCHANGED <<online, out, rooms, home, members, astray, job, note>>
  BY FetchesDo DEF ServerSame
<1>2. PICK g \in SUBSET Fetches, list \in Seq(Entries) : Turns(u, Fetched(u, f, g, list))
  BY FetchesDo
<1>3. \A w \in Users : view'[w].room = view[w].room /\ view'[w].channel = view[w].channel
  <2>1. PICK v : v = Fetched(u, f, g, list)
    OBVIOUS
  <2>2. v.room = view[u].room /\ v.channel = view[u].channel
    BY <2>1 DEF Fetched, Types, Views
  <2>. QED  BY <1>2, <2>1, <2>2 DEF Turns
<1>. QED  BY <1>1, <1>3, OutSame, HandlersSame, LocatedLooks

LEMMA ReceiveLocated ==
    ASSUME Types, Sound, Located, NEW u \in Users, Receives(u)
    PROVE  Located'
<1>1. Types' /\ UNCHANGED <<online, out, rooms, home, members, astray, job, note>>
  BY ReceiveDoes DEF ServerSame, Receives
<1>2. \A w \in Users : view'[w].room = view[w].room /\ view'[w].channel = view[w].channel
  <2>1. PICK v \in Views : Turns(u, v) /\ v.room = view[u].room /\ v.channel = view[u].channel
    BY ReceiveViews
  <2>. QED  BY <2>1 DEF Turns
<1>. QED  BY <1>1, <1>2, OutSame, HandlersSame, LocatedLooks

LEMMA ShowMessageLocated ==
    ASSUME Types, Sound, Located, NEW u \in Users, NEW s, ShowMessage(u, s)
    PROVE  Located'
<1>1. Types' /\ UNCHANGED <<online, out, rooms, home, members, astray, job, note>>
  BY ShowMessageDoes DEF ServerSame
<1>2. \A w \in Users : view'[w].room = view[w].room /\ view'[w].channel = view[w].channel
  <2>1. PICK v \in Views : Turns(u, v) /\ v.room = view[u].room /\ v.channel = view[u].channel
    BY ShowMessageViews
  <2>. QED  BY <2>1 DEF Turns
<1>. QED  BY <1>1, <1>2, OutSame, HandlersSame, LocatedLooks

LEMMA ShowDirectLocated ==
    ASSUME Types, Sound, Located, NEW u \in Users, ShowDirect(u)
    PROVE  Located'
<1>1. /\ Types' /\ UNCHANGED <<online, rooms, home, members, astray, job>>
      /\ \A w \in Users \ {u} : note'[w] = note[w]
  BY ShowDirectDoes DEF ServerSame
<1>2. PICK v \in Views, x \in Entries :
        /\ Turns(u, v) /\ InDirect(x.msg)
        /\ v.room = view[u].room /\ v.channel = view[u].channel
        /\ v.fetches = view[u].fetches /\ v.joining = view[u].joining
        /\ v.composing = view[u].composing /\ v.showing = view[u].showing
        /\ v.list = view[u].list \/ v.list = Append(view[u].list, x)
        /\ SendsCarried(Zero) /\ NoMoves /\ \A w \in Users : MovesKept(w, 0)
        /\ note'[u].awaited = note[u].awaited /\ note'[u].torn = note[u].torn
        /\ note'[u].deaf = note[u].deaf
  BY ShowDirectViews
<1>3. \A w \in Users : view'[w].room = view[w].room /\ view'[w].channel = view[w].channel
  BY <1>2 DEF Turns
<1>4. \A w \in Users : note'[w].torn = note[w].torn /\ note'[w].deaf = note[w].deaf
  BY <1>1, <1>2
<1>. QED  BY <1>1, <1>2, <1>3, <1>4, HandlersSame, LocatedLooks

LEMMA DropCopyLocated ==
    ASSUME Types, Sound, Located, NEW u \in Users, DropCopy(u)
    PROVE  Located'
<1>1. Types' /\ UNCHANGED <<online, rooms, home, members, astray, job, note>>
  BY DropCopyDoes DEF ServerSame
<1>2. PICK e \in Events, i \in DOMAIN view[u].queue :
        /\ Turns(u, [view[u] EXCEPT !.queue = Tail(@)])
        /\ view[u].queue # <<>> /\ i = 1
        /\ Emit(u, <<e>>) /\ e.type = "ack" /\ e.msg = view[u].queue[i].msg
  BY DropCopyDoes
<1>3. \A w \in Users : view'[w].room = view[w].room /\ view'[w].channel = view[w].channel
  <2>1. PICK v : v = [view[u] EXCEPT !.queue = Tail(@)]
    OBVIOUS
  <2>2. v.room = view[u].room /\ v.channel = view[u].channel
    BY <2>1 DEF Types, Views
  <2>. QED  BY <1>2, <2>1, <2>2 DEF Turns
<1>4. \A w \in Users : MovesKept(w, 0)
  BY <1>2, EmitsOneQuietly
<1>. QED  BY <1>1, <1>3, <1>4, HandlersSame, LocatedLooks

LEMMA BeginsLocated ==
    ASSUME Types, Sound, Located, NEW u \in Users, NEW h \in Handlers, SendMessage(u, h) \/ Handle(u, h)
    PROVE  Located'
<1>1. /\ Types' /\ \A w \in Users \ {u} : out'[w] = out[w]
      /\ 1 \in DOMAIN out[u] /\ out'[u] = Tail(out[u])
      /\ UNCHANGED <<view, online, rooms, home, members, astray, note>>
  BY BeginsDoes
<1>2. PICK e \in Events :
        /\ e = out[u][1] /\ e.type \in OutTypes \ {"switch", "join"}
        /\ \/ job' = job
           \/ /\ job[h].at = "idle" /\ job'[h].at = Label(e.type) /\ job'[h].by = u
              /\ job'[h].msg = e.msg /\ job'[h].room = e.room
              /\ \A g \in Handlers \ {h} : job'[g] = job[g]
  BY BeginsDoes
<1>3. e.type \in OutTypes \ {"switch", "join"} => Label(e.type) \in {"insert", "erase", "queue", "ack", "read"}
  BY DEF OutTypes, Label, FirstAwait
<1>4. \A w : HandlersKept(w)
  <2>1. CASE job' = job
    BY <2>1, HandlersSame
  <2>2. CASE /\ job[h].at = "idle" /\ job'[h].at = Label(e.type)
             /\ \A g \in Handlers \ {h} : job'[g] = job[g]
    <3>1. job[h].at \notin Moving /\ job'[h].at \notin Moving
      BY <1>2, <1>3, <2>2 DEF Moving
    <3>. QED  BY <2>2, <3>1, HandlersSame
  <2>. QED  BY <1>2, <2>1, <2>2
<1>5. MovesKept(u, 1) /\ \A w \in Users \ {u} : MovesKept(w, 0)
  <2>1. ~Moves(out[u][1])
    BY <1>2 DEF Moves, Switches
  <2>. QED  BY <1>1, <2>1, Takes
<1>6. \A w \in Users : \E d \in {0, 1} : MovesKept(w, d)
  BY <1>5
<1>. QED  BY <1>1, <1>4, <1>6, LocatedLooks

LEMMA InsertLocated ==
    ASSUME Types, Sound, Located, NEW h \in Handlers, Insert(h) \/ InsertFails(h)
    PROVE  Located'
<1>1. /\ Types' /\ UNCHANGED <<view, online, out, rooms, home, members, astray>>
      /\ job[h].at = "insert" /\ job'[h].at = "cast"
      /\ \A g \in Handlers \ {h} : job'[g] = job[g]
  BY InsertDoes
<1>2. \A u \in Users : note'[u].torn = note[u].torn /\ note'[u].deaf = note[u].deaf
  <2>1. ASSUME NEW u \in Users, note'[u] = [note[u] EXCEPT !.awaited = @ \cup {job[h].msg}]
        PROVE  note'[u].torn = note[u].torn /\ note'[u].deaf = note[u].deaf
    BY <2>1 DEF Types, Notes
  <2>. QED  BY <2>1, InsertDoes
<1>3. \A w : HandlersKept(w)
  BY <1>1, HandlersSame DEF Moving
<1>. QED  BY <1>1, <1>2, <1>3, OutSame, LocatedLooks

LEMMA TellsLocated ==
    ASSUME Types, Sound, Located, NEW h \in Handlers,
           Cast(h) \/ Erase(h) \/ TellDeleted(h) \/ Queue(h) \/ Dispatch(h) \/ Acknowledge(h) \/ MarkRead(h)
    PROVE  Located'
<1>1. /\ Types' /\ UNCHANGED <<view, online, out, rooms, home, members, astray, note>>
      /\ job[h].at \in {"cast", "erase", "tell", "queue", "dispatch", "ack", "read"}
      /\ \A g \in Handlers \ {h} : job'[g] = job[g]
      /\ job'[h] = Idle \/ job'[h].at \in {"tell", "dispatch"}
  BY TellsDoes
<1>2. job[h].at \notin Moving /\ job'[h].at \notin Moving
  BY <1>1, IdleDoesNotSend DEF Moving
<1>3. \A w : HandlersKept(w)
  BY <1>1, <1>2, HandlersSame
<1>. QED  BY <1>1, <1>3, OutSame, LocatedLooks

LEMMA RetriesLocated ==
    ASSUME Types, Sound, Located, NEW m \in box, Retries(m)
    PROVE  Located'
<1>1. Types' /\ UNCHANGED <<view, online, out, rooms, home, members, astray, job, note>>
  BY RetriesDo
<1>. QED  BY <1>1, OutSame, HandlersSame, LocatedLooks

LEMMA ReconnectLocated ==
    ASSUME Types, Sound, Located, NEW u \in Users, Reconnect(u)
    PROVE  Located'
<1>1. Types' /\ UNCHANGED <<view, out, rooms, home, members, astray, job, note>>
  BY ReconnectDoes
<1>2. \A w \in Users : online'[w] \/ ~online[w]
  BY ReconnectDoes
<1>. QED  BY <1>1, <1>2, OutSame, HandlersSame, LocatedLooks

LEMMA LapseLocated ==
    ASSUME Types, Sound, Located, NEW u \in Users, Lapse(u)
    PROVE  Located'
<1>1. /\ Types' /\ UNCHANGED <<view, online, out, rooms, members, astray, job, note>>
      /\ \A w \in Users : home'[w] \in {None, home[w]}
  BY LapseDoes
<1>. QED  BY <1>1, OutSame, HandlersSame, LocatedLooks

\* What a sequence is that goes on with r and e.
Continued(s, r, e, q, n) ==
    /\ n \in Nat /\ n = Len(q) /\ Len(s) < n /\ Len(s) \in Nat /\ n > 0
    /\ n \in DOMAIN q /\ q[n] = e
    /\ \A i : i \in DOMAIN q <=> i \in Nat /\ 1 <= i /\ i <= n
    /\ \A i : i \in DOMAIN s <=> i \in Nat /\ 1 <= i /\ i <= Len(s)
    /\ \A i \in DOMAIN s : i \in DOMAIN q /\ q[i] = s[i]
    /\ \A i \in DOMAIN q : i \in DOMAIN s \/ i = n \/ Old(r, q[i])

LEMMA Continues ==
    ASSUME NEW s \in Seq(Events), NEW r \in Seq(Events), NEW e \in Events
    PROVE  Continued(s, r, e, s \o Append(r, e), Len(s \o Append(r, e)))
<1>1. PICK t : t = Append(r, e)
  OBVIOUS
<1>2. /\ t \in Seq(Events) /\ Len(t) = Len(r) + 1 /\ Len(t) \in Nat /\ Len(r) \in Nat
      /\ \A i \in DOMAIN r : t[i] = r[i]
      /\ t[Len(t)] = e /\ Len(t) \in DOMAIN t
      /\ \A i \in DOMAIN t : i \in DOMAIN r \/ i = Len(t)
  BY <1>1
<1>3. /\ s \o t \in Seq(Events) /\ Len(s) \in Nat /\ Len(s \o t) = Len(s) + Len(t)
      /\ \A i : i \in DOMAIN s <=> i \in Nat /\ 1 <= i /\ i <= Len(s)
      /\ \A i : i \in DOMAIN (s \o t) <=> i \in Nat /\ 1 <= i /\ i <= Len(s) + Len(t)
      /\ \A i \in DOMAIN s : (s \o t)[i] = s[i]
      /\ \A i \in DOMAIN (s \o t) : i > Len(s) => i - Len(s) \in DOMAIN t /\ (s \o t)[i] = t[i - Len(s)]
  BY <1>2, Joined
<1>4. PICK n : n = Len(s) + Len(t)
  OBVIOUS
<1>5. /\ n \in Nat /\ n = Len(s \o t) /\ Len(s) < n /\ n > 0 /\ n \in DOMAIN (s \o t)
      /\ n - Len(s) = Len(t)
  BY <1>2, <1>3, <1>4
<1>6. (s \o t)[n] = e
  BY <1>2, <1>3, <1>5
<1>7. ASSUME NEW i \in DOMAIN (s \o t), i \notin DOMAIN s, i # n PROVE Old(r, (s \o t)[i])
  <2>1. i > Len(s) /\ i - Len(s) # Len(t)
    BY <1>2, <1>3, <1>4, <1>7
  <2>2. PICK k : k = i - Len(s) /\ k \in DOMAIN r /\ (s \o t)[i] = r[k]
    BY <1>2, <1>3, <1>7, <2>1
  <2>. QED  BY <2>2 DEF Old
<1>8. \A i \in DOMAIN s : i \in DOMAIN (s \o t)
  BY <1>2, <1>3
<1>9. \A i : i \in DOMAIN (s \o t) <=> i \in Nat /\ 1 <= i /\ i <= n
  BY <1>3, <1>4
<1>. QED  BY <1>1, <1>3, <1>5, <1>6, <1>7, <1>8, <1>9 DEF Continued

\* To go elsewhere is to send the last switch there is.
LEMMA GoesOnline ==
    ASSUME Types, Types', Sound, NEW u \in Users, Placed(u), NEW r \in Channels, NEW e \in Events,
           NEW receipts \in Seq(Events), Quiet(receipts), e.type = "switch", e.room = r,
           out'[u] = out[u] \o Append(receipts, e), job' = job, home' = home, members' = members,
           astray' = astray, view'[u].channel = r, ~note[u].torn, r \in rooms', rooms \subseteq rooms'
    PROVE  Path(u)' /\ Place(u)' /\ Told(u)'
<1>1. PICK s, q : s = out[u] /\ s \in Seq(Events) /\ q = s \o Append(receipts, e)
  BY DEF Types
<1>2. PICK n \in Nat :
        /\ n \in Nat /\ n = Len(q) /\ Len(s) < n /\ Len(s) \in Nat /\ n > 0
        /\ n \in DOMAIN q /\ q[n] = e
        /\ \A i : i \in DOMAIN q <=> i \in Nat /\ 1 <= i /\ i <= n
        /\ \A i : i \in DOMAIN s <=> i \in Nat /\ 1 <= i /\ i <= Len(s)
        /\ \A i \in DOMAIN s : i \in DOMAIN q /\ q[i] = s[i]
        /\ \A i \in DOMAIN q : i \in DOMAIN s \/ i = n \/ Old(receipts, q[i])
  <2>1. Continued(s, receipts, e, s \o Append(receipts, e), Len(s \o Append(receipts, e)))
    BY <1>1, Continues
  <2>2. Continued(s, receipts, e, q, Len(q))
    BY <1>1, <2>1
  <2>. QED  BY <2>2 DEF Continued
<1>3. \A i \in DOMAIN q : \/ i \in DOMAIN s
                          \/ i = n
                          \/ q[i].type \notin {"send", "switch", "join"}
  BY <1>2 DEF Quiet, Old
<1>4. /\ out'[u] = q /\ Len(out'[u]) = n
      /\ out'[u][n].type = "switch" /\ out'[u][n].room = r
  BY <1>1, <1>2
<1>5. Path(u) /\ Place(u)
  BY DEF Placed
<1>6. ASSUME NEW j \in DOMAIN out'[u], out'[u][j].type = "join"
      PROVE  PathTo(u, j, out[u][j].room)'
  <2>1. j \in DOMAIN s /\ out'[u][j] = s[j]
    BY <1>2, <1>3, <1>4, <1>6
  <2>2. PICK g : g = s[j].room
    OBVIOUS
  <2>3. PathTo(u, j, g)
    BY <1>1, <1>5, <1>6, <2>1, <2>2 DEF Path
  <2>4. LeadsOn(u, j, j, g, 0)
    <3>0. \A i \in Nat : i + 0 = i
      OBVIOUS
    <3>1. \A i \in DOMAIN out'[u] : i < j => i + 0 \in DOMAIN out[u] /\ i + 0 < j /\ out[u][i + 0] = out'[u][i]
      <4>1. \A i \in DOMAIN q : i < j => i \in DOMAIN s
        BY <1>2, <2>1
      <4>. QED  BY <1>1, <1>2, <1>4, <3>0, <4>1
    <3>2. \A k \in DOMAIN out[u] : k < j => \E i \in DOMAIN out'[u] : i + 0 = k /\ i < j /\ out'[u][i] = out[u][k]
      <4>1. \A k \in DOMAIN out[u] : k + 0 = k
        BY <1>1, <1>2
      <4>. QED  BY <1>1, <1>2, <1>4, <4>1
    <3>3. /\ \A k \in DOMAIN out'[u] : k > 0 /\ k \in Nat
          /\ \A k \in DOMAIN out[u] : k \in Nat
      <4>1. /\ \A k \in DOMAIN q : k > 0 /\ k \in Nat
            /\ \A k \in DOMAIN s : k \in Nat
        BY <1>2
      <4>. QED  BY <1>1, <1>4, <4>1
    <3>. QED  BY <3>1, <3>2, <3>3 DEF LeadsOn, Switching
  <2>5. PathTo(u, j, g)'
    BY <2>3, <2>4, PathKept, WithinStays
  <2>. QED  BY <2>1, <2>2, <2>5
<1>7. PathTo(u, n + 1, r)'
  <2>1. \A i \in Nat : i < n => Corrected(u, i, n + 1, r)'
    <3>1. n \in DOMAIN out'[u] /\ n < n + 1
      BY <1>2, <1>4
    <3>. QED  BY <1>4, <3>1 DEF Corrected
  <2>2. \A i \in DOMAIN out'[u] : i < n + 1 /\ out'[u][i].room # r => i \in Nat /\ i < n
    <3>1. \A i \in DOMAIN q : i # n => i \in Nat /\ i < n
      BY <1>2
    <3>. QED  BY <1>4, <3>1
  <2>3. 0 \in Nat /\ 0 < n
    BY <1>2
  <2>. QED  BY <2>1, <2>2, <2>3 DEF PathTo
<1>8. Path(u)'
  BY <1>4, <1>6, <1>7 DEF Path
<1>9. Place(u)'
  <2>1. ASSUME NEW i \in DOMAIN out'[u], Switches(out'[u][i]) PROVE out'[u][i].room \in rooms'
    <3>1. (i \in DOMAIN s /\ out'[u][i] = s[i]) \/ i = n
      BY <1>2, <1>3, <1>4, <2>1 DEF Switches
    <3>2. CASE i \in DOMAIN s /\ out'[u][i] = s[i]
      BY <1>1, <1>5, <2>1, <3>2 DEF Place
    <3>3. CASE i = n
      BY <1>4, <3>3
    <3>. QED  BY <3>1, <3>2, <3>3
  <2>2. \A h : h \in Switching(u)' <=> h \in Switching(u)
    BY DEF Switching
  <2>3. (\A g : Within(u, g) => Within(u, g)') /\ (Somewhere(u) => Somewhere(u)')
    BY WithinStays
  <2>. QED  BY <1>5, <2>1, <2>2, <2>3 DEF Place
<1>10. Told(u)'
  BY <1>2, <1>4 DEF Told, Switches
<1>. QED  BY <1>8, <1>9, <1>10

LEMMA GoesLocated ==
    ASSUME Types, Sound, Located, NEW u \in Users, NEW r \in Rooms, NEW joins \in SUBSET Channels,
           NEW receipts \in Seq(Events), Goes(u, r, joins, receipts)
    PROVE  Located'
<1>0. PICK e : e = Event("switch", 0, r)
  OBVIOUS
<1>1. /\ Types' /\ rooms \subseteq rooms' /\ UNCHANGED <<online, home, members, astray, job>>
      /\ \A w \in Users \ {u} : note'[w] = note[w]
      /\ note'[u].torn <=> (note[u].torn \/ r \in Channels \ rooms' \/ Outruns(u, r))
      /\ note'[u].deaf <=> (~online[u] \/ r \notin rooms')
  BY GoesDoes
<1>2. /\ Quiet(receipts) /\ e \in Events /\ e.type = "switch" /\ e.room = r
      /\ \A w \in Users : out'[w] = IF w = u /\ online[u] THEN out[u] \o Append(receipts, e) ELSE out[w]
  BY <1>0, GoesEvents
<1>3. /\ \A w \in Users \ {u} : view'[w] = view[w]
      /\ view'[u].room = r /\ view'[u].channel = IF r \in Channels THEN r ELSE view[u].channel
  <2>1. PICK f \in Fetches : Turns(u, Opened(u, r, joins, f))
    BY GoesDoes
  <2>2. PICK v : v = Opened(u, r, joins, f)
    OBVIOUS
  <2>3. v.room = r /\ v.channel = IF r \in Channels THEN r ELSE view[u].channel
    BY <2>2 DEF Opened, Types, Views
  <2>. QED  BY <2>1, <2>2, <2>3 DEF Turns
<1>4. (\A w : HandlersKept(w)) /\ \A w \in Users : Switching(w)' = Switching(w)
  BY <1>1, HandlersSame DEF Switching
<1>5. \A w \in Users \ {u} : Placed(w)'
  <2>1. \A w \in Users \ {u} : out'[w] = out[w]
    BY <1>2
  <2>. QED  BY <1>1, <1>3, <1>4, <2>1, PlacedAside DEF Located
<1>6. Placed(u)
  BY DEF Located
<1>7. ~online'[u] => home'[u] = None /\ members'[u] = {} /\ Switching(u)' = {}
  BY <1>1, <1>4, <1>6 DEF Placed
<1>8. ASSUME online[u] /\ r \in Channels PROVE Placed(u)'
  <2>1. out'[u] = out[u] \o Append(receipts, e)
    BY <1>2, <1>8
  <2>2. ~note'[u].torn => Path(u)' /\ Place(u)' /\ Told(u)'
    BY <1>1, <1>2, <1>3, <1>6, <1>8, <2>1, GoesOnline
  <2>3. view'[u].room \in Channels
    BY <1>3, <1>8
  <2>. QED  BY <1>7, <2>2, <2>3 DEF Placed
<1>9. ASSUME online[u] /\ r \notin Channels PROVE Placed(u)'
  <2>1. r \in Direct /\ note'[u].deaf
    BY <1>1, <1>9 DEF Rooms, Types
  <2>2. MovesKept(u, 0)
    <3>1. PICK s, q : s = out[u] /\ s \in Seq(Events) /\ q = s \o Append(receipts, e)
      BY DEF Types
    <3>2. PICK n \in Nat :
            /\ n = Len(q) /\ Len(s) < n /\ Len(s) \in Nat /\ n > 0
            /\ n \in DOMAIN q /\ q[n] = e
            /\ \A i : i \in DOMAIN q <=> i \in Nat /\ 1 <= i /\ i <= n
            /\ \A i : i \in DOMAIN s <=> i \in Nat /\ 1 <= i /\ i <= Len(s)
            /\ \A i \in DOMAIN s : i \in DOMAIN q /\ q[i] = s[i]
            /\ \A i \in DOMAIN q : i \in DOMAIN s \/ i = n \/ Old(receipts, q[i])
      <4>1. Continued(s, receipts, e, s \o Append(receipts, e), Len(s \o Append(receipts, e)))
        BY <1>2, <3>1, Continues
      <4>2. Continued(s, receipts, e, q, Len(q))
        BY <3>1, <4>1
      <4>. QED  BY <4>2 DEF Continued
    <3>3. \A i \in DOMAIN q : i \in DOMAIN s \/ ~Moves(q[i])
      BY <1>2, <1>9, <3>2 DEF Old, Quiet, Moves, Switches
    <3>4. out'[u] = q
      BY <1>2, <1>9, <3>1
    <3>5. \A i \in Nat : i + 0 = i
      OBVIOUS
    <3>6. Len(s) <= Len(q) + 0
      BY <3>2
    <3>7. \A i \in Nat : i \in DOMAIN q /\ Moves(q[i]) <=> i + 0 \in DOMAIN s /\ Moves(s[i + 0])
      BY <3>2, <3>3, <3>5
    <3>8. \A i \in DOMAIN q : Moves(q[i]) => q[i] = s[i + 0]
      <4>1. \A i \in DOMAIN s : i + 0 = i
        BY <3>2
      <4>. QED  BY <3>2, <3>3, <4>1
    <3>. QED  BY <3>1, <3>4, <3>6, <3>7, <3>8 DEF MovesKept
  <2>3. /\ Path(u) => Path(u)'
        /\ Place(u) => Place(u)'
    BY <1>1, <1>3, <1>4, <1>9, <2>2, PartsStay
  <2>4. ~note'[u].torn => Path(u)' /\ Place(u)'
    BY <1>1, <1>6, <2>3 DEF Placed
  <2>. QED  BY <1>7, <2>1, <2>4 DEF Placed
<1>10. ASSUME ~online[u] PROVE Placed(u)'
  <2>1. note'[u].deaf /\ out'[u] = out[u]
    BY <1>1, <1>2, <1>10
  <2>2. CASE view'[u].channel = view[u].channel
    <3>1. /\ Path(u) => Path(u)'
          /\ Place(u) => Place(u)'
      BY <1>1, <1>4, <2>1, <2>2, OutSame, PartsStay
    <3>2. ~note'[u].torn => Path(u)' /\ Place(u)'
      BY <1>1, <1>6, <3>1 DEF Placed
    <3>. QED  BY <1>7, <2>1, <3>2 DEF Placed
  <2>3. CASE view'[u].channel # view[u].channel
    <3>1. r \in Channels \ {view[u].channel}
      BY <1>3, <2>3
    <3>2. ~note'[u].torn => out[u] = <<>>
      BY <1>1, <1>10, <3>1 DEF Outruns
    <3>3. home[u] = None /\ members[u] = {} /\ Switching(u)' = {} /\ home'[u] = None /\ members'[u] = {}
      BY <1>1, <1>4, <1>6, <1>10 DEF Placed
    <3>4. ~note'[u].torn => Path(u)'
      BY <2>1, <3>2, <3>3 DEF Path, PathTo, Within
    <3>5. ~note'[u].torn => Place(u)'
      <4>1. ~note'[u].torn => \A i : i \notin DOMAIN out'[u]
        BY <2>1, <3>2
      <4>2. Somewhere(u)'
        BY <3>3, ConversationAssumption DEF Somewhere, Within, Channels
      <4>. QED  BY <3>3, <4>1, <4>2 DEF Place
    <3>. QED  BY <1>7, <2>1, <3>4, <3>5 DEF Placed
  <2>. QED  BY <2>2, <2>3
<1>. QED  BY <1>5, <1>8, <1>9, <1>10 DEF Located

LEMMA JoinRoomLocated ==
    ASSUME Types, Sound, Located, NEW u \in Users, NEW r \in Channels, JoinRoom(u, r)
    PROVE  Located'
<1>1. /\ Types' /\ UNCHANGED <<online, rooms, home, members, astray, job>>
      /\ Turns(u, [view[u] EXCEPT !.joining = @ \ {r}])
      /\ \A w \in Users \ {u} : note'[w] = note[w]
  BY JoinRoomDoes DEF ServerSame
<1>2. /\ note'[u].deaf = note[u].deaf
      /\ note'[u].torn <=> (note[u].torn \/ r # view[u].channel)
  <2>1. PICK t \in BOOLEAN : /\ t = (note[u].torn \/ r # view[u].channel)
                             /\ note'[u] = [note[u] EXCEPT !.torn = t]
    BY JoinRoomDoes
  <2>2. note[u] \in Notes
    BY DEF Types
  <2>. QED  BY <2>1, <2>2 DEF Notes
<1>3. /\ \A w \in Users \ {u} : view'[w] = view[w]
      /\ view'[u].room = view[u].room /\ view'[u].channel = view[u].channel
  <2>1. PICK v : v = [view[u] EXCEPT !.joining = @ \ {r}]
    OBVIOUS
  <2>2. v.room = view[u].room /\ v.channel = view[u].channel
    BY <2>1 DEF Types, Views
  <2>. QED  BY <1>1, <2>1, <2>2 DEF Turns
<1>4. PICK n : n = Len(out[u])
  OBVIOUS
<1>5. /\ \A w \in Users \ {u} : out'[w] = out[w]
      /\ Len(out'[u]) = n + 1
      /\ \A i \in DOMAIN out[u] : i \in DOMAIN out'[u] /\ out'[u][i] = out[u][i]
      /\ \A i \in DOMAIN out'[u] : \/ i \in DOMAIN out[u]
                                   \/ i = n + 1 /\ out'[u][i].type = "join" /\ out'[u][i].room = r
  BY <1>4, JoinRoomEvents
<1>6. (\A w : HandlersKept(w)) /\ \A w \in Users : Switching(w)' = Switching(w)
  BY <1>1, HandlersSame DEF Switching
<1>7. \A w \in Users \ {u} : Placed(w)'
  BY <1>1, <1>3, <1>5, <1>6, PlacedAside DEF Located
<1>8. Placed(u)
  BY DEF Located
<1>9. ~online'[u] => home'[u] = None /\ members'[u] = {} /\ Switching(u)' = {}
  BY <1>1, <1>6, <1>8 DEF Placed
<1>10. /\ n \in Nat
       /\ \A i : i \in DOMAIN out[u] <=> i \in Nat /\ 1 <= i /\ i <= n
       /\ \A i \in DOMAIN out'[u] : i \in Nat /\ i > 0 /\ i <= n + 1
  <2>1. out[u] \in Seq(Events) /\ out'[u] \in Seq(Events)
    BY <1>1 DEF Types
  <2>2. /\ \A i : i \in DOMAIN out[u] <=> i \in Nat /\ 1 <= i /\ i <= Len(out[u])
        /\ Len(out[u]) \in Nat
        /\ \A i \in DOMAIN out'[u] : i \in Nat /\ i > 0 /\ i <= Len(out'[u])
    BY <2>1
  <2>. QED  BY <1>4, <1>5, <2>2
<1>11. ASSUME NEW j \in Nat, NEW j1 \in Nat, NEW g, PathTo(u, j, g), j <= n + 1,
              j1 = j \/ (j = n + 1 /\ j1 = n + 2 /\ g = r)
       PROVE  PathTo(u, j1, g)'
  <2>1. \A i \in DOMAIN out'[u] : i < j1 /\ out'[u][i].room # g =>
          i + 0 \in DOMAIN out[u] /\ i + 0 < j /\ out[u][i + 0] = out'[u][i]
    BY <1>5, <1>10, <1>11
  <2>2. \A k \in DOMAIN out[u] : k < j => \E i \in DOMAIN out'[u] : i + 0 = k /\ i < j1 /\ out'[u][i] = out[u][k]
    <3>1. \A k \in DOMAIN out[u] : k + 0 = k /\ (k < j => k < j1)
      BY <1>10, <1>11
    <3>. QED  BY <1>5, <3>1
  <2>3. LeadsOn(u, j, j1, g, 0)
    BY <1>1, <1>10, <2>1, <2>2 DEF LeadsOn, Switching
  <2>. QED  BY <1>1, <1>11, <2>3, PathKept, WithinStays
<1>12. ASSUME Path(u), r = view[u].channel
       PROVE  Path(u)'
  <2>1. PathTo(u, n + 1, r)
    BY <1>4, <1>12 DEF Path
  <2>2. ASSUME NEW j \in DOMAIN out'[u], out'[u][j].type = "join"
        PROVE  PathTo(u, j, out[u][j].room)'
    <3>1. PICK g : g = out'[u][j].room
      OBVIOUS
    <3>2. PathTo(u, j, g)
      BY <1>5, <1>12, <2>1, <2>2, <3>1 DEF Path
    <3>3. PathTo(u, j, g)'
      BY <1>10, <1>11, <3>2
    <3>. QED  BY <3>1, <3>3
  <2>3. PathTo(u, n + 2, r)'
    BY <1>10, <1>11, <2>1
  <2>4. n + 2 = Len(out'[u]) + 1 /\ r = view'[u].channel
    BY <1>3, <1>5, <1>10, <1>12
  <2>. QED  BY <2>2, <2>3, <2>4 DEF Path
<1>13. Place(u) => Place(u)'
  <2>1. ASSUME Place(u), NEW i \in DOMAIN out'[u], Switches(out'[u][i]) PROVE out'[u][i].room \in rooms'
    BY <1>1, <1>5, <2>1 DEF Place, Switches
  <2>2. (\A g : Within(u, g) => Within(u, g)') /\ (Somewhere(u) => Somewhere(u)')
    BY <1>1, WithinStays
  <2>. QED  BY <1>1, <1>6, <2>1, <2>2 DEF Place
<1>14. Told(u) => Told(u)'
  BY <1>1, <1>5, <1>6 DEF Told
<1>15. Placed(u)'
  BY <1>2, <1>3, <1>8, <1>9, <1>12, <1>13, <1>14 DEF Placed
<1>. QED  BY <1>7, <1>15 DEF Located

\* The first event of a browser begins to be handled, and nothing else was.
Taken(u, h, e) ==
    /\ Switching(u) = {} /\ \A g : Within(u, g) => Within(u, g)'
    /\ \A i \in DOMAIN out'[u] : /\ i \in Nat /\ i > 0 /\ i + 1 \in DOMAIN out[u]
                                /\ out'[u][i] = out[u][i + 1]
    /\ \A k \in DOMAIN out[u] : k \in Nat /\ k > 0 /\ (k > 1 => k - 1 \in DOMAIN out'[u])
    /\ 1 \in DOMAIN out[u] /\ e = out[u][1]
    /\ \A k \in Handlers \ {h} : job'[k] = job[k]
    /\ job'[h].by = u /\ job'[h].room = e.room
    /\ e.type = "join" \/ (e.type = "switch" /\ job'[h].at \in SwitchJobs)

LEMMA PathTaken ==
    ASSUME NEW u \in Users, NEW h \in Handlers, NEW e, NEW j \in Nat, NEW j1 \in Nat, NEW g \in Channels,
           j1 + 1 = j, j1 > 0, PathTo(u, j, g), Taken(u, h, e)
    PROVE  PathTo(u, j1, g)'
<1>0. /\ Switching(u) = {} /\ \A r : Within(u, r) => Within(u, r)'
      /\ \A i \in DOMAIN out'[u] : /\ i \in Nat /\ i > 0 /\ i + 1 \in DOMAIN out[u]
                                  /\ out'[u][i] = out[u][i + 1]
      /\ \A k \in DOMAIN out[u] : k \in Nat /\ k > 0 /\ (k > 1 => k - 1 \in DOMAIN out'[u])
      /\ 1 \in DOMAIN out[u] /\ e = out[u][1]
      /\ \A k \in Handlers \ {h} : job'[k] = job[k]
      /\ job'[h].by = u /\ job'[h].room = e.room
      /\ e.type = "join" \/ (e.type = "switch" /\ job'[h].at \in SwitchJobs)
  BY DEF Taken
<1>1. ASSUME NEW i \in Nat, NEW i1 \in Nat, i1 + 1 = i, Corrected(u, i, j, g)
      PROVE  Corrected(u, i1, j1, g)'
  <2>1. PICK k \in DOMAIN out[u] : i < k /\ k < j /\ out[u][k].type = "switch" /\ out[u][k].room = g
    BY <1>1 DEF Corrected
  <2>2. PICK k1 : k1 = k - 1
    OBVIOUS
  <2>3. k \in Nat /\ k1 \in DOMAIN out'[u] /\ k1 \in Nat /\ k1 + 1 = k
    BY <1>0, <1>1, <2>1, <2>2
  <2>4. out'[u][k1] = out[u][k] /\ i1 < k1 /\ k1 < j1
    BY <1>0, <1>1, <2>1, <2>3
  <2>. QED  BY <2>1, <2>3, <2>4 DEF Corrected
<1>2. ASSUME NEW i \in DOMAIN out'[u], i < j1, Moves(out'[u][i]), out'[u][i].room # g
      PROVE  Corrected(u, i, j1, g)'
  <2>1. PICK k \in Nat : k = i + 1 /\ k \in DOMAIN out[u] /\ k < j /\ out[u][k] = out'[u][i] /\ i \in Nat
    BY <1>0, <1>2
  <2>2. Corrected(u, k, j, g)
    BY <1>0, <1>2, <2>1 DEF PathTo
  <2>. QED  BY <1>1, <2>1, <2>2
<1>3. ASSUME NEW k \in Handlers, job'[k].by = u, job'[k].at \in Moving,
             job'[k].room \in Channels, job'[k].room # g
      PROVE  Corrected(u, 0, j1, g)'
  <2>1. k = h
    BY <1>0, <1>3 DEF Switching
  <2>2. Moves(e)
    BY <1>0, <1>3, <2>1 DEF Moves, Switches
  <2>3. Corrected(u, 1, j, g)
    BY <1>0, <1>3, <2>1, <2>2 DEF PathTo
  <2>. QED  BY <1>1, <2>3
<1>4. ASSUME ~Within(u, g)'
      PROVE  \/ Corrected(u, 0, j1, g)'
             \/ \E k \in Handlers : /\ job'[k].by = u /\ job'[k].at \in Moving
                                    /\ job'[k].at \in SwitchJobs /\ job'[k].room = g
  <2>1. PICK k \in DOMAIN out[u] : 0 < k /\ k < j /\ out[u][k].type = "switch" /\ out[u][k].room = g
    BY <1>0, <1>4 DEF PathTo, Corrected
  <2>2. CASE k = 1
    BY <1>0, <2>1, <2>2 DEF SwitchJobs, Moving
  <2>3. CASE k # 1
    <3>1. Corrected(u, 1, j, g)
      BY <1>0, <2>1, <2>3 DEF Corrected
    <3>. QED  BY <1>1, <3>1
  <2>. QED  BY <2>2, <2>3
<1>. QED  BY <1>2, <1>3, <1>4 DEF PathTo, Switching

LEMMA MoveLocated ==
    ASSUME Types, Sound, Located, NEW u \in Users, NEW h \in Handlers, SwitchRoom(u, h) \/ Join(u, h)
    PROVE  Located'
<1>1. /\ Types'
      /\ \A w \in Users \ {u} : out'[w] = out[w] /\ note'[w] = note[w]
      /\ 1 \in DOMAIN out[u] /\ out'[u] = Tail(out[u]) /\ online[u]
      /\ \A g \in Handlers \ {h} : job'[g] = job[g]
      /\ UNCHANGED <<view, online, inbox, rooms, home, members, astray, sent>>
  BY MoveDoes
<1>2. PICK e \in Events :
        /\ e = out[u][1]
        /\ job[h].at = "idle" /\ job'[h].by = u /\ job'[h].msg = e.msg /\ job'[h].room = e.room
        /\ \/ /\ e.type = "switch"
              /\ job'[h].at = IF e.room = General THEN "home" ELSE "room"
           \/ /\ e.type = "join"
              /\ job'[h].at = IF e.room = General THEN "register" ELSE "find"
  BY MoveDoes
<1>3. /\ note'[u].deaf = note[u].deaf
      /\ note'[u].torn <=> (note[u].torn \/ Switching(u) # {})
  <2>1. PICK t \in BOOLEAN : /\ t = (note[u].torn \/ Switching(u) # {})
                             /\ note'[u] = [note[u] EXCEPT !.torn = t]
    BY MoveDoes
  <2>2. note[u] \in Notes
    BY DEF Types
  <2>. QED  BY <2>1, <2>2 DEF Notes
<1>4. \A w \in Users \ {u} : Placed(w)'
  <2>1. \A w \in Users \ {u} : HandlersKept(w)
    BY <1>1, <1>2, HandlersSame DEF Moving
  <2>. QED  BY <1>1, <2>1, PlacedAside DEF Located
<1>5. Placed(u)
  BY DEF Located
<1>6. ASSUME ~note[u].torn, Switching(u) = {}
      PROVE  /\ Path(u)' /\ Place(u)'
             /\ Told(u) => Told(u)'
  <2>0. (\A g : Within(u, g) => Within(u, g)') /\ (Somewhere(u) => Somewhere(u)')
    BY <1>1, WithinStays
  <2>1. Path(u) /\ Place(u)
    BY <1>5, <1>6 DEF Placed
  <2>2. PICK s : s = out[u] /\ s \in Seq(Events) /\ s # <<>>
    BY <1>1 DEF Types
  <2>3. /\ \A i : i \in DOMAIN Tail(s) <=> i \in Nat /\ 1 <= i /\ i + 1 <= Len(s)
        /\ \A i : i \in DOMAIN s <=> i \in Nat /\ 1 <= i /\ i <= Len(s)
        /\ \A i \in DOMAIN Tail(s) : Tail(s)[i] = s[i + 1]
        /\ Len(Tail(s)) + 1 = Len(s) /\ Len(s) \in Nat /\ Len(Tail(s)) \in Nat
    BY <2>2
  <2>4. \A i \in DOMAIN out'[u] : i \in Nat /\ i > 0 /\ i + 1 \in DOMAIN out[u] /\ out'[u][i] = out[u][i + 1]
    BY <1>1, <2>2, <2>3
  <2>5. \A k \in DOMAIN out[u] : k \in Nat /\ k > 0 /\ (k > 1 => k - 1 \in DOMAIN out'[u])
    BY <1>1, <2>2, <2>3
  <2>6. e.type = "join" \/ (e.type = "switch" /\ job'[h].at \in SwitchJobs)
    BY <1>2 DEF SwitchJobs
  <2>7. ASSUME NEW j \in Nat, NEW j1 \in Nat, NEW g \in Channels, j1 + 1 = j, j1 > 0, PathTo(u, j, g)
        PROVE  PathTo(u, j1, g)'
    <3>1. Taken(u, h, e)
      BY <1>1, <1>2, <1>6, <2>0, <2>4, <2>5, <2>6 DEF Taken
    <3>. QED  BY <2>7, <3>1, PathTaken
  <2>8. ASSUME NEW j1 \in DOMAIN out'[u], out'[u][j1].type = "join"
        PROVE  PathTo(u, j1, out[u][j1].room)'
    <3>1. PICK j, g : j = j1 + 1 /\ g = out'[u][j1].room
      OBVIOUS
    <3>2. j \in DOMAIN out[u] /\ out'[u][j1] = out[u][j] /\ j \in Nat /\ j1 \in Nat /\ j1 > 0
      BY <2>4, <2>8, <3>1
    <3>3. PathTo(u, j, g) /\ g \in Channels
      BY <2>1, <2>8, <3>1, <3>2 DEF Path, Sound, EventSound
    <3>4. PathTo(u, j1, g)'
      BY <2>7, <3>1, <3>2, <3>3
    <3>. QED  BY <3>1, <3>4
  <2>9. PathTo(u, Len(out[u]) + 1, view[u].channel)'
    <3>1. PICK j, j1, g : j = Len(s) + 1 /\ j1 = Len(Tail(s)) + 1 /\ g = view[u].channel
      OBVIOUS
    <3>2. PathTo(u, j, g) /\ g \in Channels
      BY <2>1, <2>2, <3>1 DEF Path, Types, Views
    <3>3. j \in Nat /\ j1 \in Nat /\ j1 + 1 = j /\ j1 > 0
      BY <2>3, <3>1
    <3>4. PathTo(u, j1, g)'
      BY <2>7, <3>2, <3>3
    <3>. QED  BY <1>1, <2>2, <3>1, <3>4
  <2>10. Path(u)'
    BY <2>8, <2>9 DEF Path
  <2>11. Switching(u)' = {h}
    BY <1>1, <1>2, <1>6 DEF Switching, Moving
  <2>12. Place(u)'
    <3>1. Somewhere(u)'
      BY <1>6, <2>0, <2>1 DEF Place
    <3>2. job'[h].at \in {"home", "room", "register", "find"}
      BY <1>2
    <3>3. job'[h].at \in JoinJobs => Within(u, e.room)'
      <4>1. ASSUME job'[h].at \in JoinJobs, ~Within(u, e.room) PROVE FALSE
        <5>1. e.type = "join"
          BY <1>2, <4>1 DEF JoinJobs
        <5>2. PathTo(u, 1, e.room)
          BY <1>1, <1>2, <2>1, <5>1 DEF Path
        <5>3. Corrected(u, 0, 1, e.room)
          BY <1>6, <4>1, <5>2 DEF PathTo
        <5>. QED  BY <2>5, <5>3 DEF Corrected
      <4>. QED  BY <2>0, <4>1
    <3>4. job'[h].at = "room" /\ job'[h].room \in Channels => job'[h].room \in rooms'
      <4>1. ASSUME job'[h].at = "room", job'[h].room \in Channels PROVE job'[h].room \in rooms'
        <5>1. e.type = "switch" /\ e.room \in Channels
          BY <1>2, <4>1
        <5>. QED  BY <1>1, <1>2, <2>1, <5>1 DEF Place, Switches
      <4>. QED  BY <4>1
    <3>5. \A i \in DOMAIN out'[u] : Switches(out'[u][i]) => out'[u][i].room \in rooms'
      BY <1>1, <2>1, <2>4 DEF Place
    <3>. QED  BY <1>2, <2>11, <3>1, <3>2, <3>3, <3>4, <3>5 DEF Place
  <2>13. Told(u) => Told(u)'
    <3>1. CASE members[u] # {}
      BY <1>1, <3>1 DEF Told
    <3>2. ASSUME NEW k \in DOMAIN out[u], Switches(out[u][k]) PROVE Told(u)'
      <4>1. CASE k = 1
        <5>1. job'[h].at \in SwitchJobs /\ job'[h].room \in Channels
          BY <1>2, <3>2, <4>1 DEF Switches, SwitchJobs
        <5>. QED  BY <2>11, <5>1 DEF Told
      <4>2. CASE k # 1
        <5>1. PICK k1 : k1 = k - 1
          OBVIOUS
        <5>2. k1 \in DOMAIN out'[u] /\ k1 + 1 = k
          BY <2>5, <3>2, <4>2, <5>1
        <5>3. Switches(out'[u][k1])
          BY <2>4, <3>2, <5>2
        <5>. QED  BY <5>2, <5>3 DEF Told
      <4>. QED  BY <4>1, <4>2
    <3>. QED  BY <1>6, <3>1, <3>2 DEF Told
  <2>. QED  BY <2>10, <2>12, <2>13
<1>7. ~note'[u].torn => ~note[u].torn /\ Switching(u) = {}
  BY <1>3
<1>8. Placed(u)'
  <2>1. ~note'[u].torn => Path(u)' /\ Place(u)'
    BY <1>6, <1>7
  <2>2. ~note'[u].torn /\ ~note'[u].deaf => view'[u].room \in Channels /\ Told(u)'
    BY <1>1, <1>3, <1>5, <1>6, <1>7 DEF Placed
  <2>3. online'[u]
    BY <1>1
  <2>. QED  BY <2>1, <2>2, <2>3 DEF Placed
<1>. QED  BY <1>4, <1>8 DEF Located

\* The events are the same, and so are the rooms of the moves that are handled.
LEMMA PathMoves ==
    ASSUME NEW u \in Users, NEW j, NEW g, PathTo(u, j, g), out'[u] = out[u],
           \A h \in Handlers : job'[h].by = u /\ job'[h].at \in Moving =>
             job[h].by = u /\ job[h].at \in Moving /\ job'[h].room = job[h].room,
           ~Within(u, g)' =>
             \/ Corrected(u, 0, j, g)
             \/ \E h \in Handlers : /\ job'[h].by = u /\ job'[h].at \in Moving
                                    /\ job'[h].at \in SwitchJobs /\ job'[h].room = g
    PROVE  PathTo(u, j, g)'
<1>1. \A i : Corrected(u, i, j, g)' <=> Corrected(u, i, j, g)
  BY DEF Corrected
<1>. QED  BY <1>1 DEF PathTo, Switching

LEMMA MovingLocated ==
    ASSUME Types, Sound, Located, NEW h \in Handlers, FindRoom(h) \/ Move(h) \/ Mark(h) \/ Enter(h)
    PROVE  Located'
<1>1. /\ Types' /\ UNCHANGED <<view, online, out, rooms, note>>
      /\ \A g \in Handlers \ {h} : job'[g] = job[g]
      /\ job[h].by \in Users /\ job[h].at \in Moving
      /\ job[h].room \in rooms \/ (job[h].at \in {"room", "find"} /\ job'[h] = Idle)
      /\ \/ job'[h] = Idle
         \/ /\ job'[h].by = job[h].by /\ job'[h].room = job[h].room
            /\ job'[h].msg = job[h].msg
      /\ \A w \in Users \ {job[h].by} : /\ members'[w] = members[w] /\ home'[w] = home[w]
                                        /\ w \in astray' <=> w \in astray
  BY MovingDoes
<1>2. PICK u \in Users : u = job[h].by
  BY <1>1
<1>3. ASSUME NEW w \in Users \ {u} PROVE Placed(w)'
  <2>1. HandlersKept(w)
    BY <1>1, <1>2, HandlersSame, IdleDoesNotSend
  <2>2. /\ home'[w] = home[w] /\ members'[w] = members[w]
        /\ w \in astray' <=> w \in astray
    BY <1>1, <1>2
  <2>3. Placed(w)
    BY DEF Located
  <2>. QED  BY <1>1, <2>1, <2>2, <2>3, PlacedAside
<1>4. Placed(u) /\ h \in Switching(u) /\ online[u]
  BY <1>1, <1>2 DEF Located, Placed, Switching
<1>5. ASSUME ~note[u].torn
      PROVE  /\ Path(u)' /\ Place(u)'
             /\ Told(u) => Told(u)'
  <2>1. Path(u) /\ Place(u)
    BY <1>4, <1>5 DEF Placed
  <2>2. Switching(u) = {h}
    BY <1>4, <2>1 DEF Place
  <2>3. /\ job'[h] = Idle => Switching(u)' = {}
        /\ job'[h].at \in Moving /\ job'[h].by = u => Switching(u)' = {h}
        /\ \A k \in Handlers : job'[k].by = u /\ job'[k].at \in Moving =>
             k = h /\ job[k].by = u /\ job[k].at \in Moving /\ job'[k].room = job[k].room
    BY <1>1, <1>2, <2>2, IdleDoesNotSend DEF Switching
  <2>4. ASSUME \A j, g : g \in Channels /\ PathTo(u, j, g) /\ ~Within(u, g)' =>
                 \/ Corrected(u, 0, j, g)
                 \/ job'[h].by = u /\ job'[h].at \in SwitchJobs /\ job'[h].room = g
        PROVE  Path(u)'
    <3>1. ASSUME NEW j, NEW g \in Channels, PathTo(u, j, g) PROVE PathTo(u, j, g)'
      <4>1. job'[h].at \in SwitchJobs => job'[h].at \in Moving
        BY DEF SwitchJobs, Moving
      <4>2. ~Within(u, g)' =>
               \/ Corrected(u, 0, j, g)
               \/ \E k \in Handlers : /\ job'[k].by = u /\ job'[k].at \in Moving
                                      /\ job'[k].at \in SwitchJobs /\ job'[k].room = g
        BY <2>4, <3>1, <4>1
      <4>. QED  BY <1>1, <2>3, <3>1, <4>2, PathMoves
    <3>2. ASSUME NEW j \in DOMAIN out'[u], out'[u][j].type = "join"
          PROVE  PathTo(u, j, out[u][j].room)'
      <4>1. PICK g : g = out[u][j].room
        OBVIOUS
      <4>2. PathTo(u, j, g) /\ g \in Channels
        BY <1>1, <2>1, <3>2, <4>1 DEF Path, Sound, EventSound
      <4>3. PathTo(u, j, g)'
        BY <3>1, <4>2
      <4>. QED  BY <1>1, <4>1, <4>3
    <3>3. PathTo(u, Len(out[u]) + 1, view[u].channel)'
      <4>1. PICK j, g : j = Len(out[u]) + 1 /\ g = view[u].channel
        OBVIOUS
      <4>2. PathTo(u, j, g) /\ g \in Channels
        BY <2>1, <4>1 DEF Path, Types, Views
      <4>3. PathTo(u, j, g)'
        BY <3>1, <4>2
      <4>. QED  BY <1>1, <4>1, <4>3
    <3>. QED  BY <3>2, <3>3 DEF Path
  <2>5. \A i \in DOMAIN out'[u] : Switches(out'[u][i]) => out'[u][i].room \in rooms'
    BY <1>1, <2>1 DEF Place
  <2>6. \A k \in DOMAIN out[u] : Switches(out[u][k]) => Told(u)'
    BY <1>1 DEF Told
  <2>7. ASSUME NEW j, NEW g, g \in Channels, PathTo(u, j, g)
        PROVE  /\ job[h].room \in Channels /\ job[h].room # g => Corrected(u, 0, j, g)
               /\ ~Within(u, g) => \/ Corrected(u, 0, j, g)
                                   \/ job[h].at \in SwitchJobs /\ job[h].room = g
    BY <2>2, <2>7 DEF PathTo
  <2>8. CASE FindRoom(h)
    <3>1. /\ job[h].at \in {"room", "find"} /\ members'[u] = members[u]
          /\ \A g : Within(u, g) => Within(u, g)'
          /\ Somewhere(u) => Somewhere(u)'
          /\ job[h].room \in rooms => /\ job'[h].at = IF job[h].at = "room" THEN "home" ELSE "register"
                                      /\ job'[h].by = u /\ job'[h].room = job[h].room
          /\ job[h].room \notin rooms => job'[h] = Idle
      <4>1. /\ job[h].at \in {"room", "find"} /\ UNCHANGED <<home, members, astray>>
            /\ IF job[h].room \in rooms
               THEN Becomes(h, IF job[h].at = "room" THEN "home" ELSE "register")
               ELSE Done(h)
        BY <2>8 DEF FindRoom, sockets
      <4>2. job[h].room \in rooms => /\ job'[h].at = IF job[h].at = "room" THEN "home" ELSE "register"
                                     /\ job'[h].by = u /\ job'[h].room = job[h].room
        <5>1. ASSUME job[h].room \in rooms, job[h].at = "room"
              PROVE  job'[h].at = "home" /\ job'[h].by = u /\ job'[h].room = job[h].room
          <6>1. Becomes(h, "home") /\ "home" \in Labels
            BY <4>1, <5>1 DEF Labels, Moving
          <6>. QED  BY <1>2, <6>1, JobDoes
        <5>2. ASSUME job[h].room \in rooms, job[h].at = "find"
              PROVE  job'[h].at = "register" /\ job'[h].by = u /\ job'[h].room = job[h].room
          <6>1. Becomes(h, "register") /\ "register" \in Labels
            BY <4>1, <5>2 DEF Labels, Moving
          <6>. QED  BY <1>2, <6>1, JobDoes
        <5>. QED  BY <4>1, <5>1, <5>2
      <4>3. job[h].room \notin rooms => job'[h] = Idle
        BY <4>1, JobDoes
      <4>. QED  BY <4>1, <4>2, <4>3, WithinStays
    <3>2. Somewhere(u)'
      BY <2>1, <2>2, <3>1 DEF Place
    <3>3. job[h].at = "room" /\ job[h].room \notin rooms => job[h].room \notin Channels
      BY <2>1, <2>2 DEF Place
    <3>4. CASE job[h].room \in rooms
      <4>1. Path(u)'
        BY <2>4, <2>7, <3>1, <3>4 DEF SwitchJobs
      <4>2. Switching(u)' = {h}
        BY <2>3, <3>1, <3>4 DEF Moving
      <4>3. job'[h].at \in JoinJobs => Within(u, job[h].room)'
        BY <2>1, <2>2, <3>1, <3>4 DEF Place, JoinJobs
      <4>4. Place(u)'
        BY <2>5, <3>1, <3>2, <3>4, <4>2, <4>3 DEF Place
      <4>5. Told(u) => Told(u)'
        <5>1. job[h].at \in SwitchJobs /\ job[h].room \in Channels =>
                job'[h].at \in SwitchJobs /\ job'[h].room \in Channels
          BY <3>1, <3>4 DEF SwitchJobs
        <5>. QED  BY <2>2, <2>6, <3>1, <4>2, <5>1 DEF Told
      <4>. QED  BY <4>1, <4>4, <4>5
    <3>5. CASE job[h].room \notin rooms
      <4>1. Path(u)'
        BY <2>4, <2>7, <3>1, <3>3, <3>5 DEF SwitchJobs
      <4>2. Switching(u)' = {}
        BY <2>3, <3>1, <3>5
      <4>3. Place(u)'
        BY <2>5, <3>1, <3>2, <4>2 DEF Place
      <4>4. Told(u) => Told(u)'
        <5>1. ~(job[h].at \in SwitchJobs /\ job[h].room \in Channels)
          BY <3>1, <3>3, <3>5 DEF SwitchJobs
        <5>. QED  BY <2>2, <2>6, <3>1, <5>1 DEF Told
      <4>. QED  BY <4>1, <4>3, <4>4
    <3>. QED  BY <3>4, <3>5
  <2>9. CASE Move(h)
    <3>1. /\ job[h].at = "home" /\ home'[u] = home[u] /\ members'[u] = Moved(h)
          /\ Strays(h) \/ u \in astray => u \in astray'
          /\ job'[h].at = "mark" /\ job'[h].by = u /\ job'[h].room = job[h].room
      <4>1. /\ job[h].at = "home" /\ UNCHANGED home /\ Becomes(h, "mark")
            /\ members' = [members EXCEPT ![job[h].by] = Moved(h)]
            /\ Strays(h) \/ u \in astray => u \in astray'
        BY <1>2, <2>9 DEF Move
      <4>2. members'[u] = Moved(h)
        BY <1>2, <4>1 DEF Types
      <4>. QED  BY <1>2, <4>1, <4>2, JobDoes DEF Labels, Moving
    <3>2. PICK g \in Channels : Within(u, g)
      BY <2>1, <2>2, <3>1 DEF Place, Somewhere
    <3>3. job[h].room \in members'[u]
      BY <1>2, <3>1 DEF Moved
    <3>4. ASSUME u \notin astray' PROVE members'[u] = {job[h].room}
      <4>1. u \notin astray /\ ~Strays(h)
        BY <3>1, <3>4
      <4>2. CASE members[u] = {}
        BY <1>2, <3>1, <4>2 DEF Moved
      <4>3. CASE members[u] = {g} /\ home[u] = None
        <5>1. g \in {General, job[h].room}
          BY <1>2, <4>1, <4>3 DEF Strays
        <5>. QED  BY <1>2, <3>1, <4>3, <5>1 DEF Moved, Left
      <4>4. CASE members[u] = {g} /\ home[u] = g /\ home[u] # None
        BY <1>2, <3>1, <4>4 DEF Moved, Left
      <4>. QED  BY <3>2, <4>1, <4>2, <4>3, <4>4 DEF Within
    <3>5. Switching(u)' = {h}
      BY <2>3, <3>1 DEF Moving
    <3>6. Path(u)'
      <4>1. job[h].room \in rooms
        BY <1>1, <3>1
      <4>2. job[h].room \in Channels
        BY <4>1 DEF Types
      <4>3. ASSUME NEW j, NEW c, c \in Channels, PathTo(u, j, c)
            PROVE  \/ Corrected(u, 0, j, c)
                   \/ job'[h].by = u /\ job'[h].at \in SwitchJobs /\ job'[h].room = c
        BY <2>7, <3>1, <4>2, <4>3 DEF SwitchJobs
      <4>. QED  BY <2>4, <4>3
    <3>7. Place(u)'
      BY <2>5, <3>1, <3>3, <3>4, <3>5 DEF Place, JoinJobs
    <3>8. Told(u)'
      BY <3>3 DEF Told
    <3>. QED  BY <3>6, <3>7, <3>8
  <2>10. CASE Mark(h)
    <3>1. /\ job[h].at \in {"mark", "register"} /\ home'[u] = job[h].room /\ members'[u] = members[u]
          /\ job[h].at = "mark" => job'[h] = Idle
          /\ job[h].at = "register" => /\ job'[h].at = "enter" /\ job'[h].by = u
                                       /\ job'[h].room = job[h].room
      <4>1. /\ job[h].at \in {"mark", "register"} /\ UNCHANGED members
            /\ home' = [home EXCEPT ![job[h].by] = job[h].room]
            /\ IF job[h].at = "mark" THEN Done(h) ELSE Becomes(h, "enter")
        BY <2>10 DEF Mark
      <4>2. home'[u] = job[h].room
        BY <1>2, <4>1 DEF Types
      <4>. QED  BY <1>2, <4>1, <4>2, JobDoes DEF Labels, Moving
    <3>7. astray' = astray
      BY <2>10 DEF Mark
    <3>2. job[h].room \in Channels /\ job[h].room # None
      <4>1. job[h].room \in rooms
        BY <1>1, <3>1
      <4>. QED  BY <4>1, Kinds DEF Types, Rooms
    <3>8. PICK r : r = job[h].room
      OBVIOUS
    <3>3. Within(u, r)' /\ Somewhere(u)'
      <4>1. Within(u, r)'
        BY <2>1, <2>2, <3>1, <3>7, <3>8 DEF Place, JoinJobs, Within
      <4>. QED  BY <3>2, <3>8, <4>1 DEF Somewhere
    <3>4. Path(u)'
      BY <2>4, <2>7, <3>2, <3>3, <3>8
    <3>5. CASE job[h].at = "mark"
      <4>1. Switching(u)' = {}
        BY <2>3, <3>1, <3>5
      <4>2. Place(u)'
        BY <2>5, <3>3, <4>1 DEF Place
      <4>3. Told(u)'
        BY <2>1, <2>2, <3>1, <3>5 DEF Place, Told
      <4>. QED  BY <3>4, <4>2, <4>3
    <3>6. CASE job[h].at = "register"
      <4>1. Switching(u)' = {h}
        BY <2>3, <3>1, <3>6 DEF Moving
      <4>2. Place(u)'
        BY <2>5, <3>1, <3>3, <3>6, <3>8, <4>1 DEF Place, JoinJobs
      <4>3. Told(u) => Told(u)'
        BY <2>2, <2>6, <3>1, <3>6 DEF Told, SwitchJobs
      <4>. QED  BY <3>4, <4>2, <4>3
    <3>. QED  BY <3>1, <3>5, <3>6
  <2>11. CASE Enter(h)
    <3>1. /\ job[h].at = "enter" /\ home'[u] = home[u] /\ members'[u] = members[u] \cup {job[h].room}
          /\ job'[h] = Idle
      <4>1. /\ job[h].at = "enter" /\ UNCHANGED home /\ Done(h)
            /\ members' = [members EXCEPT ![job[h].by] = @ \cup {job[h].room}]
        BY <2>11 DEF Enter
      <4>2. members'[u] = members[u] \cup {job[h].room}
        BY <1>2, <4>1 DEF Types
      <4>. QED  BY <4>1, <4>2, JobDoes
    <3>2. Within(u, job[h].room) /\ home[u] \in {None, job[h].room} /\ astray' = astray
      BY <2>1, <2>2, <2>11, <3>1 DEF Place, JoinJobs, Enter
    <3>3. job[h].room \in Channels
      BY <1>1, <3>1 DEF Types
    <3>9. PICK r : r = job[h].room
      OBVIOUS
    <3>4. Within(u, r)' /\ Somewhere(u)'
      <4>1. Within(u, r)'
        BY <3>1, <3>2, <3>9 DEF Within
      <4>. QED  BY <3>3, <3>9, <4>1 DEF Somewhere
    <3>5. Path(u)'
      BY <2>4, <2>7, <3>3, <3>4, <3>9
    <3>6. Switching(u)' = {}
      BY <2>3, <3>1
    <3>7. Place(u)'
      BY <2>5, <3>4, <3>6 DEF Place
    <3>8. Told(u)'
      BY <3>1 DEF Told
    <3>. QED  BY <3>5, <3>7, <3>8
  <2>. QED  BY <2>8, <2>9, <2>10, <2>11
<1>6. Placed(u)'
  BY <1>1, <1>4, <1>5 DEF Placed
<1>. QED  BY <1>3, <1>6 DEF Located

LEMMA AbortLocated ==
    ASSUME Types, Sound, Located, NEW h \in Handlers, Abort(h)
    PROVE  Located'
<1>1. /\ Types' /\ UNCHANGED <<view, online, out, rooms, members, home, astray>>
      /\ job'[h] = Idle /\ \A g \in Handlers \ {h} : job'[g] = job[g]
      /\ job[h].by \in Users
      /\ \A w \in Users \ {job[h].by} : note'[w] = note[w]
  BY AbortDoes
<1>2. PICK u \in Users : u = job[h].by
  BY <1>1
<1>3. /\ note'[u].deaf = note[u].deaf
      /\ job[h].at \in Moving => note'[u].torn
      /\ job[h].at \notin Moving => note'[u].torn = note[u].torn
  <2>1. PICK t \in BOOLEAN : /\ t = (note[job[h].by].torn \/ job[h].at \in Moving)
                             /\ note'[job[h].by] = [note[job[h].by] EXCEPT !.torn = t]
    BY AbortDoes
  <2>2. note[u] \in Notes
    BY DEF Types
  <2>. QED  BY <1>2, <2>1, <2>2 DEF Notes
<1>4. \A w \in Users \ {u} : Placed(w)'
  <2>1. \A w \in Users \ {u} : HandlersKept(w)
    BY <1>1, <1>2, HandlersSame, IdleDoesNotSend
  <2>. QED  BY <1>1, <1>2, <2>1, PlacedAside DEF Located
<1>5. Placed(u)'
  <2>1. CASE job[h].at \in Moving
    <3>1. online[u]
      BY <1>2, <2>1 DEF Located, Placed, Switching
    <3>. QED  BY <1>1, <1>3, <2>1, <3>1 DEF Placed
  <2>2. CASE job[h].at \notin Moving
    <3>1. HandlersKept(u) /\ MovesKept(u, 0)
      BY <1>1, <2>2, HandlersSame, IdleDoesNotSend, OutSame
    <3>. QED  BY <1>1, <1>3, <2>2, <3>1, PlacedStays DEF Located
  <2>. QED  BY <2>1, <2>2
<1>. QED  BY <1>4, <1>5 DEF Located

LEMMA DisconnectLocated ==
    ASSUME Types, Sound, Located, NEW u \in Users, Disconnect(u)
    PROVE  Located'
<1>1. /\ Types' /\ UNCHANGED <<view, rooms>>
      /\ \A w \in Users \ {u} : /\ out'[w] = out[w] /\ online'[w] = online[w]
                                /\ members'[w] = members[w] /\ home'[w] = home[w] /\ note'[w] = note[w]
                                /\ w \in astray' <=> w \in astray
      /\ out'[u] = <<>> /\ ~online'[u] /\ members'[u] = {} /\ home'[u] = None
      /\ note'[u] = [note[u] EXCEPT !.awaited = {}, !.torn = FALSE, !.deaf = TRUE]
      /\ \A h \in Handlers : job'[h] = IF h \in Switching(u) THEN Idle ELSE job[h]
  BY DisconnectDoes
<1>2. \A w \in Users \ {u} : Placed(w)'
  <2>1. \A w \in Users \ {u} : HandlersKept(w)
    BY <1>1, IdleDoesNotSend DEF HandlersKept, Switching
  <2>. QED  BY <1>1, <2>1, PlacedAside DEF Located
<1>3. Placed(u)'
  <2>1. Switching(u)' = {}
    BY <1>1, IdleDoesNotSend DEF Switching
  <2>2. note'[u].deaf
    BY <1>1 DEF Types, Notes
  <2>3. Path(u)'
    BY <1>1, <2>1 DEF Path, PathTo, Within
  <2>4. Somewhere(u)'
    BY <1>1, ConversationAssumption DEF Somewhere, Within, Channels
  <2>5. Place(u)'
    BY <1>1, <2>1, <2>4 DEF Place
  <2>. QED  BY <1>1, <2>1, <2>2, <2>3, <2>5 DEF Placed
<1>. QED  BY <1>2, <1>3 DEF Located

-----------------------------------------------------------------------------
(* What the server does leaves what is shown alone.                        *)

LEMMA DeleteMessageShowing ==
    ASSUME Types, Sound, Showing, NEW u \in Users, NEW i \in DOMAIN view[u].list, DeleteMessage(u, view[u].list[i])
    PROVE  Showing'
<1>1. UNCHANGED <<view, sent, note>>
  BY DeleteMessageDoes
<1>. QED  BY <1>1, ShowingSame

LEMMA MoveShowing ==
    ASSUME Types, Sound, Showing, NEW u \in Users, NEW h \in Handlers, SwitchRoom(u, h) \/ Join(u, h)
    PROVE  Showing'
<1>1. UNCHANGED <<view, sent>> /\ \A w \in Users \ {u} : note'[w] = note[w]
  BY MoveDoes
<1>2. PICK t \in BOOLEAN : /\ t = (note[u].torn \/ Switching(u) # {})
                           /\ note'[u] = [note[u] EXCEPT !.torn = t]
  BY MoveDoes
<1>3. note[u] \in Notes
  BY DEF Types
<1>4. note'[u].blurred = note[u].blurred
  BY <1>2, <1>3 DEF Notes
<1>. QED  BY <1>1, <1>4, ShowingSame

LEMMA BeginsShowing ==
    ASSUME Types, Sound, Showing, NEW u \in Users, NEW h \in Handlers, SendMessage(u, h) \/ Handle(u, h)
    PROVE  Showing'
<1>1. UNCHANGED <<view, sent, note>>
  BY BeginsDoes
<1>. QED  BY <1>1, ShowingSame

LEMMA MovingShowing ==
    ASSUME Types, Sound, Showing, NEW h \in Handlers, FindRoom(h) \/ Move(h) \/ Mark(h) \/ Enter(h)
    PROVE  Showing'
<1>1. UNCHANGED <<view, sent, note>>
  BY MovingDoes
<1>. QED  BY <1>1, ShowingSame

LEMMA InsertShowing ==
    ASSUME Types, Sound, Showing, NEW h \in Handlers, Insert(h) \/ InsertFails(h)
    PROVE  Showing'
<1>1. UNCHANGED <<view, sent>>
  BY InsertDoes
<1>2. ASSUME NEW u \in Users PROVE note'[u].blurred = note[u].blurred
  <2>1. note'[u] = note[u] \/ note'[u] = [note[u] EXCEPT !.awaited = @ \cup {job[h].msg}]
    BY InsertDoes
  <2>2. note[u] \in Notes
    BY DEF Types
  <2>. QED  BY <2>1, <2>2 DEF Notes
<1>. QED  BY <1>1, <1>2, ShowingSame

LEMMA TellsShowing ==
    ASSUME Types, Sound, Showing, NEW h \in Handlers,
           Cast(h) \/ Erase(h) \/ TellDeleted(h) \/ Queue(h) \/ Dispatch(h) \/ Acknowledge(h) \/ MarkRead(h)
    PROVE  Showing'
<1>1. UNCHANGED <<view, sent, note>>
  BY TellsDoes DEF history
<1>. QED  BY <1>1, ShowingSame

LEMMA RetriesShowing ==
    ASSUME Types, Sound, Showing, NEW m \in box, Retries(m)
    PROVE  Showing'
<1>1. UNCHANGED <<view, sent, note>>
  BY RetriesDo
<1>. QED  BY <1>1, ShowingSame

LEMMA AbortShowing ==
    ASSUME Types, Sound, Showing, NEW h \in Handlers, Abort(h)
    PROVE  Showing'
<1>1. UNCHANGED <<view, sent>> /\ \A w \in Users \ {job[h].by} : note'[w] = note[w]
  BY AbortDoes
<1>2. PICK t \in BOOLEAN : note'[job[h].by] = [note[job[h].by] EXCEPT !.torn = t]
  BY AbortDoes
<1>3. job[h].by \in Users => note[job[h].by] \in Notes
  BY DEF Types
<1>4. job[h].by \in Users => note'[job[h].by].blurred = note[job[h].by].blurred
  BY <1>2, <1>3 DEF Notes
<1>. QED  BY <1>1, <1>4, ShowingSame

LEMMA DisconnectShowing ==
    ASSUME Types, Sound, Showing, NEW u \in Users, Disconnect(u)
    PROVE  Showing'
<1>1. /\ UNCHANGED <<view, sent>> /\ \A w \in Users \ {u} : note'[w] = note[w]
      /\ note'[u] = [note[u] EXCEPT !.awaited = {}, !.torn = FALSE, !.deaf = TRUE]
  BY DisconnectDoes
<1>2. note[u] \in Notes
  BY DEF Types
<1>3. note'[u].blurred = note[u].blurred
  BY <1>1, <1>2 DEF Notes
<1>. QED  BY <1>1, <1>3, ShowingSame

LEMMA ReconnectShowing ==
    ASSUME Types, Sound, Showing, NEW u \in Users, Reconnect(u)
    PROVE  Showing'
<1>1. UNCHANGED <<view, sent, note>>
  BY ReconnectDoes
<1>. QED  BY <1>1, ShowingSame

LEMMA LapseShowing ==
    ASSUME Types, Sound, Showing, NEW u \in Users, Lapse(u)
    PROVE  Showing'
<1>1. UNCHANGED <<view, sent, note>>
  BY LapseDoes
<1>. QED  BY <1>1, ShowingSame

-----------------------------------------------------------------------------
(* Each step keeps the invariant.                                          *)

LEMMA GoesInv ==
    ASSUME Inv, NEW u \in Users, NEW r \in Rooms, NEW joins \in SUBSET Channels,
           NEW receipts \in Seq(Events), Goes(u, r, joins, receipts)
    PROVE  Inv'
<1>1. Types /\ Sound /\ Located /\ Single /\ Awaits /\ Showing /\ Reading
  BY DEF Inv
<1>2. Types'
  BY <1>1, GoesDoes
<1>3. Sound'
  BY <1>1, GoesSound
<1>4. Located'
  BY <1>1, GoesLocated
<1>5. Single'
  BY <1>1, GoesSingle
<1>6. Awaits'
  BY <1>1, GoesAwaits
<1>7. Showing'
  BY <1>1, GoesShowing
<1>8. Reading'
  BY <1>1, <1>3, GoesReading
<1>. QED  BY <1>2, <1>3, <1>4, <1>5, <1>6, <1>7, <1>8 DEF Inv

LEMMA StaysInv ==
    ASSUME Inv, NEW u \in Users, Stays(u)
    PROVE  Inv'
<1>1. Types /\ Sound /\ Located /\ Single /\ Awaits /\ Showing /\ Reading
  BY DEF Inv
<1>2. Types'
  BY <1>1, StaysDoes
<1>3. Sound'
  BY <1>1, StaysSound
<1>4. Located'
  BY <1>1, StaysLocated
<1>5. Single'
  BY <1>1, StaysSingle
<1>6. Awaits'
  BY <1>1, StaysAwaits
<1>7. Showing'
  BY <1>1, StaysShowing
<1>8. Reading'
  BY <1>1, <1>3, StaysReading
<1>. QED  BY <1>2, <1>3, <1>4, <1>5, <1>6, <1>7, <1>8 DEF Inv

LEMMA JoinRoomInv ==
    ASSUME Inv, NEW u \in Users, NEW r \in Channels, JoinRoom(u, r)
    PROVE  Inv'
<1>1. Types /\ Sound /\ Located /\ Single /\ Awaits /\ Showing /\ Reading
  BY DEF Inv
<1>2. Types'
  BY <1>1, JoinRoomDoes
<1>3. Sound'
  BY <1>1, JoinRoomSound
<1>4. Located'
  BY <1>1, JoinRoomLocated
<1>5. Single'
  BY <1>1, JoinRoomSingle
<1>6. Awaits'
  BY <1>1, JoinRoomAwaits
<1>7. Showing'
  BY <1>1, JoinRoomShowing
<1>8. Reading'
  BY <1>1, <1>3, JoinRoomReading
<1>. QED  BY <1>2, <1>3, <1>4, <1>5, <1>6, <1>7, <1>8 DEF Inv

LEMMA ComposeInv ==
    ASSUME Inv, NEW u \in Users, Compose(u)
    PROVE  Inv'
<1>1. Types /\ Sound /\ Located /\ Single /\ Awaits /\ Showing /\ Reading
  BY DEF Inv
<1>2. Types'
  BY <1>1, ComposeDoes
<1>3. Sound'
  BY <1>1, ComposeSound
<1>4. Located'
  BY <1>1, ComposeLocated
<1>5. Single'
  BY <1>1, ComposeSingle
<1>6. Awaits'
  BY <1>1, ComposeAwaits
<1>7. Showing'
  BY <1>1, ComposeShowing
<1>8. Reading'
  BY <1>1, <1>3, ComposeReading
<1>. QED  BY <1>2, <1>3, <1>4, <1>5, <1>6, <1>7, <1>8 DEF Inv

LEMMA EncryptedInv ==
    ASSUME Inv, NEW u \in Users, NEW m, EncryptedChannel(u, m) \/ EncryptedDM(u, m)
    PROVE  Inv'
<1>1. Types /\ Sound /\ Located /\ Single /\ Awaits /\ Showing /\ Reading
  BY DEF Inv
<1>2. Types'
  BY <1>1, EncryptedDoes
<1>3. Sound'
  BY <1>1, EncryptedSound
<1>4. Located'
  BY <1>1, EncryptedLocated
<1>5. Single'
  BY <1>1, EncryptedSingle
<1>6. Awaits'
  BY <1>1, EncryptedAwaits
<1>7. Showing'
  BY <1>1, EncryptedShowing
<1>8. Reading'
  BY <1>1, <1>3, EncryptedReading
<1>. QED  BY <1>2, <1>3, <1>4, <1>5, <1>6, <1>7, <1>8 DEF Inv

LEMMA EncryptFailsInv ==
    ASSUME Inv, NEW u \in Users, NEW m, EncryptFails(u, m)
    PROVE  Inv'
<1>1. Types /\ Sound /\ Located /\ Single /\ Awaits /\ Showing /\ Reading
  BY DEF Inv
<1>2. Types'
  BY <1>1, EncryptFailsDoes
<1>3. Sound'
  BY <1>1, EncryptFailsSound
<1>4. Located'
  BY <1>1, EncryptFailsLocated
<1>5. Single'
  BY <1>1, EncryptFailsSingle
<1>6. Awaits'
  BY <1>1, EncryptFailsAwaits
<1>7. Showing'
  BY <1>1, EncryptFailsShowing
<1>8. Reading'
  BY <1>1, <1>3, EncryptFailsReading
<1>. QED  BY <1>2, <1>3, <1>4, <1>5, <1>6, <1>7, <1>8 DEF Inv

LEMMA DeleteMessageInv ==
    ASSUME Inv, NEW u \in Users, NEW i \in DOMAIN view[u].list, DeleteMessage(u, view[u].list[i])
    PROVE  Inv'
<1>1. Types /\ Sound /\ Located /\ Single /\ Awaits /\ Showing /\ Reading
  BY DEF Inv
<1>2. Types'
  BY <1>1, DeleteMessageDoes
<1>3. Sound'
  BY <1>1, DeleteMessageSound
<1>4. Located'
  BY <1>1, DeleteMessageLocated
<1>5. Single'
  BY <1>1, DeleteMessageSingle
<1>6. Awaits'
  BY <1>1, DeleteMessageAwaits
<1>7. Showing'
  BY <1>1, DeleteMessageShowing
<1>8. Reading'
  BY <1>1, <1>3, DeleteMessageReading
<1>. QED  BY <1>2, <1>3, <1>4, <1>5, <1>6, <1>7, <1>8 DEF Inv

LEMMA FetchInv ==
    ASSUME Inv, NEW u \in Users, NEW f, Fetch(u, f)
    PROVE  Inv'
<1>1. Types /\ Sound /\ Located /\ Single /\ Awaits /\ Showing /\ Reading
  BY DEF Inv
<1>2. Types'
  BY <1>1, FetchesDo
<1>3. Sound'
  BY <1>1, FetchSound
<1>4. Located'
  BY <1>1, FetchLocated
<1>5. Single'
  BY <1>1, FetchSingle
<1>6. Awaits'
  BY <1>1, FetchAwaits
<1>7. Showing'
  BY <1>1, FetchShowing
<1>8. Reading'
  BY <1>1, <1>3, FetchReading
<1>. QED  BY <1>2, <1>3, <1>4, <1>5, <1>6, <1>7, <1>8 DEF Inv

LEMMA ReceiveInv ==
    ASSUME Inv, NEW u \in Users, Receives(u)
    PROVE  Inv'
<1>1. Types /\ Sound /\ Located /\ Single /\ Awaits /\ Showing /\ Reading
  BY DEF Inv
<1>2. Types'
  BY <1>1, ReceiveDoes DEF Receives
<1>3. Sound'
  BY <1>1, ReceiveSound
<1>4. Located'
  BY <1>1, ReceiveLocated
<1>5. Single'
  BY <1>1, ReceiveSingle
<1>6. Awaits'
  BY <1>1, ReceiveAwaits
<1>7. Showing'
  BY <1>1, ReceiveShowing
<1>8. Reading'
  BY <1>1, <1>3, ReceiveReading
<1>. QED  BY <1>2, <1>3, <1>4, <1>5, <1>6, <1>7, <1>8 DEF Inv

LEMMA ShowMessageInv ==
    ASSUME Inv, NEW u \in Users, NEW s, ShowMessage(u, s)
    PROVE  Inv'
<1>1. Types /\ Sound /\ Located /\ Single /\ Awaits /\ Showing /\ Reading
  BY DEF Inv
<1>2. Types'
  BY <1>1, ShowMessageDoes
<1>3. Sound'
  BY <1>1, ShowMessageSound
<1>4. Located'
  BY <1>1, ShowMessageLocated
<1>5. Single'
  BY <1>1, ShowMessageSingle
<1>6. Awaits'
  BY <1>1, ShowMessageAwaits
<1>7. Showing'
  BY <1>1, ShowMessageShowing
<1>8. Reading'
  BY <1>1, <1>3, ShowMessageReading
<1>. QED  BY <1>2, <1>3, <1>4, <1>5, <1>6, <1>7, <1>8 DEF Inv

LEMMA ShowDirectInv ==
    ASSUME Inv, NEW u \in Users, ShowDirect(u)
    PROVE  Inv'
<1>1. Types /\ Sound /\ Located /\ Single /\ Awaits /\ Showing /\ Reading
  BY DEF Inv
<1>2. Types'
  BY <1>1, ShowDirectDoes
<1>3. Sound'
  BY <1>1, ShowDirectSound
<1>4. Located'
  BY <1>1, ShowDirectLocated
<1>5. Single'
  BY <1>1, ShowDirectSingle
<1>6. Awaits'
  BY <1>1, ShowDirectAwaits
<1>7. Showing'
  BY <1>1, ShowDirectShowing
<1>8. Reading'
  BY <1>1, <1>3, ShowDirectReading
<1>. QED  BY <1>2, <1>3, <1>4, <1>5, <1>6, <1>7, <1>8 DEF Inv

LEMMA DropCopyInv ==
    ASSUME Inv, NEW u \in Users, DropCopy(u)
    PROVE  Inv'
<1>1. Types /\ Sound /\ Located /\ Single /\ Awaits /\ Showing /\ Reading
  BY DEF Inv
<1>2. Types'
  BY <1>1, DropCopyDoes
<1>3. Sound'
  BY <1>1, DropCopySound
<1>4. Located'
  BY <1>1, DropCopyLocated
<1>5. Single'
  BY <1>1, DropCopySingle
<1>6. Awaits'
  BY <1>1, DropCopyAwaits
<1>7. Showing'
  BY <1>1, DropCopyShowing
<1>8. Reading'
  BY <1>1, <1>3, DropCopyReading
<1>. QED  BY <1>2, <1>3, <1>4, <1>5, <1>6, <1>7, <1>8 DEF Inv

LEMMA MoveInv ==
    ASSUME Inv, NEW u \in Users, NEW h \in Handlers, SwitchRoom(u, h) \/ Join(u, h)
    PROVE  Inv'
<1>1. Types /\ Sound /\ Located /\ Single /\ Awaits /\ Showing /\ Reading
  BY DEF Inv
<1>2. Types'
  BY <1>1, MoveDoes
<1>3. Sound'
  BY <1>1, MoveSound
<1>4. Located'
  BY <1>1, MoveLocated
<1>5. Single'
  BY <1>1, MoveSingle
<1>6. Awaits'
  BY <1>1, MoveAwaits
<1>7. Showing'
  BY <1>1, MoveShowing
<1>8. Reading'
  BY <1>1, <1>3, MoveReading
<1>. QED  BY <1>2, <1>3, <1>4, <1>5, <1>6, <1>7, <1>8 DEF Inv

LEMMA BeginsInv ==
    ASSUME Inv, NEW u \in Users, NEW h \in Handlers, SendMessage(u, h) \/ Handle(u, h)
    PROVE  Inv'
<1>1. Types /\ Sound /\ Located /\ Single /\ Awaits /\ Showing /\ Reading
  BY DEF Inv
<1>2. Types'
  BY <1>1, BeginsDoes
<1>3. Sound'
  BY <1>1, BeginsSound
<1>4. Located'
  BY <1>1, BeginsLocated
<1>5. Single'
  BY <1>1, BeginsSingle
<1>6. Awaits'
  BY <1>1, BeginsAwaits
<1>7. Showing'
  BY <1>1, BeginsShowing
<1>8. Reading'
  BY <1>1, <1>3, BeginsReading
<1>. QED  BY <1>2, <1>3, <1>4, <1>5, <1>6, <1>7, <1>8 DEF Inv

LEMMA MovingInv ==
    ASSUME Inv, NEW h \in Handlers, FindRoom(h) \/ Move(h) \/ Mark(h) \/ Enter(h)
    PROVE  Inv'
<1>1. Types /\ Sound /\ Located /\ Single /\ Awaits /\ Showing /\ Reading
  BY DEF Inv
<1>2. Types'
  BY <1>1, MovingDoes
<1>3. Sound'
  BY <1>1, MovingSound
<1>4. Located'
  BY <1>1, MovingLocated
<1>5. Single'
  BY <1>1, MovingSingle
<1>6. Awaits'
  BY <1>1, MovingAwaits
<1>7. Showing'
  BY <1>1, MovingShowing
<1>8. Reading'
  BY <1>1, <1>3, MovingReading
<1>. QED  BY <1>2, <1>3, <1>4, <1>5, <1>6, <1>7, <1>8 DEF Inv

LEMMA InsertInv ==
    ASSUME Inv, NEW h \in Handlers, Insert(h) \/ InsertFails(h)
    PROVE  Inv'
<1>1. Types /\ Sound /\ Located /\ Single /\ Awaits /\ Showing /\ Reading
  BY DEF Inv
<1>2. Types'
  BY <1>1, InsertDoes
<1>3. Sound'
  BY <1>1, InsertSound
<1>4. Located'
  BY <1>1, InsertLocated
<1>5. Single'
  BY <1>1, InsertSingle
<1>6. Awaits'
  BY <1>1, InsertAwaits
<1>7. Showing'
  BY <1>1, InsertShowing
<1>8. Reading'
  BY <1>1, <1>3, InsertReading
<1>. QED  BY <1>2, <1>3, <1>4, <1>5, <1>6, <1>7, <1>8 DEF Inv

LEMMA TellsInv ==
    ASSUME Inv, NEW h \in Handlers,
           Cast(h) \/ Erase(h) \/ TellDeleted(h) \/ Queue(h) \/ Dispatch(h) \/ Acknowledge(h) \/ MarkRead(h)
    PROVE  Inv'
<1>1. Types /\ Sound /\ Located /\ Single /\ Awaits /\ Showing /\ Reading
  BY DEF Inv
<1>2. Types'
  BY <1>1, TellsDoes
<1>3. Sound'
  BY <1>1, TellsSound
<1>4. Located'
  BY <1>1, TellsLocated
<1>5. Single'
  BY <1>1, TellsSingle
<1>6. Awaits'
  BY <1>1, TellsAwaits
<1>7. Showing'
  BY <1>1, TellsShowing
<1>8. Reading'
  BY <1>1, <1>3, TellsReading
<1>. QED  BY <1>2, <1>3, <1>4, <1>5, <1>6, <1>7, <1>8 DEF Inv

LEMMA RetriesInv ==
    ASSUME Inv, NEW m \in box, Retries(m)
    PROVE  Inv'
<1>1. Types /\ Sound /\ Located /\ Single /\ Awaits /\ Showing /\ Reading
  BY DEF Inv
<1>2. Types'
  BY <1>1, RetriesDo
<1>3. Sound'
  BY <1>1, RetriesSound
<1>4. Located'
  BY <1>1, RetriesLocated
<1>5. Single'
  BY <1>1, RetriesSingle
<1>6. Awaits'
  BY <1>1, RetriesAwaits
<1>7. Showing'
  BY <1>1, RetriesShowing
<1>8. Reading'
  BY <1>1, <1>3, RetriesReading
<1>. QED  BY <1>2, <1>3, <1>4, <1>5, <1>6, <1>7, <1>8 DEF Inv

LEMMA AbortInv ==
    ASSUME Inv, NEW h \in Handlers, Abort(h)
    PROVE  Inv'
<1>1. Types /\ Sound /\ Located /\ Single /\ Awaits /\ Showing /\ Reading
  BY DEF Inv
<1>2. Types'
  BY <1>1, AbortDoes
<1>3. Sound'
  BY <1>1, AbortSound
<1>4. Located'
  BY <1>1, AbortLocated
<1>5. Single'
  BY <1>1, AbortSingle
<1>6. Awaits'
  BY <1>1, AbortAwaits
<1>7. Showing'
  BY <1>1, AbortShowing
<1>8. Reading'
  BY <1>1, <1>3, AbortReading
<1>. QED  BY <1>2, <1>3, <1>4, <1>5, <1>6, <1>7, <1>8 DEF Inv

LEMMA DisconnectInv ==
    ASSUME Inv, NEW u \in Users, Disconnect(u)
    PROVE  Inv'
<1>1. Types /\ Sound /\ Located /\ Single /\ Awaits /\ Showing /\ Reading
  BY DEF Inv
<1>2. Types'
  BY <1>1, DisconnectDoes
<1>3. Sound'
  BY <1>1, DisconnectSound
<1>4. Located'
  BY <1>1, DisconnectLocated
<1>5. Single'
  BY <1>1, DisconnectSingle
<1>6. Awaits'
  BY <1>1, DisconnectAwaits
<1>7. Showing'
  BY <1>1, DisconnectShowing
<1>8. Reading'
  BY <1>1, <1>3, DisconnectReading
<1>. QED  BY <1>2, <1>3, <1>4, <1>5, <1>6, <1>7, <1>8 DEF Inv

LEMMA ReconnectInv ==
    ASSUME Inv, NEW u \in Users, Reconnect(u)
    PROVE  Inv'
<1>1. Types /\ Sound /\ Located /\ Single /\ Awaits /\ Showing /\ Reading
  BY DEF Inv
<1>2. Types'
  BY <1>1, ReconnectDoes
<1>3. Sound'
  BY <1>1, ReconnectSound
<1>4. Located'
  BY <1>1, ReconnectLocated
<1>5. Single'
  BY <1>1, ReconnectSingle
<1>6. Awaits'
  BY <1>1, ReconnectAwaits
<1>7. Showing'
  BY <1>1, ReconnectShowing
<1>8. Reading'
  BY <1>1, <1>3, ReconnectReading
<1>. QED  BY <1>2, <1>3, <1>4, <1>5, <1>6, <1>7, <1>8 DEF Inv

LEMMA LapseInv ==
    ASSUME Inv, NEW u \in Users, Lapse(u)
    PROVE  Inv'
<1>1. Types /\ Sound /\ Located /\ Single /\ Awaits /\ Showing /\ Reading
  BY DEF Inv
<1>2. Types'
  BY <1>1, LapseDoes
<1>3. Sound'
  BY <1>1, LapseSound
<1>4. Located'
  BY <1>1, LapseLocated
<1>5. Single'
  BY <1>1, LapseSingle
<1>6. Awaits'
  BY <1>1, LapseAwaits
<1>7. Showing'
  BY <1>1, LapseShowing
<1>8. Reading'
  BY <1>1, <1>3, LapseReading
<1>. QED  BY <1>2, <1>3, <1>4, <1>5, <1>6, <1>7, <1>8 DEF Inv

-----------------------------------------------------------------------------
(* The invariant holds at first, and in every state.                       *)

LEMMA InitInv == Init => Inv
<1>. SUFFICES ASSUME Init PROVE Inv
  OBVIOUS
<1>1. PICK open \in [Users -> {General} \cup Direct] :
        /\ \A u \in Users : open[u] = General \/ u \in open[u]
        /\ view = [u \in Users |->
                     [room |-> open[u], channel |-> General, list |-> <<>>,
                      unread |-> [r \in Rooms |-> 0], processed |-> {}, joining |-> {},
                      fetches |-> {}, composing |-> {}, showing |-> {}, queue |-> <<>>]]
        /\ note = [u \in Users |-> [shown |-> {}, opened |-> {open[u]}, awaited |-> {},
                                    blurred |-> FALSE, torn |-> FALSE,
                                    deaf |-> open[u] \in Direct]]
  BY DEF Init
<1>2. /\ online = [u \in Users |-> TRUE]
      /\ out = [u \in Users |-> <<>>] /\ inbox = [u \in Users |-> <<>>]
      /\ rooms = Existing /\ stored = {} /\ erased = {} /\ box = {}
      /\ members = [u \in Users |-> {General}] /\ home = [u \in Users |-> General]
      /\ astray = {} /\ recent = [u \in Users |-> 0]
      /\ job = [h \in Handlers |-> Idle]
      /\ sent = <<>> /\ steps = 0
  BY DEF Init
<1>3. General \in Existing /\ General \in Channels /\ General \in Rooms /\ General # None
  BY ConversationAssumption DEF Channels, Rooms
<1>4. \A u \in Users : open[u] \in Rooms /\ (open[u] \in Channels => open[u] = General)
  BY <1>1, <1>3, Kinds DEF Rooms
<1>5. ASSUME NEW u \in Users
      PROVE  /\ view[u] \in Views /\ note[u] \in Notes
             /\ view[u].room = open[u] /\ view[u].channel = General /\ view[u].list = <<>>
             /\ view[u].unread = [r \in Rooms |-> 0] /\ view[u].processed = {}
             /\ view[u].fetches = {} /\ view[u].composing = {} /\ view[u].showing = {}
             /\ view[u].queue = <<>>
             /\ note[u].opened = {open[u]} /\ note[u].awaited = {}
             /\ ~note[u].torn /\ (note[u].deaf <=> open[u] \in Direct)
             /\ out[u] = <<>> /\ inbox[u] = <<>> /\ members[u] = {General} /\ home[u] = General
             /\ online[u]
  <2>1. PICK v : v = [room |-> open[u], channel |-> General, list |-> <<>>,
                      unread |-> [r \in Rooms |-> 0], processed |-> {}, joining |-> {},
                      fetches |-> {}, composing |-> {}, showing |-> {}, queue |-> <<>>]
    OBVIOUS
  <2>2. v \in Views
    <3>1. [r \in Rooms |-> 0] \in [Rooms -> Nat]
      OBVIOUS
    <3>2. <<>> \in Seq(Entries) /\ <<>> \in Seq(Sights)
      OBVIOUS
    <3>. QED  BY <1>3, <1>4, <2>1, <3>1, <3>2 DEF Views
  <2>3. view[u] = v
    BY <1>1, <2>1
  <2>4. /\ v.room = open[u] /\ v.channel = General /\ v.list = <<>>
        /\ v.unread = [r \in Rooms |-> 0] /\ v.processed = {}
        /\ v.fetches = {} /\ v.composing = {} /\ v.showing = {} /\ v.queue = <<>>
    BY <2>1
  <2>5. PICK d \in BOOLEAN : d = (open[u] \in Direct)
    <3>1. (open[u] \in Direct) = TRUE \/ (open[u] \in Direct) = FALSE
      OBVIOUS
    <3>. QED  BY <3>1
  <2>6. PICK n : n = [shown |-> {}, opened |-> {open[u]}, awaited |-> {},
                      blurred |-> FALSE, torn |-> FALSE, deaf |-> d]
    OBVIOUS
  <2>7. /\ n \in Notes /\ n.opened = {open[u]} /\ n.awaited = {} /\ ~n.torn /\ n.deaf = d
        /\ note[u] = n
    BY <1>1, <1>4, <2>5, <2>6 DEF Notes
  <2>8. /\ out[u] = <<>> /\ inbox[u] = <<>> /\ members[u] = {General} /\ home[u] = General
        /\ online[u]
    BY <1>2
  <2>. QED  BY <2>2, <2>3, <2>4, <2>5, <2>7, <2>8
<1>6. Messages = {} /\ Len(sent) = 0 /\ sent \in Seq([by : Users, room : Rooms])
  BY <1>2 DEF Messages
<1>7. Idle \in Jobs /\ Idle.at = "idle" /\ Idle.msg = 0
  BY DEF Idle, Jobs, Labels
<1>8. \A h \in Handlers : job[h] = Idle
  BY <1>2
<1>9. Types
  <2>1. view \in [Users -> Views] /\ note \in [Users -> Notes]
    BY <1>1, <1>5
  <2>2. online \in [Users -> BOOLEAN] /\ out \in [Users -> Seq(Events)] /\ inbox \in [Users -> Seq(News)]
    BY <1>2
  <2>3. Existing \subseteq rooms /\ rooms \subseteq Channels /\ erased \subseteq stored
    BY <1>2 DEF Channels
  <2>4. /\ members \in [Users -> SUBSET Channels] /\ home \in [Users -> Channels \cup {None}]
        /\ astray \subseteq Users /\ recent \in [Users -> Nat]
    BY <1>2, <1>3
  <2>5. job \in [Handlers -> Jobs]
    BY <1>2, <1>7
  <2>6. steps \in 0..MaxSteps
    BY <1>2, ConversationAssumption
  <2>. QED  BY <1>6, <2>1, <2>2, <2>3, <2>4, <2>5, <2>6 DEF Types
<1>10. Sound
  <2>1. \A h \in Handlers : JobSound(job[h])
    BY <1>8, <1>9, IdleSound
  <2>2. ASSUME NEW u \in Users PROVE ViewSound(u, view[u])
    BY <1>1, <1>4, <1>5, Kinds DEF ViewSound
  <2>. QED  BY <1>2, <1>5, <1>6, <2>1, <2>2 DEF Sound
<1>11. Located
  <2>1. ASSUME NEW u \in Users PROVE Placed(u)
    <3>1. Switching(u) = {}
      BY <1>7, <1>8 DEF Switching, Moving
    <3>2. Path(u) /\ Place(u)
      <4>1. Within(u, General) /\ Somewhere(u)
        BY <1>3, <1>5 DEF Within, Somewhere
      <4>. QED  BY <1>5, <3>1, <4>1 DEF Path, PathTo, Place
    <3>3. ~note[u].deaf => view[u].room \in Channels /\ Told(u)
      <4>1. Told(u)
        BY <1>3, <1>5 DEF Told
      <4>2. open[u] = General \/ open[u] \in Direct
        BY <1>1
      <4>. QED  BY <1>3, <1>5, <4>1, <4>2
    <3>. QED  BY <1>5, <3>2, <3>3 DEF Placed
  <2>. QED  BY <2>1 DEF Located
<1>12. Single
  BY <1>5, <1>7, <1>8 DEF Single, Sending
<1>13. Awaits
  BY <1>5 DEF Awaits
<1>14. Showing
  <2>1. ASSUME NEW u \in Users PROVE Tidy(view[u])
    BY <1>4, <1>5 DEF Tidy
  <2>. QED  BY <2>1 DEF Showing
<1>15. Reading
  BY <1>5, <1>7, <1>8 DEF Reading
<1>. QED  BY <1>9, <1>10, <1>11, <1>12, <1>13, <1>14, <1>15 DEF Inv

\* What a history variable, or nothing, does to the invariant.
LEMMA StutterInv ==
    ASSUME Inv, UNCHANGED vars
    PROVE  Inv'
<1>1. UNCHANGED <<view, online, out, inbox, rooms, stored, erased, box, members, home, astray,
                  recent, job, sent, note, steps>>
  BY DEF vars
<1>2. Types /\ Sound /\ Located /\ Single /\ Awaits /\ Showing /\ Reading
  BY DEF Inv
<1>3. /\ Messages' = Messages /\ \A m : /\ RoomOf(m)' = RoomOf(m) /\ By(m)' = By(m)
                                      /\ Peer(m)' = Peer(m)
  BY <1>1 DEF Messages, RoomOf, By, Peer
<1>4. \A m : SeenByReader(m)' <=> SeenByReader(m)
  BY <1>3, <1>1 DEF SeenByReader
<1>5. Types'
  BY <1>1, <1>2 DEF Types
<1>6. Sound'
  <2>1. /\ \A h \in Handlers : job'[h] = job[h]
        /\ \A u \in Users : view'[u] = view[u]
    BY <1>1
  <2>. QED  BY <1>1, <1>2, <1>5, <2>1, Unmoved, SoundStep
<1>7. Located'
  BY <1>1, <1>2 DEF Located, Placed, Path, PathTo, Place, Told, Corrected, Switching, Within, Somewhere
<1>8. Single'
  BY <1>1, <1>2 DEF Single, Unstored, InList, Coming, Brings, Shown, NoJob, Sends, RoomOf
<1>9. Awaits'
  BY <1>1, <1>2 DEF Awaits, Awaited, Attentive, Switching, Stage, ToCast, Coming, ComesOnce,
                    Brings, Shown, InList, ListedOnce, RoomOf
<1>10. Showing'
  BY <1>1, <1>2, ShowingSame
<1>11. Reading'
  BY <1>3, <1>1, <1>2, <1>4 DEF Reading
<1>. QED  BY <1>5, <1>6, <1>7, <1>8, <1>9, <1>10, <1>11 DEF Inv

LEMMA ActInv ==
    ASSUME Inv, NEW u \in Users, Act(u)
    PROVE  Inv'
<1>1. Types
  BY DEF Inv
<1>2. CASE \/ \E r \in Channels : SelectChannel(u, r) \/ CreateRoom(u, r)
           \/ \E r \in Direct : SelectDM(u, r)
           \/ Rerun(u)
  <2>1. \/ Stays(u)
        \/ \E r \in Rooms, joins \in SUBSET Channels, receipts \in Seq(Events) :
             Goes(u, r, joins, receipts)
    BY <1>1, <1>2, Selections
  <2>. QED  BY <2>1, StaysInv, GoesInv
<1>3. CASE Compose(u)
  BY <1>3, ComposeInv
<1>4. ASSUME NEW x \in ToSet(view[u].list), DeleteMessage(u, x) PROVE Inv'
  <2>1. PICK i \in DOMAIN view[u].list : x = view[u].list[i]
    BY DEF ToSet
  <2>. QED  BY <1>4, <2>1, DeleteMessageInv
<1>. QED  BY <1>2, <1>3, <1>4 DEF Act

LEMMA BrowserInv ==
    ASSUME Inv, NEW u \in Users, Browser(u)
    PROVE  Inv'
<1>1. ASSUME NEW r \in view[u].joining, JoinRoom(u, r) PROVE Inv'
  <2>1. view[u] \in Views
    BY DEF Inv, Types
  <2>2. r \in Channels
    BY <2>1 DEF Views
  <2>. QED  BY <1>1, <2>2, JoinRoomInv
<1>2. ASSUME NEW m \in view[u].composing, EncryptedChannel(u, m) \/ EncryptedDM(u, m) PROVE Inv'
  BY <1>2, EncryptedInv
<1>3. ASSUME NEW m \in view[u].composing, EncryptFails(u, m) PROVE Inv'
  BY <1>3, EncryptFailsInv
<1>4. ASSUME NEW f \in view[u].fetches, Fetch(u, f) PROVE Inv'
  BY <1>4, FetchInv
<1>5. CASE Receives(u)
  BY <1>5, ReceiveInv
<1>6. ASSUME NEW s \in view[u].showing, ShowMessage(u, s) PROVE Inv'
  BY <1>6, ShowMessageInv
<1>7. CASE ShowDirect(u)
  BY <1>7, ShowDirectInv
<1>8. CASE DropCopy(u)
  BY <1>8, DropCopyInv
<1>. QED  BY <1>1, <1>2, <1>3, <1>4, <1>5, <1>6, <1>7, <1>8 DEF Browser, Fetch, Receives

LEMMA HandlerInv ==
    ASSUME Inv, NEW h \in Handlers, Handler(h)
    PROVE  Inv'
<1>1. ASSUME NEW u \in Users, SwitchRoom(u, h) \/ Join(u, h) PROVE Inv'
  BY <1>1, MoveInv
<1>2. ASSUME NEW u \in Users, SendMessage(u, h) \/ Handle(u, h) PROVE Inv'
  BY <1>2, BeginsInv
<1>3. CASE FindRoom(h) \/ Move(h) \/ Mark(h) \/ Enter(h)
  BY <1>3, MovingInv
<1>4. CASE Insert(h) \/ InsertFails(h)
  BY <1>4, InsertInv
<1>5. CASE Cast(h) \/ Erase(h) \/ TellDeleted(h) \/ Queue(h) \/ Dispatch(h) \/ Acknowledge(h) \/ MarkRead(h)
  BY <1>5, TellsInv
<1>6. CASE Abort(h)
  BY <1>6, AbortInv
<1>. QED  BY <1>1, <1>2, <1>3, <1>4, <1>5, <1>6 DEF Handler

\* The invariant of this module: every reachable state satisfies it.
THEOREM InvKept == Spec => []Inv
<1>1. Init => Inv
  BY InitInv
<1>2. Inv /\ [Next]_vars => Inv'
  <2>. SUFFICES ASSUME Inv, [Next]_vars PROVE Inv'
    OBVIOUS
  <2>1. ASSUME NEW u \in Users, Act(u) \/ Browser(u) \/ Disconnect(u) \/ Reconnect(u) \/ Lapse(u) PROVE Inv'
    BY <2>1, ActInv, BrowserInv, DisconnectInv, ReconnectInv, LapseInv
  <2>2. ASSUME NEW h \in Handlers, Handler(h) PROVE Inv'
    BY <2>2, HandlerInv
  <2>3. ASSUME NEW m \in box, Redeliver(m) \/ AckTimesOut(m) PROVE Inv'
    BY <2>3, RetriesInv DEF Retries
  <2>4. CASE UNCHANGED vars
    BY <2>4, StutterInv
  <2>. QED  BY <2>1, <2>2, <2>3, <2>4 DEF Next
<1>. QED  BY <1>1, <1>2, PTL DEF Spec

-----------------------------------------------------------------------------
(* The properties that the runs check, for every instance.                 *)

LEMMA Narrows ==
    ASSUME NEW S, NEW T, NEW s \in Seq(S), \A i \in DOMAIN s : s[i] \in T
    PROVE  s \in Seq(T)
<1>1. s \in [1..Len(s) -> T] /\ Len(s) \in Nat
  OBVIOUS
<1>. QED  BY <1>1

LEMMA ViewTypes ==
    ASSUME Types, Sound, NEW u \in Users
    PROVE  view[u] \in ViewType
<1>1. PICK v \in Views : v = view[u]
  BY DEF Types
<1>2. /\ v = [room |-> v.room, channel |-> v.channel, list |-> v.list, unread |-> v.unread,
              processed |-> v.processed, joining |-> v.joining, fetches |-> v.fetches,
              composing |-> v.composing, showing |-> v.showing, queue |-> v.queue]
      /\ v.room \in Rooms /\ v.channel \in Channels /\ v.list \in Seq(Entries)
      /\ v.unread \in [Rooms -> Nat] /\ v.joining \in SUBSET Channels
      /\ v.fetches \in SUBSET Fetches /\ v.showing \in SUBSET Sights /\ v.queue \in Seq(Sights)
  BY DEF Views
<1>3. ViewSound(u, v)
  BY <1>1 DEF Sound
<1>4. v.processed \subseteq Messages /\ v.composing \subseteq Messages
  BY <1>3 DEF ViewSound
<1>5. v.list \in Seq(EntryType)
  <2>1. ASSUME NEW i \in DOMAIN v.list PROVE v.list[i] \in EntryType
    <3>1. v.list[i] \in Entries
      BY <1>2
    <3>2. v.list[i].msg \in Messages
      BY <1>3 DEF ViewSound
    <3>. QED  BY <3>1, <3>2 DEF Entries, EntryType
  <2>. QED  BY <1>2, <2>1, Narrows
<1>6. v.showing \subseteq Seen
  <2>1. ASSUME NEW s \in v.showing PROVE s \in Seen
    <3>1. s \in Sights
      BY <1>2
    <3>2. s.msg \in Messages
      BY <1>3 DEF ViewSound, InChannel
    <3>. QED  BY <3>1, <3>2 DEF Sights, Seen
  <2>. QED  BY <2>1
<1>7. v.queue \in Seq(Seen)
  <2>1. ASSUME NEW i \in DOMAIN v.queue PROVE v.queue[i] \in Seen
    <3>1. v.queue[i] \in Sights
      BY <1>2
    <3>2. v.queue[i].msg \in Messages
      BY <1>3 DEF ViewSound, InDirect
    <3>. QED  BY <3>1, <3>2 DEF Sights, Seen
  <2>. QED  BY <1>2, <2>1, Narrows
<1>8. v.fetches \subseteq FetchType
  <2>1. ASSUME NEW f \in v.fetches PROVE f \in FetchType
    <3>1. f \in Fetches
      BY <1>2
    <3>2. PICK rows : rows = f.rows
      OBVIOUS
    <3>3. rows \in Seq(Nat)
      BY <3>1, <3>2 DEF Fetches
    <3>4. \A i \in DOMAIN rows : rows[i] \in Messages
      <4>1. \A i \in DOMAIN rows : rows[i] \in stored
        BY <1>3, <3>2 DEF ViewSound
      <4>. QED  BY <4>1 DEF Sound, InChannel
    <3>5. rows \in Seq(Messages)
      BY <3>3, <3>4, Narrows
    <3>. QED  BY <3>1, <3>2, <3>5 DEF Fetches, FetchType
  <2>. QED  BY <2>1
<1>9. v.fetches \in SUBSET FetchType /\ v.showing \in SUBSET Seen
      /\ v.processed \in SUBSET Messages /\ v.composing \in SUBSET Messages
  BY <1>4, <1>6, <1>8
<1>. QED  BY <1>1, <1>2, <1>5, <1>7, <1>9 DEF ViewType

\* Every browser, event, table and handler has its shape; what an event, a handler or a
\* list refers to is a message that was written.
THEOREM ConversationTypeOK == Spec => []TypeOK
<1>1. Inv => TypeOK
  <2>. SUFFICES ASSUME Inv PROVE TypeOK
    OBVIOUS
  <2>1. Types /\ Sound
    BY DEF Inv
  <2>2. view \in [Users -> ViewType]
    <3>1. view \in [Users -> Views]
      BY <2>1 DEF Types
    <3>. QED  BY <2>1, <3>1, ViewTypes
  <2>3. ASSUME NEW u \in Users, NEW i \in DOMAIN out[u]
        PROVE  out[u][i] \in [type : OutTypes, msg : 0..Len(sent), room : Rooms \cup {None}]
    <3>1. out[u] \in Seq(Events)
      BY <2>1 DEF Types
    <3>2. out[u][i] \in Events
      BY <3>1
    <3>3. out[u][i].msg \in 0..Len(sent)
      BY <2>1 DEF Sound, EventSound
    <3>. QED  BY <3>2, <3>3 DEF Events
  <2>4. ASSUME NEW u \in Users, NEW i \in DOMAIN inbox[u]
        PROVE  inbox[u][i] \in [type : {"message", "direct", "status", "deleted"},
                                msg : 0..Len(sent), status : Status]
    <3>1. inbox[u] \in Seq(News)
      BY <2>1 DEF Types
    <3>2. inbox[u][i] \in News
      BY <3>1
    <3>3. inbox[u][i].msg \in 0..Len(sent)
      BY <2>1 DEF Sound, NewsSound
    <3>. QED  BY <3>2, <3>3 DEF News
  <2>5. job \in [Handlers -> JobType]
    <3>1. job \in [Handlers -> Jobs]
      BY <2>1 DEF Types
    <3>2. ASSUME NEW h \in Handlers PROVE job[h] \in JobType
      <4>1. job[h] \in Jobs /\ job[h].msg \in 0..Len(sent)
        BY <2>1, <3>1 DEF Sound, JobSound
      <4>. QED  BY <4>1 DEF Jobs, JobType
    <3>. QED  BY <3>1, <3>2
  <2>6. stored \subseteq Messages /\ box \subseteq Messages
    BY <2>1 DEF Sound, InChannel, InDirect
  <2>7. /\ online \in [Users -> BOOLEAN] /\ rooms \subseteq Channels /\ erased \subseteq stored
        /\ members \in [Users -> SUBSET Channels] /\ home \in [Users -> Channels \cup {None}]
        /\ astray \subseteq Users /\ recent \in [Users -> Nat]
    BY <2>1 DEF Types
  <2>. QED  BY <2>2, <2>3, <2>4, <2>5, <2>6, <2>7 DEF TypeOK
<1>. QED  BY <1>1, InvKept, PTL

\* However switches, joins, lost connections, hashes that run out and failing commands
\* interleave with the handlers that serve them: a browser that shows a channel, and whose
\* switches and joins went through one by one, is at the server in this channel, and Redis
\* names no other one; it is in no other channel, unless it once changed rooms after its
\* hash had run out.
THEOREM BrowserHearsItsRoom == Spec => []HearsItsRoom
<1>1. Inv => HearsItsRoom
  BY Hears DEF Inv, HearsItsRoom
<1>. QED  BY <1>1, InvKept, PTL

\* A message that comes live to a browser with its room loaded is shown once: until the
\* browser asks for a history, joins or switches again, it is with the broadcast that is
\* still to be made, with an event, with a decryption, or once on the list.
THEOREM MessageSeenOnce == Spec => []SeenOnce
<1>1. Inv => SeenOnce
  <2>. SUFFICES ASSUME Inv, NEW u \in Users, NEW m \in note[u].awaited
                PROVE  \/ \E h \in Handlers : job[h].at = "cast" /\ job[h].msg = m
                       \/ \E i \in DOMAIN inbox[u] : inbox[u][i].type = "message" /\ inbox[u][i].msg = m
                       \/ \E s \in view[u].showing : s.msg = m
                       \/ Cardinality({i \in DOMAIN view[u].list : view[u].list[i].msg = m}) = 1
    BY DEF SeenOnce
  <2>1. Stage(u, m)
    BY DEF Inv, Awaits, Awaited
  <2>2. CASE InList(u, m) /\ ListedOnce(u, m)
    <3>1. PICK i \in DOMAIN view[u].list : view[u].list[i].msg = m
      BY <2>2 DEF InList
    <3>2. {k \in DOMAIN view[u].list : view[u].list[k].msg = m} = {i}
      BY <2>2, <3>1 DEF ListedOnce
    <3>. QED  BY <3>2, FS_Singleton
  <2>. QED  BY <2>1, <2>2 DEF Stage, ToCast, Coming, Brings, Shown
<1>. QED  BY <1>1, InvKept, PTL

\* When nothing is under way, and nothing was when the browser last changed rooms, the
\* channel messages on its list are those of the room it shows, and that room has nothing
\* unread.  Direct messages are not told apart here.
THEOREM ListShowsItsRoom == Spec => []ShowsItsRoom
<1>1. Inv => ShowsItsRoom
  <2>. SUFFICES ASSUME Inv, NEW u \in Users, ~Busy(u), ~note[u].blurred
                PROVE  /\ \A x \in ToSet(view[u].list) :
                             RoomOf(x.msg) \in Channels => RoomOf(x.msg) = view[u].room
                       /\ view[u].unread[view[u].room] = 0
    BY DEF ShowsItsRoom
  <2>1. Tidy(view[u]) /\ view[u].fetches = {}
    BY DEF Inv, Showing, Busy
  <2>. QED  BY <2>1 DEF Tidy, ToSet
<1>. QED  BY <1>1, InvKept, PTL

\* A direct message that its sender sees as read was put on the screen of its recipient,
\* who had opened their conversation.
THEOREM ReadWasOpened == Spec => []ReadMeansOpened
<1>1. Inv => ReadMeansOpened
  <2>. SUFFICES ASSUME Inv, NEW u \in Users, NEW x \in ToSet(view[u].list),
                       x.status = "read", RoomOf(x.msg) \in Direct
                PROVE  /\ x.msg \in note[Peer(x.msg)].shown
                       /\ RoomOf(x.msg) \in note[Peer(x.msg)].opened
    BY DEF ReadMeansOpened
  <2>1. PICK i \in DOMAIN view[u].list : x = view[u].list[i]
    BY DEF ToSet
  <2>2. SeenByReader(x.msg)
    BY <2>1 DEF Inv, Reading
  <2>. QED  BY <2>2 DEF SeenByReader
<1>. QED  BY <1>1, InvKept, PTL
=============================================================================
