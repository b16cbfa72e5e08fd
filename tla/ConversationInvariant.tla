--------------------- MODULE ConversationInvariant ---------------------
(***************************************************************************)
(* The inductive invariant of Conversation that ConversationProofs proves: *)
(*                                                                         *)
(*   Types    shapes, as far as they do not depend on what was written;    *)
(*   Sound    an event, a handler, a list refers to messages that were     *)
(*            written, and to channel messages where it says so;           *)
(*   Located  where the socket of a browser is, and that what is under way *)
(*            leads to the channel the browser is in (HearsItsRoom);       *)
(*   Single   a channel message is encrypted, sent, inserted once;         *)
(*   Awaits   at which of four stages a message is that a browser may      *)
(*            count on (SeenOnce);                                         *)
(*   Showing  requests, encryptions and decryptions in progress are about  *)
(*            the room that is shown (ShowsItsRoom);                       *)
(*   Reading  whatever says that a message was read, an event on its way   *)
(*            up, a handler, a status on its way down, says what happened  *)
(*            (ReadMeansOpened).                                           *)
(***************************************************************************)
EXTENDS Conversation

-----------------------------------------------------------------------------
(* Shapes.                                                                 *)

Entries == [msg : Nat, id : BOOLEAN, gone : BOOLEAN, status : Status]
Fetches == [no : 0..MaxSteps, room : Rooms, at : {"asked", "answered", "stored"}, rows : Seq(Nat)]
Sights == [msg : Nat, room : Rooms]
Views == [room : Rooms, channel : Channels, list : Seq(Entries), unread : [Rooms -> Nat],
          processed : SUBSET Nat, joining : SUBSET Channels, fetches : SUBSET Fetches,
          composing : SUBSET Nat, showing : SUBSET Sights, queue : Seq(Sights)]
Events == [type : OutTypes, msg : Nat, room : Rooms \cup {None}]
News == [type : {"message", "direct", "status", "deleted"}, msg : Nat, status : Status]
Jobs == [at : Labels, by : Users \cup {None}, msg : Nat, room : Rooms \cup {None}]
Notes == [shown : SUBSET Nat, opened : SUBSET Rooms, awaited : SUBSET Nat,
          blurred : BOOLEAN, torn : BOOLEAN, deaf : BOOLEAN]

Types ==
    /\ sent \in Seq([by : Users, room : Rooms])
    /\ view \in [Users -> Views]
    /\ online \in [Users -> BOOLEAN]
    /\ out \in [Users -> Seq(Events)]
    /\ inbox \in [Users -> Seq(News)]
    /\ Existing \subseteq rooms /\ rooms \subseteq Channels
    /\ erased \subseteq stored
    /\ members \in [Users -> SUBSET Channels]
    /\ home \in [Users -> Channels \cup {None}]
    /\ astray \subseteq Users
    /\ recent \in [Users -> Nat]
    /\ job \in [Handlers -> Jobs]
    /\ note \in [Users -> Notes]
    /\ steps \in 0..MaxSteps

InChannel(m) == m \in Messages /\ RoomOf(m) \in Channels
InDirect(m) == m \in Messages /\ RoomOf(m) \in Direct /\ By(m) \in RoomOf(m)

\* What the messages are that an event, a handler or a browser refers to.
EventSound(u, e) ==
    /\ e.msg \in 0..Len(sent)
    /\ e.type = "join" => e.room \in Channels
    /\ e.type \in {"switch", "delete"} => e.room \in Rooms
    /\ e.type = "send" => InChannel(e.msg) /\ By(e.msg) = u /\ RoomOf(e.msg) = e.room
    /\ e.type = "direct" => InDirect(e.msg) /\ By(e.msg) = u
    /\ e.type = "ack" => InDirect(e.msg)
    /\ e.type = "read" => e.msg \in Messages

NewsSound(u, e) ==
    /\ e.msg \in 0..Len(sent)
    /\ e.type = "message" => InChannel(e.msg)
    /\ e.type = "direct" => InDirect(e.msg) /\ u = Peer(e.msg)
    /\ e.type = "status" => e.msg \in Messages

JobSound(j) ==
    /\ j.msg \in 0..Len(sent)
    /\ j.at # "idle" => j.by \in Users
    /\ j.at \in {"room", "erase", "tell"} => j.room \in Rooms
    /\ j.at = "find" => j.room \in Channels
    /\ j.at \in {"home", "mark", "register", "enter"} => j.room \in rooms
    /\ j.at \in {"insert", "cast"} => InChannel(j.msg) /\ RoomOf(j.msg) = j.room
    /\ j.at \in {"queue", "dispatch"} => InDirect(j.msg) /\ By(j.msg) = j.by
    /\ j.at = "ack" => InDirect(j.msg)
    /\ j.at = "read" => j.msg \in Messages

ViewSound(u, v) ==
    /\ v.room \in Direct => u \in v.room
    /\ v.room \in Channels => v.room = v.channel
    /\ \A i \in DOMAIN v.list : v.list[i].msg \in Messages
    /\ v.processed \subseteq Messages
    /\ \A m \in v.composing : m \in Messages /\ By(m) = u
    /\ \A s \in v.showing : InChannel(s.msg)
    /\ \A i \in DOMAIN v.queue : InDirect(v.queue[i].msg) /\ u = Peer(v.queue[i].msg)
    /\ \A f \in v.fetches : \A i \in DOMAIN f.rows :
          f.rows[i] \in stored /\ RoomOf(f.rows[i]) = f.room

Sound ==
    /\ \A m \in Messages : RoomOf(m) \in Direct => By(m) \in RoomOf(m)
    /\ \A m \in stored : InChannel(m)
    /\ \A m \in box : InDirect(m)
    /\ \A u \in Users : \A i \in DOMAIN out[u] : EventSound(u, out[u][i])
    /\ \A u \in Users : \A i \in DOMAIN inbox[u] : NewsSound(u, inbox[u][i])
    /\ \A h \in Handlers : JobSound(job[h])
    /\ \A u \in Users : ViewSound(u, view[u])

-----------------------------------------------------------------------------
(* Where the socket of a browser is, and where it will be.                 *)

SwitchJobs == {"room", "home", "mark"}
JoinJobs == {"find", "register", "enter"}

Switches(e) == e.type = "switch" /\ e.room \in Channels
Moves(e) == Switches(e) \/ e.type = "join"

\* The socket is in the channel g as far as the server can tell, or in none: the hash names
\* no other channel, and no other one was left behind.
Within(u, g) ==
    members[u] # {} => /\ g \in members[u] /\ home[u] \in {None, g}
                       /\ u \notin astray => members[u] = {g}
Somewhere(u) == \E g \in Channels : Within(u, g)

\* A switch to g comes first.
Corrected(u, i, j, g) ==
    \E k \in DOMAIN out[u] : i < k /\ k < j /\ out[u][k].type = "switch" /\ out[u][k].room = g

\* What comes before the position j of out leads to the channel g.
PathTo(u, j, g) ==
    /\ \A i \in DOMAIN out[u] :
          i < j /\ Moves(out[u][i]) /\ out[u][i].room # g => Corrected(u, i, j, g)
    /\ \A h \in Switching(u) :
          job[h].room \in Channels /\ job[h].room # g => Corrected(u, 0, j, g)
    /\ ~Within(u, g) =>
          \/ Corrected(u, 0, j, g)
          \/ \E h \in Switching(u) : job[h].at \in SwitchJobs /\ job[h].room = g

\* It leads to where the browser joins, and to the channel it is in.
Path(u) ==
    /\ \A j \in DOMAIN out[u] : out[u][j].type = "join" => PathTo(u, j, out[u][j].room)
    /\ PathTo(u, Len(out[u]) + 1, view[u].channel)

Place(u) ==
    /\ \A h, g \in Switching(u) : h = g
    /\ (\A h \in Switching(u) : job[h].at \notin {"mark", "enter"}) =>
          Somewhere(u)
    /\ \A h \in Switching(u) :
         /\ job[h].at = "mark" => /\ job[h].room \in members[u]
                                  /\ u \notin astray => members[u] = {job[h].room}
         /\ job[h].at = "enter" => home[u] \in {None, job[h].room}
         /\ job[h].at \in JoinJobs => Within(u, job[h].room)
         /\ job[h].at = "room" /\ job[h].room \in Channels => job[h].room \in rooms
    /\ \A i \in DOMAIN out[u] : Switches(out[u][i]) => out[u][i].room \in rooms

\* A switch was sent on this connection.
Told(u) ==
    \/ members[u] # {}
    \/ \E h \in Switching(u) : job[h].at \in SwitchJobs /\ job[h].room \in Channels
    \/ \E k \in DOMAIN out[u] : Switches(out[u][k])

Placed(u) ==
    /\ ~online[u] => home[u] = None /\ members[u] = {} /\ Switching(u) = {}
    /\ ~note[u].torn => Path(u) /\ Place(u)
    /\ ~note[u].torn /\ ~note[u].deaf => view[u].room \in Channels /\ Told(u)

Located == \A u \in Users : Placed(u)

-----------------------------------------------------------------------------
(* Where a channel message is.                                             *)

Brings(u, i, m) == inbox[u][i].type = "message" /\ inbox[u][i].msg = m
Coming(u, m) == \E i \in DOMAIN inbox[u] : Brings(u, i, m)
InList(u, m) == \E i \in DOMAIN view[u].list : view[u].list[i].msg = m
Shown(u, m) == \E s \in view[u].showing : s.msg = m
ToCast(m) == \E h \in Handlers : job[h].at = "cast" /\ job[h].msg = m

\* Nobody has got it.
Unstored(m) == m \notin stored /\ \A u \in Users : ~InList(u, m) /\ ~Coming(u, m) /\ ~Shown(u, m)

Sends(u, i, m) == out[u][i].type = "send" /\ out[u][i].msg = m
Sending == {"insert", "cast"}
NoJob(m) == \A h \in Handlers : job[h].at \in Sending => job[h].msg # m

Single ==
    /\ \A u \in Users : \A m \in view[u].composing : RoomOf(m) \in Channels =>
         /\ Unstored(m) /\ NoJob(m)
         /\ \A i \in DOMAIN out[u] : ~Sends(u, i, m)
    /\ \A u \in Users : \A i \in DOMAIN out[u] : out[u][i].type = "send" =>
         /\ Unstored(out[u][i].msg) /\ NoJob(out[u][i].msg)
         /\ \A k \in DOMAIN out[u] : Sends(u, k, out[u][i].msg) => k = i
    /\ \A h \in Handlers : job[h].at = "insert" => Unstored(job[h].msg)
    /\ \A h, g \in Handlers :
          job[h].at \in Sending /\ job[g].at \in Sending /\ job[h].msg = job[g].msg => h = g

ComesOnce(u, m) == \A i, k \in DOMAIN inbox[u] : Brings(u, i, m) /\ Brings(u, k, m) => i = k
ListedOnce(u, m) == \A i, k \in DOMAIN view[u].list :
    view[u].list[i].msg = m /\ view[u].list[k].msg = m => i = k
Stage(u, m) ==
    \/ ToCast(m) /\ ~Coming(u, m) /\ ~Shown(u, m) /\ ~InList(u, m)
    \/ ~ToCast(m) /\ Coming(u, m) /\ ComesOnce(u, m) /\ ~Shown(u, m) /\ ~InList(u, m)
    \/ ~ToCast(m) /\ ~Coming(u, m) /\ Shown(u, m) /\ ~InList(u, m)
    \/ ~ToCast(m) /\ ~Coming(u, m) /\ ~Shown(u, m) /\ InList(u, m) /\ ListedOnce(u, m)

Awaited(u, m) ==
    /\ Attentive(u, view[u].room)
    /\ m \in stored /\ RoomOf(m) = view[u].room
    /\ \A s \in view[u].showing : s.msg = m => s.room = RoomOf(m)
    /\ Stage(u, m)

Awaits == \A u \in Users : \A m \in note[u].awaited : Awaited(u, m)

-----------------------------------------------------------------------------
(* What a list shows.                                                      *)

Tidy(v) ==
    /\ \A f \in v.fetches : f.room = v.room
    /\ \A m \in v.composing : RoomOf(m) = v.room
    /\ \A s \in v.showing : s.room = v.room
    /\ \A i \in DOMAIN v.queue : v.queue[i].room = v.room
    /\ v.fetches = {} => \A i \in DOMAIN v.list :
          RoomOf(v.list[i].msg) \in Channels => RoomOf(v.list[i].msg) = v.room
    /\ v.unread[v.room] = 0

Showing == \A u \in Users : ~note[u].blurred => Tidy(view[u])

-----------------------------------------------------------------------------
(* What a sender sees as read.                                             *)

SeenByReader(m) == RoomOf(m) \in Direct => m \in note[Peer(m)].shown /\ RoomOf(m) \in note[Peer(m)].opened

Reading ==
    /\ \A u \in Users : view[u].room \in note[u].opened
    /\ \A u \in Users : \A i \in DOMAIN view[u].queue : view[u].queue[i].room \in note[u].opened
    /\ \A u \in Users : \A i \in DOMAIN out[u] : out[u][i].type = "read" => SeenByReader(out[u][i].msg)
    /\ \A h \in Handlers : job[h].at = "read" => SeenByReader(job[h].msg)
    /\ \A u \in Users : \A i \in DOMAIN inbox[u] :
          inbox[u][i].type = "status" /\ inbox[u][i].status = "read" => SeenByReader(inbox[u][i].msg)
    /\ \A u \in Users : \A i \in DOMAIN view[u].list :
         LET x == view[u].list[i] IN
         /\ x.status = "read" => SeenByReader(x.msg)
         /\ RoomOf(x.msg) \in Direct => \/ By(x.msg) = u
                                        \/ u = Peer(x.msg) /\ x.msg \in note[u].shown

Inv == Types /\ Sound /\ Located /\ Single /\ Awaits /\ Showing /\ Reading
=============================================================================
