---------------------------- MODULE Conversation ----------------------------
(***************************************************************************)
(* What a browser shows of channels and direct conversations, and the      *)
(* server that feeds it: the message list of hichat/src/hooks              *)
(* (useChatMessages, useConversation, useMessageActions) over              *)
(* store/chat.store.ts, the handlers join, switch_room, send_message and   *)
(* delete_message of socket/chatSocket.ts, rooms and their messages.       *)
(*                                                                         *)
(* A handler runs between two awaits in one step, and so does the browser; *)
(* a socket carries events in order.  Of direct messages there is here     *)
(* what the sender's status and the list depend on; MailboxDelivery has    *)
(* their custody.  Every ciphertext decrypts: SignalKeys has keys.         *)
(* Messages are numbered as they are composed; 0 is an absent id.          *)
(***************************************************************************)
EXTENDS Naturals, Sequences, FiniteSets, SequencesExt

CONSTANTS Users,             \* each with one browser and one socket
          General, Existing, \* the channels of the table rooms at first
          Others,            \* names of channels that may be created
          None,              \* no room, no user
          Handlers,          \* slots for handlers in progress
          Limit,             \* MESSAGE_LIMIT
          HistoryLimit,      \* rows that a history has at most
          MaxSteps,          \* bounds what the users do
          MaxFaults          \* bounds what fails or runs out

ASSUME ConversationAssumption ==
    /\ Limit \in Nat \ {0} /\ HistoryLimit \in Nat \ {0} /\ MaxSteps \in Nat /\ MaxFaults \in Nat
    /\ General \in Existing /\ None \notin Existing \cup Others
    /\ \A r \in Existing \cup Others \cup {None} : \A p, q \in Users : r # {p, q}

VARIABLES
    view,      \* state of each browser
    online,    \* socket.connected
    out, inbox,\* events on their way to the server and to the browser
    rooms, stored, erased, \* tables rooms and messages (and is_deleted)
    box,       \* table mailbox
    members,   \* socket.io's rooms of each socket
    home,      \* the room in its Redis hash, None when there is no hash
    astray,    \* history: users whose socket stayed in a room because the hash was gone
    recent,    \* messageTimestamps younger than MESSAGE_WINDOW_MS, when last looked at
    job,       \* handlers in progress
    sent,      \* history: the messages, and where they were written
    note,      \* history: what each user may count on
    asked,     \* history: messages whose deletion was asked for
    steps, faults

client == <<view, online>>
tables == <<rooms, stored, erased, box>>
sockets == <<members, home, astray, recent>>
history == <<sent, note, asked, steps, faults>>
vars == <<view, online, out, inbox, rooms, stored, erased, box, members, home,
          astray, recent, job, sent, note, asked, steps, faults>>

Channels == Existing \cup Others
Direct == {{p[1], p[2]} : p \in {q \in Users \X Users : q[1] # q[2]}}
Rooms == Channels \cup Direct
Messages == 1..Len(sent)

Status == {"none", "queued", "delivered", "acknowledged", "read", "failed"}

\* A message of the list; a channel message that came live has no id.
EntryType == [msg : Messages, id : BOOLEAN, gone : BOOLEAN, status : Status]
Entry(m, id, status) == [msg |-> m, id |-> id, gone |-> FALSE, status |-> status]

\* rows are what the server answered, read in one query
FetchType == [no : 0..MaxSteps, room : Rooms, at : {"asked", "answered", "stored"},
              rows : Seq(Messages)]

\* currentRoomId and activeRoom, messages, unreadCounts and the ids of processedMsgIdsRef;
\* key initialisations that end in a join, requests, encryptions and decryptions (with the
\* room their closure saw; direct messages in the order of decryptQueueRef) in progress
Seen == [msg : Messages, room : Rooms]
ViewType == [room : Rooms, channel : Channels, list : Seq(EntryType), unread : [Rooms -> Nat],
             processed : SUBSET Messages, joining : SUBSET Channels,
             fetches : SUBSET FetchType, composing : SUBSET Messages,
             showing : SUBSET Seen, queue : Seq(Seen)]

OutTypes == {"switch", "join", "send", "delete", "direct", "ack", "read"}
Event(type, m, room) == [type |-> type, msg |-> m, room |-> room]

\* the next await of a handler
Moving == {"room", "home", "mark", "find", "register", "enter"}
Labels == Moving \cup {"idle", "insert", "cast", "erase", "tell", "queue", "dispatch",
                       "ack", "read"}
JobType == [at : Labels, by : Users \cup {None}, msg : 0..Len(sent), room : Rooms \cup {None}]

Idle == [at |-> "idle", by |-> None, msg |-> 0, room |-> None]

By(m) == sent[m].by
RoomOf(m) == sent[m].room
Peer(m) == CHOOSE u \in RoomOf(m) : u # By(m)

Switching(u) == {h \in Handlers : job[h].at \in Moving /\ job[h].by = u}

\* A browser that shows r, has it loaded, and whose switches and joins have gone through.
Attentive(u, r) ==
    /\ online[u] /\ view[u].room = r
    /\ view[u].fetches = {} /\ view[u].joining = {}
    /\ ~note[u].torn /\ ~note[u].deaf
    /\ Switching(u) = {}
    /\ \A i \in DOMAIN out[u] : out[u][i].type \notin {"switch", "join"}

\* Before anything is written, a browser shows general or a conversation it has opened.
Init ==
  \E open \in {f \in [Users -> {General} \cup Direct] :
                  \A u \in Users : f[u] = General \/ u \in f[u]} :
    /\ view = [u \in Users |->
                 [room |-> open[u], channel |-> General, list |-> <<>>,
                  unread |-> [r \in Rooms |-> 0], processed |-> {}, joining |-> {},
                  fetches |-> {}, composing |-> {}, showing |-> {}, queue |-> <<>>]]
    /\ online = [u \in Users |-> TRUE]
    /\ out = [u \in Users |-> <<>>] /\ inbox = [u \in Users |-> <<>>]
    /\ rooms = Existing /\ stored = {} /\ erased = {} /\ box = {}
    /\ members = [u \in Users |-> {General}] /\ home = [u \in Users |-> General]
    /\ astray = {}
    /\ recent = [u \in Users |-> 0]
    /\ job = [h \in Handlers |-> Idle]
    /\ sent = <<>>
    /\ note = [u \in Users |-> [shown |-> {}, opened |-> {open[u]}, awaited |-> {},
                                blurred |-> FALSE, torn |-> FALSE,
                                deaf |-> open[u] \in Direct]]
    /\ asked = {} /\ steps = 0 /\ faults = 0

-----------------------------------------------------------------------------
(* What a user does.                                                       *)

Acts == steps < MaxSteps /\ steps' = steps + 1
Fails == faults < MaxFaults /\ faults' = faults + 1 /\ UNCHANGED steps

\* if (socket.connected) socket.emit(...)
Emit(u, events) == out' = IF online[u] THEN [out EXCEPT ![u] = @ \o events] ELSE out

Busy(u) == \/ view[u].fetches # {} \/ view[u].composing # {}
           \/ view[u].showing # {} \/ view[u].queue # <<>>

\* A join still waits for a connection when its browser goes on to another channel.
Outruns(u, r) == ~online[u] /\ out[u] # <<>> /\ r \in Channels \ {view[u].channel}

\* The effect on currentRoomId: fetch the history, switch_room, reset the count.  A
\* direct conversation is no room of the server, and no switch leads there.  joins are
\* rooms that Chat.jsx's effect will join when it has the keys.
Effect(u, r, joins, receipts) ==
    /\ view' = [view EXCEPT ![u].room = r, ![u].unread = [@ EXCEPT ![r] = 0],
                  ![u].channel = IF r \in Channels THEN r ELSE @, ![u].joining = @ \cup joins,
                  ![u].fetches = @ \cup {[no |-> steps, room |-> r, at |-> "asked",
                                          rows |-> <<>>]}]
    /\ Emit(u, Append(receipts, Event("switch", 0, r)))
    /\ note' = [note EXCEPT ![u].opened = @ \cup {r}, ![u].awaited = {},
                            ![u].blurred = Busy(u),
                            ![u].torn = @ \/ r \in Channels \ rooms' \/ Outruns(u, r),
                            ![u].deaf = ~online[u] \/ r \notin rooms']

SelectChannel(u, r) ==
    /\ r \in rooms \ {view[u].room}
    /\ Acts
    /\ UNCHANGED <<online, inbox, tables, sockets, job, sent, asked, faults>>
    /\ Effect(u, r, {r} \ {view[u].channel}, <<>>)

\* read_direct_message for what the list holds of the other user; their order is left open,
\* since each is about one message
Receipts(u, r) ==
    LET unread == {i \in DOMAIN view[u].list :
                      LET x == view[u].list[i]
                      IN By(x.msg) \in r \ {u} /\ x.id /\ x.status # "read"}
        at == SetToSeq(unread)
    IN  [k \in DOMAIN at |-> Event("read", view[u].list[at[k]].msg, None)]

\* To select it again changes no room, and sends the receipts again.
SelectDM(u, r) ==
    /\ r \in Direct /\ u \in r
    /\ Acts
    /\ UNCHANGED <<online, inbox, tables, sockets, job, sent, asked, faults>>
    /\ IF r = view[u].room
       THEN /\ view' = [view EXCEPT ![u].unread = [@ EXCEPT ![r] = 0]]
            /\ Emit(u, Receipts(u, r))
            /\ UNCHANGED note
       ELSE Effect(u, r, {}, Receipts(u, r))

\* The effects run again for a new user object, Chat.jsx's too, which joins again.
Rerun(u) ==
    /\ Acts
    /\ UNCHANGED <<online, inbox, tables, sockets, job, sent, asked, faults>>
    /\ Effect(u, view[u].room, {view[u].channel}, <<>>)

\* The browser opens the channel even if the server did not create it; a later attempt to
\* create the one that is open changes no room.
CreateRoom(u, r) ==
    /\ r \in Others \ rooms
    /\ Acts
    /\ \/ rooms' = rooms \cup {r}
       \/ UNCHANGED rooms
    /\ UNCHANGED <<online, inbox, stored, erased, box, sockets, job, sent, asked, faults>>
    /\ IF r = view[u].room THEN UNCHANGED <<view, out, note>>
       ELSE Effect(u, r, {r} \ {view[u].channel}, <<>>)

\* socket.connect(); socket.emit('join', ...): it waits if there is no connection.  The
\* room is the one that was active when the keys were asked for.
JoinRoom(u, r) ==
    /\ r \in view[u].joining
    /\ view' = [view EXCEPT ![u].joining = @ \ {r}]
    /\ out' = [out EXCEPT ![u] = Append(@, Event("join", 0, r))]
    /\ note' = [note EXCEPT ![u].torn = @ \/ r # view[u].channel]
    /\ UNCHANGED <<online, inbox, tables, sockets, job, sent, asked, steps, faults>>

Compose(u) ==
    /\ Acts
    /\ sent' = Append(sent, [by |-> u, room |-> view[u].room])
    /\ view' = [view EXCEPT ![u].composing = @ \cup {Len(sent')}]
    /\ UNCHANGED <<online, out, inbox, tables, sockets, job, note, asked, faults>>

\* A channel message is shown when the server sends it back, or when there is no server.
EncryptedChannel(u, m) ==
    /\ m \in view[u].composing /\ RoomOf(m) \in Channels
    /\ view' = [view EXCEPT ![u].composing = @ \ {m},
                  ![u].list = IF online[u] THEN @ ELSE Append(@, Entry(m, TRUE, "none"))]
    /\ Emit(u, <<Event("send", m, RoomOf(m))>>)
    /\ UNCHANGED <<online, inbox, tables, sockets, job, history>>

EncryptedDM(u, m) ==
    /\ m \in view[u].composing /\ RoomOf(m) \in Direct
    /\ view' = [view EXCEPT ![u].composing = @ \ {m},
                            ![u].list = Append(@, Entry(m, TRUE, "queued"))]
    /\ Emit(u, <<Event("direct", m, None)>>)
    /\ UNCHANGED <<online, inbox, tables, sockets, job, history>>

EncryptFails(u, m) ==
    /\ m \in view[u].composing /\ RoomOf(m) \in Direct
    /\ Fails
    /\ view' = [view EXCEPT ![u].composing = @ \ {m}]
    /\ UNCHANGED <<online, out, inbox, tables, sockets, job, sent, note, asked>>

\* The button is on one's own messages; the request it also makes has no route.
DeleteMessage(u, x) ==
    /\ x \in ToSet(view[u].list) /\ By(x.msg) = u /\ ~x.gone
    /\ online[u]
    /\ Acts
    /\ asked' = asked \cup {x.msg}
    /\ Emit(u, <<Event("delete", IF x.id THEN x.msg ELSE 0, view[u].room)>>)
    /\ UNCHANGED <<client, inbox, tables, sockets, job, sent, note, faults>>

-----------------------------------------------------------------------------
(* The history of a room: fetchMessages, and the .then of the effect.      *)

\* Without deleted rows; direct messages are never in it.  ORDER BY created_at DESC LIMIT
\* leaves open which rows are the newest, and in which order: no step looks at that.
Stored(r) ==
    LET live == {m \in stored \ erased : RoomOf(m) = r}
    IN  {SetToSeq(s) : s \in {t \in SUBSET live :
                                /\ Cardinality(t) <= HistoryLimit
                                /\ t = live \/ Cardinality(t) = HistoryLimit}}

Listed(rows) == [i \in DOMAIN rows |-> Entry(rows[i], TRUE, "none")]

FetchStep(u, f, g, list) ==
    /\ f \in view[u].fetches
    /\ view' = [view EXCEPT ![u].fetches = (@ \ {f}) \cup g, ![u].list = list]
    /\ UNCHANGED <<online, out, inbox, tables, sockets, job>>

FetchAnswered(u, f) ==
    /\ f.at = "asked"
    /\ \E rows \in Stored(f.room) :
          FetchStep(u, f, {[f EXCEPT !.at = "answered", !.rows = rows]}, view[u].list)
    /\ UNCHANGED history

\* The store takes the rows before they are decrypted, and again after.
FetchStored(u, f) ==
    /\ f.at = "answered"
    /\ FetchStep(u, f, IF f.rows = <<>> THEN {} ELSE {[f EXCEPT !.at = "stored"]},
                 Listed(f.rows))
    /\ UNCHANGED history

FetchDecrypted(u, f) ==
    /\ f.at = "stored"
    /\ FetchStep(u, f, {}, Listed(f.rows))
    /\ UNCHANGED history

\* The store's catch returns [], and an empty answer empties the list.
FetchFails(u, f) ==
    /\ f.at \in {"asked", "answered"}
    /\ Fails
    /\ FetchStep(u, f, {}, <<>>)
    /\ UNCHANGED <<sent, note, asked>>

-----------------------------------------------------------------------------
(* What a browser does with events.                                        *)

Received(u) == Head(inbox[u])

Take(u, type) == /\ inbox[u] # <<>> /\ Received(u).type = type
                 /\ inbox' = [inbox EXCEPT ![u] = Tail(@)]
                 /\ UNCHANGED <<online, tables, sockets, job, history>>

\* the message and the room of the closure that gets it
Got(u) == [msg |-> Received(u).msg, room |-> view[u].room]

\* handleReceiveMessage starts to decrypt; handleReceiveDirectMessage queues.
ReceiveMessage(u) ==
    /\ Take(u, "message")
    /\ view' = [view EXCEPT ![u].showing = @ \cup {Got(u)}]
    /\ UNCHANGED out

ReceiveDirect(u) ==
    /\ Take(u, "direct")
    /\ view' = [view EXCEPT ![u].queue = Append(@, Got(u))]
    /\ UNCHANGED out

\* m.id === data.messageId: without ids, every live channel message is meant
Named(x, m) == IF x.id THEN x.msg = m ELSE m = 0

ReceiveStatus(u) ==
    LET e == Received(u) IN
    /\ Take(u, "status")
    /\ view' = [view EXCEPT ![u].list = [i \in DOMAIN @ |->
                  IF Named(@[i], e.msg) THEN [@[i] EXCEPT !.status = e.status] ELSE @[i]]]
    /\ UNCHANGED out

ReceiveDeleted(u) ==
    LET e == Received(u) IN
    /\ Take(u, "deleted")
    /\ view' = [view EXCEPT ![u].list = [i \in DOMAIN @ |->
                  IF Named(@[i], e.msg) THEN [@[i] EXCEPT !.gone = TRUE] ELSE @[i]]]
    /\ UNCHANGED out

\* mutant: the room of a message is not looked at
BelongsAlways(s) == TRUE

\* msgData.roomId === currentRoomId, of the closure
Belongs(s) == RoomOf(s.msg) = s.room

Counted(u, s) == IF Belongs(s) THEN view[u].unread
                 ELSE [view[u].unread EXCEPT ![RoomOf(s.msg)] = @ + 1]

ShowMessage(u, s) ==
    /\ s \in view[u].showing
    /\ view' = [view EXCEPT ![u].showing = @ \ {s}, ![u].unread = Counted(u, s),
                  ![u].list = IF Belongs(s) THEN Append(@, Entry(s.msg, FALSE, "none"))
                              ELSE @]
    /\ UNCHANGED <<online, out, inbox, tables, sockets, job, history>>

\* A direct message goes to the list whatever the list shows; a copy is acknowledged only.
ShowDirect(u) ==
    LET s == Head(view[u].queue)
        m == s.msg
    IN
    /\ view[u].queue # <<>> /\ m \notin view[u].processed
    /\ view' = [view EXCEPT ![u].queue = Tail(@), ![u].unread = Counted(u, s),
                  ![u].processed = @ \cup {m},
                  ![u].list = IF \E x \in ToSet(@) : x.id /\ x.msg = m THEN @
                              ELSE Append(@, Entry(m, TRUE, "acknowledged"))]
    /\ Emit(u, <<Event("ack", m, None)>> \o
               (IF Belongs(s) THEN <<Event("read", m, None)>> ELSE <<>>))
    /\ note' = [note EXCEPT ![u].shown = @ \cup {m}]
    /\ UNCHANGED <<online, inbox, tables, sockets, job, sent, asked, steps, faults>>

DropCopy(u) ==
    LET m == Head(view[u].queue).msg IN
    /\ view[u].queue # <<>> /\ m \in view[u].processed
    /\ view' = [view EXCEPT ![u].queue = Tail(@)]
    /\ Emit(u, <<Event("ack", m, None)>>)
    /\ UNCHANGED <<online, inbox, tables, sockets, job, history>>

-----------------------------------------------------------------------------
(* The server.  A handler runs up to its first await when its event        *)
(* arrives; then handlers interleave.                                      *)

Tell(users, e) == inbox' = [u \in Users |-> IF u \in users /\ online[u]
                                            THEN Append(inbox[u], e) ELSE inbox[u]]

Becomes(h, label) == job' = [job EXCEPT ![h].at = label]

Done(h) == job' = [job EXCEPT ![h] = Idle]

Arrives(u, type) == /\ online[u] /\ out[u] # <<>> /\ Head(out[u]).type = type
                    /\ out' = [out EXCEPT ![u] = Tail(@)]

Begin(u, h, label) ==
    /\ job[h].at = "idle"
    /\ job' = [job EXCEPT ![h] = [at |-> label, by |-> u, msg |-> Head(out[u]).msg,
                                  room |-> Head(out[u]).room]]

\* Only rooms other than general are looked up.
MoveBegins(u, h, type, lookup, next) ==
    /\ Arrives(u, type)
    /\ Begin(u, h, IF Head(out[u]).room = General THEN next ELSE lookup)
    /\ note' = [note EXCEPT ![u].torn = @ \/ Switching(u) # {}]
    /\ UNCHANGED <<client, inbox, tables, sockets, sent, asked, steps, faults>>

SwitchRoom(u, h) == MoveBegins(u, h, "switch", "room", "home")

Join(u, h) == MoveBegins(u, h, "join", "find", "register")

\* Some of the earlier ones may have left the window since.
SendMessage(u, h) ==
    /\ Arrives(u, "send")
    /\ \E k \in 0..recent[u] :
         /\ recent' = [recent EXCEPT ![u] = k + 1]
         /\ IF k + 1 > Limit THEN UNCHANGED job ELSE Begin(u, h, "insert")
    /\ UNCHANGED <<client, inbox, tables, members, home, astray, history>>

FirstAwait == [delete |-> "erase", direct |-> "queue", ack |-> "ack", read |-> "read"]

Handle(u, h) ==
    /\ \E type \in DOMAIN FirstAwait : Arrives(u, type) /\ Begin(u, h, FirstAwait[type])
    /\ UNCHANGED <<client, inbox, tables, sockets, history>>

FindRoom(h) ==
    /\ job[h].at \in {"room", "find"}
    /\ IF job[h].room \in rooms
       THEN Becomes(h, IF job[h].at = "room" THEN "home" ELSE "register")
       ELSE Done(h)
    /\ UNCHANGED <<client, out, inbox, tables, sockets, history>>

\* const currentRoom = socketMeta?.room || "general": no hash, and the socket leaves general
\* wherever it is
Left(h) == IF home[job[h].by] = None THEN General ELSE home[job[h].by]

\* mutant: the socket stays in the room it came from
MovedWithoutLeaving(h) == members[job[h].by] \cup {job[h].room}

Moved(h) == (members[job[h].by] \ {Left(h)}) \cup {job[h].room}

\* The room that is left is not the one the socket is in.
Strays(h) == /\ home[job[h].by] = None
             /\ ~(members[job[h].by] \subseteq {General, job[h].room})

\* The answers of Redis come in the order of the commands, so that the rest up to the
\* next await goes with the reading.
Move(h) ==
    /\ job[h].at = "home"
    /\ members' = [members EXCEPT ![job[h].by] = Moved(h)]
    /\ astray' = IF Strays(h) THEN astray \cup {job[h].by} ELSE astray
    /\ Becomes(h, "mark")
    /\ UNCHANGED <<client, out, inbox, tables, home, recent, history>>

\* markOnline: the end of a switch, the middle of a join
Mark(h) ==
    /\ job[h].at \in {"mark", "register"}
    /\ home' = [home EXCEPT ![job[h].by] = job[h].room]
    /\ IF job[h].at = "mark" THEN Done(h) ELSE Becomes(h, "enter")
    /\ UNCHANGED <<client, out, inbox, tables, members, astray, recent, history>>

\* A join leaves no room.
Enter(h) ==
    /\ job[h].at = "enter"
    /\ members' = [members EXCEPT ![job[h].by] = @ \cup {job[h].room}]
    /\ Done(h)
    /\ UNCHANGED <<client, out, inbox, tables, home, astray, recent, history>>

Insert(h) ==
    /\ job[h].at = "insert"
    /\ stored' = stored \cup {job[h].msg}
    /\ Becomes(h, "cast")
    /\ note' = [u \in Users |-> IF Attentive(u, job[h].room)
                                THEN [note[u] EXCEPT !.awaited = @ \cup {job[h].msg}]
                                ELSE note[u]]
    /\ UNCHANGED <<client, out, inbox, rooms, erased, box, sockets, sent, asked, steps, faults>>

\* The error is logged, and the message is broadcast all the same.
InsertFails(h) ==
    /\ job[h].at = "insert"
    /\ Fails
    /\ Becomes(h, "cast")
    /\ UNCHANGED <<client, out, inbox, tables, sockets, sent, note, asked>>

\* mutant: socket.to(roomId) leaves the sender out
AudienceOfOthers(h) == {u \in Users \ {job[h].by} : job[h].room \in members[u]}

Audience(h) == {u \in Users : job[h].room \in members[u]}

Cast(h) ==
    /\ job[h].at = "cast"
    /\ Tell(Audience(h), [type |-> "message", msg |-> job[h].msg, status |-> "none"])
    /\ Done(h)
    /\ UNCHANGED <<client, out, tables, sockets, history>>

\* mutant: a row is written for an id that has none
MarkedAnyway(h) == {job[h].msg}

\* softDelete updates the row there is, if there is one
Marked(h) == stored \cap {job[h].msg}

Erase(h) ==
    /\ job[h].at = "erase"
    /\ erased' = erased \cup Marked(h)
    /\ Becomes(h, "tell")
    /\ UNCHANGED <<client, out, inbox, rooms, stored, box, sockets, history>>

TellDeleted(h) ==
    /\ job[h].at = "tell"
    /\ Tell(Audience(h), [type |-> "deleted", msg |-> job[h].msg, status |-> "none"])
    /\ Done(h)
    /\ UNCHANGED <<client, out, tables, sockets, history>>

StatusEvent(h, status) == [type |-> "status", msg |-> job[h].msg, status |-> status]

Queue(h) ==
    /\ job[h].at = "queue"
    /\ box' = box \cup {job[h].msg}
    /\ Tell({job[h].by}, StatusEvent(h, "queued"))
    /\ Becomes(h, "dispatch")
    /\ UNCHANGED <<client, out, rooms, stored, erased, sockets, history>>

\* to the recipient if it is connected, and then to the sender
Dispatched(m) ==
    inbox' = [u \in Users |->
        CASE u = Peer(m) -> Append(inbox[u], [type |-> "direct", msg |-> m, status |-> "none"])
          [] u = By(m) /\ online[u] ->
                Append(inbox[u], [type |-> "status", msg |-> m, status |-> "delivered"])
          [] OTHER -> inbox[u]]

Dispatch(h) ==
    LET m == job[h].msg IN
    /\ job[h].at = "dispatch"
    /\ IF online[Peer(m)] THEN Dispatched(m) ELSE UNCHANGED inbox
    /\ Done(h)
    /\ UNCHANGED <<client, out, tables, sockets, history>>

\* A replay or the sweep sends what is still in the mailbox.
Redeliver(m) ==
    /\ m \in box /\ online[Peer(m)]
    /\ Fails
    /\ Dispatched(m)
    /\ UNCHANGED <<client, out, tables, sockets, job, sent, note, asked>>

\* The acknowledgement does not come in time: the row is queued again or has failed for
\* good, and its sender is told so.
AckTimesOut(m) ==
    /\ m \in box
    /\ Fails
    /\ \E status \in {"queued", "failed"} :
         /\ box' = IF status = "failed" THEN box \ {m} ELSE box
         /\ Tell({By(m)}, [type |-> "status", msg |-> m, status |-> status])
    /\ UNCHANGED <<client, out, rooms, stored, erased, sockets, job, sent, note, asked>>

\* mutant: the acknowledgement is reported as a reading
AcknowledgedAsRead == "read"

Acknowledged == "acknowledged"

Acknowledge(h) ==
    /\ job[h].at = "ack"
    /\ box' = box \ {job[h].msg}
    /\ Tell({By(job[h].msg)}, StatusEvent(h, Acknowledged))
    /\ Done(h)
    /\ UNCHANGED <<client, out, rooms, stored, erased, sockets, history>>

MarkRead(h) ==
    /\ job[h].at = "read"
    /\ Tell({By(job[h].msg)}, StatusEvent(h, "read"))
    /\ Done(h)
    /\ UNCHANGED <<client, out, tables, sockets, history>>

-----------------------------------------------------------------------------
(* What goes wrong.                                                        *)

\* A command or a query of a handler fails.
Abort(h) ==
    /\ job[h].at \notin {"idle", "insert", "cast", "tell"}
    /\ Fails
    /\ note' = [note EXCEPT ![job[h].by].torn =
                  @ \/ job[h].at \in Moving]
    /\ Done(h)
    /\ UNCHANGED <<client, out, inbox, tables, sockets, sent, asked>>

\* The socket closes; its handlers act on a socket that no longer counts.
Disconnect(u) ==
    /\ online[u]
    /\ Fails
    /\ online' = [online EXCEPT ![u] = FALSE]
    /\ out' = [out EXCEPT ![u] = <<>>] /\ inbox' = [inbox EXCEPT ![u] = <<>>]
    /\ members' = [members EXCEPT ![u] = {}] /\ home' = [home EXCEPT ![u] = None]
    /\ astray' = astray \ {u} /\ recent' = [recent EXCEPT ![u] = 0]
    /\ job' = [h \in Handlers |-> IF h \in Switching(u) THEN Idle ELSE job[h]]
    /\ note' = [note EXCEPT ![u].awaited = {}, ![u].torn = FALSE, ![u].deaf = TRUE]
    /\ UNCHANGED <<view, tables, sent, asked>>

\* The TTL of the hash, 60 s, runs out on a socket that lives on: only a heartbeat would
\* extend it, and the browser sends none.
Lapse(u) ==
    /\ home[u] # None
    /\ Fails
    /\ home' = [home EXCEPT ![u] = None]
    /\ UNCHANGED <<client, out, inbox, tables, members, astray, recent, job, sent, note, asked>>

\* socket.io connects again; the page does not join again for it.
Reconnect(u) ==
    /\ ~online[u]
    /\ online' = [online EXCEPT ![u] = TRUE]
    /\ UNCHANGED <<view, out, inbox, tables, sockets, job, history>>

-----------------------------------------------------------------------------
Act(u) ==
    \/ \E r \in Channels : SelectChannel(u, r) \/ CreateRoom(u, r)
    \/ \E r \in Direct : SelectDM(u, r)
    \/ Rerun(u) \/ Compose(u)
    \/ \E x \in ToSet(view[u].list) : DeleteMessage(u, x)

Browser(u) ==
    \/ \E r \in view[u].joining : JoinRoom(u, r)
    \/ \E m \in view[u].composing : \/ EncryptedChannel(u, m) \/ EncryptedDM(u, m)
                                    \/ EncryptFails(u, m)
    \/ \E f \in view[u].fetches : \/ FetchAnswered(u, f) \/ FetchStored(u, f)
                                  \/ FetchDecrypted(u, f) \/ FetchFails(u, f)
    \/ ReceiveMessage(u) \/ ReceiveDirect(u) \/ ReceiveStatus(u) \/ ReceiveDeleted(u)
    \/ \E s \in view[u].showing : ShowMessage(u, s)
    \/ ShowDirect(u) \/ DropCopy(u)

Handler(h) ==
    \/ \E u \in Users : SwitchRoom(u, h) \/ Join(u, h) \/ SendMessage(u, h) \/ Handle(u, h)
    \/ FindRoom(h) \/ Move(h) \/ Mark(h) \/ Enter(h)
    \/ Insert(h) \/ InsertFails(h) \/ Cast(h) \/ Erase(h) \/ TellDeleted(h)
    \/ Queue(h) \/ Dispatch(h) \/ Acknowledge(h) \/ MarkRead(h)
    \/ Abort(h)

Next ==
    \/ \E u \in Users : Act(u) \/ Browser(u) \/ Disconnect(u) \/ Reconnect(u) \/ Lapse(u)
    \/ \E h \in Handlers : Handler(h)
    \/ \E m \in box : Redeliver(m) \/ AckTimesOut(m)

Spec == Init /\ [][Next]_vars

-----------------------------------------------------------------------------
(* Every browser, event, table and handler has its shape.                  *)
TypeOK ==
    /\ view \in [Users -> ViewType]
    /\ online \in [Users -> BOOLEAN]
    /\ \A u \in Users :
         /\ \A i \in DOMAIN out[u] : out[u][i] \in
              [type : OutTypes, msg : 0..Len(sent), room : Rooms \cup {None}]
         /\ \A i \in DOMAIN inbox[u] : inbox[u][i] \in
              [type : {"message", "direct", "status", "deleted"}, msg : 0..Len(sent),
               status : Status]
    /\ rooms \subseteq Channels /\ box \subseteq Messages
    /\ stored \subseteq Messages /\ erased \subseteq stored
    /\ members \in [Users -> SUBSET Channels]
    /\ home \in [Users -> Channels \cup {None}] /\ astray \subseteq Users
    /\ recent \in [Users -> Nat]
    /\ job \in [Handlers -> JobType]

\* A browser that shows a channel, and whose switches and joins neither overlapped, came
\* late nor went to a room that was not created, is in this channel at the server, and
\* Redis names no other one; and it is in no other channel, unless it has changed rooms
\* after its hash had run out.
HearsItsRoom ==
    \A u \in Users : Attentive(u, view[u].room) =>
        /\ view[u].room \in members[u] /\ home[u] \in {None, view[u].room}
        /\ u \notin astray => members[u] = {view[u].room}

\* A message that is written to a channel while a browser shows it, with its history loaded
\* and no request, join or switch under way, is on the list exactly once when it has
\* arrived, for as long as none of these begins.
SeenOnce ==
    \A u \in Users : \A m \in note[u].awaited :
        \/ \E h \in Handlers : job[h].at = "cast" /\ job[h].msg = m
        \/ \E i \in DOMAIN inbox[u] : inbox[u][i].type = "message" /\ inbox[u][i].msg = m
        \/ \E s \in view[u].showing : s.msg = m
        \/ Cardinality({i \in DOMAIN view[u].list : view[u].list[i].msg = m}) = 1

\* When nothing is under way, the channel messages of a list are those of the room it
\* shows, and that room has nothing unread; a room change made while a request, an
\* encryption or a decryption was under way excuses it until the next one.
ShowsItsRoom ==
    \A u \in Users : ~Busy(u) /\ ~note[u].blurred =>
        /\ \A x \in ToSet(view[u].list) : RoomOf(x.msg) \in Channels => RoomOf(x.msg) = view[u].room
        /\ view[u].unread[view[u].room] = 0

\* A direct message that its sender sees as read was put on the screen of a recipient
\* who had opened their conversation.
ReadMeansOpened ==
    \A u \in Users : \A x \in ToSet(view[u].list) :
        x.status = "read" /\ RoomOf(x.msg) \in Direct /\ By(x.msg) = u
            => /\ x.msg \in note[Peer(x.msg)].shown
               /\ RoomOf(x.msg) \in note[Peer(x.msg)].opened

-----------------------------------------------------------------------------
(* What the tests and documents say and the code does not do.              *)

\* "deletes message and marks it as deleted": what is marked as deleted is a message
\* whose deletion was asked for.
DeletedWasAsked ==
    \A u \in Users : \A x \in ToSet(view[u].list) : x.gone => x.msg \in asked

\* "Sockets send a lightweight heartbeat every 30 seconds, resetting the 60-second Redis
\* TTL": the hash of a socket is there when it changes rooms, which leaves it in one room.
HearsOneRoom ==
    \A u \in Users : Attentive(u, view[u].room) => members[u] = {view[u].room}

\* "adds and updates message in store without duplication": when nothing is under way, no
\* message is on a list twice.
NothingTwice ==
    \A u \in Users : ~Busy(u) =>
        \A i, k \in DOMAIN view[u].list : view[u].list[i].msg = view[u].list[k].msg => i = k
=============================================================================
