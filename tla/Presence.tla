------------------------------ MODULE Presence ------------------------------
(***************************************************************************)
(* Who is online: hichat-server/src/services/presenceService.ts, command   *)
(* by command, as the socket handlers and the cleanup of every server      *)
(* process interleave on one Redis.                                        *)
(*                                                                         *)
(* A handler in progress is a job; its label names the Redis command it    *)
(* awaits.  Redis runs commands one at a time.                             *)
(***************************************************************************)
EXTENDS Naturals, RedisStore

CONSTANTS
    Users,
    Sockets,    \* socket ids; a connection never gets an old one again
    UserOf,     \* the account a socket authenticated as
    Nodes,      \* server processes
    HomeOf,     \* the process a socket is connected to
    Procs,      \* slots for handlers in progress
    Beating,    \* sockets that send heartbeats and status updates
    MaxFaults,  \* crashes and failed commands
    NoUser, NoSocket

ASSUME PresenceAssumption ==
    /\ UserOf \in [Sockets -> Users] /\ HomeOf \in [Sockets -> Nodes]
    /\ Beating \subseteq Sockets /\ MaxFaults \in Nat
    /\ NoUser \notin Users /\ NoSocket \notin Sockets

VARIABLES
    store,      \* the keys of presence that expire
    online,     \* presence:online_users, which does not
    conn,       \* life of each socket
    joined,     \* sockets whose markOnline has returned
    job,        \* handlers in progress
    faults,
    disturbed   \* history: sockets that joined next to a removal, or lost a key

vars == <<store, online, conn, joined, job, faults, disturbed>>

SocketsKey(u) == <<"user_sockets", u>>
UserKey(u) == <<"user", u>>
SocketKey(s) == <<"socket", s>>

Keys == {SocketsKey(u) : u \in Users} \cup {UserKey(u) : u \in Users}
            \cup {SocketKey(s) : s \in Sockets}

Hash == "hash"

SocketsOf(u) == {s \in Sockets : UserOf[s] = u}

\* getPresence is not null; getOnlineUsers lists those in presence:online_users
Shown(u) == Exists(store, UserKey(u)) /\ Exists(store, SocketsKey(u))
Listed(u) == u \in online /\ Shown(u)

-----------------------------------------------------------------------------
(* Jobs.  users: still to be swept; found: sockets still to be tested;     *)
(* active: cleanup has found a socket that is alive.                       *)

OnlineLabels == {"addSocket", "expireSockets", "addUser", "putUser", "expireUser",
                 "putSocket", "expireSocket"}
OfflineLabels == {"readSocket", "dropSocket", "remSocket", "readRest",
                  "keepSockets", "keepUser"}
BeatLabels == {"beat", "beatUser", "beatExpireUser", "beatExpireSockets",
               "beatExpireSocket", "status", "statusUser", "statusCustom",
               "statusExpireUser"}
RemovalLabels == {"remUser", "delUser", "delSockets"}
CleanupLabels == {"readSockets", "testSocket", "remDangling"}

Labels == {"idle"} \cup OnlineLabels \cup OfflineLabels \cup BeatLabels
              \cup RemovalLabels \cup CleanupLabels

Job == [at : Labels, socket : Sockets \cup {NoSocket},
        user : Users \cup {NoUser}, users : SUBSET Users,
        found : SUBSET Sockets, active : BOOLEAN]

NewJob(label, s, u) ==
    [at |-> label, socket |-> s, user |-> u, users |-> {}, found |-> {},
     active |-> FALSE]

Idle == NewJob("idle", NoSocket, NoUser)

Sweeping(u, rest) == [NewJob("readSockets", NoSocket, u) EXCEPT !.users = rest]

At(p, label) == job[p].at = label
User(p) == job[p].user
Socket(p) == job[p].socket

\* sockets that register while their user is being removed or swept
Overlapping(jobs) ==
    {s \in Sockets : \E p, q \in Procs :
        /\ jobs[p].socket = s /\ jobs[p].at \in OnlineLabels
        /\ jobs[q].user = UserOf[s]
        /\ jobs[q].at \in RemovalLabels \cup CleanupLabels}

Become(p, j) == /\ job' = [job EXCEPT ![p] = j]
                /\ disturbed' = disturbed \cup Overlapping(job')

Goto(p, label) == Become(p, [job[p] EXCEPT !.at = label])

\* A job awaits a command that only changes the store.
Command(p, label, newStore, next) ==
    /\ At(p, label)
    /\ store' = newStore
    /\ Goto(p, next)
    /\ UNCHANGED <<online, conn, joined, faults>>

\* for (const userId of userIds); markOffline has none left
NextUser(p) ==
    IF job[p].users = {}
    THEN Become(p, Idle)
    ELSE \E u \in job[p].users : Become(p, Sweeping(u, job[p].users \ {u}))

Init == /\ store = [k \in Keys |-> NoEntry]
        /\ online = {}
        /\ conn = [s \in Sockets |-> "new"]
        /\ joined = {}
        /\ job = [p \in Procs |-> Idle]
        /\ faults = 0
        /\ disturbed = {}

-----------------------------------------------------------------------------
(* markOnline, for join and switch_room.                                   *)

Connect(s) ==
    /\ conn[s] = "new"
    /\ conn' = [conn EXCEPT ![s] = "open"]
    /\ UNCHANGED <<store, online, joined, job, faults, disturbed>>

Event(p, s, label) ==
    /\ At(p, "idle")
    /\ conn[s] = "open"
    /\ Become(p, NewJob(label, s, UserOf[s]))
    /\ UNCHANGED <<store, online, conn, joined, faults>>

AddSocket(p) ==
    Command(p, "addSocket", SAdd(store, SocketsKey(User(p)), Socket(p)), "expireSockets")

ExpireSockets(p) ==
    Command(p, "expireSockets", Expire(store, SocketsKey(User(p))), "addUser")

\* mutant: the socket is listed, not its account
ListSocket(p) ==
    /\ At(p, "addUser")
    /\ online' = online \cup {Socket(p)}
    /\ Goto(p, "putUser")
    /\ UNCHANGED <<store, conn, joined, faults>>

AddUser(p) ==
    /\ At(p, "addUser")
    /\ online' = online \cup {User(p)}
    /\ Goto(p, "putUser")
    /\ UNCHANGED <<store, conn, joined, faults>>

PutUser(p) == Command(p, "putUser", HSet(store, UserKey(User(p)), Hash), "expireUser")

ExpireUser(p) == Command(p, "expireUser", Expire(store, UserKey(User(p))), "putSocket")

PutSocket(p) ==
    Command(p, "putSocket", HSet(store, SocketKey(Socket(p)), Hash), "expireSocket")

\* What follows only reads (sCard, getOnlineUsers) and emits.
ExpireSocket(p) ==
    /\ At(p, "expireSocket")
    /\ store' = Expire(store, SocketKey(Socket(p)))
    /\ joined' = joined \cup {Socket(p)}
    /\ Become(p, Idle)
    /\ UNCHANGED <<online, conn, faults>>

-----------------------------------------------------------------------------
(* markOffline, on disconnect.                                             *)

Disconnect(p, s) ==
    /\ At(p, "idle")
    /\ conn[s] = "open"
    /\ conn' = [conn EXCEPT ![s] = "closed"]
    /\ Become(p, NewJob("readSocket", s, NoUser))
    /\ UNCHANGED <<store, online, joined, faults>>

\* The account comes from the socket's hash, if there is one.
ReadSocket(p) ==
    /\ At(p, "readSocket")
    /\ Become(p, [job[p] EXCEPT !.at = "dropSocket",
                     !.user = IF Exists(store, SocketKey(Socket(p)))
                              THEN UserOf[Socket(p)] ELSE NoUser])
    /\ UNCHANGED <<store, online, conn, joined, faults>>

DropSocket(p) ==
    /\ At(p, "dropSocket")
    /\ store' = Del(store, SocketKey(Socket(p)))
    /\ IF User(p) = NoUser THEN Become(p, Idle) ELSE Goto(p, "remSocket")
    /\ UNCHANGED <<online, conn, joined, faults>>

RemSocket(p) ==
    Command(p, "remSocket", SRem(store, SocketsKey(User(p)), Socket(p)), "readRest")

\* mutant: the last device is taken to be the last but one
ReadRestOfOne(p) ==
    Command(p, "readRest", store,
            IF \E s \in Sockets : SMembers(store, SocketsKey(User(p))) \subseteq {s}
            THEN "remUser" ELSE "keepSockets")

ReadRest(p) ==
    Command(p, "readRest", store,
            IF SMembers(store, SocketsKey(User(p))) = {}
            THEN "remUser" ELSE "keepSockets")

KeepSockets(p) ==
    Command(p, "keepSockets", Expire(store, SocketsKey(User(p))), "keepUser")

KeepUser(p) ==
    /\ At(p, "keepUser")
    /\ store' = Expire(store, UserKey(User(p)))
    /\ Become(p, Idle)
    /\ UNCHANGED <<online, conn, joined, faults>>

\* The same three commands end markOffline and a turn of the cleanup.
RemUser(p) ==
    /\ At(p, "remUser")
    /\ online' = online \ {User(p)}
    /\ Goto(p, "delUser")
    /\ UNCHANGED <<store, conn, joined, faults>>

DelUser(p) == Command(p, "delUser", Del(store, UserKey(User(p))), "delSockets")

DelSockets(p) ==
    /\ At(p, "delSockets")
    /\ store' = Del(store, SocketsKey(User(p)))
    /\ NextUser(p)
    /\ UNCHANGED <<online, conn, joined, faults>>

-----------------------------------------------------------------------------
(* heartbeat and updateStatus: a key that is gone when the hash is written *)
(* comes back.                                                             *)

Beat(p) ==
    /\ At(p, "beat")
    /\ IF Exists(store, UserKey(User(p))) THEN Goto(p, "beatUser") ELSE Become(p, Idle)
    /\ UNCHANGED <<store, online, conn, joined, faults>>

\* mutant: the hash that was written gets no TTL
BeatUserOnly(p) ==
    Command(p, "beatUser", HSet(store, UserKey(User(p)), Hash), "beatExpireSockets")

BeatUser(p) ==
    Command(p, "beatUser", HSet(store, UserKey(User(p)), Hash), "beatExpireUser")

BeatExpireUser(p) ==
    Command(p, "beatExpireUser", Expire(store, UserKey(User(p))), "beatExpireSockets")

BeatExpireSockets(p) ==
    Command(p, "beatExpireSockets", Expire(store, SocketsKey(User(p))),
            "beatExpireSocket")

BeatExpireSocket(p) ==
    /\ At(p, "beatExpireSocket")
    /\ store' = Expire(store, SocketKey(Socket(p)))
    /\ Become(p, Idle)
    /\ UNCHANGED <<online, conn, joined, faults>>

Status(p) ==
    /\ At(p, "status")
    /\ IF Exists(store, UserKey(User(p))) THEN Goto(p, "statusUser") ELSE Become(p, Idle)
    /\ UNCHANGED <<store, online, conn, joined, faults>>

\* customStatus, if there is one, is written by a command of its own.
StatusUser(p) ==
    \E next \in {"statusCustom", "statusExpireUser"} :
        Command(p, "statusUser", HSet(store, UserKey(User(p)), Hash), next)

StatusCustom(p) ==
    Command(p, "statusCustom", HSet(store, UserKey(User(p)), Hash), "statusExpireUser")

StatusExpireUser(p) ==
    /\ At(p, "statusExpireUser")
    /\ store' = Expire(store, UserKey(User(p)))
    /\ Become(p, Idle)
    /\ UNCHANGED <<online, conn, joined, faults>>

-----------------------------------------------------------------------------
(* cleanupExpiredPresence, every 60 s in every process.                    *)

CleanupBegin(p) ==
    /\ At(p, "idle")
    /\ \/ online = {} /\ Become(p, Idle)
       \/ \E u \in online : Become(p, Sweeping(u, online \ {u}))
    /\ UNCHANGED <<store, online, conn, joined, faults>>

ReadSockets(p) ==
    /\ At(p, "readSockets")
    /\ Become(p, [job[p] EXCEPT !.at = "testSocket", !.active = FALSE,
                     !.found = SMembers(store, SocketsKey(User(p)))])
    /\ UNCHANGED <<store, online, conn, joined, faults>>

TestSocket(p, s) ==
    /\ At(p, "testSocket")
    /\ s \in job[p].found
    /\ Become(p, IF Exists(store, SocketKey(s))
                 THEN [job[p] EXCEPT !.found = @ \ {s}, !.active = TRUE]
                 ELSE [job[p] EXCEPT !.at = "remDangling", !.socket = s])
    /\ UNCHANGED <<store, online, conn, joined, faults>>

RemDangling(p) ==
    /\ At(p, "remDangling")
    /\ store' = SRem(store, SocketsKey(User(p)), Socket(p))
    /\ Become(p, [job[p] EXCEPT !.at = "testSocket", !.socket = NoSocket,
                     !.found = @ \ {Socket(p)}])
    /\ UNCHANGED <<online, conn, joined, faults>>

TestUser(p) ==
    /\ At(p, "testSocket")
    /\ job[p].found = {}
    /\ IF Exists(store, UserKey(User(p))) /\ job[p].active
       THEN NextUser(p)
       ELSE Goto(p, "remUser")
    /\ UNCHANGED <<store, online, conn, joined, faults>>

-----------------------------------------------------------------------------
(* The world.                                                              *)

\* A TTL runs out.
Lapse(k) ==
    /\ Exists(store, k) /\ store[k].ttl
    /\ store' = Del(store, k)
    /\ disturbed' = disturbed \cup {s \in Sockets :
                        k \in {SocketKey(s), UserKey(UserOf[s]), SocketsKey(UserOf[s])}}
    /\ UNCHANGED <<online, conn, joined, job, faults>>

Fault == faults < MaxFaults /\ faults' = faults + 1

\* A command rejects: the handler's catch logs it.
Abort(p) ==
    /\ ~At(p, "idle")
    /\ Fault
    /\ Become(p, Idle)
    /\ UNCHANGED <<store, online, conn, joined>>

Cleaning(p) == \/ job[p].at \in CleanupLabels
               \/ job[p].at \in RemovalLabels /\ Socket(p) = NoSocket

\* A process dies with its sockets and handlers; in which process a cleanup
\* runs is left open.
Crash(n, cleanups) ==
    /\ Fault
    /\ conn' = [s \in Sockets |-> IF HomeOf[s] = n /\ conn[s] = "open"
                                  THEN "closed" ELSE conn[s]]
    /\ job' = [p \in Procs |->
                  IF IF Cleaning(p) THEN p \in cleanups
                                    ELSE Socket(p) # NoSocket /\ HomeOf[Socket(p)] = n
                  THEN Idle ELSE job[p]]
    /\ UNCHANGED <<store, online, joined, disturbed>>

-----------------------------------------------------------------------------
Online(p) == AddSocket(p) \/ ExpireSockets(p) \/ AddUser(p) \/ PutUser(p)
             \/ ExpireUser(p) \/ PutSocket(p) \/ ExpireSocket(p)

Offline(p) == ReadSocket(p) \/ DropSocket(p) \/ RemSocket(p) \/ ReadRest(p)
              \/ KeepSockets(p) \/ KeepUser(p)

Remove(p) == RemUser(p) \/ DelUser(p) \/ DelSockets(p)

Touch(p) == Beat(p) \/ BeatUser(p) \/ BeatExpireUser(p) \/ BeatExpireSockets(p)
            \/ BeatExpireSocket(p) \/ Status(p) \/ StatusUser(p) \/ StatusCustom(p)
            \/ StatusExpireUser(p)

Cleanup(p) == \/ ReadSockets(p) \/ RemDangling(p) \/ TestUser(p)
              \/ \E s \in Sockets : TestSocket(p, s)

Step(p) == Online(p) \/ Offline(p) \/ Remove(p) \/ Touch(p) \/ Cleanup(p)

Next ==
    \/ \E s \in Sockets : Connect(s)
    \/ \E p \in Procs, s \in Sockets :
          Event(p, s, "addSocket") \/ Disconnect(p, s)
    \/ \E p \in Procs, s \in Beating : Event(p, s, "beat") \/ Event(p, s, "status")
    \/ \E p \in Procs : CleanupBegin(p) \/ Step(p) \/ Abort(p)
    \/ \E k \in Keys : Lapse(k)
    \/ \E n \in Nodes, cleanups \in SUBSET Procs : Crash(n, cleanups)

\* A command is answered, the cleanup's interval fires, a TTL runs out.
Fairness == /\ \A p \in Procs : WF_vars(Step(p))
            /\ WF_vars(\E p \in Procs : CleanupBegin(p))
            /\ \A k \in Keys : WF_vars(Lapse(k))

Spec == Init /\ [][Next]_vars /\ Fairness

-----------------------------------------------------------------------------
(* Every entry and every job has its shape.                                *)
TypeOK ==
    /\ store \in [Keys -> [members : SUBSET (Sockets \cup {Hash}), ttl : BOOLEAN]]
    /\ online \subseteq Users
    /\ conn \in [Sockets -> {"new", "open", "closed"}]
    /\ joined \subseteq Sockets
    /\ job \in [Procs -> Job]
    /\ faults \in 0..MaxFaults
    /\ disturbed \subseteq Sockets

\* the jobs whose next command gives key k its TTL
Expiring(k) ==
    \E p \in Procs :
        \/ At(p, "expireSockets") /\ k = SocketsKey(User(p))
        \/ job[p].at \in {"expireUser", "beatExpireUser", "statusCustom", "statusExpireUser"}
              /\ k = UserKey(User(p))
        \/ At(p, "expireSocket") /\ k = SocketKey(Socket(p))

\* Unless a handler failed half way, a key of presence expires or is about to get
\* its TTL, also when it was deleted and came back under a handler's feet.
NothingImmortal ==
    faults = 0 => \A k \in Keys : Exists(store, k) => store[k].ttl \/ Expiring(k)

\* A device that registered (markOnline) while its account was being neither
\* removed nor swept stays registered, and the account listed, until it
\* disconnects or a TTL runs out, whatever its other devices do.
UndisturbedStaysOnline ==
    \A s \in joined \ disturbed :
        conn[s] = "open" => /\ s \in SMembers(store, SocketsKey(UserOf[s]))
                            /\ Listed(UserOf[s])

AllClosed(u) == \A s \in SocketsOf(u) : conn[s] = "closed"

\* Orphaned presence goes away: when all devices are gone, in order or not, the
\* account is not shown online for ever.
ClosedUsersGoOffline == \A u \in Users : AllClosed(u) ~> [](~Listed(u))

-----------------------------------------------------------------------------
(* What the documents say and the code does not do.                        *)

\* "The user remains online until all devices disconnect": at rest, with no TTL
\* run out, a joined device is registered.
JoinedStaysOnline ==
    (\A p \in Procs : At(p, "idle")) =>
        \A s \in joined : conn[s] = "open" => Listed(UserOf[s])
=============================================================================
