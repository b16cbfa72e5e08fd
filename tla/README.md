# HiChat: a TLA+ development

HiChat is a chat application: a Bun/Hono/Socket.IO server over Postgres and Redis,
run as several identical processes, and a React client that encrypts direct
messages end to end with the Signal protocol. This directory holds TLA+ modules
translated from its source, the TLC configurations that model-check them, and
TLAPS proofs. Paths below are relative to the repository; *server* stands for
`hichat-server/src` and *client* for `hichat/src`.

## Inventory

| part | state it keeps | operations | talks to |
|---|---|---|---|
| mailbox tables (*server* `repositories/MailboxRepository.ts`) | `mailbox`, one row per undelivered direct message; `message_deliveries`, one record per message ever queued | queueMessage, incrementAttempt, markDelivered, scheduleRetry, markFailed, acknowledgeMessage, markRead, recordDecryptionFailure and the queries | called by the delivery handlers |
| delivery (*server* `socket/chatSocket.ts`, `services/messageService.ts`) | per process: acknowledgement timers, a bounded cache of delivered ids, the sweep's guard; per socket: `mailboxFlushed` | the socket events, the timer, the 5 s sweep | tables, presence, sockets of all processes through the Redis adapter |
| receiving client (*client* `hooks/useChatMessages.ts`) | ids processed by this page, the Signal session in IndexedDB | receive, decrypt, acknowledge, read | socket events |
| presence (*server* `services/presenceService.ts`) | per user a set of sockets and a profile, per socket a profile, all with a 60 s TTL; the set of online users | markOnline, markOffline, heartbeat, cleanup | Redis |
| sender's view (*client* `hooks/useMessageActions.ts`, `useChatMessages.ts`) | status of each message sent | send, status update | `message_status_update` events |
| sessions (*server* `services/authService.ts`) | refresh tokens in families | login, rotate, reuse detection, logout | Postgres, the client's cookie |
| client session (*client* `api/client.ts`, `store/auth.store.ts`) | `isRefreshing`, the queue of failed requests, the store; the browser's cookies | 401 interceptor, checkAuth, login, logout | `routes/auth.ts` behind `csrfProtection` |
| key bundles (*server* `repositories/SignalKeyRepository.ts`, *client* `services/signal.service.ts`, `hooks/useSignalKeys.ts`) | identity, signed and one-time prekeys, private halves in IndexedDB, public ones in Postgres | generate, upload, fetch and consume, open a session | Postgres, sender and recipient |
| rooms (*server* `services/roomService.ts`, `socket/chatSocket.ts`) | rooms, room messages, Socket.IO rooms, the room in a socket's Redis hash | create, join, switch, broadcast, delete | Postgres, Redis, sockets |
| client view (*client* `store/chat.store.ts`, hooks) | message list, unread counts, the room shown | history fetch, live messages, statuses | REST, sockets |
| rate limiters (*server* `middleware/security.ts`) | a counter and a window per key | consume | Redis or memory |
| database access (*server* `db/postgres.ts`) | the pool; an in-memory store with one stack of snapshots | query, transaction | Postgres |
| migrations (*server* `db/migrator.ts`) | `schema_migrations` | run pending, roll back | Postgres |
| process (`hichat-server/server.ts`, *server* `db/redis.ts`, `socket/socketAdapter.ts`) | the step of startup or shutdown, the Redis client and its flags, timers | start, stop on a signal, reconnect, give up | all of the above |

What is hard in each is listed, at its line, under `hazards` in `PROJECT.json`.
The properties that make a part correct:

- **delivery**: at-least-once (a row goes only when the message arrived), truthful
  deduplication, agreement of the two tables, dead letters only after all
  attempts, and that every message is delivered or dead-lettered in the end;
- **presence**: a user with an open, joined socket is online; one without any goes
  offline; a removal never takes a socket that was added meanwhile;
- **sessions**: a token is used once, a family has one live token, reuse ends
  every session and nothing revoked comes back;
- **client session**: when nothing is in flight the browser holds a token the server
  takes, a tab that shows a user can act for it, and no call waits for ever;
- **key bundles**: a one-time prekey is handed out at most once, and what is published
  some browser can use until the message that used it was opened;
- **rooms and client view**: a browser hears the room it shows, shows what belongs
  there once, and tells the sender that a message was read only if it was shown;
- **migrations**: what is recorded as applied is applied, and a process that serves has
  the whole schema;
- **process**: it stops when told to, and does not report health while it keeps a
  roster of its own in production;
- **in-memory store**: the calls of a repository leave and find what they do in Postgres.

## Modules

| module | models | kind |
|---|---|---|
| `MailboxRepository` | each transaction of `MailboxRepository.ts` as an operator on one row and one record, and the WHERE clauses and LIMITs of its queries | pure operators |
| `MailboxDelivery` | all of delivery, with the presence and the receiving client it depends on | state machine |
| `AtLeastOnceMailbox` | what delivery promises: custody of a message, and when it may end | abstract specification |
| `RefreshTokens` | sessions: login, rotation, reuse detection, revocation, logout over the table `refresh_tokens` | state machine |
| `RedisStore` | the Redis commands on sets, hashes and TTLs | pure operators |
| `Presence` | who is online: joins, disconnections, heartbeats, status updates and the cleanup, Redis command by command | state machine |
| `SignalKeys` | the keys of one account and the first messages encrypted with them | state machine |
| `ClientSession` | the sign-in of one browser: cookies, tabs, interceptor, and the server's answers | state machine |
| `Conversation` | what a browser shows of channels and conversations, and the handlers that feed it | state machine |
| `ServerLifecycle` | startup, migration, shutdown and roll-back of the processes, and which store they use as Redis | state machine |
| `MemoryStore` | the statements of the in-memory store on its tables | pure operators |
| `MemoryDatabase` | `query` and `transaction` over that store, under the calls of `MailboxRepository` | state machine; `MailboxRepository` is its reference |
| `MC...` (`MCMailboxDelivery`, `MCRefreshTokens`, `MCPresence`, `MCSignalKeys`, `MCConversation`, `MCServerLifecycle`, `MCMemoryDatabase`) | instances for TLC | constants |
| `MailboxDeliveryProofs` | types, safety and dead letters of `MailboxDelivery`, and that it implements `AtLeastOnceMailbox`, for every instance | proofs |
| `RefreshTokensProofs` | the safety of `RefreshTokens`, for every instance | proofs |
| `PresenceProofs` | the safety of `Presence`, for every instance | proofs |
| `ServerLifecycleProofs` | the safety of `ServerLifecycle`, for every instance | proofs |
| `ClientSessionProofs` | the safety of `ClientSession`, for every instance | proofs |
| `SignalKeysProofs` | the safety of `SignalKeys`, for every instance | proofs |
| `ConversationInvariant` | the inductive invariant of `Conversation`, part by part | definitions |
| `ConversationProofs` | the safety of `Conversation`, for every instance | proofs |
| `MemoryDatabaseProofs` | the constraints of the in-memory tables, and that they hold what `MailboxRepository` makes of them, for every instance | proofs |

`MailboxDelivery` EXTENDS `MailboxRepository` and INSTANCEs `AtLeastOnceMailbox` with the
refinement mapping. `MemoryDatabase` EXTENDS `MemoryStore`, which EXTENDS the same
`MailboxRepository`: what delivery assumes of a transaction is what the in-memory
store is held to. `Presence` EXTENDS `RedisStore`. Other components meet through
named abstractions of each other: `MailboxDelivery` has each change of presence's
sets of sockets in one step, and `Presence` is the detailed account of them;
`ClientSession` has each transaction of `RefreshTokens` in one step; `Conversation`
takes the custody of direct messages from `MailboxDelivery` and the success of a
decryption from `SignalKeys`; a stop in `ServerLifecycle` is a `Crash` for the others.

### How MailboxDelivery reads

JavaScript runs a handler from one `await` to the next without interruption, and
other handlers, of this process or another, run in between. So a handler in
progress is a *job* (`job[p]`): the await it is suspended at (`at`), which handler
it is (`kind`), its process (`node`), and what it has in local variables: the
rows it still loops over (`rows`), the sweep's `retryDispatches` (`batch`), the
sockets it looked up (`devs`), the online users (`users`), `currentAttempts`
(`tries`). One action is the code from one await to the next, with the
transaction or Redis command it awaits. What a handler reads before an await it
still holds after it, whatever the tables say by then; most hazards of this code
lie there.

| code | actions |
|---|---|
| `send_direct_message` | `SendBegin` (duplicate checks), `SendQueue` or `SendDuplicate`, `SendLookup`, `Attempt`, `Mark`, `SendEmit` |
| `join`, `resume_delivery` | `Join`, `Resume`, then `deliverPendingMailbox`: `ReplayRead`, and per row `Attempt`, `Mark`, `ReplayEmit`, `Arm` |
| `switch_room`, which registers a socket again | `Refresh` |
| the sweep | `SweepTick`, `SweepFindExhausted`, `SweepFail` per row, `SweepFindCandidates`, `Attempt` and `Mark` per row, then `SweepDispatch` or `SweepSkip`, and `Arm`, per row |
| the timer and `handleAckTimeout` | `TimerFires`, `TimeoutRead`, `TimeoutFail` or `TimeoutReschedule` |
| `ack_direct_message` | `AckBegin` (clears the timer), `AckCommit`, `AckRemember` |
| `read_direct_message`, `signal_decryption_error` | `HandleRead`, `HandleDecryptionError` |
| the client | `Connect`, `Receive`, `ReceiveAgain`, `ReceiveUndecryptable`, `SendRead`, `SendDecryptionError` |
| the world | `Disconnect`, `Reload`, `Crash`, `Abort` (a query rejects and the handler's catch ends it), `Expire` (presence TTL), `Forget` (presence forgets a closed socket), `RetryDue` (`next_retry_at` passes) |

State: `mailbox`, `record` and `lastId` are the tables and the serial; `timers` and
`recent` the memory of each process; `conn` and `flushed` the sockets; `registered`
and `stale` the contents of `presence:user_sockets`, open and closed sockets apart;
`down` and `up` the events in flight; `processed` the page's `processedMsgIdsRef`,
`decrypted` the ratchet keys used up (the Signal store survives a reload),
`received` a history variable.

### How RefreshTokens reads

`token` is the table, keyed by `id`; a row that is `absent` is not visible to others:
never inserted, or inserted by a transaction that has not committed. `token_hash`
stands for its id, and a family is named for the token that started it. A request in
progress (`request[r]`) is suspended at an await, as above.

| code | actions |
|---|---|
| `register`, `login` through `createRefreshSession` | `Login` |
| `rotateRefreshToken` | `RotateBegin` (up to `SELECT ... FOR UPDATE`), then `RotateReuse`, `RotateExpired` or `RotateLock`, and `RotateCommit` |
| `revokeAllForUser` after a reuse, and `logoutAll` | `RevokeBegin` or `LogoutAll` (the snapshot of the UPDATE), `RevokeCommit` |
| `logout` | `LogoutBegin` (`findByTokenHash`), `LogoutCommit` (`revokeToken`) |
| failures, time | `Abort` (a query rejects or the process dies: rollback), `Expire` |

Postgres is modelled at READ COMMITTED, its default and what `transaction()` uses. A
row lock (`Locked`) is held from `RotateLock` to `RotateCommit`, and every statement that
would change the row waits for it. An UPDATE of many rows takes them from the snapshot
at its start, waits for locked ones, and looks at each again: one that no longer
matches is skipped, and one that appeared since is not seen. So it is two actions.
Both writes of a rotation become visible with its commit, and are one action.
`terminated` is a history variable. Whoever has a token may present it
at any time, again and concurrently; what the repository's own client does is in
`ClientSession`. Password checks, access tokens (signed, kept nowhere) and a presented
string that is no token (it changes nothing) are left out.

### How Presence reads

Each Redis command is one action, because other handlers' commands run between any two
of them; a job's label names the command it awaits. `store` has the keys that expire
(`presence:user_sockets:<user>`, `presence:user:<user>`, `presence:socket:<socket>`) and
`online` is `presence:online_users`, which does not. An entry is its members and whether
it has a TTL; a hash is there or not (`Hash`), since no handler but the getters reads
its fields, except `userId` in a socket's hash, which is `UserOf`. Removing the last
member deletes a key, and a key that comes back has no TTL: that is Redis, and
*server* `db/redis.ts`, except that its `expire` also revives a key whose time is up
and that nobody has read since; this is left out.

| code | actions |
|---|---|
| `markOnline` (`join`, `switch_room`) | `Event`, `AddSocket`, `ExpireSockets`, `AddUser`, `PutUser`, `ExpireUser`, `PutSocket`, `ExpireSocket` |
| `markOffline` (`disconnect`) | `Disconnect`, `ReadSocket`, `DropSocket`, `RemSocket`, `ReadRest`, then `RemUser`, `DelUser`, `DelSockets` or `KeepSockets`, `KeepUser` |
| `heartbeat` | `Event`, `Beat`, `BeatUser`, `BeatExpireUser`, `BeatExpireSockets`, `BeatExpireSocket` |
| `updateStatus` | `Event`, `Status`, `StatusUser`, `StatusCustom`, `StatusExpireUser` |
| `cleanupExpiredPresence` | `CleanupBegin`, and per account `ReadSockets`, `TestSocket` and `RemDangling` per socket, `TestUser`, then the next account or `RemUser`, `DelUser`, `DelSockets` |
| `getPresence`, `getOnlineUsers` | the operators `Shown`, `Listed` |
| the world | `Connect`, `Lapse` (a TTL runs out), `Abort` (a command rejects), `Crash` (a process dies with its sockets) |

`joined` and `disturbed` are history: sockets whose `markOnline` has returned, and those
for which a removal or the cleanup of their account overlapped, or a TTL ran out. A
handler of a socket may start as long as the socket is open and then be overtaken by
its disconnection, as in the code, whose `join` never looks again. Left out: the
events to clients, and the checks of payloads and rooms before `markOnline`. Which
process a cleanup runs in is left open, so a crash may end any of them.

### How SignalKeys reads

A key pair is named by the generation in which it was made (a first identity and the
batch made with it share one: keys of different kinds are never compared), so the model tells
apart what the code does not: a private key with the right id and the wrong
generation. `vault` is a browser's IndexedDB, `published` the three tables of the
server. `page` is a run of the client's key initialisation, `send` a message to the
owner from the look-up of a session on, `read` a decryption in progress.

| code | actions |
|---|---|
| `loadOrGenerateUserKeys`, `syncSignalKeysIfNeeded` | `OpenPage`, `MakeIdentity`, `SaveIdentity` or `LoadIdentity`, `Count` |
| `generateSignalPreKeyBundle` | `Generate` (or `MakeIdentity`, `GenerateFirst`), `StoreSigned`, `StorePre` per key |
| registration in `Login.jsx` | `Register`, then the same generation |
| `uploadKeyBundle`, `saveKeyBundle` | `Upload` |
| `encryptMessage` | `UnderSession`, `BeginSend`, `NoSessionYet`, `Process` or `Refuse` |
| `getPreKeyBundle`, `fetchAndConsumePreKeyBundle` | `FetchDevice`, `FetchSigned`, `FetchPre`, `FetchDelete`: READ COMMITTED, each statement sees what is committed by then |
| `decryptMessage` | `Receive`, `Finish` |
| the world | `CutOff` (the page closes or the upload is rejected) |

`saveLocalIdentity` awaits twice, for the key pair and for the registration id; the model
writes both in one step (`SaveIdentity`). Whoever reads an identity asks for both and takes
one without the other for none (`signal.service.ts:169, 213`), so nothing is published
under half of it; two pages that write at once could mix the halves, which the model does
not show. libsignal is external: `HasKeys` is what its session builder needs. A request for the
count that fails counts as an empty pool, as in the code; an account may have several
browsers, each of which gets a copy of a message. The check of an inbound identity
(`signal.service.ts:394-469`) is left out. `met` records which overlaps have happened;
`PublishedIsHeld` and `FailureIsExplained` name those they exclude, because with them
the code has no guarantee to give.

### How ClientSession reads

`job` is a call from the moment it is sent: the request, its answer, a wait in
`failedQueue`, a refresh (the interceptor's, which the other calls wait for, or
`checkAuth`'s own) and its answer. `jar` holds the browser's cookies, `tab` each tab's
store and `isRefreshing`. Answers are status codes (0: none arrived).

| code | actions |
|---|---|
| a page load with `checkAuth`, login, logout, any other call | `Load`, `Call` |
| `routes/auth.ts` behind `csrfProtection` | `Protected`, `Login`, `Logout`, `Refresh` |
| the response interceptor | `Resolve`, `Enqueue` (into `failedQueue`), `Intercept` (starts a refresh), `Reject`, `RefreshDone` (`processQueue`) |
| the world | `Stale` (the access token's 15 minutes), `Drop` (cookies lapse), `Lose` (a request or an answer is lost) |

The client sends no `X-CSRF-Token` and no `X-Requested-With`, so `csrfProtection`
refuses each POST that carries both cookies (`CsrfRefused`): in the states where the
`csrf` cookie is there, a refresh, a login and a logout are answered 403. Refreshes
succeed only where it has lapsed or was dropped. This is what the source says, and
the model keeps it.

### How Conversation reads

One browser and one socket per user. `view` has what the hooks and the store keep: the
room shown, the list, unread counts, processed ids, and what is in progress (history
requests, encryptions, decryptions, joins that wait for the keys). `out` and `inbox`
are the events in flight, in order. `job` is a handler of the server, from one await
to the next. Messages are numbered; a live channel message has no id in the browser's
list (`id = FALSE`), because the server broadcasts what the client sent.

| code | actions |
|---|---|
| selecting a channel or a conversation, creating a room, effects that run again | `SelectChannel`, `SelectDM`, `CreateRoom`, `Rerun`, each with the whole effect on `currentRoomId`; `JoinRoom` when the keys are there |
| `fetchMessages` | `FetchAnswered`, `FetchStored`, `FetchDecrypted`, `FetchFails` |
| sending, deleting | `Compose`, then `EncryptedChannel`, `EncryptedDM` or `EncryptFails`; `DeleteMessage` |
| handlers of events | `ReceiveMessage` and `ShowMessage`, `ReceiveDirect` and `ShowDirect` or `DropCopy`, `ReceiveStatus`, `ReceiveDeleted` |
| `switch_room`, `join` | `SwitchRoom`, `FindRoom`, `Move`, `Mark`; `Join`, `FindRoom`, `Mark`, `Enter` |
| `send_message`, `delete_message` | `SendMessage` (with the limit per socket), `Insert` or `InsertFails`, `Cast`; `Handle`, `Erase`, `TellDeleted` |
| direct messages | `Handle`, `Queue`, `Dispatch`, `Redeliver`, `AckTimesOut` (the timer: one step, what happens to the row is `MailboxDelivery`'s), `Acknowledge`, `MarkRead` |
| the world | `Disconnect`, `Reconnect`, `Abort`, `Lapse` (the 60 s TTL of a socket's hash runs out) |

`home` is the room in the hash `presence:socket:<id>`. `markOnline` gives it 60 s
(`presenceService.ts:77`), and no `heartbeat` of the browser extends them, so at any time
it may be gone (`Lapse`). A `switch_room` that finds none leaves `general`
(`chatSocket.ts:1158`): a socket that was in another room stays there as well and hears
both until it is closed. `astray` remembers whose socket that is. A history has the
newest `HistoryLimit` rows (`Stored`; 100 in the code); which are the newest is left open.

`note` is history, and says what the properties leave out because the code promises
nothing there:

- `torn`: switches or joins of one browser overlapped. Its socket may then be in two rooms
  or in the wrong one; `HearsItsRoom` says nothing of it any more.
- `deaf`: a switch or join came late, or went to a room that was not created.
- `blurred`: the last room change was made while a history, an encryption or a decryption
  was under way, whose result may land in the wrong list. `ShowsItsRoom` speaks of the
  other times only, and of channel messages only: a direct message is shown in whatever
  list is on screen.
- `awaited`: the messages that `SeenOnce` counts on: cast while the browser showed their
  room with its history loaded. A history request, a join or a switch ends the count, so
  that a message that comes both live and in a history is not covered (`NothingTwice`).

Overlapping includes `Outruns`: a browser without a connection goes on to another
channel while an event it emitted before still waits in the socket's buffer. The buffer
is sent after the reconnection, and the socket ends in a room the browser has left. The
proof of `HearsItsRoom` needed it, and TLC shows why on one user with channels general
and dev, one handler, three things done and one fault: without `Outruns` the property is
violated there, with it it holds (934,670 states). That instance is not among the runs,
whose second user shows more of the other properties. A channel is not named like a
conversation of two users (`ConversationAssumption`).
The effect that `Rerun` stands for (`Chat.jsx:164-180` sets a user whose object its
dependencies name) may run more often in the model than in a browser.
Left out: reactions, typing, slash commands, pins, search, the maps of users, sounds
and files. Creating a room is one step.

### How ServerLifecycle reads

`server[p]` has the step its startup awaits (`boot`), the migrations it found pending
(`todo`), the one whose transaction is open (`txn`), its Redis client, the flags that
`healthCheckRedis` reads, the adapter's clients (`bus`), and the step of each run of
`shutdown` (`stop`), of which there is one per signal. `schema` is what the database
has, `executed` what `schema_migrations` says.

| code | actions |
|---|---|
| `startServer` | `Start` (connect and list), `BeginMigration`, `FinishMigration`, `VerifyTables`, `RunSeeds` or `SeedsFail`, `ConnectRedis` or `MissRedis`, `SetupAdapter` |
| `shutdown` | `Signal` (stops the timers), `CloseAdapter`, `DisconnectRedis`, `EndPool`, `CloseServer`, `ServerClosed` |
| `rollbackLastMigration`, `rollbackToVersion` | `ListRollback`, `RollBack` per migration |
| node-redis and its `reconnectStrategy` | `RedisGoes`, `RedisReturns`, `GiveUp` |
| `join`, `switch_room`, `disconnect` as they touch presence | `Join`, `SwitchRoom`, `Leave` |
| the world | `Crash` (killed, or a command of the startup fails), `Lapse` (presence keys run out) |

Both seed files catch and ignore an INSERT that fails (`seeds/dev.ts:23`, `seeds/test.ts:15`),
and the startup goes on without the room: `bare` remembers such a process, and
`ServingIsMigrated` asks for the rooms of the others. `seen` has the stores that hold a
client's presence keys. They live 60 s and the browser does not extend them, so they may
run out at any time (`Lapse`, in the in-memory substitute as well); `lapsed` has the
stores where that happened since the last `markOnline` there. What `HealthyKnowsItsClients`
says is thus which store a client is looked for in, not that it is found. The health it
speaks of is `redis.healthy` in the *body* of `/health`; the status is 200 whatever it says
(`server.ts:66-82`), and the container and load balancer checks (`Dockerfile:58`,
`docker-compose.yml:15`, `PRODUCTION_CHECKLIST.md:17`) read the status only.

Two starting processes that create one table wait for each other and the second fails
(`fresh`); a table that another refers to cannot be dropped (`Droppable`). A QUIT while
disconnected waits until Redis is back or the client gives up. The verification's
queries, and the pub and sub clients, are one step each. Left out: the race to create
`schema_migrations` itself, `--force-prod-seed`, the second ping of `initDb`. A start
that stops after migrating is the migrator's command line.

### How MemoryStore and MemoryDatabase read

A table of the in-memory store is a sequence of rows, and a statement what parsing it
yields: `Insert` with its defaults and its ON CONFLICT clause, `Update`, `Delete`, and the
three SELECTs that the sweep and a join make. `Array.filter` is written by the ranks of
the positions that stay (`Nth`), which a proof can follow. `MemoryDatabase` lets calls of
`MailboxRepository` and refused refreshes begin (`BeginQueue`, `BeginForMessage`,
`BeginRefusal`), execute a statement each (`Statement`) and end (`Return`, or `Throw` with
the rollback). In memory a statement is answered within the turn of the event loop,
so calls interleave only if events of one packet started them; a refresh comes over
HTTP and has a turn of its own, and time passes between turns (`Quiet`).

The reference is `MailboxRepository`, the module `MailboxDelivery` is built on: `promised`
is what its operators make of the calls that returned. `ImplementsRepository` and
`SelectsWhatSqlSelects` hold up to these differences, which the code has and which they
name: `DO UPDATE` assigns every column of the row that was not inserted, so an
acknowledgement or a decryption report starts `attempt_count` again (`restarted`); an
INSERT without a clause replaces a row where Postgres refuses (`replaced`); nothing
locks, so two calls for one message that are in progress at once mix (`contended`); in a joined row the status of
`message_deliveries` hides that of `mailbox`. Tables `messages` and `direct_messages` have
no uniqueness at all, unknown predicates are true, ALTER and CREATE INDEX do nothing,
and `SELECT *` returns the rows themselves; no query of the mailbox depends on these.

### What is abstracted in MailboxDelivery

- Payloads, usernames and log records are left out, and so are the events sent to
  the *sender*: no handler reads them back. Where the code awaits between two
  state changes only to notify the sender, the await stays (`ReplayEmit`, `Arm`).
- `attempt_count` saturates at `maxRetries`, the only number it is compared with.
  `next_retry_at` is `due` or not; `RetryDue` makes it due at any time.
- Each transaction is atomic. Under READ COMMITTED this leaves out one outcome:
  an acknowledgement that deletes no row because a second submission of the same
  id has inserted it but not committed, and then overwrites its record. Row-lock
  deadlocks (Postgres aborts one side) are the `Abort` fault.
- `markOnline` is one step, and the two queries of a resumption are one read; the
  membership of `presence:online_users` is that of the socket sets.
- A `join` may name the last message its client acknowledged, and its replay then starts
  after it (`chatSocket.ts:778`). No client of the repository sends that field; a `Join`
  replays from the start, and only a `Resume` from a message.
- The page's await of a decryption is one step with what follows (`Receive`): the queue
  `decryptQueueRef` lets no other message of the page in between. Without a key store
  (`useChatMessages.ts:129`) the id is added and nothing else happens, which leaves the
  state of `ReceiveUndecryptable`; the model takes that step for messages that cannot be
  decrypted.
- The check of the cache and the read of the record in `SendBegin` are one step: an
  id enters the cache only after its record says acknowledged, so an interleaving
  between the two shows nothing new.
- The database is taken to be ready (`isDatabaseReady`), and a client's request to
  pass validation.
- What is in flight when a socket closes is lost. Socket.IO can deliver some of it;
  that is the disconnection a moment later.
- A fixed set of slots (`Workers`) bounds how many handlers are suspended at once in
  all processes; the sweep has its own slot in each process.

## Runs

| run | shows | instance |
|---|---|---|
| `MailboxFaults` | `TypeOK`, `PurgedOnlyAfterDelivery`, `FailedOnlyWhenExhausted`, `ImplementsContract` under every kind of fault | 1 message, 1 device, 1 process, 2 handlers and the sweep, 2 retries, 1 fault or resumption |
| `MailboxMixed` | `AlreadyDeliveredIsTrue`, `HiddenOnlyAfterDelivery`, `FailedIsNotPending` across processes that share tables but no memory, with decryption failures, read receipts and error reports | 2 processes with a sweep each, 1 handler, 2 submissions, 1 retry |
| `MailboxLiveness` | `EventuallyResolved` under fairness | 2 messages, one for an account without a device, pages of 2, 1 fault |
| `Sessions` | `TypeOK`, `OneLivePerFamily`, `SingleUse`, `EndedStaysEnded` of `RefreshTokens` | 2 accounts, 3 tokens, 2 requests |
| `Presence` | `TypeOK`, `NothingImmortal`, `UndisturbedStaysOnline` | 1 account, 2 sockets of which 1 beats, 1 process, 2 handlers, 1 fault |
| `PresenceOrphans` | `ClosedUsersGoOffline` under fairness | 1 socket, 2 handlers, 1 fault |
| `SignalKeys` | `TypeOK`, `PublishedIsHeld`, `FailureIsExplained`, `HandedOutOnce` | 1 browser, 2 initialisations, 3 messages of 2 senders, 1 decryption, 2 one-time keys, 3 generations, 1 cut off; `CONSTRAINT Explored` |
| `ClientSession` | `TypeOK`, `JarIsLive`, `SignedInHasToken`, and `CallsSettle` under fairness | 1 tab, 2 calls, 2 tokens, 1 reload |
| `Conversation` | `TypeOK`, `HearsItsRoom`, `SeenOnce`, `ShowsItsRoom`, `ReadMeansOpened` | 2 users, 1 channel and 1 that may be created, 2 handlers, 2 things done, 1 fault or hash that runs out, histories of 1 row |
| `ServerLifecycle` | `TypeOK`, `RecordedIsApplied`, `ServingIsMigrated`, `HealthyKnowsItsClients`, and `StopsInTheEnd` under fairness | 2 processes, 2 starts, 3 migrations, 1 client, 2 signals, 2 events (a signal, a roll-back, a failed INSERT, a crash, a loss of Redis, keys that run out), in production and not |
| `MemoryDatabase` | `TypeOK`, `KeysAreUnique`, `SnapshotsAreOpen`, `ImplementsRepository`, `SelectsWhatSqlSelects` | 2 messages, 1 token, 2 calls at a time, 5 in all, 3 mailbox ids |
| `KeysOverwritten` | *violated*: `FirstMessageOpens` | 1 browser, 1 initialisation at a time, 1 sender, no fault |

**Why these bounds.** Messages interact only through the LIMIT of a page and the order
of ids, so one message is enough for the safety of the tables and two for the
page (`MailboxLiveness`). The races are between one handler
that is suspended and one that completes, with the sweep as a third: two slots.
Two retries give a first, a middle and a last attempt. One fault at every point
of every schedule covers each crash window; a second would mostly repeat the
first. The serial `mailbox.id` needs no bound of its own: ids are only given by
`SendQueue`, which `MaxSends` bounds. `MaxSends = 1` is the repository's own client,
which never submits an id twice (*client* `hooks/useMessageActions.ts`); the server
is written for clients that do, and `MailboxMixed` with `MaxSends = 2` takes it at its word:
there the second process answers from a cache the first does not share.

In `Sessions` a double exchange of one token needs three tokens and two requests, and
a family that must not be confused with another needs a second login: three tokens
hold a rotated session beside a fresh one. The tokens bound logins and rotations; a
request may start any number of times. The theorems below cover all other sizes.

In `Presence` the accounts share only `online_users`, whose entries are added and removed
one by one, so one account shows every race; what one account leaves out is the cleanup
going on to the next (the second branch of `NextUser`). A removal that goes wrong needs a device that
leaves and one that arrives. With two handlers every pair of `markOnline`, `markOffline`,
`heartbeat`, `updateStatus` and cleanup overlaps at every command. The number of
events is not bounded, that of crashes and failed commands is. A single process
suffices because handlers share nothing in memory; more would only split a crash.
`PresenceOrphans` has one socket because a second adds states and no new way to be
left over.

`SignalKeys`: a message is lost when something comes between the look at a key and its
use, which takes one actor more than those that overlap: two initialisations with a
sender and a decryption, or two senders with an initialisation. Three generations are
a registration and a second identity with a batch of its own, or two batches that
overwrite the first; two one-time keys have a first and a last, and a third message finds
the pool empty. `Explored` (`MCSignalKeys`) combines them: what follows a state in which
`met` and `faults` excuse every invariant but `TypeOK` is left out; one message meets all
that the other bounds allow, two meet no run cut off, and a third generation only if no
runs overlapped; three meet the keys of one run. `ClientSession`: two calls at a time are the one that refreshes and the one
that is queued, or refreshes by itself; two tokens are the one that is exchanged and
its successor, after which the server fails, as it may; a tab that reloads once and
the cookies it shares with what the first page sent stand for a second tab.
`Conversation`: every violation of its properties needs a switch or a message of one
user and what overlaps it; two things done, two handlers and a reconnection, rejected
query, redelivery, timeout or lapsed hash give each pair of them. A list of two
messages needs a third step; it matters to the deletion below, and so does a history
that is cut short (two stored messages and a request). The proof is for every `HistoryLimit`.
`ServerLifecycle`: three migrations are a table, a table that refers to it and a column
on it, as in 001 to 005; two processes migrate next to each other or one after the
other's crash; two events put a signal in a startup and another in the shutdown, a
roll-back next to either, a loss of Redis before a signal, or a failed INSERT or lapsed
keys before any of these. `MemoryDatabase`: what a
call does depends on one message, one other message to be mixed up with, and what came
before; five calls take a message from the queue to a terminal state next to a second
one or a refusal.

**Fairness.** `MailboxLiveness` (`Fairness`): a handler whose
query returned goes on: the event loop runs every ready callback. The sweep's
interval and an armed timer fire, and `next_retry_at` passes. An event that arrived
is handled. Assumed of the world, not of the code: a device that is away connects
again and its page joins (a reload does both; a mere reconnection of the socket does
not, see the hazards), and it works through what it receives. Nothing is assumed of
resumptions, read receipts, error reports, `Refresh` or `Forget`. Every rare event is
bounded, so it stops in the end.

`PresenceOrphans`: Redis answers (each handler goes on), some process's cleanup
interval fires again and again, and a TTL runs out unless it is renewed in time.
Nothing is assumed of sockets. The run shows that an account is *listed* no more; that
`getPresence` of it is null in the end is false after one failed command, because the
cleanup visits only accounts in `online_users`, and with two faults the listing itself
can stay: a crash may leave three keys and the entry without a TTL.

`ClientSession`: a request is answered or fails (`Serve`), and its promise settles
(`Receive`). Users, reloads and cookies are free. `ServerLifecycle`: what a process awaits
goes on, where a QUIT to a Redis that is gone waits for it or for the exhausted
retries of node-redis; and clients leave, because `server.close()` waits for their
connections. The second is an assumption: nothing in the code closes them.

### What the code does not do

**Keys overwritten** (run `KeysOverwritten`; `signal.service.ts:160-201, 531-560`). Ids are
always 1..20 and the signed prekey is always 1. A sender fetches a bundle and sends;
before the message is opened, the owner's page finds the pool empty, or its request
for the count fails, and makes a new batch, which overwrites in IndexedDB the private
keys the message needs. It fails to decrypt, and with the next item is acknowledged and
deleted. Nothing has to overlap. `FailureIsExplained` shows that overwriting, and the
same one-time key given to two senders, are the only ways to lose a first message
unless writers, readers or a cut-off run interfere.

The following statements of documents are definitions of the modules too and are
violated by what the code does. No run is kept for them; each can be seen by giving the
named configuration the property in place of its own.

| property | configuration | what happens |
|---|---|---|
| `MailboxDelivery!AcknowledgedIsFinal` | `MailboxFaults.cfg` | `markDelivered` (`MailboxRepository.ts:247-252`) updates the record whatever its status. A join replays a row that the sender's live dispatch has also sent; the acknowledgement commits between the replay's `incrementAttempt` and its `markDelivered`, and the record goes from acknowledged to delivered for good. `ARCHITECTURE.md:137` draws no way back. |
| `MailboxDelivery!AcknowledgedIsDisplayed` | `MailboxMixed.cfg` | The client adds the id to `processedMsgIdsRef` before it tries to decrypt (`useChatMessages.ts:117-127`), so the next copy of a message whose decryption failed is acknowledged and its row deleted. `ARCHITECTURE.md:124-125` draws the decryption before the acknowledgement. |
| `MailboxDelivery!EventuallyResolved` | `MailboxLiveness.cfg` with `PageLimit = 1` | Starvation: `findRetryCandidates` takes the `LIMIT` lowest due ids, and recipients that are offline are dropped afterwards (`messageService.ts:226-228`). Their rows stay due, so a hundred of them keep every later row from being retried. |
| `MailboxDelivery!FailedOnlyWhenExhausted` | `MailboxFaults.cfg` with `MaxSends = 2` | A sender that submits one id twice at once can have it dead-lettered early (`messageService.ts:206-217`): the sweep fails every row of the list it read, also one that was acknowledged and queued again since. |
| `RefreshTokens!ReuseEndsSessions` | `Sessions.cfg` | A rotation has locked the live token when the revocation's UPDATE (`authService.ts:364`) takes its snapshot. The UPDATE waits, finds the token revoked and skips it; the successor is not in the snapshot and stays alive, while the answer says that all sessions have been terminated (`:383`). |
| `Presence!JoinedStaysOnline` | `Presence.cfg` with `SPECIFICATION Refreshed` | The last other device's `markOffline` has found the set empty; the new device's `markOnline` writes its keys; the removal deletes them (`presenceService.ts:136-142`, and likewise `:307-325`). Direct messages for it wait until it registers again. `ARCHITECTURE.md:175`: "The user remains online until all devices disconnect." `UndisturbedStaysOnline` holds: without such an overlap it does not happen. |
| `ClientSession!SignedOutIsOver` (a PROPERTY) | `ClientSession.cfg` | A logout with both cookies is answered 403 by `csrfProtection`; the tab shows the login form and the session stays alive. `docs/openApiSpec.ts:294`: "Revokes current refresh token family in PostgreSQL and purges authentication cookies." |
| `Conversation!HearsOneRoom` | `Conversation.cfg` | The hash of a socket in `dev` runs out; the user goes back to `general`, the handler leaves `general` in place of `dev` (`chatSocket.ts:1157-1159`), and the browser hears both rooms from then on. Nothing failed and nothing overlapped. `ARCHITECTURE.md:176`: "Sockets send a lightweight `heartbeat` every 30 seconds, resetting the 60-second Redis TTL". |
| `Conversation!NothingTwice` | `Conversation.cfg` | A message that is stored before its history is read and broadcast after it is on the list twice (`useChatMessages.ts:72, 98`): live messages are appended whatever the list has. `chat.store.test.ts:77`: "adds and updates message in store without duplication"; the test adds with `addMessage`, which the hook does not use. |
| `ServerLifecycle!ServingIsSeeded` | `ServerLifecycle.cfg` | A failed INSERT of a room is ignored; the process logs `seeds/dev.ts:26`, "Development database seeded with 6 default rooms.", and serves without it. |
| `Conversation!DeletedWasAsked` | `Conversation.cfg` with one user, one handler, `Limit = 2`, `MaxSteps = 3`, `MaxFaults = 0` | A channel message is broadcast without an id (`chatSocket.ts:1236`), so every live message of a list has the id undefined: deleting one marks them all as deleted, in every browser of the room, and no row is. `chat.store.test.ts:96`: "deletes message and marks it as deleted". |

Also met while reading or checking:

- *Delivery.* `ARCHITECTURE.md:151` says the timer takes 10 seconds and `chatSocket.ts:283` says 5.
- *Sessions.* `logout` revokes only the token it is given (`authService.ts:409`), although
  `docs/openApiSpec.ts:294` says the family; with a token rotated before, the session
  stays alive. The revocation of an expired token (`:302`) is undone by the rollback that
  the error after it causes.
- *Client session.* A password login never sets `hichat_jwt_token`, which `Chat.jsx:162-180`
  looks for (`GoogleLoginPage.jsx:123` sets it), so `Chat` and `Login` send each other the
  user; a Google login does not set the store. A wrong password is answered 401 and starts
  a refresh. A late answer to `checkAuth` after a sign-out leaves a name without a token.
- *Presence.* The client sends no `heartbeat`, though `ARCHITECTURE.md:176` says sockets do
  every 30 seconds: the TTL of an idle, connected user runs out (`Lapse` at any time, in
  `Presence`, `Conversation` and `ServerLifecycle`; `Expire` in `MailboxDelivery`).
- *Keys.* Two fetches select the same one-time prekey before either DELETE
  (`SignalKeyRepository.ts:141`).
- *Rooms and view.* Overlapping `switch_room` and `join` leave a socket in two rooms; a
  reconnection never joins again; a received direct message is shown in whatever list is
  on screen, and opening its conversation fetches a list that is always empty; history
  comes newest first while live messages are appended; a rate-limited message is lost
  without a word; a failed fetch empties the list; one's own reactions count twice.
- *Lifecycle.* `server.close()` waits for open websockets that nothing closes, and the pool
  is closed before they end, so that the next query opens a new one (`postgres.ts:900`);
  `PRODUCTION_CHECKLIST.md:94` and `DEPLOYMENT.md:194` promise drained sockets first. A
  second signal, or one during the startup, exits at once or lets the startup go on
  after the timers were stopped. A Redis client that gave up is never made again, and
  the process keeps presence in its own memory in production (`redis.ts:499`), which
  `HealthyRedis` reports as unhealthy but `/health` answers with 200. A roll-back with an
  outdated list drops the columns of 005 with their table while 005 stays recorded, and
  `verifyRequiredTables` asks for tables only.
- *Limits.* `authRateLimiter` and `apiRateLimiter` (`middleware/rateLimit.ts`) are attached to
  no route.

## Proofs

All are checked by TLAPS without further assumptions than the ASSUMEs of the modules,
which say what the constants range over, and hold for any sets of messages, users,
devices, browsers, processes, handler slots, migrations and keys, any limits and any
number of faults, tokens and requests. A few assumptions say a little more: the names of
processes in `ServerLifecycle` are none of the two places of a client without a server
(`Nowhere`) nor the name of the shared store (`Shared`); the migrations a later one stands on are earlier ones (`Needs`); no
channel is named like a conversation of two users (`Conversation`); and the calls, runs,
messages and tokens are finitely many where a module counts them (`Jobs`, `Pages`,
`Sends`, `Calls`, `Tokens`). Each inductive invariant was checked by TLC on the
configuration of its module's run before it was proved.

- `MailboxDeliveryProofs!TypeCorrect`: `Spec => []TypeOK`. The type invariant is
  inductive. Its only deep conjunct is that a handler at a step on a row has a
  row (`JobType`); `LeastIsIn` shows, from the well-foundedness of the naturals,
  that the least of its rows then exists.
- `MailboxDeliveryProofs!CustodyKept`: `Spec => []Custody`. `PurgedOnlyAfterDelivery` is not
  inductive: the step that deletes the row is the commit of an acknowledgement,
  and that step does not look at the client. `Custody` says that whatever claims a
  delivery is right: ids processed by a page (`ClientTrue`), events on their way up
  (`EventsTrue`), handlers of acknowledgements (`AcksTrue`), cached ids
  (`CachesTrue`) and the two tables together (`TablesTrue`). The argument has one
  frame lemma per variable (which actions change it), one step lemma per part, and
  the monotonicity of what the recipient has (`DeliveredGrows`).
- From it: `DeliverySafe` (`PurgedOnlyAfterDelivery`), `DeduplicationTrue`
  (`AlreadyDeliveredIsTrue`), `NothingHidden` (`HiddenOnlyAfterDelivery`) and
  `DeadLettersStay` (`FailedIsNotPending`).

- `MailboxDeliveryProofs!DeliveryImplementsContract`: `Spec => ImplementsContract`, every
  step of the detailed delivery is one of `AtLeastOnceMailbox` or a stutter. Besides
  `Custody` it needs `Held` (`HeldKept`): what a handler dispatches, a device receives or
  the table holds was accepted, although the handler read it some awaits ago.
- `MailboxDeliveryProofs!DeadLettersAreExhausted`: a message that was submitted once at most
  is failed only when its attempts are used up, for any number of submissions of the other
  messages, timers, sweeps and crashes. A sweep fails the rows of a list it read some
  awaits ago, and a handler counts an attempt of a row it read earlier. `Exhaustion` says
  that the list is still right: what a handler has read and will fail has no attempts left,
  and what it dispatches was tried (`JobsCounted`), what a timer runs for was tried
  (`TimersTried`), a failed row has used up its attempts (`FailedAreSpent`), and no handler
  is about to queue, and so to count from zero again, what was accepted (`QueuedOnce`). Where every message is submitted once,
  `DeadLettersOfOneSubmission` is `Spec => []FailedOnlyWhenExhausted`; with `MaxSends = 2` the
  property does not hold (see above), so that hypothesis cannot be dropped.
- `RefreshTokensProofs!InvKept`: `Spec => []Inv`. None of the properties is inductive. `Inv`
  adds that rows hang together (`Linked`: a family was started, a parent is revoked), that
  a request has the id of a row (`Presented`) and, the point of the argument, that a
  rotation about to commit holds a live token that no other rotation holds (`Holding`):
  the row lock. Steps that leave the table alone share one lemma (`RequestStep`), and the
  two that revoke another (`RevocationStep`). From it: `SessionTypesCorrect`,
  `SessionsHaveOneToken` (`OneLivePerFamily`), `TokensAreUsedOnce` (`SingleUse`) and
  `EndedSessionsStayEnded` (`EndedStaysEnded`).

- `PresenceProofs!InvKept`: `Spec => []Inv`. `UndisturbedStaysOnline` looks at a socket that
  has joined; which commands its registration has behind it, and what a cleanup or a
  removal of its account read before, it does not say. `Inv` adds both: `Arrived`, what
  the registration has written when it is at a command, and `Spares`, that a sweep of an
  undisturbed account has found the socket or another device that is alive, and is not at
  a removal. That two such jobs began apart is what the history `disturbed` records
  (`Overlapping(job) \subseteq disturbed`). `NothingImmortal` is inductive with the types of
  the jobs alone. From it: `PresenceTypesCorrect`, `KeysRunOut` (`NothingImmortal`) and
  `DevicesStayOnline` (`UndisturbedStaysOnline`).
- `ServerLifecycleProofs!InvKept`: `Spec => []Inv`. The properties speak of processes that
  listen, and a process listens on the strength of what it read several awaits earlier.
  `Sound` says what it knows at each of them: the versions it did not find pending are
  recorded, the tables it verified are there, the rooms are unless its own INSERTs failed,
  and the store it chose is the one its clients were marked online in, whose keys may have
  run out. A step
  of one process must leave the others sound (`OthersSound`); roll-backs, which need not,
  withdraw the trust that `Migrated` is conditional on. `RootsStay` is what
  `RecordedIsApplied` needs of outdated roll-backs. From it: `LifecycleTypesCorrect`,
  `RecordsAreTrue`, `ServersAreMigrated` and `HealthIsHonest`.
- `ClientSessionProofs!InvKept`: `Spec => []Inv`. Both properties speak of a browser that has
  settled. `TokenHeld` says that until then a cookie that is not live is about to be
  replaced by an answer on its way, and that an answer gives, and a refresh sends, a live
  token; `Accounted` says that a tab with a user and no token waits for `checkAuth`. That
  two calls that move tokens are never under way without being recorded follows from the
  cardinality that `Overlaps` counts (`PostsAreAlone`). From it: `SessionTypesCorrect`,
  `CookieIsLive` (`JarIsLive`) and `UserCanAct` (`SignedInHasToken`).
- `SignalKeysProofs!InvKept`: `Spec => []Inv`. `HandedOutOnce` compares two bundles; the
  invariant says where a key is in between: a key handed out has left the pool (`Taken`), and
  while its DELETE is to come nobody else has it (`TakenAlone`). That no later batch brings
  it back is `Generated`: a batch in the making is a generation that neither the server nor
  any sender has. The other two hold of quiet times only, and so does `Quiet`: what a run
  has put into its browser (`Put`), that a browser with the published signed prekey holds
  all that is on offer (`HeldOrReplaced`), that a bundle is of one batch (`OfOneBatch`), and
  that a browser with a message's signed prekey can open it or has used its key for
  another (`Opens`). From it: `KeyTypesCorrect`, `KeysGoToOne` (`HandedOutOnce`),
  `ServerKeysAreHeld` (`PublishedIsHeld`) and `FailuresAreExplained`
  (`FailureIsExplained`).
- `ConversationProofs!InvKept`: `Spec => []Inv`, with `Inv` from `ConversationInvariant`. The properties speak of what a browser
  shows in the end; none is inductive. `Located` follows a switch from the browser through the buffer, the
  event, the handler and its awaits to the room the socket is in: unless `torn` or `deaf`,
  whatever is under way leads to the channel the browser shows, with a hash that names the
  room the socket is in or is gone; and unless `astray`, out of every other one. `Awaits` says at which stage
  a live message is that a browser may count on: to be cast, on its way down, being
  decrypted or in the list, at one of them and there once; `Single` that a channel
  message is encrypted, sent and inserted once. `Showing` ties requests, encryptions and
  decryptions in progress to the room shown unless `blurred`, and `Reading` says of each
  thing that carries a read receipt, up or down, that the recipient opened the conversation
  with the message in its list. From it: `ConversationTypeOK`, `BrowserHearsItsRoom`
  (`HearsItsRoom`), `MessageSeenOnce` (`SeenOnce`), `ListShowsItsRoom` (`ShowsItsRoom`) and
  `ReadWasOpened` (`ReadMeansOpened`).
- `MemoryDatabaseProofs!InvKept`: `Spec => []Inv`. Rolling back restores a snapshot, so the
  snapshots on the stack have to meet the schema as the store does (`Sound`), there have to
  be as many as calls are open, and a refused refresh, the one call that rolls back, has to
  run alone (`RefusesAlone`). That serial numbers suffice is a count of the calls that still
  take one (`RoomLeft`). From it: `MemoryTypeOK`, `MemoryKeysUnique` (`KeysAreUnique`) and
  `SnapshotsOpen` (`SnapshotsAreOpen`).
- `MemoryDatabaseProofs!MemoryImplementsRepository`: `Spec => []ImplementsRepository`. The
  property compares tables between calls; `Faithful` (`FaithfulKept`) says what they hold in
  between: the row and the record of a message whose call has executed so many statements
  are what these make of the promised ones (`InProgress`), those of every other message are
  what was promised (`Settled`). `EffectWrites` says which row or record each statement
  writes and `Frame` that it leaves the others alone, which for the statements that name a
  mailbox id needs that an id a caller was told belongs to one message (`Told`). A rollback
  takes back one token's row and no more (`Undoable`).

Only model-checked: `EventuallyResolved`, `ClosedUsersGoOffline`, `CallsSettle` and
`StopsInTheEnd`, because liveness is out of the prover's reach; and
`SelectsWhatSqlSelects`, because what filtering and sorting a sequence of any length
yields takes induction over it, which is out of reach too. All other properties of the
passing runs are theorems.

## Plan

Every safety property that the passing runs check is a theorem but
`SelectsWhatSqlSelects`. What is left:

1. Delivery to several devices of one account, and replays longer than a page, on
   instances that TLC finishes; the theorems cover both for safety, not
   `EventuallyResolved`.
2. The row locks of the mailbox's transactions, where `Abort` stands for a deadlock now.
3. A run of `Conversation` with two channels and one user (see `Outruns`) beside the one
   with two users.

## Not modelled

- Row locks between the transactions of the mailbox: that `acknowledgeMessage` and
  `markFailed` lock their tables in opposite orders ends in an aborted transaction, which
  is the fault `Abort`.
- HTTP rate limiters (`middleware/security.ts`): one counter with a window per key.
- Several devices of one account in delivery, and a replay longer than its page: three
  messages or two devices with two handlers are beyond what TLC finishes here. The
  theorems cover both for safety.
- Cryptographic arithmetic, the check of an inbound identity, user interface, REST
  plumbing and schemas, logging, API documentation: no state that two actors share.
