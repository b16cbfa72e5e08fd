--------------------------- MODULE ServerLifecycle ---------------------------
(***************************************************************************)
(* The life of the server processes: hichat-server/server.ts starts one by *)
(* migrating the database they share (db/migrator.ts), connecting Redis    *)
(* (db/redis.ts) and the Socket.IO adapter (socket/socketAdapter.ts), and  *)
(* stops it on a signal while its startup, its clients, the other servers  *)
(* and a rollback from the command line go on.                             *)
(***************************************************************************)
EXTENDS Naturals, FiniteSetsExt

CONSTANTS
    Servers,
    Clients,      \* connections; each is made once
    LastVersion,  \* migrations are 1 .. LastVersion
    Columns,      \* those that only add columns; the others create tables
    Needs,        \* the migrations whose tables a migration refers to
    Modes,        \* is config.isProduction?
    Runs,         \* runs 1 .. n of the shutdown handler in a process: one per signal
    MaxStarts,
    MaxEvents     \* signals, rollbacks, failed INSERTs, failed or killed processes,
                  \* losses of Redis, keys that run out

Versions == 1 .. LastVersion
Tables == Versions \ Columns

Shared == "redis"
Nowhere == {"new", "gone"}

ASSUME LifecycleAssumption ==
    /\ Servers \cap (Nowhere \cup {Shared}) = {}
    /\ LastVersion \in Nat \ {0} /\ Columns \subseteq Versions
    /\ Needs \in [Versions -> SUBSET Tables]
    /\ \A v \in Versions : \A w \in Needs[v] : w < v
    /\ Modes \subseteq BOOLEAN /\ Runs \subseteq Nat
    /\ {MaxStarts, MaxEvents} \subseteq Nat

VARIABLES
    production,
    schema,     \* migrations whose tables or columns the database has
    executed,   \* the rows of schema_migrations
    seeded,     \* the default rooms are in rooms
    server,     \* state of each process
    rollback,   \* what the rollback in progress still has to take back
    redisUp,
    at,         \* the process each client is connected to
    seen,       \* the stores that hold the keys of each client's presence
    lapsed,     \* history: the stores where they ran out, and were not written since
    starts, events,
    outdated    \* history: a rollback took back what a later migration stood on

vars == <<production, schema, executed, seeded, server, rollback, redisUp, at, seen,
          lapsed, starts, events, outdated>>

database == <<schema, executed, seeded>>
counters == <<starts, events>>
presence == <<at, seen, lapsed>>

(* boot: the step the startup awaits.  todo, txn, fresh: the migrations it *)
(* found pending, the one whose transaction is open (0: none), and whether *)
(* CREATE TABLE IF NOT EXISTS found nothing.  client: the connection behind*)
(* the proxy `redis`; it is lost when its retries are exhausted.  stop: the*)
(* step each run of shutdown awaits.  trust is history: what a rollback    *)
(* since the listing, or since the tables were verified, leaves true; so is*)
(* bare: an INSERT of its seeds failed.                                    *)
BootSteps == {"off", "migrating", "seeding", "redis", "adapter", "up"}
StopSteps == {"none", "adapter", "redis", "pool", "draining", "close", "closing"}

Process == [boot : BootSteps, todo : SUBSET Versions, txn : Versions \cup {0},
            fresh : BOOLEAN, trust : {"all", "tables", "nothing"},
            client : {"none", "open", "lost"}, fallback : BOOLEAN, connected : BOOLEAN,
            bus : {"none", "open", "lost"}, timers : BOOLEAN, listening : BOOLEAN,
            bare : BOOLEAN,
            stop : [Runs -> StopSteps]]

Off == [boot |-> "off", todo |-> {}, txn |-> 0, fresh |-> FALSE, trust |-> "all",
        client |-> "none", fallback |-> FALSE, connected |-> FALSE, bus |-> "none",
        timers |-> FALSE, listening |-> FALSE, bare |-> FALSE,
        stop |-> [r \in Runs |-> "none"]]

Stopping(p) == \E r \in Runs : server[p].stop[r] # "none"

\* the store the proxy `redis` of process p delegates to
Store(p) ==
    IF server[p].fallback \/ server[p].client # "open" THEN p ELSE Shared

\* A command to Redis is queued while the client reconnects.
Answers(store) == store = Shared => redisUp

\* mutant: the client is not asked whether it is open
HealthyByFlag(p) == server[p].connected

\* healthCheckRedis().healthy
HealthyRedis(p) ==
    /\ server[p].connected
    /\ \/ server[p].fallback
       \/ server[p].client = "none"
       \/ server[p].client = "open" /\ redisUp

Init == /\ production \in Modes
        /\ schema = {} /\ executed = {} /\ seeded = FALSE
        /\ server = [p \in Servers |-> Off]
        /\ rollback = {}
        /\ redisUp = TRUE
        /\ at = [c \in Clients |-> "new"]
        /\ seen = [c \in Clients |-> {}] /\ lapsed = [c \in Clients |-> {}]
        /\ starts = 0 /\ events = 0
        /\ outdated = FALSE

-----------------------------------------------------------------------------
(* process.exit, or the end by a signal that cannot be caught: connections *)
(* break, an open transaction is rolled back and no handler runs.          *)

Exit(p) ==
    /\ server' = [server EXCEPT ![p] = Off]
    /\ at' = [c \in Clients |-> IF at[c] = p THEN "gone" ELSE at[c]]
    /\ seen' = [c \in Clients |-> seen[c] \ {p}]
    /\ lapsed' = [c \in Clients |-> IF at[c] = p THEN {} ELSE lapsed[c]]

\* Something that need not happen, within the bound.
Event == events < MaxEvents /\ events' = events + 1 /\ UNCHANGED starts

Become(p, s) == server' = [server EXCEPT ![p] = s] /\ UNCHANGED presence

\* Killed, or a command of the startup failed.
Crash(p) ==
    /\ server[p].boot # "off"
    /\ Event
    /\ Exit(p)
    /\ UNCHANGED <<production, database, rollback, redisUp, outdated>>

-----------------------------------------------------------------------------
(* initDb and runPendingMigrations.                                        *)

\* mutant: the versions are counted from the wrong end
PendingFromTwo == (2 .. LastVersion + 1) \ executed

\* mutant: the newest migration is overlooked
PendingButLast == (Versions \ {LastVersion}) \ executed

Pending == Versions \ executed

\* connect, and the list that runPendingMigrations works from
Start(p) ==
    /\ server[p].boot = "off"
    /\ starts < MaxStarts
    /\ starts' = starts + 1
    /\ Become(p, [Off EXCEPT !.boot = "migrating", !.todo = Pending])
    /\ UNCHANGED <<production, database, rollback, redisUp, events, outdated>>

BootStep(p, label) ==
    /\ server[p].boot = label
    /\ UNCHANGED <<production, rollback, redisUp, counters, outdated>>

BeginMigration(p) ==
    /\ BootStep(p, "migrating")
    /\ server[p].todo # {} /\ server[p].txn = 0
    /\ LET m == Min(server[p].todo)
       IN Become(p, [server[p] EXCEPT !.txn = m, !.fresh = m \notin schema])
    /\ UNCHANGED database

\* The promise of pool.end() resolves when the client checked out is released.
Drained(stop) == [r \in Runs |-> IF stop[r] = "draining" THEN "close" ELSE stop[r]]

(* up(m) succeeds when the tables it refers to exist and the ones it makes *)
(* came neither into being nor to an end since it looked: two transactions *)
(* that create the same table wait for each other, and the second fails.   *)
Applies(p, m) ==
    /\ Needs[m] \subseteq schema
    /\ m \in Columns \/ server[p].fresh = (m \notin schema)

Up(m) == schema \cup {m}

\* a failed migration ends the startup, and the process
FinishMigration(p) ==
    LET m == server[p].txn
    IN /\ BootStep(p, "migrating")
       /\ m # 0
       /\ IF Applies(p, m)
          THEN /\ schema' = Up(m) /\ executed' = executed \cup {m}
               /\ Become(p, [server[p] EXCEPT !.txn = 0, !.fresh = FALSE, !.todo = @ \ {m},
                                !.stop = Drained(@)])
          ELSE Exit(p) /\ UNCHANGED <<schema, executed>>
       /\ UNCHANGED seeded

\* verifyRequiredTables asks for tables, not for their columns.
VerifyTables(p) ==
    /\ BootStep(p, "migrating")
    /\ server[p].todo = {}
    /\ IF Tables \subseteq schema
       THEN Become(p, [server[p] EXCEPT !.boot = "seeding"])
       ELSE Exit(p)
    /\ UNCHANGED database

\* Production is not seeded; elsewhere a table that is not there is passed over.
RunSeeds(p) ==
    /\ BootStep(p, "seeding")
    /\ seeded' = (seeded \/ (~production /\ 1 \in schema))
    /\ Become(p, [server[p] EXCEPT !.boot = "redis"])
    /\ UNCHANGED <<schema, executed>>

\* catch (_) {}: the INSERT of a room fails, and the startup goes on without the room.
SeedsFail(p) ==
    /\ server[p].boot = "seeding" /\ ~production
    /\ Event
    /\ Become(p, [server[p] EXCEPT !.boot = "redis", !.bare = TRUE])
    /\ UNCHANGED <<production, database, rollback, redisUp, outdated>>

-----------------------------------------------------------------------------
(* Redis and the adapter.                                                  *)

\* connectRedis, when Redis answers the PING within five retries
ConnectRedis(p) ==
    /\ BootStep(p, "redis")
    /\ redisUp
    /\ Become(p, [server[p] EXCEPT !.boot = "adapter", !.client = "open",
                     !.fallback = FALSE, !.connected = TRUE])
    /\ UNCHANGED database

\* and when it does not
MissRedis(p) ==
    /\ BootStep(p, "redis")
    /\ ~redisUp
    /\ IF production
       THEN Exit(p)
       ELSE Become(p, [server[p] EXCEPT !.boot = "adapter", !.client = "lost",
                          !.fallback = TRUE, !.connected = TRUE])
    /\ UNCHANGED database

\* startSocketSchedulers and listen follow without an await.
Listening(p, bus) ==
    [server[p] EXCEPT !.boot = "up", !.bus = bus, !.timers = TRUE, !.listening = TRUE]

(* setupRedisAdapter.  Its clients come from createRedisClientInstance too,*)
(* whose "ready" handler sets the flags of the store.                      *)
SetupAdapter(p) ==
    /\ BootStep(p, "adapter")
    /\ IF server[p].fallback
       THEN Become(p, Listening(p, "none"))
       ELSE IF redisUp
       THEN Become(p, [Listening(p, "open") EXCEPT !.connected = TRUE])
       ELSE IF production THEN Exit(p) ELSE Become(p, Listening(p, "none"))
    /\ UNCHANGED database

-----------------------------------------------------------------------------
(* Redis goes and comes back.  A client that exhausts its retries closes,  *)
(* and nothing opens another; pub and sub share the fate of their node.    *)

RedisGoes ==
    /\ redisUp /\ Event
    /\ redisUp' = FALSE
    /\ UNCHANGED <<production, database, server, rollback, presence, outdated>>

RedisReturns ==
    /\ ~redisUp
    /\ redisUp' = TRUE
    /\ UNCHANGED <<production, database, server, rollback, presence, counters, outdated>>

\* mutant: reconnectStrategy never returns an Error
RetriesForEver(p) == FALSE /\ UNCHANGED vars

GiveUp(p) ==
    /\ ~redisUp
    /\ \/ /\ server[p].client = "open"
          /\ Become(p, [server[p] EXCEPT !.client = "lost"])
       \/ /\ server[p].bus = "open"
          /\ Become(p, [server[p] EXCEPT !.bus = "lost"])
    /\ UNCHANGED <<production, database, rollback, redisUp, counters, outdated>>

-----------------------------------------------------------------------------
(* Clients.  join and switch_room mark the client online, a disconnect     *)
(* marks it offline, each in the store the proxy has at that time.         *)

MarkOnline(c, p) ==
    /\ Answers(Store(p))
    /\ seen' = [seen EXCEPT ![c] = @ \cup {Store(p)}]
    /\ lapsed' = [lapsed EXCEPT ![c] = @ \ {Store(p)}]
    /\ UNCHANGED <<production, database, server, rollback, redisUp, counters, outdated>>

Join(c, p) ==
    /\ at[c] = "new" /\ server[p].listening
    /\ at' = [at EXCEPT ![c] = p]
    /\ MarkOnline(c, p)

SwitchRoom(c, p) ==
    /\ at[c] = p
    /\ MarkOnline(c, p)
    /\ UNCHANGED at

Leave(c, p) ==
    /\ at[c] = p
    /\ at' = [at EXCEPT ![c] = "gone"]
    /\ seen' = IF Answers(Store(p)) THEN [seen EXCEPT ![c] = @ \ {Store(p)}] ELSE seen
    /\ lapsed' = [lapsed EXCEPT ![c] = {}]
    /\ UNCHANGED <<production, database, server, rollback, redisUp, counters, outdated>>

\* The keys live 60 s, in Redis as in the map that stands for it: only a heartbeat would
\* extend them, and the browser sends none.
Lapse(c, store) ==
    /\ store \in seen[c] /\ Event
    /\ seen' = [seen EXCEPT ![c] = @ \ {store}]
    /\ lapsed' = [lapsed EXCEPT ![c] = @ \cup {store}]
    /\ UNCHANGED <<production, database, server, rollback, redisUp, at, outdated>>

-----------------------------------------------------------------------------
(* shutdown: one run for SIGTERM and one for SIGINT, at any time.          *)

StopStep(p, r, label) ==
    /\ server[p].stop[r] = label
    /\ UNCHANGED <<production, database, rollback, redisUp, counters, outdated>>

Reach(p, r, label) == [server[p] EXCEPT !.stop[r] = label]

\* stopSocketSchedulers
Signal(p, r) ==
    /\ server[p].boot # "off" /\ Event
    /\ server[p].stop[r] = "none"
    /\ \A q \in Runs : q < r => server[p].stop[q] # "none"
    /\ Become(p, [Reach(p, r, "adapter") EXCEPT !.timers = FALSE])
    /\ UNCHANGED <<production, database, rollback, redisUp, outdated>>

\* QUIT waits for Redis, or for the client to give up.
CloseAdapter(p, r) ==
    /\ StopStep(p, r, "adapter")
    /\ server[p].bus = "open" => redisUp
    /\ Become(p, [Reach(p, r, "redis") EXCEPT !.bus = "none"])

DisconnectRedis(p, r) ==
    /\ StopStep(p, r, "redis")
    /\ server[p].client = "open" => redisUp
    /\ Become(p, [Reach(p, r, "pool") EXCEPT !.client = "none", !.fallback = FALSE,
                     !.connected = FALSE])

(* pool.end() waits for the transaction of the startup; a second call for  *)
(* the same pool throws, which is caught.  What the startup queries next   *)
(* opens a new pool.                                                       *)
EndPool(p, r) ==
    /\ StopStep(p, r, "pool")
    /\ IF server[p].txn = 0 \/ \E q \in Runs : server[p].stop[q] = "draining"
       THEN Become(p, Reach(p, r, "close"))
       ELSE Become(p, Reach(p, r, "draining"))

(* server.close() of a server that does not listen, because it is starting *)
(* or closing, calls back at once with an error, and the callback exits.   *)
CloseServer(p, r) ==
    /\ StopStep(p, r, "close")
    /\ IF server[p].listening
       THEN Become(p, [Reach(p, r, "closing") EXCEPT !.listening = FALSE])
       ELSE Exit(p)

\* its connections are left to end by themselves
ServerClosed(p, r) ==
    /\ StopStep(p, r, "closing")
    /\ \A c \in Clients : at[c] # p
    /\ Exit(p)

-----------------------------------------------------------------------------
(* migrator.ts down: rollbackLastMigration and rollbackToVersion list what *)
(* is recorded once, then take it back newest first.                       *)

RollbackLast ==
    /\ executed # {}
    /\ rollback' = {Max(executed)}

RollbackTo(target) == rollback' = {v \in executed : v > target}

ListRollback ==
    /\ rollback = {} /\ Event
    /\ RollbackLast \/ \E target \in 0 .. LastVersion : RollbackTo(target)
    /\ UNCHANGED <<production, database, server, redisUp, presence, outdated>>

\* A table that a foreign key of another refers to cannot be dropped.
Droppable(m) == \A v \in schema \ Columns : m \notin Needs[v]

\* down of a migration that adds columns drops an index and no column
Without(m) ==
    IF m \in Columns THEN schema
    ELSE {v \in schema : v # m /\ ~(v \in Columns /\ m \in Needs[v])}

\* mutant: the row of schema_migrations stays
RowKept(m) == executed

RowDeleted(m) == executed \ {m}

Doubted(s) ==
    CASE s.boot = "off" -> s
      [] s.boot = "migrating" -> [s EXCEPT !.trust = "tables"]
      [] OTHER -> [s EXCEPT !.trust = "nothing"]

RollBack ==
    /\ rollback # {}
    /\ LET m == Max(rollback)
       IN IF Droppable(m)
          THEN /\ schema' = Without(m)
               /\ executed' = RowDeleted(m)
               /\ seeded' = (seeded /\ m # 1)
               /\ rollback' = rollback \ {m}
               /\ server' = [p \in Servers |-> Doubted(server[p])]
               /\ outdated' = (outdated \/ \E v \in executed : v > m)
          ELSE rollback' = {} /\ UNCHANGED <<database, server, outdated>>
    /\ UNCHANGED <<production, redisUp, presence, counters>>

-----------------------------------------------------------------------------
Boot(p) == \/ BeginMigration(p) \/ FinishMigration(p)
           \/ VerifyTables(p) \/ RunSeeds(p) \/ ConnectRedis(p) \/ MissRedis(p)
           \/ SetupAdapter(p)

Stop(p) == \E r \in Runs : \/ CloseAdapter(p, r) \/ DisconnectRedis(p, r) \/ EndPool(p, r)
                           \/ CloseServer(p, r) \/ ServerClosed(p, r)

Next == \/ \E p \in Servers : \/ Start(p) \/ Boot(p) \/ SeedsFail(p) \/ Stop(p)
                              \/ Crash(p) \/ GiveUp(p)
                              \/ \E r \in Runs : Signal(p, r)
                              \/ \E c \in Clients : Join(c, p) \/ SwitchRoom(c, p) \/ Leave(c, p)
        \/ \E c \in Clients : \E store \in seen[c] : Lapse(c, store)
        \/ RedisGoes \/ RedisReturns \/ ListRollback \/ RollBack

\* What a process awaits goes on, retries come to an end, clients leave.
Spec == /\ Init /\ [][Next]_vars
        /\ \A p \in Servers : WF_vars(Boot(p) \/ Stop(p) \/ GiveUp(p))
        /\ \A c \in Clients : WF_vars(\E p \in Servers : Leave(c, p))

-----------------------------------------------------------------------------
TypeOK ==
    /\ production \in Modes
    /\ schema \subseteq Versions /\ executed \subseteq Versions /\ seeded \in BOOLEAN
    /\ server \in [Servers -> Process]
    /\ rollback \subseteq Versions /\ redisUp \in BOOLEAN
    /\ at \in [Clients -> Servers \cup Nowhere]
    /\ seen \in [Clients -> SUBSET (Servers \cup {Shared})]
    /\ lapsed \in [Clients -> SUBSET (Servers \cup {Shared})]
    /\ starts \in 0 .. MaxStarts /\ events \in 0 .. MaxEvents /\ outdated \in BOOLEAN

(* What schema_migrations records is there, whichever processes migrate at *)
(* the same time, are killed or rolled back: runPendingMigrations skips it *)
(* for good.  Except after a rollback that listed the versions before a    *)
(* later one was applied.                                                  *)
RecordedIsApplied == outdated \/ executed \subseteq schema

(* A process that is up has the whole schema, and outside production the   *)
(* rooms if its INSERTs went through, although it migrated next to others, *)
(* as long as nobody rolls it back; a rollback before the verification can *)
(* cost it columns, and only a later one tables.                           *)
ServingIsMigrated ==
    \A p \in Servers : server[p].listening =>
        /\ server[p].trust # "nothing" => Tables \subseteq schema
        /\ server[p].trust = "all" /\ ~outdated => Versions \subseteq schema
        /\ server[p].trust = "all" /\ ~production /\ ~server[p].bare => seeded

(* What /health reports of Redis in its body (its status is 200 whatever   *)
(* that is) is not said of a roster of its own: unless it is being stopped,*)
(* a process that reports Redis healthy reads its clients' presence where  *)
(* it was written last, and finds it unless it ran out; in production that *)
(* is the store that all the others read.                                  *)
HealthyKnowsItsClients ==
    \A p \in Servers : server[p].listening /\ ~Stopping(p) /\ HealthyRedis(p) =>
        /\ production => Store(p) = Shared
        /\ \A c \in Clients : at[c] = p => Store(p) \in seen[c] \cup lapsed[c]

(* A process that was told to stop ends, whatever step of the startup the  *)
(* signal met, with Redis there or not and with a second signal or without:*)
(* no step of shutdown waits for good once the clients leave.              *)
StopsInTheEnd == \A p \in Servers : Stopping(p) ~> server[p].boot = "off"

-----------------------------------------------------------------------------
(* What a log line says and the code does not do.                          *)

(* "Development database seeded with 6 default rooms.": printed whatever   *)
(* failed, before the process goes on to listen.                           *)
ServingIsSeeded ==
    \A p \in Servers :
        server[p].listening /\ server[p].trust = "all" /\ ~production => seeded
=============================================================================
