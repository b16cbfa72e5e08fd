----------------------- MODULE ServerLifecycleProofs -----------------------
(***************************************************************************)
(* The safety of ServerLifecycle for any processes, clients and migrations.*)
(*                                                                         *)
(* The properties speak of processes that listen.  What carries them is    *)
(* what a process knows before that, at each await of its startup (Sound): *)
(* what it did not find pending is recorded, what it verified is there,    *)
(* the rooms too unless one of its INSERTs failed, and the store it has    *)
(* chosen holds its clients' presence, or has let it run out.              *)
(***************************************************************************)
EXTENDS ServerLifecycle, WellFoundedInduction, TLAPS

\* What is recorded and stands on no other migration, or makes tables, is there even if
\* a roll-back was outdated: it goes with its own row only.
RootsStay ==
    \A v \in executed : v \in Tables \/ Needs[v] = {} => v \in schema

Verified == {"seeding", "redis", "adapter", "up"}

\* What the migrator of process p relies on.
Migrated(p) ==
    LET s == server[p] IN
    /\ s.boot # "off" /\ s.trust = "all" => Versions \ s.todo \subseteq executed
    /\ s.boot \in Verified => s.todo = {}
    /\ s.boot \in Verified /\ s.trust # "nothing" => Tables \subseteq schema
    /\ s.boot \in Verified \ {"seeding"} /\ s.trust = "all" /\ ~production /\ ~s.bare => seeded

\* What its clients rely on: unless it is being stopped it has chosen a store, and as
\* long as that store is there, what was written of them last was written to it.
Chosen(p) ==
    LET s == server[p] IN
    \/ s.fallback /\ s.client = "lost" /\ ~production
    \/ ~s.fallback /\ s.client \in {"open", "lost"}

Hosting(p) ==
    LET s == server[p] IN
    /\ s.listening => s.boot = "up"
    /\ s.boot \in {"adapter", "up"} /\ ~Stopping(p) => Chosen(p)
    /\ \A c \in Clients : at[c] = p =>
         /\ s.boot = "up"
         /\ ~Stopping(p) =>
              /\ s.fallback => p \in seen[c] \cup lapsed[c]
              /\ ~s.fallback /\ s.client = "open" => Shared \in seen[c] \cup lapsed[c]

Sound(p) == Migrated(p) /\ Hosting(p)

Inv == /\ TypeOK
       /\ RecordedIsApplied /\ RootsStay
       /\ \A p \in Servers : Sound(p)

-----------------------------------------------------------------------------
(* The first and the last of a set of migrations are in it.                *)

LEMMA LessIsWellFounded == IsWellFoundedOn({p \in Nat \X Nat : p[1] < p[2]}, Nat)
  BY NatLessThanWellFounded DEF OpToRel

LEMMA LeastExists ==
  ASSUME NEW S \in SUBSET Nat, S # {}
  PROVE  \E x \in S : \A y \in S : x <= y
<1>. DEFINE R == {p \in Nat \X Nat : p[1] < p[2]}
<1>1. PICK x \in S : \A y \in S : <<y, x>> \notin R
  <2>1. IsWellFoundedOn(R, Nat)
    BY LessIsWellFounded
  <2>. HIDE DEF R
  <2>. QED  BY <2>1, WFMin
<1>2. ASSUME NEW y \in S, y < x
      PROVE  FALSE
  <2>1. <<y, x>> \in Nat \X Nat /\ <<y, x>>[1] = y /\ <<y, x>>[2] = x
    OBVIOUS
  <2>2. <<y, x>> \in R
    BY <2>1, <1>2
  <2>. QED  BY <1>1, <2>2
<1>. QED  BY <1>2

LEMMA MinIsIn ==
  ASSUME NEW S \in SUBSET Versions, S # {}
  PROVE  Min(S) \in S
<1>1. S \in SUBSET Nat
  BY LifecycleAssumption DEF Versions
<1>. QED  BY <1>1, LeastExists DEF Min

LEMMA MaxIsIn ==
  ASSUME NEW S \in SUBSET Versions, S # {}
  PROVE  Max(S) \in S
<1>. DEFINE N == LastVersion
            T == {N - x : x \in S}
<1>1. \A x \in S : x \in Nat /\ x <= N /\ N - x \in Nat
  BY LifecycleAssumption DEF Versions
<1>2. T \in SUBSET Nat /\ T # {} /\ \A x \in S : N - x \in T
  BY <1>1
<1>3. PICK t \in T : \A y \in T : t <= y
  BY <1>2, LeastExists
<1>4. PICK x \in S : t = N - x
  OBVIOUS
<1>5. \A y \in S : x >= y
  <2>. TAKE y \in S
  <2>1. N - x <= N - y
    BY <1>2, <1>3, <1>4
  <2>. QED  BY <1>1, <2>1, LifecycleAssumption
<1>. QED  BY <1>5 DEF Max

-----------------------------------------------------------------------------
LEMMA InitInv == Init => Inv
<1>. SUFFICES ASSUME Init PROVE Inv
  OBVIOUS
<1>1. Off \in Process
  BY LifecycleAssumption DEF Off, Process, BootSteps, StopSteps
<1>2. TypeOK
  <2>1. 0 \in 0 .. MaxStarts /\ 0 \in 0 .. MaxEvents
    BY LifecycleAssumption
  <2>2. server \in [Servers -> Process]
    BY <1>1 DEF Init
  <2>3. at \in [Clients -> Servers \cup Nowhere]
    BY DEF Init, Nowhere
  <2>. QED  BY <2>1, <2>2, <2>3 DEF Init, TypeOK
<1>3. ASSUME NEW p \in Servers
      PROVE  Sound(p)
  <2>1. server[p] = Off /\ \A c \in Clients : at[c] # p
    BY LifecycleAssumption DEF Init, Nowhere
  <2>. QED  BY <2>1 DEF Sound, Migrated, Hosting, Verified, Off
<1>4. RecordedIsApplied /\ RootsStay
  BY DEF Init, RecordedIsApplied, RootsStay
<1>. QED  BY <1>2, <1>3, <1>4 DEF Inv

\* A step of one process leaves the others sound, if it takes nothing from the database
\* and from the clients of the others.
LEMMA OthersSound ==
  ASSUME Inv, NEW p \in Servers, NEW q \in Servers, q # p,
         server'[q] = server[q], production' = production,
         schema \subseteq schema', executed \subseteq executed', seeded => seeded',
         \A c \in Clients : at'[c] = q =>
           at[c] = q /\ (seen[c] \cup lapsed[c]) \ {p} \subseteq seen'[c] \cup lapsed'[c]
  PROVE  Sound(q)'
<1>. Shared # p
  BY LifecycleAssumption
<1>1. Sound(q) /\ server[q] \in Process
  BY DEF Inv, TypeOK
<1>2. Migrated(q)'
  BY <1>1 DEF Sound, Migrated
<1>3. Hosting(q)'
  BY <1>1 DEF Sound, Hosting, Chosen, Stopping
<1>. QED  BY <1>2, <1>3 DEF Sound

\* A step that changes the state of one process only.
LEMMA BecomeStep ==
  ASSUME Inv, NEW p \in Servers, NEW s \in Process, Become(p, s),
         UNCHANGED <<production, database, rollback, redisUp, outdated>>,
         starts' \in 0 .. MaxStarts, events' \in 0 .. MaxEvents, Sound(p)'
  PROVE  Inv'
<1>1. TypeOK'
  BY DEF Inv, TypeOK, Become, presence, database
<1>2. (RecordedIsApplied /\ RootsStay)'
  BY DEF Inv, RecordedIsApplied, RootsStay, database
<1>3. ASSUME NEW q \in Servers, q # p
      PROVE  Sound(q)'
  <2>1. server'[q] = server[q]
    BY <1>3 DEF Become, Inv, TypeOK
  <2>. QED  BY <1>3, <2>1, OthersSound DEF Become, presence, database
<1>. QED  BY <1>1, <1>2, <1>3 DEF Inv

\* The end of a process.
LEMMA ExitStep ==
  ASSUME Inv, NEW p \in Servers, Exit(p),
         UNCHANGED <<production, database, rollback, redisUp, outdated>>,
         starts' \in 0 .. MaxStarts, events' \in 0 .. MaxEvents
  PROVE  Inv'
<1>. p \notin Nowhere /\ Shared # p
  BY LifecycleAssumption
<1>1. Off \in Process
  BY LifecycleAssumption DEF Off, Process, BootSteps, StopSteps
<1>2. TypeOK'
  BY <1>1 DEF Inv, TypeOK, Exit, database, Nowhere
<1>3. (RecordedIsApplied /\ RootsStay)'
  BY DEF Inv, RecordedIsApplied, RootsStay, database
<1>4. Sound(p)'
  <2>1. server'[p] = Off
    BY DEF Exit, Inv, TypeOK
  <2>2. \A c \in Clients : at'[c] # p
    BY DEF Exit, Nowhere
  <2>. QED  BY <2>1, <2>2 DEF Sound, Migrated, Hosting, Verified, Off
<1>5. ASSUME NEW q \in Servers, q # p
      PROVE  Sound(q)'
  <2>1. server'[q] = server[q]
    BY <1>5 DEF Exit, Inv, TypeOK
  <2>2. \A c \in Clients : at'[c] = q =>
           at[c] = q /\ (seen[c] \cup lapsed[c]) \ {p} \subseteq seen'[c] \cup lapsed'[c]
    <3>1. q \notin Nowhere
      BY LifecycleAssumption
    <3>. QED  BY <1>5, <3>1 DEF Exit, Nowhere
  <2>. QED  BY <1>5, <2>1, <2>2, OthersSound DEF database
<1>. QED  BY <1>2, <1>3, <1>4, <1>5 DEF Inv

-----------------------------------------------------------------------------
(* The startup.                                                            *)

LEMMA StartStep ==
  ASSUME Inv, NEW p \in Servers, Start(p)
  PROVE  Inv'
<1>. DEFINE s == [Off EXCEPT !.boot = "migrating", !.todo = Pending]
<1>1. s \in Process
  BY LifecycleAssumption DEF Off, Process, BootSteps, StopSteps, Pending
<1>2. Become(p, s) /\ server'[p] = s
  BY DEF Start, Become, Inv, TypeOK
<1>3. Sound(p)'
  <2>1. Migrated(p)'
    BY <1>2 DEF Start, Migrated, Verified, Off, Pending, database
  <2>2. \A c \in Clients : at'[c] # p
    BY <1>2 DEF Start, Inv, Sound, Hosting, Become, presence
  <2>3. Hosting(p)'
    BY <1>2, <2>2 DEF Hosting, Off
  <2>. QED  BY <2>1, <2>3 DEF Sound
<1>4. starts' \in 0 .. MaxStarts /\ events' \in 0 .. MaxEvents
  BY LifecycleAssumption DEF Start, Inv, TypeOK
<1>. QED  BY <1>1, <1>2, <1>3, <1>4, BecomeStep DEF Start

LEMMA BeginMigrationStep ==
  ASSUME Inv, NEW p \in Servers, BeginMigration(p)
  PROVE  Inv'
<1>. DEFINE m == Min(server[p].todo)
            s == [server[p] EXCEPT !.txn = m, !.fresh = m \notin schema]
<1>1. server[p] \in Process /\ Sound(p)
  BY DEF Inv, TypeOK
<1>2. m \in Versions
  BY <1>1, MinIsIn DEF BeginMigration, Process
<1>3. s \in Process
  BY <1>1, <1>2 DEF Process
<1>4. Become(p, s) /\ server'[p] = s
  BY DEF BeginMigration, Become, Inv, TypeOK
<1>5. Sound(p)'
  BY <1>1, <1>4 DEF BeginMigration, BootStep, Sound, Migrated, Hosting, Verified, Chosen,
     Stopping, Become, presence, database, Process
<1>6. starts' \in 0 .. MaxStarts /\ events' \in 0 .. MaxEvents
  BY DEF BeginMigration, BootStep, counters, Inv, TypeOK
<1>. HIDE DEF s
<1>. QED  BY <1>3, <1>4, <1>5, <1>6, BecomeStep DEF BeginMigration, BootStep

LEMMA FinishMigrationStep ==
  ASSUME Inv, NEW p \in Servers, FinishMigration(p)
  PROVE  Inv'
<1>. DEFINE m == server[p].txn
            s == [server[p] EXCEPT !.txn = 0, !.fresh = FALSE, !.todo = @ \ {m},
                                   !.stop = Drained(@)]
<1>1. server[p] \in Process /\ Sound(p)
  BY DEF Inv, TypeOK
<1>2. m \in Versions
  BY <1>1 DEF FinishMigration, Process
<1>3. starts' \in 0 .. MaxStarts /\ events' \in 0 .. MaxEvents
  BY DEF FinishMigration, BootStep, counters, Inv, TypeOK
<1>4. CASE ~Applies(p, m)
  <2>1. Exit(p) /\ UNCHANGED <<production, database, rollback, redisUp, outdated>>
    BY <1>4 DEF FinishMigration, BootStep, database
  <2>. QED  BY <1>3, <2>1, ExitStep
<1>5. CASE Applies(p, m)
  <2>1. /\ server' = [server EXCEPT ![p] = s] /\ server'[p] = s
        /\ schema' = schema \cup {m} /\ executed' = executed \cup {m}
        /\ UNCHANGED <<production, seeded, rollback, redisUp, outdated, at, seen, lapsed>>
    BY <1>5 DEF FinishMigration, BootStep, Become, presence, Up, Inv, TypeOK
  <2>2. s \in Process
    BY <1>1 DEF Process, Drained, StopSteps
  <2>3. TypeOK'
    <3>. HIDE DEF s
    <3>. QED  BY <1>2, <1>3, <2>1, <2>2 DEF Inv, TypeOK
  <2>4. (RecordedIsApplied /\ RootsStay)'
    BY <2>1 DEF Inv, RecordedIsApplied, RootsStay
  <2>5. Sound(p)'
    <3>1. Stopping(p)' <=> Stopping(p)
      BY <1>1, <2>1 DEF Stopping, Drained, Process
    <3>2. Migrated(p)'
      BY <1>1, <2>1 DEF FinishMigration, BootStep, Sound, Migrated, Verified, Process
    <3>3. Hosting(p)'
      BY <1>1, <2>1, <3>1 DEF FinishMigration, BootStep, Sound, Hosting, Chosen, Process
    <3>. QED  BY <3>2, <3>3 DEF Sound
  <2>6. ASSUME NEW q \in Servers, q # p
        PROVE  Sound(q)'
    <3>1. server'[q] = server[q]
      BY <2>1, <2>6 DEF Inv, TypeOK
    <3>. QED  BY <2>1, <2>6, <3>1, OthersSound
  <2>. QED  BY <2>3, <2>4, <2>5, <2>6 DEF Inv
<1>. QED  BY <1>4, <1>5

LEMMA VerifyTablesStep ==
  ASSUME Inv, NEW p \in Servers, VerifyTables(p)
  PROVE  Inv'
<1>. DEFINE s == [server[p] EXCEPT !.boot = "seeding"]
<1>1. server[p] \in Process /\ Sound(p)
  BY DEF Inv, TypeOK
<1>2. starts' \in 0 .. MaxStarts /\ events' \in 0 .. MaxEvents
  BY DEF VerifyTables, BootStep, counters, Inv, TypeOK
<1>3. CASE ~(Tables \subseteq schema)
  BY <1>2, <1>3, ExitStep DEF VerifyTables, BootStep
<1>4. CASE Tables \subseteq schema
  <2>1. Become(p, s) /\ server'[p] = s
    BY <1>4 DEF VerifyTables, Become, Inv, TypeOK
  <2>2. s \in Process
    BY <1>1 DEF Process, BootSteps
  <2>3. Sound(p)'
    BY <1>1, <1>4, <2>1 DEF VerifyTables, BootStep, Sound, Migrated, Hosting, Verified,
       Chosen, Stopping, Become, presence, database, Process
  <2>. HIDE DEF s
  <2>. QED  BY <1>2, <2>1, <2>2, <2>3, BecomeStep DEF VerifyTables, BootStep
<1>. QED  BY <1>3, <1>4

LEMMA RunSeedsStep ==
  ASSUME Inv, NEW p \in Servers, RunSeeds(p)
  PROVE  Inv'
<1>. DEFINE s == [server[p] EXCEPT !.boot = "redis"]
<1>1. server[p] \in Process /\ Sound(p)
  BY DEF Inv, TypeOK
<1>2. /\ server' = [server EXCEPT ![p] = s] /\ server'[p] = s
      /\ UNCHANGED <<production, schema, executed, rollback, redisUp, starts, events,
                     outdated, at, seen, lapsed>>
      /\ seeded' = (seeded \/ (~production /\ 1 \in schema))
      /\ server[p].boot = "seeding"
  BY DEF RunSeeds, BootStep, Become, presence, counters, Inv, TypeOK
<1>3. s \in Process
  BY <1>1 DEF Process, BootSteps
<1>4. TypeOK'
  <2>. HIDE DEF s
  <2>. QED  BY <1>2, <1>3 DEF Inv, TypeOK
<1>5. (RecordedIsApplied /\ RootsStay)'
  BY <1>2 DEF Inv, RecordedIsApplied, RootsStay
\* the first migration is there: it stands on no other
<1>6. ASSUME server[p].trust = "all"
      PROVE  1 \in schema
  <2>1. 1 \in Versions /\ Needs[1] = {}
    BY LifecycleAssumption DEF Versions, Tables
  <2>2. 1 \in executed
    BY <1>1, <1>2, <1>6, <2>1 DEF Sound, Migrated, Verified
  <2>. QED  BY <2>1, <2>2 DEF Inv, RootsStay
<1>7. Sound(p)'
  <2>1. Migrated(p)'
    <3>1. server[p].trust = "all" /\ ~production => seeded'
      BY <1>2, <1>6
    <3>2. /\ server'[p].boot = "redis" /\ server'[p].trust = server[p].trust
          /\ server'[p].todo = server[p].todo /\ server'[p].bare = server[p].bare
      BY <1>1, <1>2 DEF Process
    <3>. QED  BY <1>1, <1>2, <3>1, <3>2 DEF Sound, Migrated, Verified
  <2>2. Hosting(p)'
    BY <1>1, <1>2 DEF Sound, Hosting, Chosen, Stopping, Process
  <2>. QED  BY <2>1, <2>2 DEF Sound
<1>8. ASSUME NEW q \in Servers, q # p
      PROVE  Sound(q)'
  <2>1. server'[q] = server[q]
    BY <1>2, <1>8 DEF Inv, TypeOK
  <2>. QED  BY <1>2, <1>8, <2>1, OthersSound
<1>. QED  BY <1>4, <1>5, <1>7, <1>8 DEF Inv

LEMMA SeedsFailStep ==
  ASSUME Inv, NEW p \in Servers, SeedsFail(p)
  PROVE  Inv'
<1>. DEFINE s == [server[p] EXCEPT !.boot = "redis", !.bare = TRUE]
<1>1. server[p] \in Process /\ Sound(p)
  BY DEF Inv, TypeOK
<1>2. Become(p, s) /\ server'[p] = s
  BY DEF SeedsFail, Become, Inv, TypeOK
<1>3. s \in Process
  BY <1>1 DEF Process, BootSteps
<1>4. Sound(p)'
  BY <1>1, <1>2 DEF SeedsFail, Sound, Migrated, Hosting, Verified, Chosen, Stopping, Become,
     presence, database, Process
<1>5. starts' \in 0 .. MaxStarts /\ events' \in 0 .. MaxEvents
  BY LifecycleAssumption DEF SeedsFail, Event, Inv, TypeOK
<1>. HIDE DEF s
<1>. QED  BY <1>2, <1>3, <1>4, <1>5, BecomeStep DEF SeedsFail

-----------------------------------------------------------------------------
(* Redis and the adapter.                                                  *)

LEMMA ConnectRedisStep ==
  ASSUME Inv, NEW p \in Servers, ConnectRedis(p)
  PROVE  Inv'
<1>. DEFINE s == [server[p] EXCEPT !.boot = "adapter", !.client = "open",
                     !.fallback = FALSE, !.connected = TRUE]
<1>1. server[p] \in Process /\ Sound(p)
  BY DEF Inv, TypeOK
<1>2. Become(p, s) /\ server'[p] = s
  BY DEF ConnectRedis, Become, Inv, TypeOK
<1>3. s \in Process
  BY <1>1 DEF Process, BootSteps
<1>4. Sound(p)'
  BY <1>1, <1>2 DEF ConnectRedis, BootStep, Sound, Migrated, Hosting, Verified, Chosen,
     Stopping, Become, presence, database, Process
<1>5. starts' \in 0 .. MaxStarts /\ events' \in 0 .. MaxEvents
  BY DEF ConnectRedis, BootStep, counters, Inv, TypeOK
<1>. HIDE DEF s
<1>. QED  BY <1>2, <1>3, <1>4, <1>5, BecomeStep DEF ConnectRedis, BootStep

LEMMA MissRedisStep ==
  ASSUME Inv, NEW p \in Servers, MissRedis(p)
  PROVE  Inv'
<1>. DEFINE s == [server[p] EXCEPT !.boot = "adapter", !.client = "lost",
                     !.fallback = TRUE, !.connected = TRUE]
<1>1. server[p] \in Process /\ Sound(p)
  BY DEF Inv, TypeOK
<1>2. starts' \in 0 .. MaxStarts /\ events' \in 0 .. MaxEvents
  BY DEF MissRedis, BootStep, counters, Inv, TypeOK
<1>3. CASE production
  BY <1>2, <1>3, ExitStep DEF MissRedis, BootStep
<1>4. CASE ~production
  <2>1. Become(p, s) /\ server'[p] = s
    BY <1>4 DEF MissRedis, Become, Inv, TypeOK
  <2>2. s \in Process
    BY <1>1 DEF Process, BootSteps
  <2>3. Sound(p)'
    BY <1>1, <1>4, <2>1 DEF MissRedis, BootStep, Sound, Migrated, Hosting, Verified,
       Chosen, Stopping, Become, presence, database, Process
  <2>. HIDE DEF s
  <2>. QED  BY <1>2, <2>1, <2>2, <2>3, BecomeStep DEF MissRedis, BootStep
<1>. QED  BY <1>3, <1>4

\* However the adapter turns out, listening changes no store and no database.
LEMMA ListeningStep ==
  ASSUME Inv, NEW p \in Servers, SetupAdapter(p), NEW s \in Process, Become(p, s),
         s.boot = "up", s.todo = server[p].todo, s.trust = server[p].trust,
         s.bare = server[p].bare, s.client = server[p].client, s.fallback = server[p].fallback,
         s.stop = server[p].stop
  PROVE  Inv'
<1>1. server[p] \in Process /\ Sound(p)
  BY DEF Inv, TypeOK
<1>2. server'[p] = s
  BY DEF Become, Inv, TypeOK
<1>3. Sound(p)'
  <2>1. Migrated(p)'
    BY <1>1, <1>2 DEF SetupAdapter, BootStep, Sound, Migrated, Verified, database
  <2>2. Hosting(p)'
    BY <1>1, <1>2 DEF SetupAdapter, BootStep, Sound, Hosting, Chosen, Stopping, Become,
       presence
  <2>. QED  BY <2>1, <2>2 DEF Sound
<1>4. starts' \in 0 .. MaxStarts /\ events' \in 0 .. MaxEvents
  BY DEF SetupAdapter, BootStep, counters, Inv, TypeOK
<1>. QED  BY <1>3, <1>4, BecomeStep DEF SetupAdapter, BootStep

LEMMA SetupAdapterStep ==
  ASSUME Inv, NEW p \in Servers, SetupAdapter(p)
  PROVE  Inv'
<1>. DEFINE s1 == Listening(p, "none")
            s2 == [Listening(p, "open") EXCEPT !.connected = TRUE]
<1>1. server[p] \in Process
  BY DEF Inv, TypeOK
<1>2. starts' \in 0 .. MaxStarts /\ events' \in 0 .. MaxEvents
  BY DEF SetupAdapter, BootStep, counters, Inv, TypeOK
<1>3. CASE Become(p, s1)
  <2>1. /\ s1 \in Process /\ s1.boot = "up" /\ s1.todo = server[p].todo
        /\ s1.trust = server[p].trust /\ s1.client = server[p].client
        /\ s1.fallback = server[p].fallback /\ s1.stop = server[p].stop
        /\ s1.bare = server[p].bare
    BY <1>1 DEF Listening, Process, BootSteps
  <2>. HIDE DEF s1
  <2>. QED  BY <1>3, <2>1, ListeningStep
<1>4. CASE Become(p, s2)
  <2>1. /\ s2 \in Process /\ s2.boot = "up" /\ s2.todo = server[p].todo
        /\ s2.trust = server[p].trust /\ s2.client = server[p].client
        /\ s2.fallback = server[p].fallback /\ s2.stop = server[p].stop
        /\ s2.bare = server[p].bare
    BY <1>1 DEF Listening, Process, BootSteps
  <2>. HIDE DEF s2
  <2>. QED  BY <1>4, <2>1, ListeningStep
<1>5. CASE Exit(p)
  BY <1>2, <1>5, ExitStep DEF SetupAdapter, BootStep
<1>. QED  BY <1>3, <1>4, <1>5 DEF SetupAdapter

-----------------------------------------------------------------------------
(* Redis and the clients.                                                  *)

\* A step of Redis itself.
LEMMA RedisStep ==
  ASSUME Inv, redisUp' \in BOOLEAN, starts' \in 0 .. MaxStarts, events' \in 0 .. MaxEvents,
         UNCHANGED <<production, database, server, rollback, presence, outdated>>
  PROVE  Inv'
<1>1. TypeOK'
  BY DEF Inv, TypeOK, database, presence
<1>2. (RecordedIsApplied /\ RootsStay)'
  BY DEF Inv, RecordedIsApplied, RootsStay, database
<1>3. ASSUME NEW p \in Servers
      PROVE  Sound(p)'
  BY DEF Inv, Sound, Migrated, Hosting, Chosen, Stopping, database, presence
<1>. QED  BY <1>1, <1>2, <1>3 DEF Inv

LEMMA RedisGoesStep ==
  ASSUME Inv, RedisGoes
  PROVE  Inv'
<1>1. starts' \in 0 .. MaxStarts /\ events' \in 0 .. MaxEvents
  BY LifecycleAssumption DEF RedisGoes, Event, Inv, TypeOK
<1>. QED  BY <1>1, RedisStep DEF RedisGoes

LEMMA RedisReturnsStep ==
  ASSUME Inv, RedisReturns
  PROVE  Inv'
<1>1. starts' \in 0 .. MaxStarts /\ events' \in 0 .. MaxEvents
  BY DEF RedisReturns, counters, Inv, TypeOK
<1>. QED  BY <1>1, RedisStep DEF RedisReturns

LEMMA GiveUpStep ==
  ASSUME Inv, NEW p \in Servers, GiveUp(p)
  PROVE  Inv'
<1>1. server[p] \in Process /\ Sound(p)
  BY DEF Inv, TypeOK
<1>2. starts' \in 0 .. MaxStarts /\ events' \in 0 .. MaxEvents
  BY DEF GiveUp, counters, Inv, TypeOK
<1>3. CASE server[p].client = "open" /\ Become(p, [server[p] EXCEPT !.client = "lost"])
  <2>. DEFINE s == [server[p] EXCEPT !.client = "lost"]
  <2>1. Become(p, s) /\ server'[p] = s
    BY <1>3 DEF Become, Inv, TypeOK
  <2>2. s \in Process
    BY <1>1 DEF Process
  <2>3. Sound(p)'
    BY <1>1, <1>3, <2>1 DEF GiveUp, Sound, Migrated, Hosting, Verified, Chosen,
       Stopping, Become, presence, database, Process
  <2>. HIDE DEF s
  <2>. QED  BY <1>2, <2>1, <2>2, <2>3, BecomeStep DEF GiveUp
<1>4. CASE Become(p, [server[p] EXCEPT !.bus = "lost"])
  <2>. DEFINE s == [server[p] EXCEPT !.bus = "lost"]
  <2>1. Become(p, s) /\ server'[p] = s
    BY <1>4 DEF Become, Inv, TypeOK
  <2>2. s \in Process
    BY <1>1 DEF Process
  <2>3. Sound(p)'
    BY <1>1, <2>1 DEF GiveUp, Sound, Migrated, Hosting, Verified, Chosen,
       Stopping, Become, presence, database, Process
  <2>. HIDE DEF s
  <2>. QED  BY <1>2, <2>1, <2>2, <2>3, BecomeStep DEF GiveUp
<1>. QED  BY <1>3, <1>4 DEF GiveUp

\* A step of a client, or of the clock, leaves the database and the processes alone.
LEMMA ClientStep ==
  ASSUME Inv, UNCHANGED <<production, database, server, rollback, redisUp, outdated>>,
         starts' \in 0 .. MaxStarts, events' \in 0 .. MaxEvents,
         at' \in [Clients -> Servers \cup Nowhere],
         seen' \in [Clients -> SUBSET (Servers \cup {Shared})],
         lapsed' \in [Clients -> SUBSET (Servers \cup {Shared})],
         \A q \in Servers : Hosting(q)'
  PROVE  Inv'
<1>1. TypeOK'
  BY DEF Inv, TypeOK, database
<1>2. (RecordedIsApplied /\ RootsStay)'
  BY DEF Inv, RecordedIsApplied, RootsStay, database
<1>3. ASSUME NEW q \in Servers
      PROVE  Migrated(q)'
  BY DEF Inv, Sound, Migrated, database
<1>. QED  BY <1>1, <1>2, <1>3 DEF Inv, Sound

\* A client that is marked online is known where its process looks for it.
LEMMA MarkOnlineStep ==
  ASSUME Inv, NEW c \in Clients, NEW p \in Servers, MarkOnline(c, p),
         at' = [at EXCEPT ![c] = p], server[p].boot = "up"
  PROVE  Inv'
<1>1. server[p] \in Process /\ Sound(p) /\ Store(p) \in Servers \cup {Shared}
  BY DEF Inv, TypeOK, Store
<1>2. /\ at'[c] = p /\ \A d \in Clients \ {c} : at'[d] = at[d]
      /\ \A d \in Clients \ {c} : seen'[d] = seen[d] /\ lapsed'[d] = lapsed[d]
      /\ seen'[c] = seen[c] \cup {Store(p)}
      /\ server' = server /\ production' = production
  BY DEF MarkOnline, Inv, TypeOK
<1>3. /\ at' \in [Clients -> Servers \cup Nowhere]
      /\ seen' \in [Clients -> SUBSET (Servers \cup {Shared})]
      /\ lapsed' \in [Clients -> SUBSET (Servers \cup {Shared})]
  BY <1>1 DEF MarkOnline, Inv, TypeOK
<1>4. ASSUME NEW q \in Servers
      PROVE  Hosting(q)'
  <2>. SUFFICES ASSUME NEW d \in Clients, at'[d] = q
                PROVE  /\ server[q].boot = "up"
                       /\ ~Stopping(q) =>
                            /\ server[q].fallback => q \in seen'[d] \cup lapsed'[d]
                            /\ ~server[q].fallback /\ server[q].client = "open"
                                  => Shared \in seen'[d] \cup lapsed'[d]
    BY <1>2 DEF Inv, Sound, Hosting, Chosen, Stopping
  <2>1. CASE d = c
    BY <1>2, <2>1 DEF Store
  <2>2. CASE d # c
    BY <1>2, <2>2 DEF Inv, Sound, Hosting
  <2>. QED  BY <2>1, <2>2
<1>5. starts' \in 0 .. MaxStarts /\ events' \in 0 .. MaxEvents
  BY DEF MarkOnline, counters, Inv, TypeOK
<1>. QED  BY <1>3, <1>4, <1>5, ClientStep DEF MarkOnline

LEMMA JoinStep ==
  ASSUME Inv, NEW c \in Clients, NEW p \in Servers, Join(c, p)
  PROVE  Inv'
<1>1. server[p].boot = "up"
  BY DEF Join, Inv, Sound, Hosting
<1>. QED  BY <1>1, MarkOnlineStep DEF Join

LEMMA SwitchRoomStep ==
  ASSUME Inv, NEW c \in Clients, NEW p \in Servers, SwitchRoom(c, p)
  PROVE  Inv'
<1>1. server[p].boot = "up"
  BY DEF SwitchRoom, Inv, Sound, Hosting
<1>2. at' = [at EXCEPT ![c] = p]
  BY DEF SwitchRoom, Inv, TypeOK
<1>. QED  BY <1>1, <1>2, MarkOnlineStep DEF SwitchRoom

LEMMA LeaveStep ==
  ASSUME Inv, NEW c \in Clients, NEW p \in Servers, Leave(c, p)
  PROVE  Inv'
<1>1. /\ at' = [at EXCEPT ![c] = "gone"] /\ at'[c] = "gone"
      /\ \A d \in Clients \ {c} : at'[d] = at[d] /\ seen'[d] = seen[d] /\ lapsed'[d] = lapsed[d]
      /\ server' = server /\ production' = production
  BY DEF Leave, Inv, TypeOK
<1>2. /\ at' \in [Clients -> Servers \cup Nowhere]
      /\ seen' \in [Clients -> SUBSET (Servers \cup {Shared})]
      /\ lapsed' \in [Clients -> SUBSET (Servers \cup {Shared})]
  BY <1>1 DEF Leave, Inv, TypeOK, Nowhere
<1>3. ASSUME NEW q \in Servers
      PROVE  Hosting(q)'
  <2>1. at'[c] # q
    BY <1>1, LifecycleAssumption DEF Nowhere
  <2>. QED  BY <1>1, <2>1 DEF Inv, Sound, Hosting, Chosen, Stopping
<1>4. starts' \in 0 .. MaxStarts /\ events' \in 0 .. MaxEvents
  BY DEF Leave, counters, Inv, TypeOK
<1>. QED  BY <1>2, <1>3, <1>4, ClientStep DEF Leave

LEMMA LapseStep ==
  ASSUME Inv, NEW c \in Clients, NEW store \in seen[c], Lapse(c, store)
  PROVE  Inv'
<1>1. /\ at' = at /\ server' = server /\ production' = production
      /\ \A d \in Clients : seen'[d] \cup lapsed'[d] = seen[d] \cup lapsed[d]
  BY DEF Lapse, Inv, TypeOK
<1>2. /\ at' \in [Clients -> Servers \cup Nowhere]
      /\ seen' \in [Clients -> SUBSET (Servers \cup {Shared})]
      /\ lapsed' \in [Clients -> SUBSET (Servers \cup {Shared})]
  BY DEF Lapse, Inv, TypeOK
<1>3. ASSUME NEW q \in Servers
      PROVE  Hosting(q)'
  BY <1>1 DEF Inv, Sound, Hosting, Chosen, Stopping
<1>4. starts' \in 0 .. MaxStarts /\ events' \in 0 .. MaxEvents
  BY LifecycleAssumption DEF Lapse, Event, Inv, TypeOK
<1>. QED  BY <1>2, <1>3, <1>4, ClientStep DEF Lapse

-----------------------------------------------------------------------------
(* The shutdown.                                                           *)

\* A process that is being stopped owes its clients nothing; what the shutdown closes is
\* no concern of the migrations.
LEMMA StoppingStep ==
  ASSUME Inv, NEW p \in Servers, NEW s \in Process, Become(p, s),
         UNCHANGED <<production, database, rollback, redisUp, outdated>>,
         starts' \in 0 .. MaxStarts, events' \in 0 .. MaxEvents,
         s.boot = server[p].boot, s.todo = server[p].todo, s.trust = server[p].trust,
         s.bare = server[p].bare, s.listening => server[p].listening, \E r \in Runs : s.stop[r] # "none"
  PROVE  Inv'
<1>1. Sound(p) /\ server'[p] = s
  BY DEF Become, Inv, TypeOK
<1>2. Stopping(p)'
  BY <1>1 DEF Stopping
<1>3. Migrated(p)'
  BY <1>1 DEF Sound, Migrated, database
<1>4. Hosting(p)'
  BY <1>1, <1>2 DEF Sound, Hosting, Become, presence
<1>. QED  BY <1>3, <1>4, BecomeStep DEF Sound

LEMMA SignalStep ==
  ASSUME Inv, NEW p \in Servers, NEW r \in Runs, Signal(p, r)
  PROVE  Inv'
<1>. DEFINE s == [Reach(p, r, "adapter") EXCEPT !.timers = FALSE]
<1>1. server[p] \in Process
  BY DEF Inv, TypeOK
<1>2. /\ s \in Process /\ s.boot = server[p].boot /\ s.todo = server[p].todo
      /\ s.trust = server[p].trust /\ s.listening = server[p].listening
      /\ s.bare = server[p].bare /\ s.stop[r] = "adapter"
  BY <1>1 DEF Reach, Process, StopSteps
<1>3. starts' \in 0 .. MaxStarts /\ events' \in 0 .. MaxEvents
  BY LifecycleAssumption DEF Signal, Event, Inv, TypeOK
<1>4. Become(p, s) /\ UNCHANGED <<production, database, rollback, redisUp, outdated>>
  BY DEF Signal
<1>. HIDE DEF s
<1>. QED  BY <1>2, <1>3, <1>4, StoppingStep

\* What a run of the shutdown reaches at its next await.
LEMMA ReachStep ==
  ASSUME Inv, NEW p \in Servers, NEW r \in Runs, NEW label \in StopSteps \ {"none"},
         NEW s, s \in {Reach(p, r, label), [Reach(p, r, label) EXCEPT !.bus = "none"],
                       [Reach(p, r, label) EXCEPT !.listening = FALSE],
                       [Reach(p, r, label) EXCEPT !.client = "none", !.fallback = FALSE,
                                                  !.connected = FALSE]},
         Become(p, s), UNCHANGED <<production, database, rollback, redisUp, counters, outdated>>
  PROVE  Inv'
<1>1. server[p] \in Process
  BY DEF Inv, TypeOK
<1>. DEFINE reached == Reach(p, r, label)
<1>2. /\ reached \in Process /\ reached.boot = server[p].boot
      /\ reached.todo = server[p].todo /\ reached.trust = server[p].trust
      /\ reached.listening = server[p].listening /\ reached.bare = server[p].bare
      /\ reached.stop[r] = label
  BY <1>1 DEF Reach, Process
<1>3. /\ s \in Process /\ s.boot = server[p].boot /\ s.todo = server[p].todo
      /\ s.trust = server[p].trust /\ (s.listening => server[p].listening)
      /\ s.bare = server[p].bare /\ s.stop[r] = label
  <2>. HIDE DEF reached
  <2>1. CASE s \in {reached, [reached EXCEPT !.bus = "none"]}
    BY <1>2, <2>1 DEF Process
  <2>2. CASE s = [reached EXCEPT !.listening = FALSE]
    BY <1>2, <2>2 DEF Process
  <2>3. CASE s = [reached EXCEPT !.client = "none", !.fallback = FALSE, !.connected = FALSE]
    BY <1>2, <2>3 DEF Process
  <2>. QED  BY <2>1, <2>2, <2>3 DEF reached
<1>4. \E q \in Runs : s.stop[q] # "none"
  BY <1>3
<1>5. starts' \in 0 .. MaxStarts /\ events' \in 0 .. MaxEvents
  BY DEF counters, Inv, TypeOK
<1>. QED  BY <1>3, <1>4, <1>5, StoppingStep

LEMMA StopStepKeepsInv ==
  ASSUME Inv, NEW p \in Servers, Stop(p)
  PROVE  Inv'
<1>. PICK r \in Runs : \/ CloseAdapter(p, r) \/ DisconnectRedis(p, r) \/ EndPool(p, r)
                      \/ CloseServer(p, r) \/ ServerClosed(p, r)
  BY DEF Stop
<1>1. CASE CloseAdapter(p, r)
  BY <1>1, ReachStep DEF CloseAdapter, StopStep, StopSteps
<1>2. CASE DisconnectRedis(p, r)
  BY <1>2, ReachStep DEF DisconnectRedis, StopStep, StopSteps
<1>3. CASE EndPool(p, r)
  BY <1>3, ReachStep DEF EndPool, StopStep, StopSteps
<1>4. ASSUME StopStep(p, r, "close") \/ StopStep(p, r, "closing"), Exit(p)
      PROVE  Inv'
  <2>1. starts' \in 0 .. MaxStarts /\ events' \in 0 .. MaxEvents
    BY <1>4 DEF StopStep, counters, Inv, TypeOK
  <2>. QED  BY <1>4, <2>1, ExitStep DEF StopStep
<1>5. CASE CloseServer(p, r)
  BY <1>4, <1>5, ReachStep DEF CloseServer, StopStep, StopSteps
<1>6. CASE ServerClosed(p, r)
  BY <1>4, <1>6 DEF ServerClosed
<1>. QED  BY <1>1, <1>2, <1>3, <1>5, <1>6

LEMMA CrashStep ==
  ASSUME Inv, NEW p \in Servers, Crash(p)
  PROVE  Inv'
<1>1. starts' \in 0 .. MaxStarts /\ events' \in 0 .. MaxEvents
  BY LifecycleAssumption DEF Crash, Event, Inv, TypeOK
<1>. QED  BY <1>1, ExitStep DEF Crash

-----------------------------------------------------------------------------
(* The roll-back.                                                          *)

LEMMA ListRollbackStep ==
  ASSUME Inv, ListRollback
  PROVE  Inv'
<1>1. rollback' \subseteq Versions
  <2>1. executed \subseteq Versions
    BY DEF Inv, TypeOK
  <2>2. CASE RollbackLast
    BY <2>1, <2>2, MaxIsIn DEF RollbackLast
  <2>3. ASSUME NEW target \in 0 .. LastVersion, RollbackTo(target)
        PROVE  rollback' \subseteq Versions
    BY <2>1, <2>3 DEF RollbackTo
  <2>. QED  BY <2>2, <2>3 DEF ListRollback
<1>2. starts' \in 0 .. MaxStarts /\ events' \in 0 .. MaxEvents
  BY LifecycleAssumption DEF ListRollback, Event, Inv, TypeOK
<1>3. TypeOK'
  BY <1>1, <1>2 DEF ListRollback, Inv, TypeOK, database, presence
<1>4. (RecordedIsApplied /\ RootsStay)'
  BY DEF ListRollback, Inv, RecordedIsApplied, RootsStay, database
<1>5. ASSUME NEW p \in Servers
      PROVE  Sound(p)'
  BY DEF ListRollback, Inv, Sound, Migrated, Hosting, Chosen, Stopping, database, presence
<1>. QED  BY <1>3, <1>4, <1>5 DEF Inv

LEMMA DoubtedKeepsAllButTrust ==
  ASSUME NEW s \in Process
  PROVE  /\ Doubted(s) \in Process
         /\ Doubted(s).boot = s.boot /\ Doubted(s).todo = s.todo /\ Doubted(s).stop = s.stop
         /\ Doubted(s).client = s.client /\ Doubted(s).fallback = s.fallback
         /\ Doubted(s).listening = s.listening /\ Doubted(s).bare = s.bare
         /\ s.boot # "off" => Doubted(s).trust # "all"
         /\ s.boot \in Verified => Doubted(s).trust = "nothing"
<1>1. CASE s.boot = "off"
  BY <1>1 DEF Doubted, Verified
<1>2. CASE s.boot = "migrating"
  BY <1>2 DEF Doubted, Verified, Process
<1>3. CASE s.boot # "off" /\ s.boot # "migrating"
  <2>1. Doubted(s) = [s EXCEPT !.trust = "nothing"]
    BY <1>3 DEF Doubted
  <2>. QED  BY <1>3, <2>1 DEF Process
<1>. QED  BY <1>1, <1>2, <1>3

LEMMA RollBackStep ==
  ASSUME Inv, RollBack
  PROVE  Inv'
<1>. DEFINE m == Max(rollback)
<1>1. m \in rollback /\ m \in Versions
  BY MaxIsIn DEF RollBack, Inv, TypeOK
<1>. HIDE DEF m
<1>2. CASE ~Droppable(m)
  <2>1. /\ rollback' = {}
        /\ UNCHANGED <<production, database, server, redisUp, presence, counters, outdated>>
    BY <1>2 DEF RollBack, m
  <2>2. TypeOK'
    BY <2>1 DEF Inv, TypeOK, database, presence, counters
  <2>3. (RecordedIsApplied /\ RootsStay)'
    BY <2>1 DEF Inv, RecordedIsApplied, RootsStay, database
  <2>4. ASSUME NEW p \in Servers
        PROVE  Sound(p)'
    BY <2>1 DEF Inv, Sound, Migrated, Hosting, Chosen, Stopping, database, presence
  <2>. QED  BY <2>2, <2>3, <2>4 DEF Inv
<1>3. CASE Droppable(m)
  <2>1. /\ schema' = Without(m) /\ executed' = executed \ {m}
        /\ seeded' = (seeded /\ m # 1) /\ rollback' = rollback \ {m}
        /\ server' = [p \in Servers |-> Doubted(server[p])]
        /\ outdated' = (outdated \/ \E v \in executed : v > m)
        /\ UNCHANGED <<production, redisUp, at, seen, lapsed, starts, events>>
    BY <1>3 DEF RollBack, m, RowDeleted, presence, counters
  <2>2. \A p \in Servers : server[p] \in Process /\ server'[p] = Doubted(server[p])
    BY <2>1 DEF Inv, TypeOK
  <2>3. TypeOK'
    <3>1. server' \in [Servers -> Process]
      BY <2>1, <2>2, DoubtedKeepsAllButTrust
    <3>2. schema' \subseteq Versions
      BY <2>1 DEF Without, Inv, TypeOK
    <3>. QED  BY <2>1, <3>1, <3>2 DEF Inv, TypeOK
  \* A column that goes with its table has a later number than the table.
  <2>4. \A v \in executed \ {m} :
           v \in schema => v \in schema' \/ (v \in Columns /\ m \in Needs[v] /\ v > m)
    <3>1. \A v \in executed : v \in Versions /\ v \in Nat
      BY LifecycleAssumption DEF Inv, TypeOK, Versions
    <3>2. \A v \in Versions : m \in Needs[v] => v > m
      BY <1>1, LifecycleAssumption DEF Versions
    <3>. QED  BY <2>1, <3>1, <3>2 DEF Without
  <2>5. RecordedIsApplied'
    BY <2>1, <2>4 DEF Inv, RecordedIsApplied
  <2>6. RootsStay'
    BY <2>1, <2>4 DEF Inv, RootsStay, Tables
  <2>7. ASSUME NEW p \in Servers
        PROVE  Sound(p)'
    <3>1. Sound(p)
      BY DEF Inv
    <3>2. Migrated(p)'
      BY <2>2, <3>1, DoubtedKeepsAllButTrust DEF Sound, Migrated, Verified
    <3>3. Hosting(p)'
      BY <2>1, <2>2, <3>1, DoubtedKeepsAllButTrust DEF Sound, Hosting, Chosen, Stopping
    <3>. QED  BY <3>2, <3>3 DEF Sound
  <2>. QED  BY <2>3, <2>5, <2>6, <2>7 DEF Inv
<1>. QED  BY <1>2, <1>3

-----------------------------------------------------------------------------
LEMMA NextInv == Inv /\ [Next]_vars => Inv'
<1>. SUFFICES ASSUME Inv, [Next]_vars PROVE Inv'
  OBVIOUS
<1>1. ASSUME NEW p \in Servers, Start(p) \/ SeedsFail(p) \/ Stop(p) \/ Crash(p) \/ GiveUp(p)
      PROVE  Inv'
  BY <1>1, StartStep, SeedsFailStep, StopStepKeepsInv, CrashStep, GiveUpStep
<1>2. ASSUME NEW p \in Servers, Boot(p)
      PROVE  Inv'
  BY <1>2, BeginMigrationStep, FinishMigrationStep, VerifyTablesStep, RunSeedsStep,
     ConnectRedisStep, MissRedisStep, SetupAdapterStep DEF Boot
<1>3. ASSUME NEW p \in Servers, NEW r \in Runs, Signal(p, r)
      PROVE  Inv'
  BY <1>3, SignalStep
<1>4. ASSUME NEW p \in Servers, NEW c \in Clients, Join(c, p) \/ SwitchRoom(c, p) \/ Leave(c, p)
      PROVE  Inv'
  BY <1>4, JoinStep, SwitchRoomStep, LeaveStep
<1>5. CASE RedisGoes \/ RedisReturns \/ ListRollback \/ RollBack
  BY <1>5, RedisGoesStep, RedisReturnsStep, ListRollbackStep, RollBackStep
<1>6. CASE UNCHANGED vars
  <2>1. starts' \in 0 .. MaxStarts /\ events' \in 0 .. MaxEvents /\ redisUp' \in BOOLEAN
    BY <1>6 DEF vars, Inv, TypeOK
  <2>. QED  BY <1>6, <2>1, RedisStep DEF vars, database, presence
<1>7. ASSUME NEW c \in Clients, NEW store \in seen[c], Lapse(c, store)
      PROVE  Inv'
  BY <1>7, LapseStep
<1>. QED  BY <1>1, <1>2, <1>3, <1>4, <1>5, <1>6, <1>7 DEF Next

\* What each await of a startup relies on holds throughout.
THEOREM InvKept == Spec => []Inv
  BY InitInv, NextInv, PTL DEF Spec

\* Every variable keeps its shape, in particular each process its record.
THEOREM LifecycleTypesCorrect == Spec => []TypeOK
<1>1. Inv => TypeOK
  BY DEF Inv
<1>. QED  BY <1>1, InvKept, PTL

\* However many processes migrate one database, are killed at any await or rolled back, a
\* version that schema_migrations records was applied and is there, unless a roll-back
\* took away a version that a later one, applied after it was listed, stands on.
THEOREM RecordsAreTrue == Spec => []RecordedIsApplied
<1>1. Inv => RecordedIsApplied
  BY DEF Inv
<1>. QED  BY <1>1, InvKept, PTL

\* A process accepts connections only with the whole schema, and outside production with
\* the rooms unless one of its own INSERTs failed and was passed over, in so far as no
\* roll-back came after what it verified.
THEOREM ServersAreMigrated == Spec => []ServingIsMigrated
<1>1. Inv => ServingIsMigrated
  <2>. SUFFICES ASSUME Inv, NEW p \in Servers, server[p].listening
                PROVE  /\ server[p].trust # "nothing" => Tables \subseteq schema
                       /\ server[p].trust = "all" /\ ~outdated => Versions \subseteq schema
                       /\ server[p].trust = "all" /\ ~production /\ ~server[p].bare => seeded
    BY DEF ServingIsMigrated
  <2>1. server[p].boot = "up" /\ Migrated(p)
    BY DEF Inv, Sound, Hosting
  <2>2. server[p].trust = "all" => Versions \subseteq executed
    BY <2>1 DEF Migrated, Verified
  <2>. QED  BY <2>1, <2>2 DEF Migrated, Verified, Inv, RecordedIsApplied
<1>. QED  BY <1>1, InvKept, PTL

\* What /health says of Redis in its body is said of the store that counts: unless it is
\* being stopped, a process that reports Redis healthy has each client of its own in the
\* store it reads, or that client's keys have run out there since they were last written;
\* in production it is the store that all read.
THEOREM HealthIsHonest == Spec => []HealthyKnowsItsClients
<1>1. Inv => HealthyKnowsItsClients
  <2>. SUFFICES ASSUME Inv, NEW p \in Servers,
                       server[p].listening, ~Stopping(p), HealthyRedis(p)
                PROVE  /\ production => Store(p) = Shared
                       /\ \A c \in Clients : at[c] = p => Store(p) \in seen[c] \cup lapsed[c]
    BY DEF HealthyKnowsItsClients
  <2>1. Hosting(p) /\ Chosen(p)
    BY DEF Inv, Sound, Hosting
  <2>. QED  BY <2>1 DEF Hosting, Chosen, HealthyRedis, Store
<1>. QED  BY <1>1, InvKept, PTL
=============================================================================
