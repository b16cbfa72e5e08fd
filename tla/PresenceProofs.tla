--------------------------- MODULE PresenceProofs ---------------------------
(***************************************************************************)
(* The safety of Presence for any accounts, sockets, processes and jobs.   *)
(*                                                                         *)
(* A device stays registered because no removal starts while it is: the    *)
(* invariant says what each registration has written so far (Arrived), and *)
(* what a sweep of its account has already seen of it (Spares).  A sweep   *)
(* that runs beside the registration itself is what disturbed records.     *)
(***************************************************************************)
EXTENDS Presence, TLAPS

\* What each label says of its job.
Shaped(p) ==
    LET j == job[p] IN
    /\ j.at \in OnlineLabels \cup BeatLabels => j.socket \in Sockets /\ j.user = UserOf[j.socket]
    /\ j.at \in OnlineLabels => conn[j.socket] # "new"
    /\ j.at \in OfflineLabels => j.socket \in Sockets /\ conn[j.socket] = "closed"
    /\ j.at = "dropSocket" => j.user \in {UserOf[j.socket], NoUser}
    /\ j.at \in OfflineLabels \ {"readSocket", "dropSocket"} => j.user = UserOf[j.socket]
    /\ j.at \in RemovalLabels \cup CleanupLabels => j.user \in Users
    /\ j.at = "remDangling" => j.socket \in Sockets

\* What the registration of s has written when it reaches a label.
Arrived(s, label) ==
    /\ label # "addSocket" => s \in SMembers(store, SocketsKey(UserOf[s]))
    /\ label \in {"putUser", "expireUser", "putSocket", "expireSocket"} => UserOf[s] \in online
    /\ label \in {"expireUser", "putSocket", "expireSocket"} => Exists(store, UserKey(UserOf[s]))
    /\ label = "expireSocket" => Exists(store, SocketKey(s))

Registers(p, s) == job[p].at \in OnlineLabels /\ Socket(p) = s

\* A sweep of the account of s has found s, or a device that is alive.
Spares(p, s) ==
    /\ User(p) = UserOf[s] => job[p].at \notin RemovalLabels
    /\ User(p) = UserOf[s] /\ job[p].at \in {"testSocket", "remDangling"} =>
          s \in job[p].found \/ job[p].active
    /\ User(p) = UserOf[s] /\ job[p].at = "remDangling" => Socket(p) # s

Safe(s) ==
    conn[s] = "open" /\ s \notin disturbed =>
        /\ s \in joined => Arrived(s, "expireSocket") /\ \A p \in Procs : Spares(p, s)
        /\ \A p \in Procs : Registers(p, s) => Arrived(s, job[p].at)

Entry == [members : SUBSET (Sockets \cup {Hash}), ttl : BOOLEAN]

\* only sockets are members of a user's set
Stores == {f \in [Keys -> Entry] : \A u \in Users : f[SocketsKey(u)].members \subseteq Sockets}

Inv == /\ TypeOK /\ store \in Stores
       /\ NothingImmortal
       /\ \A p \in Procs : Shaped(p)
       /\ \A s \in joined : conn[s] # "new"
       /\ Overlapping(job) \subseteq disturbed
       /\ \A s \in Sockets : Safe(s)

-----------------------------------------------------------------------------
(* What the commands do to the store.                                      *)

LEMMA KeyTypes ==
  /\ \A u \in Users : SocketsKey(u) \in Keys /\ UserKey(u) \in Keys
  /\ \A s \in Sockets : SocketKey(s) \in Keys
  /\ \A s \in Sockets : UserOf[s] \in Users
  BY PresenceAssumption DEF Keys

LEMMA KeysDiffer ==
  /\ \A u, v : /\ SocketsKey(u) # UserKey(v) /\ SocketsKey(u) # SocketKey(v)
               /\ UserKey(u) # SocketKey(v)
  /\ \A u, v : u # v => /\ SocketsKey(u) # SocketsKey(v) /\ UserKey(u) # UserKey(v)
                        /\ SocketKey(u) # SocketKey(v)
  BY DEF SocketsKey, UserKey, SocketKey

LEMMA PutEffect ==
  ASSUME store \in Stores, NEW key \in Keys, NEW e \in Entry, store' = [store EXCEPT ![key] = e],
         \A u \in Users : key = SocketsKey(u) => e.members \subseteq Sockets
  PROVE  store' \in Stores
<1>1. store' \in [Keys -> Entry]
  BY DEF Stores
<1>2. \A k \in Keys : store'[k] = IF k = key THEN e ELSE store[k]
  BY DEF Stores
<1>. QED  BY <1>1, <1>2, KeyTypes DEF Stores

LEMMA AddEffect ==
  ASSUME store \in Stores, NEW key \in Keys, NEW m \in Sockets \cup {Hash},
         m \in Sockets \/ \A u \in Users : key # SocketsKey(u),
         store' = SAdd(store, key, m)
  PROVE  /\ store' \in Stores
         /\ \A k \in Keys : store'[k].ttl = store[k].ttl
         /\ \A k \in Keys : k # key => store'[k] = store[k]
         /\ store'[key].members = store[key].members \cup {m}
         /\ m \in store'[key].members
<1>. DEFINE e == [store[key] EXCEPT !.members = @ \cup {m}]
<1>1. store \in [Keys -> Entry]
  BY DEF Stores
<1>2. store[key] \in Entry
  BY <1>1
<1>3. e \in Entry /\ e.ttl = store[key].ttl /\ e.members = store[key].members \cup {m}
  BY <1>2 DEF Entry
<1>4. store' = [store EXCEPT ![key] = e]
  BY <1>1 DEF SAdd
<1>5. \A u \in Users : key = SocketsKey(u) => e.members \subseteq Sockets
  BY <1>3 DEF Stores
<1>. HIDE DEF e
<1>6. store' \in Stores
  BY <1>3, <1>4, <1>5, PutEffect
<1>. QED  BY <1>1, <1>3, <1>4, <1>6

LEMMA HashEffect ==
  ASSUME store \in Stores, NEW key \in Keys, store' = HSet(store, key, Hash),
         \A u \in Users : key # SocketsKey(u)
  PROVE  /\ store' \in Stores
         /\ \A k \in Keys : store'[k].ttl = store[k].ttl
         /\ \A k \in Keys : k # key => store'[k] = store[k]
         /\ Exists(store', key)
<1>1. /\ store' \in Stores
      /\ \A k \in Keys : store'[k].ttl = store[k].ttl
      /\ \A k \in Keys : k # key => store'[k] = store[k]
      /\ Hash \in store'[key].members
  BY AddEffect DEF HSet
<1>. QED  BY <1>1 DEF Exists

LEMMA ExpireEffect ==
  ASSUME store \in Stores, NEW key \in Keys, store' = Expire(store, key)
  PROVE  /\ store' \in Stores
         /\ \A k \in Keys : store'[k].members = store[k].members
         /\ \A k \in Keys : k # key => store'[k] = store[k]
         /\ Exists(store', key) => store'[key].ttl
<1>. DEFINE e == [store[key] EXCEPT !.ttl = Exists(store, key)]
<1>1. store \in [Keys -> Entry]
  BY DEF Stores
<1>2. store[key] \in Entry
  BY <1>1
<1>3. e \in Entry /\ e.members = store[key].members /\ (store[key].members # {} => e.ttl)
  BY <1>2 DEF Entry, Exists
<1>4. store' = [store EXCEPT ![key] = e]
  BY <1>1 DEF Expire
<1>5. \A u \in Users : key = SocketsKey(u) => e.members \subseteq Sockets
  BY <1>3 DEF Stores
<1>. HIDE DEF e
<1>6. store' \in Stores
  BY <1>3, <1>4, <1>5, PutEffect
<1>. QED  BY <1>1, <1>3, <1>4, <1>6 DEF Exists

LEMMA DelEffect ==
  ASSUME store \in Stores, NEW key \in Keys, store' = Del(store, key)
  PROVE  /\ store' \in Stores
         /\ \A k \in Keys : k # key => store'[k] = store[k]
         /\ ~Exists(store', key)
<1>1. store \in [Keys -> Entry]
  BY DEF Stores
<1>2. NoEntry \in Entry /\ NoEntry.members = {}
  BY DEF NoEntry, Entry
<1>3. store' \in Stores
  BY <1>2, PutEffect DEF Del
<1>. QED  BY <1>1, <1>2, <1>3 DEF Del, Exists

LEMMA RemEffect ==
  ASSUME store \in Stores, NEW key \in Keys, NEW m, store' = SRem(store, key, m)
  PROVE  /\ store' \in Stores
         /\ \A k \in Keys : k # key => store'[k] = store[k]
         /\ \A x : x # m /\ x \in store[key].members => x \in store'[key].members
         /\ Exists(store', key) => Exists(store, key) /\ store'[key].ttl = store[key].ttl
<1>1. CASE store[key].members \subseteq {m}
  <2>1. store' = Del(store, key)
    BY <1>1 DEF SRem
  <2>. QED  BY <1>1, <2>1, DelEffect
<1>2. CASE ~(store[key].members \subseteq {m})
  <2>. DEFINE e == [store[key] EXCEPT !.members = @ \ {m}]
  <2>1. store \in [Keys -> Entry]
    BY DEF Stores
  <2>2. store[key] \in Entry
    BY <2>1
  <2>3. e \in Entry /\ e.members = store[key].members \ {m} /\ e.ttl = store[key].ttl
    BY <2>2 DEF Entry
  <2>4. store' = [store EXCEPT ![key] = e]
    BY <1>2, <2>1 DEF SRem
  <2>5. \A u \in Users : key = SocketsKey(u) => e.members \subseteq Sockets
    BY <2>3 DEF Stores
  <2>. HIDE DEF e
  <2>6. store' \in Stores
    BY <2>3, <2>4, <2>5, PutEffect
  <2>. QED  BY <1>2, <2>1, <2>3, <2>4, <2>6 DEF Exists
<1>. QED  BY <1>1, <1>2

-----------------------------------------------------------------------------
(* A step of one job.                                                      *)

\* p is about to give k its TTL.
Due(p, k) ==
    \/ At(p, "expireSockets") /\ k = SocketsKey(User(p))
    \/ /\ job[p].at \in {"expireUser", "beatExpireUser", "statusCustom", "statusExpireUser"}
       /\ k = UserKey(User(p))
    \/ At(p, "expireSocket") /\ k = SocketKey(Socket(p))

LEMMA ExpiringIsDue ==
  /\ \A k : Expiring(k) <=> \E p \in Procs : Due(p, k)
  /\ \A k : Expiring(k)' <=> \E p \in Procs : Due(p, k)'
  BY DEF Expiring, Due, At, User, Socket

Present(s) == s \in joined \/ \E p \in Procs : Registers(p, s)

\* What a registration has written is still there after the step.
Kept(s) ==
    /\ s \in SMembers(store, SocketsKey(UserOf[s])) => s \in SMembers(store', SocketsKey(UserOf[s]))
    /\ UserOf[s] \in online => UserOf[s] \in online'
    /\ Exists(store, UserKey(UserOf[s])) => Exists(store', UserKey(UserOf[s]))
    /\ Exists(store, SocketKey(s)) => Exists(store', SocketKey(s))

\* A key that the step leaves or makes without a TTL is about to get one.
Lasts(p, k) ==
    faults' # 0 \/ (Exists(store', k) =>
        \/ store'[k].ttl
        \/ Due(p, k)'
        \/ Exists(store, k) /\ store'[k].ttl = store[k].ttl /\ ~Due(p, k))

LEMMA ArrivedKept ==
  ASSUME NEW s \in Sockets, NEW label, Kept(s), Arrived(s, label)
  PROVE  Arrived(s, label)'
  BY DEF Kept, Arrived

LEMMA JobStep ==
  ASSUME Inv, NEW p \in Procs, NEW j \in Job, Become(p, j),
         store' \in Stores, online' \subseteq Users,
         conn' \in [Sockets -> {"new", "open", "closed"}],
         \A s \in Sockets : conn'[s] \in {conn[s], "closed"},
         joined' \subseteq Sockets, \A s \in joined' \ joined : Registers(p, s),
         faults' \in 0..MaxFaults, faults' = 0 => faults = 0,
         Shaped(p)',
         \A k \in Keys : Lasts(p, k),
         \A s \in Sockets :
            conn[s] = "open" /\ conn'[s] = "open" /\ s \notin disturbed' =>
               /\ Present(s) => Kept(s)
               /\ Registers(p, s)' => Arrived(s, job[p].at)'
               /\ s \in joined' \ joined => Arrived(s, "expireSocket")'
               /\ s \in joined' => Spares(p, s)'
  PROVE  Inv'
<1>. /\ job \in [Procs -> Job] /\ job' \in [Procs -> Job] /\ job'[p] = j
     /\ \A q \in Procs : q # p => job'[q] = job[q]
     /\ disturbed' = disturbed \cup Overlapping(job')
  BY DEF Inv, TypeOK, Become
<1>1. TypeOK'
  BY DEF Inv, Stores, Entry, TypeOK, Overlapping
<1>2. NothingImmortal'
  <2>. SUFFICES ASSUME faults' = 0, NEW k \in Keys, Exists(store', k)
                PROVE  store'[k].ttl \/ Expiring(k)'
    BY DEF NothingImmortal, Exists
  <2>1. Lasts(p, k)
    OBVIOUS
  <2>2. CASE store'[k].ttl \/ Due(p, k)'
    BY <2>2, ExpiringIsDue
  <2>3. CASE Exists(store, k) /\ store'[k].ttl = store[k].ttl /\ ~Due(p, k)
    <3>1. store[k].ttl \/ Expiring(k)
      BY <2>3 DEF Inv, NothingImmortal
    <3>2. CASE Expiring(k)
      <4>1. PICK q \in Procs : Due(q, k)
        BY <3>2, ExpiringIsDue
      <4>2. q # p /\ job'[q] = job[q]
        BY <2>3, <4>1
      <4>3. Due(q, k)'
        BY <4>1, <4>2 DEF Due, At, User, Socket
      <4>. QED  BY <4>3, ExpiringIsDue
    <3>. QED  BY <2>3, <3>1, <3>2
  <2>. QED  BY <2>1, <2>2, <2>3 DEF Lasts
<1>3. ASSUME NEW q \in Procs
      PROVE  Shaped(q)'
  <2>1. CASE q # p
    <3>1. /\ job'[q] = job[q] /\ Shaped(q)
          /\ \A s \in Sockets : /\ conn[s] = "closed" => conn'[s] = "closed"
                               /\ conn[s] # "new" => conn'[s] # "new"
      BY <2>1 DEF Inv
    <3>. QED  BY <3>1 DEF Shaped
  <2>. QED  BY <2>1
<1>4. Overlapping(job') \subseteq disturbed'
  OBVIOUS
<1>5. ASSUME NEW s \in Sockets
      PROVE  Safe(s)'
  <2>. SUFFICES ASSUME conn'[s] = "open", s \notin disturbed'
                PROVE  /\ s \in joined' => Arrived(s, "expireSocket")'
                                           /\ \A q \in Procs : Spares(q, s)'
                       /\ \A q \in Procs : Registers(q, s)' => Arrived(s, job[q].at)'
    BY DEF Safe
  <2>1. conn[s] = "open" /\ s \notin disturbed /\ Safe(s)
    BY DEF Inv
  <2>2. ASSUME s \in joined'
        PROVE  Arrived(s, "expireSocket")'
    <3>1. CASE s \in joined
      BY <2>1, <3>1, ArrivedKept DEF Safe, Present
    <3>. QED  BY <2>1, <2>2, <3>1
  <2>3. ASSUME s \in joined', NEW q \in Procs
        PROVE  Spares(q, s)'
    <3>1. CASE q = p
      BY <2>1, <2>3, <3>1
    <3>2. CASE q # p /\ s \in joined
      <4>1. Spares(q, s) /\ job'[q] = job[q]
        BY <2>1, <3>2 DEF Safe
      <4>. QED  BY <4>1 DEF Spares, User, Socket
    <3>3. CASE q # p /\ s \notin joined
      <4>1. Registers(p, s)
        BY <2>3, <3>3
      <4>2. s \notin Overlapping(job)
        BY <2>1 DEF Inv
      <4>3. ~(job[q].user = UserOf[s] /\ job[q].at \in RemovalLabels \cup CleanupLabels)
        BY <4>1, <4>2 DEF Overlapping, Registers, Socket
      <4>. QED  BY <3>3, <4>3 DEF Spares, User, CleanupLabels
    <3>. QED  BY <3>1, <3>2, <3>3
  <2>4. ASSUME NEW q \in Procs, Registers(q, s)'
        PROVE  Arrived(s, job[q].at)'
    <3>1. CASE q = p
      BY <2>1, <2>4, <3>1
    <3>2. CASE q # p
      <4>1. Registers(q, s) /\ job'[q] = job[q]
        BY <2>4, <3>2 DEF Registers, Socket
      <4>2. Arrived(s, job[q].at) /\ Kept(s)
        BY <2>1, <4>1 DEF Safe, Present
      <4>3. Arrived(s, job[q].at)'
        BY <4>1, <4>2 DEF Arrived, Kept
      <4>. QED  BY <4>1, <4>3
    <3>. QED  BY <3>1, <3>2
  <2>. QED  BY <2>2, <2>3, <2>4
<1>6. ASSUME NEW s \in joined'
      PROVE  conn'[s] # "new"
  <2>1. conn[s] # "new" /\ s \in Sockets
    BY DEF Inv, TypeOK, Shaped, Registers, Socket
  <2>. QED  BY <2>1
<1>. QED  BY <1>1, <1>2, <1>3, <1>4, <1>5, <1>6 DEF Inv

-----------------------------------------------------------------------------
(* The commands that take nothing away.                                    *)

LEMMA IdleJob == Idle \in Job /\ Idle.at = "idle"
  BY DEF Idle, NewJob, Job, Labels

LEMMA GotoJob ==
  ASSUME TypeOK, NEW p \in Procs, NEW label \in Labels, Goto(p, label)
  PROVE  /\ [job[p] EXCEPT !.at = label] \in Job
         /\ Become(p, [job[p] EXCEPT !.at = label])
         /\ job'[p].at = label
         /\ job'[p].socket = job[p].socket /\ job'[p].user = job[p].user
         /\ job'[p].users = job[p].users /\ job'[p].found = job[p].found
         /\ job'[p].active = job[p].active
<1>1. job \in [Procs -> Job] /\ job[p] \in Job
  BY DEF TypeOK
<1>. QED  BY <1>1 DEF Goto, Become, Job

\* The store grows, and p becomes j.
Grows(p, j) ==
    /\ Become(p, j)
    /\ store' \in Stores
    /\ \A k \in Keys : store[k].members \subseteq store'[k].members
    /\ online \subseteq online' /\ online' \subseteq Users
    /\ UNCHANGED <<conn, faults>>

LEMMA GrowStep ==
  ASSUME Inv, NEW p \in Procs, NEW j \in Job, Grows(p, j), UNCHANGED joined,
         Shaped(p)',
         \A k \in Keys : Lasts(p, k),
         \A s \in Sockets :
            conn[s] = "open" /\ s \notin disturbed' =>
               /\ Registers(p, s)' => Arrived(s, job[p].at)'
               /\ s \in joined => Spares(p, s)'
  PROVE  Inv'
<1>1. \A s \in Sockets : Kept(s)
  BY KeyTypes DEF Grows, Kept, SMembers, Exists
<1>. QED  BY <1>1, JobStep DEF Grows, Inv, TypeOK

\* The next await of markOnline.
LEMMA OnlineStep ==
  ASSUME Inv, NEW p \in Procs, job[p].at \in OnlineLabels, NEW next \in OnlineLabels,
         Goto(p, next), Grows(p, [job[p] EXCEPT !.at = next]), UNCHANGED joined,
         \A k \in Keys : Lasts(p, k),
         Arrived(Socket(p), job[p].at) => Arrived(Socket(p), next)'
  PROVE  Inv'
<1>1. next \in Labels /\ TypeOK /\ job[p] \in Job
  BY DEF Labels, Inv, TypeOK
<1>. DEFINE j == [job[p] EXCEPT !.at = next]
<1>2. j \in Job /\ job'[p].at = next /\ job'[p].socket = job[p].socket /\ job'[p].user = job[p].user
  BY <1>1, GotoJob
<1>3. Shaped(p)'
  BY <1>2 DEF Inv, Shaped, Grows, OnlineLabels, BeatLabels, OfflineLabels, RemovalLabels,
     CleanupLabels
<1>4. ASSUME NEW s \in Sockets, conn[s] = "open", s \notin disturbed'
      PROVE  /\ Registers(p, s)' => Arrived(s, job[p].at)'
             /\ Spares(p, s)'
  <2>1. s \notin disturbed
    BY <1>4 DEF Grows, Become
  <2>2. ASSUME Registers(p, s)'
        PROVE  Arrived(s, job[p].at)'
    <3>1. s = Socket(p) /\ Registers(p, s)
      BY <1>2, <2>2 DEF Registers, Socket
    <3>2. Arrived(s, job[p].at)
      BY <1>4, <2>1, <3>1 DEF Inv, Safe
    <3>. QED  BY <1>2, <3>1, <3>2 DEF Arrived, Socket
  <2>3. Spares(p, s)'
    BY <1>2 DEF Spares, OnlineLabels, RemovalLabels
  <2>. QED  BY <2>2, <2>3
<1>5. Grows(p, j)
  OBVIOUS
<1>. HIDE DEF j
<1>. QED  BY <1>2, <1>3, <1>4, <1>5, GrowStep

\* A job that neither registers nor removes: a heartbeat, a status, the end.
LEMMA CalmStep ==
  ASSUME Inv, NEW p \in Procs, NEW j \in Job, Grows(p, j), UNCHANGED joined,
         j.at \in BeatLabels \cup {"idle", "keepSockets", "keepUser", "dropSocket"},
         Shaped(p)', \A k \in Keys : Lasts(p, k)
  PROVE  Inv'
<1>1. job'[p] = j
  BY DEF Inv, TypeOK, Grows, Become
<1>2. \A s \in Sockets : ~Registers(p, s)' /\ Spares(p, s)'
  BY <1>1 DEF Registers, Spares, BeatLabels, OnlineLabels, RemovalLabels
<1>. QED  BY <1>2, GrowStep

LEMMA IdleStep ==
  ASSUME Inv, NEW p \in Procs, Grows(p, Idle), UNCHANGED joined,
         \A k \in Keys : Lasts(p, k)
  PROVE  Inv'
<1>1. job'[p] = Idle
  BY DEF Inv, TypeOK, Grows, Become
<1>2. Shaped(p)'
  BY <1>1, IdleJob DEF Shaped, OnlineLabels, BeatLabels, OfflineLabels, RemovalLabels,
     CleanupLabels
<1>. QED  BY <1>2, IdleJob, CalmStep

\* The next await of heartbeat or updateStatus.
LEMMA TouchStep ==
  ASSUME Inv, NEW p \in Procs, job[p].at \in BeatLabels, NEW next \in BeatLabels,
         Goto(p, next), Grows(p, [job[p] EXCEPT !.at = next]), UNCHANGED joined,
         \A k \in Keys : Lasts(p, k)
  PROVE  Inv'
<1>1. next \in Labels /\ TypeOK
  BY DEF Labels, Inv
<1>. DEFINE j == [job[p] EXCEPT !.at = next]
<1>2. j \in Job /\ job'[p].at = next /\ job'[p].socket = job[p].socket /\ job'[p].user = job[p].user
  BY <1>1, GotoJob
<1>3. Shaped(p)'
  BY <1>2 DEF Inv, Shaped, OnlineLabels, BeatLabels, OfflineLabels, RemovalLabels, CleanupLabels
<1>4. j.at = next
  BY <1>2 DEF Grows, Become, Inv, TypeOK
<1>5. Grows(p, j)
  OBVIOUS
<1>. HIDE DEF j
<1>. QED  BY <1>2, <1>3, <1>4, <1>5, CalmStep

\* A command that changes no key.
LEMMA QuietLasts ==
  ASSUME Inv, NEW p \in Procs, store' = store,
         job[p].at \notin {"expireSockets", "expireUser", "beatExpireUser", "statusCustom",
                           "statusExpireUser", "expireSocket"}
  PROVE  /\ store' \in Stores
         /\ \A k \in Keys : Lasts(p, k)
  BY DEF Inv, Lasts, Due, At

LEMMA WriteLasts ==
  ASSUME Inv, NEW p \in Procs, NEW key \in Keys,
         store' \in Stores,
         \A k \in Keys : store'[k].ttl = store[k].ttl,
         \A k \in Keys : k # key => store'[k] = store[k],
         \A k : Due(p, k) => k = key,
         Due(p, key)'
  PROVE  \A k \in Keys : Lasts(p, k)
<1>. TAKE k \in Keys
<1>1. CASE k = key
  BY <1>1 DEF Lasts
<1>2. CASE k # key
  BY <1>2 DEF Lasts, Exists
<1>. QED  BY <1>1, <1>2

LEMMA ExpireLasts ==
  ASSUME Inv, NEW p \in Procs, NEW key \in Keys, store' = Expire(store, key),
         \A k : Due(p, k) => k = key
  PROVE  /\ store' \in Stores
         /\ \A k \in Keys : store'[k].members = store[k].members
         /\ \A k \in Keys : Lasts(p, k)
<1>1. store \in Stores
  BY DEF Inv
<1>2. /\ store' \in Stores
      /\ \A k \in Keys : store'[k].members = store[k].members
      /\ \A k \in Keys : k # key => store'[k] = store[k]
      /\ Exists(store', key) => store'[key].ttl
  BY <1>1, ExpireEffect
<1>3. ASSUME NEW k \in Keys
      PROVE  Lasts(p, k)
  <2>1. CASE k = key
    BY <1>2, <2>1 DEF Lasts
  <2>2. CASE k # key
    BY <1>2, <2>2 DEF Lasts, Exists
  <2>. QED  BY <2>1, <2>2
<1>. QED  BY <1>2, <1>3

LEMMA JobKeys ==
  ASSUME Inv, NEW p \in Procs
  PROVE  /\ job[p].at \in OnlineLabels \cup BeatLabels =>
               /\ Socket(p) \in Sockets /\ User(p) = UserOf[Socket(p)]
               /\ User(p) \in Users /\ SocketKey(Socket(p)) \in Keys
               /\ SocketsKey(User(p)) \in Keys /\ UserKey(User(p)) \in Keys
         /\ job[p].at \in OfflineLabels => Socket(p) \in Sockets /\ SocketKey(Socket(p)) \in Keys
         /\ job[p].at \in OfflineLabels \ {"readSocket", "dropSocket"} =>
               /\ User(p) = UserOf[Socket(p)] /\ User(p) \in Users
               /\ SocketsKey(User(p)) \in Keys /\ UserKey(User(p)) \in Keys
         /\ job[p].at \in RemovalLabels \cup CleanupLabels =>
               /\ User(p) \in Users
               /\ SocketsKey(User(p)) \in Keys /\ UserKey(User(p)) \in Keys
<1>1. Shaped(p)
  BY DEF Inv
<1>. QED  BY <1>1, KeyTypes DEF Shaped, User, Socket

-----------------------------------------------------------------------------
(* markOnline.                                                             *)

LEMMA AddSocketStep ==
  ASSUME Inv, NEW p \in Procs, AddSocket(p)
  PROVE  Inv'
<1>. PICK key \in Keys : key = SocketsKey(User(p))
  BY JobKeys DEF AddSocket, Command, At, OnlineLabels
<1>1. /\ TypeOK /\ store \in Stores /\ job[p].at = "addSocket" /\ Socket(p) \in Sockets
      /\ User(p) = UserOf[Socket(p)]
      /\ store' = SAdd(store, key, Socket(p)) /\ Goto(p, "expireSockets")
      /\ UNCHANGED <<online, conn, joined, faults>>
  BY JobKeys DEF AddSocket, Command, At, Inv, OnlineLabels
<1>2. /\ store' \in Stores
      /\ \A k \in Keys : store'[k].ttl = store[k].ttl
      /\ \A k \in Keys : k # key => store'[k] = store[k]
      /\ Socket(p) \in store'[key].members
      /\ \A k \in Keys : store[k].members \subseteq store'[k].members
  BY <1>1, AddEffect DEF Exists, HSet
<1>3. "expireSockets" \in Labels /\ job'[p].at = "expireSockets" /\ job'[p].user = User(p)
      /\ job'[p].socket = Socket(p)
  BY <1>1, GotoJob DEF Labels, OnlineLabels, User, Socket
<1>4. \A k \in Keys : Lasts(p, k)
  <2>1. \A k : Due(p, k) => k = key
    BY <1>1 DEF Due, At
  <2>2. Due(p, key)'
    BY <1>3 DEF Due, At, User, Socket
  <2>. QED  BY <1>1, <1>2, <2>1, <2>2, WriteLasts
<1>5. Arrived(Socket(p), "addSocket") => Arrived(Socket(p), "expireSockets")'
  BY <1>1, <1>2, <1>3, KeyTypes, KeysDiffer DEF Arrived, SMembers, Exists, User, Socket
<1>6. Grows(p, [job[p] EXCEPT !.at = "expireSockets"])
  BY <1>1, <1>2 DEF Grows, Goto, Inv, TypeOK
<1>. QED  BY <1>1, <1>4, <1>5, <1>6, OnlineStep DEF OnlineLabels

LEMMA ExpireSocketsStep ==
  ASSUME Inv, NEW p \in Procs, ExpireSockets(p)
  PROVE  Inv'
<1>. DEFINE key == SocketsKey(User(p))
<1>1. /\ TypeOK /\ store \in Stores /\ key \in Keys /\ job[p].at = "expireSockets" /\ Socket(p) \in Sockets
      /\ User(p) = UserOf[Socket(p)]
      /\ store' = Expire(store, key) /\ Goto(p, "addUser")
      /\ UNCHANGED <<online, conn, joined, faults>>
  BY JobKeys DEF ExpireSockets, Command, At, Inv, OnlineLabels
<1>2. \A k : Due(p, k) => k = key
  BY <1>1 DEF Due, At
<1>3. /\ store' \in Stores
      /\ \A k \in Keys : store'[k].members = store[k].members
      /\ \A k \in Keys : Lasts(p, k)
  <2>. HIDE DEF key
  <2>. QED  BY <1>1, <1>2, ExpireLasts
<1>4. job'[p].socket = Socket(p) /\ job'[p].user = User(p)
  BY <1>1, GotoJob DEF Labels, OnlineLabels, User, Socket
<1>5. Arrived(Socket(p), "expireSockets") => Arrived(Socket(p), "addUser")'
  BY <1>1, <1>3, <1>4, KeyTypes DEF Arrived, SMembers, Exists, User, Socket
<1>6. Grows(p, [job[p] EXCEPT !.at = "addUser"])
  BY <1>1, <1>3 DEF Grows, Goto, Inv, TypeOK
<1>. QED  BY <1>1, <1>3, <1>5, <1>6, OnlineStep DEF OnlineLabels

LEMMA AddUserStep ==
  ASSUME Inv, NEW p \in Procs, AddUser(p)
  PROVE  Inv'
<1>1. /\ TypeOK /\ store \in Stores /\ job[p].at = "addUser" /\ User(p) \in Users /\ User(p) = UserOf[Socket(p)]
      /\ online' = online \cup {User(p)} /\ Goto(p, "putUser")
      /\ UNCHANGED <<store, conn, joined, faults>>
  BY JobKeys DEF AddUser, At, Inv, OnlineLabels
<1>2. store' \in Stores /\ \A k \in Keys : Lasts(p, k)
  BY <1>1, QuietLasts
<1>3. job'[p].socket = Socket(p) /\ job'[p].user = User(p)
  BY <1>1, GotoJob DEF Labels, OnlineLabels, User, Socket
<1>4. Arrived(Socket(p), "addUser") => Arrived(Socket(p), "putUser")'
  BY <1>1, <1>3 DEF Arrived, Socket
<1>5. Grows(p, [job[p] EXCEPT !.at = "putUser"])
  BY <1>1, <1>2 DEF Grows, Goto, TypeOK
<1>. QED  BY <1>1, <1>2, <1>4, <1>5, OnlineStep DEF OnlineLabels

LEMMA PutUserStep ==
  ASSUME Inv, NEW p \in Procs, PutUser(p)
  PROVE  Inv'
<1>. PICK key \in Keys : key = UserKey(User(p))
  BY JobKeys DEF PutUser, Command, At, OnlineLabels
<1>1. /\ TypeOK /\ store \in Stores /\ job[p].at = "putUser" /\ Socket(p) \in Sockets
      /\ User(p) = UserOf[Socket(p)]
      /\ store' = HSet(store, key, Hash) /\ Goto(p, "expireUser")
      /\ UNCHANGED <<online, conn, joined, faults>>
  BY JobKeys DEF PutUser, Command, At, Inv, OnlineLabels
<1>2. /\ store' \in Stores
      /\ \A k \in Keys : store'[k].ttl = store[k].ttl
      /\ \A k \in Keys : k # key => store'[k] = store[k]
      /\ Exists(store', key)
      /\ \A k \in Keys : store[k].members \subseteq store'[k].members
  BY <1>1, KeysDiffer, AddEffect, HashEffect DEF Exists, HSet
<1>3. "expireUser" \in Labels /\ job'[p].at = "expireUser" /\ job'[p].user = User(p)
      /\ job'[p].socket = Socket(p)
  BY <1>1, GotoJob DEF Labels, OnlineLabels, User, Socket
<1>4. \A k \in Keys : Lasts(p, k)
  <2>1. \A k : Due(p, k) => k = key
    BY <1>1 DEF Due, At
  <2>2. Due(p, key)'
    BY <1>3 DEF Due, At, User, Socket
  <2>. QED  BY <1>1, <1>2, <2>1, <2>2, WriteLasts
<1>5. Arrived(Socket(p), "putUser") => Arrived(Socket(p), "expireUser")'
  BY <1>1, <1>2, <1>3, KeyTypes, KeysDiffer DEF Arrived, SMembers, Exists, User, Socket
<1>6. Grows(p, [job[p] EXCEPT !.at = "expireUser"])
  BY <1>1, <1>2 DEF Grows, Goto, Inv, TypeOK
<1>. QED  BY <1>1, <1>4, <1>5, <1>6, OnlineStep DEF OnlineLabels

LEMMA ExpireUserStep ==
  ASSUME Inv, NEW p \in Procs, ExpireUser(p)
  PROVE  Inv'
<1>. DEFINE key == UserKey(User(p))
<1>1. /\ TypeOK /\ store \in Stores /\ key \in Keys /\ job[p].at = "expireUser" /\ Socket(p) \in Sockets
      /\ User(p) = UserOf[Socket(p)]
      /\ store' = Expire(store, key) /\ Goto(p, "putSocket")
      /\ UNCHANGED <<online, conn, joined, faults>>
  BY JobKeys DEF ExpireUser, Command, At, Inv, OnlineLabels
<1>2. \A k : Due(p, k) => k = key
  BY <1>1 DEF Due, At
<1>3. /\ store' \in Stores
      /\ \A k \in Keys : store'[k].members = store[k].members
      /\ \A k \in Keys : Lasts(p, k)
  <2>. HIDE DEF key
  <2>. QED  BY <1>1, <1>2, ExpireLasts
<1>4. job'[p].socket = Socket(p) /\ job'[p].user = User(p)
  BY <1>1, GotoJob DEF Labels, OnlineLabels, User, Socket
<1>5. Arrived(Socket(p), "expireUser") => Arrived(Socket(p), "putSocket")'
  BY <1>1, <1>3, <1>4, KeyTypes DEF Arrived, SMembers, Exists, User, Socket
<1>6. Grows(p, [job[p] EXCEPT !.at = "putSocket"])
  BY <1>1, <1>3 DEF Grows, Goto, Inv, TypeOK
<1>. QED  BY <1>1, <1>3, <1>5, <1>6, OnlineStep DEF OnlineLabels

LEMMA PutSocketStep ==
  ASSUME Inv, NEW p \in Procs, PutSocket(p)
  PROVE  Inv'
<1>. PICK key \in Keys : key = SocketKey(Socket(p))
  BY JobKeys DEF PutSocket, Command, At, OnlineLabels
<1>1. /\ TypeOK /\ store \in Stores /\ job[p].at = "putSocket" /\ Socket(p) \in Sockets
      /\ User(p) = UserOf[Socket(p)]
      /\ store' = HSet(store, key, Hash) /\ Goto(p, "expireSocket")
      /\ UNCHANGED <<online, conn, joined, faults>>
  BY JobKeys DEF PutSocket, Command, At, Inv, OnlineLabels
<1>2. /\ store' \in Stores
      /\ \A k \in Keys : store'[k].ttl = store[k].ttl
      /\ \A k \in Keys : k # key => store'[k] = store[k]
      /\ Exists(store', key)
      /\ \A k \in Keys : store[k].members \subseteq store'[k].members
  BY <1>1, KeysDiffer, AddEffect, HashEffect DEF Exists, HSet
<1>3. "expireSocket" \in Labels /\ job'[p].at = "expireSocket" /\ job'[p].user = User(p)
      /\ job'[p].socket = Socket(p)
  BY <1>1, GotoJob DEF Labels, OnlineLabels, User, Socket
<1>4. \A k \in Keys : Lasts(p, k)
  <2>1. \A k : Due(p, k) => k = key
    BY <1>1 DEF Due, At
  <2>2. Due(p, key)'
    BY <1>3 DEF Due, At, User, Socket
  <2>. QED  BY <1>1, <1>2, <2>1, <2>2, WriteLasts
<1>5. Arrived(Socket(p), "putSocket") => Arrived(Socket(p), "expireSocket")'
  BY <1>1, <1>2, <1>3, KeyTypes, KeysDiffer DEF Arrived, SMembers, Exists, User, Socket
<1>6. Grows(p, [job[p] EXCEPT !.at = "expireSocket"])
  BY <1>1, <1>2 DEF Grows, Goto, Inv, TypeOK
<1>. QED  BY <1>1, <1>4, <1>5, <1>6, OnlineStep DEF OnlineLabels

\* The device has registered: no sweep of its account can be under way if it is undisturbed.
LEMMA ExpireSocketStep ==
  ASSUME Inv, NEW p \in Procs, ExpireSocket(p)
  PROVE  Inv'
<1>. DEFINE key == SocketKey(Socket(p))
<1>1. /\ TypeOK /\ store \in Stores /\ key \in Keys /\ job[p].at = "expireSocket" /\ Socket(p) \in Sockets
      /\ store' = Expire(store, key) /\ Become(p, Idle)
      /\ joined' = joined \cup {Socket(p)}
      /\ UNCHANGED <<online, conn, faults>>
  BY JobKeys DEF ExpireSocket, Command, At, Inv, OnlineLabels
<1>2. \A k : Due(p, k) => k = key
  BY <1>1 DEF Due, At
<1>3. /\ store' \in Stores
      /\ \A k \in Keys : store'[k].members = store[k].members
      /\ \A k \in Keys : Lasts(p, k)
  <2>. HIDE DEF key
  <2>. QED  BY <1>1, <1>2, ExpireLasts
<1>4. job'[p] = Idle
  BY <1>1 DEF TypeOK, Become
<1>5. Shaped(p)'
  BY <1>4, IdleJob DEF Shaped, OnlineLabels, BeatLabels, OfflineLabels, RemovalLabels,
     CleanupLabels
<1>6. \A s \in joined' \ joined : Registers(p, s)
  BY <1>1 DEF Registers, OnlineLabels
<1>7. \A s \in Sockets : Kept(s)
  BY <1>1, <1>3, KeyTypes DEF Kept, SMembers, Exists
<1>8. ASSUME NEW s \in Sockets, conn[s] = "open", s \notin disturbed'
      PROVE  /\ ~Registers(p, s)' /\ Spares(p, s)'
             /\ s \in joined' \ joined => Arrived(s, "expireSocket")'
  <2>1. ~Registers(p, s)' /\ Spares(p, s)'
    BY <1>4, IdleJob DEF Registers, Spares, OnlineLabels, RemovalLabels
  <2>2. ASSUME s \in joined' \ joined
        PROVE  Arrived(s, "expireSocket")'
    <3>1. Registers(p, s) /\ Kept(s) /\ s \notin disturbed
      BY <1>1, <1>6, <1>7, <1>8, <2>2 DEF Become
    <3>2. Arrived(s, "expireSocket")
      BY <1>1, <1>8, <3>1 DEF Inv, Safe
    <3>. QED  BY <3>1, <3>2, ArrivedKept
  <2>. QED  BY <2>1, <2>2
<1>9. /\ online' \subseteq Users /\ conn' \in [Sockets -> {"new", "open", "closed"}]
      /\ \A s \in Sockets : conn'[s] \in {conn[s], "closed"}
      /\ joined' \subseteq Sockets /\ faults' \in 0..MaxFaults
  BY <1>1 DEF TypeOK
<1>. QED  BY <1>1, <1>3, <1>5, <1>6, <1>7, <1>8, <1>9, IdleJob, JobStep

-----------------------------------------------------------------------------
(* heartbeat and updateStatus.                                             *)

LEMMA BeatStep ==
  ASSUME Inv, NEW p \in Procs, Beat(p)
  PROVE  Inv'
<1>1. /\ job[p].at = "beat"
      /\ Goto(p, "beatUser") \/ Become(p, Idle)
      /\ UNCHANGED <<store, online, conn, joined, faults>>
  BY DEF Beat, At
<1>2. store' \in Stores /\ \A k \in Keys : Lasts(p, k)
  BY <1>1, QuietLasts
<1>3. \A j : Become(p, j) => Grows(p, j)
  BY <1>1, <1>2 DEF Grows, Inv, TypeOK
<1>. QED  BY <1>1, <1>2, <1>3, TouchStep, IdleStep DEF Goto, BeatLabels

LEMMA BeatUserStep ==
  ASSUME Inv, NEW p \in Procs, BeatUser(p)
  PROVE  Inv'
<1>. PICK key \in Keys : key = UserKey(User(p))
  BY JobKeys DEF BeatUser, Command, At, BeatLabels
<1>1. /\ TypeOK /\ store \in Stores /\ job[p].at = "beatUser" /\ Socket(p) \in Sockets
      /\ User(p) = UserOf[Socket(p)]
      /\ store' = HSet(store, key, Hash) /\ Goto(p, "beatExpireUser")
      /\ UNCHANGED <<online, conn, joined, faults>>
  BY JobKeys DEF BeatUser, Command, At, Inv, BeatLabels
<1>2. /\ store' \in Stores
      /\ \A k \in Keys : store'[k].ttl = store[k].ttl
      /\ \A k \in Keys : k # key => store'[k] = store[k]
      /\ Exists(store', key)
      /\ \A k \in Keys : store[k].members \subseteq store'[k].members
  BY <1>1, KeysDiffer, AddEffect, HashEffect DEF Exists, HSet
<1>3. "beatExpireUser" \in Labels /\ job'[p].at = "beatExpireUser" /\ job'[p].user = User(p)
      /\ job'[p].socket = Socket(p)
  BY <1>1, GotoJob DEF Labels, BeatLabels, User, Socket
<1>4. \A k \in Keys : Lasts(p, k)
  <2>1. \A k : Due(p, k) => k = key
    BY <1>1 DEF Due, At
  <2>2. Due(p, key)'
    BY <1>3 DEF Due, At, User, Socket
  <2>. QED  BY <1>1, <1>2, <2>1, <2>2, WriteLasts
<1>6. Grows(p, [job[p] EXCEPT !.at = "beatExpireUser"])
  BY <1>1, <1>2 DEF Grows, Goto, Inv, TypeOK
<1>. QED  BY <1>1, <1>4, <1>6, TouchStep DEF BeatLabels

LEMMA BeatExpireUserStep ==
  ASSUME Inv, NEW p \in Procs, BeatExpireUser(p)
  PROVE  Inv'
<1>. DEFINE key == UserKey(User(p))
<1>1. /\ TypeOK /\ store \in Stores /\ key \in Keys /\ job[p].at = "beatExpireUser" /\ Socket(p) \in Sockets
      /\ User(p) = UserOf[Socket(p)]
      /\ store' = Expire(store, key) /\ Goto(p, "beatExpireSockets")
      /\ UNCHANGED <<online, conn, joined, faults>>
  BY JobKeys DEF BeatExpireUser, Command, At, Inv, BeatLabels
<1>2. \A k : Due(p, k) => k = key
  BY <1>1 DEF Due, At
<1>3. /\ store' \in Stores
      /\ \A k \in Keys : store'[k].members = store[k].members
      /\ \A k \in Keys : Lasts(p, k)
  <2>. HIDE DEF key
  <2>. QED  BY <1>1, <1>2, ExpireLasts
<1>4. job'[p].socket = Socket(p) /\ job'[p].user = User(p)
  BY <1>1, GotoJob DEF Labels, BeatLabels, User, Socket
<1>6. Grows(p, [job[p] EXCEPT !.at = "beatExpireSockets"])
  BY <1>1, <1>3 DEF Grows, Goto, Inv, TypeOK
<1>. QED  BY <1>1, <1>3, <1>6, TouchStep DEF BeatLabels

LEMMA BeatExpireSocketsStep ==
  ASSUME Inv, NEW p \in Procs, BeatExpireSockets(p)
  PROVE  Inv'
<1>. DEFINE key == SocketsKey(User(p))
<1>1. /\ TypeOK /\ store \in Stores /\ key \in Keys /\ job[p].at = "beatExpireSockets" /\ Socket(p) \in Sockets
      /\ User(p) = UserOf[Socket(p)]
      /\ store' = Expire(store, key) /\ Goto(p, "beatExpireSocket")
      /\ UNCHANGED <<online, conn, joined, faults>>
  BY JobKeys DEF BeatExpireSockets, Command, At, Inv, BeatLabels
<1>2. \A k : Due(p, k) => k = key
  BY <1>1 DEF Due, At
<1>3. /\ store' \in Stores
      /\ \A k \in Keys : store'[k].members = store[k].members
      /\ \A k \in Keys : Lasts(p, k)
  <2>. HIDE DEF key
  <2>. QED  BY <1>1, <1>2, ExpireLasts
<1>4. job'[p].socket = Socket(p) /\ job'[p].user = User(p)
  BY <1>1, GotoJob DEF Labels, BeatLabels, User, Socket
<1>6. Grows(p, [job[p] EXCEPT !.at = "beatExpireSocket"])
  BY <1>1, <1>3 DEF Grows, Goto, Inv, TypeOK
<1>. QED  BY <1>1, <1>3, <1>6, TouchStep DEF BeatLabels

LEMMA BeatExpireSocketStep ==
  ASSUME Inv, NEW p \in Procs, BeatExpireSocket(p)
  PROVE  Inv'
<1>. DEFINE key == SocketKey(Socket(p))
<1>1. /\ key \in Keys /\ job[p].at = "beatExpireSocket"
      /\ store' = Expire(store, key) /\ Become(p, Idle)
      /\ UNCHANGED <<online, conn, joined, faults>>
  BY JobKeys DEF BeatExpireSocket, Command, At, BeatLabels
<1>2. \A k : Due(p, k) => k = key
  BY <1>1 DEF Due, At
<1>3. /\ store' \in Stores
      /\ \A k \in Keys : store'[k].members = store[k].members
      /\ \A k \in Keys : Lasts(p, k)
  <2>. HIDE DEF key
  <2>. QED  BY <1>1, <1>2, ExpireLasts
<1>4. Grows(p, Idle)
  BY <1>1, <1>3 DEF Grows, Inv, TypeOK
<1>. QED  BY <1>1, <1>3, <1>4, IdleStep

LEMMA StatusStep ==
  ASSUME Inv, NEW p \in Procs, Status(p)
  PROVE  Inv'
<1>1. /\ job[p].at = "status"
      /\ Goto(p, "statusUser") \/ Become(p, Idle)
      /\ UNCHANGED <<store, online, conn, joined, faults>>
  BY DEF Status, At
<1>2. store' \in Stores /\ \A k \in Keys : Lasts(p, k)
  BY <1>1, QuietLasts
<1>3. \A j : Become(p, j) => Grows(p, j)
  BY <1>1, <1>2 DEF Grows, Inv, TypeOK
<1>. QED  BY <1>1, <1>2, <1>3, TouchStep, IdleStep DEF Goto, BeatLabels

LEMMA StatusCustomStep ==
  ASSUME Inv, NEW p \in Procs, StatusCustom(p)
  PROVE  Inv'
<1>. PICK key \in Keys : key = UserKey(User(p))
  BY JobKeys DEF StatusCustom, Command, At, BeatLabels
<1>1. /\ TypeOK /\ store \in Stores /\ job[p].at = "statusCustom" /\ Socket(p) \in Sockets
      /\ User(p) = UserOf[Socket(p)]
      /\ store' = HSet(store, key, Hash) /\ Goto(p, "statusExpireUser")
      /\ UNCHANGED <<online, conn, joined, faults>>
  BY JobKeys DEF StatusCustom, Command, At, Inv, BeatLabels
<1>2. /\ store' \in Stores
      /\ \A k \in Keys : store'[k].ttl = store[k].ttl
      /\ \A k \in Keys : k # key => store'[k] = store[k]
      /\ Exists(store', key)
      /\ \A k \in Keys : store[k].members \subseteq store'[k].members
  BY <1>1, KeysDiffer, AddEffect, HashEffect DEF Exists, HSet
<1>3. "statusExpireUser" \in Labels /\ job'[p].at = "statusExpireUser" /\ job'[p].user = User(p)
      /\ job'[p].socket = Socket(p)
  BY <1>1, GotoJob DEF Labels, BeatLabels, User, Socket
<1>4. \A k \in Keys : Lasts(p, k)
  <2>1. \A k : Due(p, k) => k = key
    BY <1>1 DEF Due, At
  <2>2. Due(p, key)'
    BY <1>3 DEF Due, At, User, Socket
  <2>. QED  BY <1>1, <1>2, <2>1, <2>2, WriteLasts
<1>6. Grows(p, [job[p] EXCEPT !.at = "statusExpireUser"])
  BY <1>1, <1>2 DEF Grows, Goto, Inv, TypeOK
<1>. QED  BY <1>1, <1>4, <1>6, TouchStep DEF BeatLabels

LEMMA StatusExpireUserStep ==
  ASSUME Inv, NEW p \in Procs, StatusExpireUser(p)
  PROVE  Inv'
<1>. DEFINE key == UserKey(User(p))
<1>1. /\ key \in Keys /\ job[p].at = "statusExpireUser"
      /\ store' = Expire(store, key) /\ Become(p, Idle)
      /\ UNCHANGED <<online, conn, joined, faults>>
  BY JobKeys DEF StatusExpireUser, Command, At, BeatLabels
<1>2. \A k : Due(p, k) => k = key
  BY <1>1 DEF Due, At
<1>3. /\ store' \in Stores
      /\ \A k \in Keys : store'[k].members = store[k].members
      /\ \A k \in Keys : Lasts(p, k)
  <2>. HIDE DEF key
  <2>. QED  BY <1>1, <1>2, ExpireLasts
<1>4. Grows(p, Idle)
  BY <1>1, <1>3 DEF Grows, Inv, TypeOK
<1>. QED  BY <1>1, <1>3, <1>4, IdleStep

-----------------------------------------------------------------------------
LEMMA StatusUserStep ==
  ASSUME Inv, NEW p \in Procs, StatusUser(p)
  PROVE  Inv'
<1>. PICK key \in Keys : key = UserKey(User(p))
  BY JobKeys DEF StatusUser, Command, At, BeatLabels
<1>. PICK next \in {"statusCustom", "statusExpireUser"} : Goto(p, next)
  BY DEF StatusUser, Command
<1>1. /\ TypeOK /\ store \in Stores /\ job[p].at = "statusUser"
      /\ store' = HSet(store, key, Hash)
      /\ UNCHANGED <<online, conn, joined, faults>>
  BY DEF StatusUser, Command, At, Inv
<1>2. /\ store' \in Stores
      /\ \A k \in Keys : store'[k].ttl = store[k].ttl
      /\ \A k \in Keys : k # key => store'[k] = store[k]
      /\ \A k \in Keys : store[k].members \subseteq store'[k].members
  BY <1>1, KeysDiffer, AddEffect DEF HSet
<1>3. next \in Labels /\ job'[p].at = next /\ job'[p].user = User(p)
  BY <1>1, GotoJob DEF Labels, BeatLabels, User
<1>4. \A k \in Keys : Lasts(p, k)
  <2>1. \A k : Due(p, k) => k = key
    BY <1>1 DEF Due, At
  <2>2. Due(p, key)'
    BY <1>3 DEF Due, At, User
  <2>. QED  BY <1>2, <2>1, <2>2, WriteLasts
<1>5. Grows(p, [job[p] EXCEPT !.at = next])
  BY <1>1, <1>2 DEF Grows, Goto, Inv, TypeOK
<1>. QED  BY <1>1, <1>4, <1>5, TouchStep DEF BeatLabels

-----------------------------------------------------------------------------
(* markOffline.                                                            *)

\* A job of a closed socket, or a turn of the cleanup, registers nothing: what it
\* owes is its shape, what it spares, and what stays of the devices it does not
\* remove.
LEMMA SweepStep ==
  ASSUME Inv, NEW p \in Procs, NEW j \in Job, Become(p, j), j.at \notin OnlineLabels,
         store' \in Stores, online' \subseteq Users,
         UNCHANGED <<conn, joined, faults>>,
         Shaped(p)',
         \A k \in Keys : Lasts(p, k),
         \A s \in Sockets :
            conn[s] = "open" /\ s \notin disturbed' =>
               /\ Present(s) => Kept(s)
               /\ s \in joined => Spares(p, s)'
  PROVE  Inv'
<1>1. \A s \in Sockets : ~Registers(p, s)'
  BY DEF Become, Inv, TypeOK, Registers
<1>. QED  BY <1>1, JobStep DEF Inv, TypeOK

LEMMA DropLasts ==
  ASSUME Inv, NEW p \in Procs, NEW key \in Keys,
         store' \in Stores,
         \A k \in Keys : k # key => store'[k] = store[k],
         Exists(store', key) => Exists(store, key) /\ store'[key].ttl = store[key].ttl,
         job[p].at \notin {"expireSockets", "expireUser", "beatExpireUser", "statusCustom",
                           "statusExpireUser", "expireSocket"}
  PROVE  \A k \in Keys : Lasts(p, k)
<1>. TAKE k \in Keys
<1>1. ~Due(p, k)
  BY DEF Due, At
<1>2. CASE k = key
  BY <1>1, <1>2 DEF Lasts
<1>3. CASE k # key
  BY <1>1, <1>3 DEF Lasts, Exists
<1>. QED  BY <1>2, <1>3

\* What is read of the store is true of a device that is undisturbed.
LEMMA JoinedIsShown ==
  ASSUME Inv, NEW s \in Sockets, s \in joined, conn[s] = "open", s \notin disturbed
  PROVE  /\ s \in SMembers(store, SocketsKey(UserOf[s])) /\ UserOf[s] \in online
         /\ Exists(store, UserKey(UserOf[s])) /\ Exists(store, SocketKey(s))
         /\ \A p \in Procs : Spares(p, s)
  BY DEF Inv, Safe, Arrived

\* While a device is there, no job is past the point where its account goes.
LEMMA NoneRemoved ==
  ASSUME Inv, NEW p \in Procs, job[p].at \in RemovalLabels,
         NEW s \in Sockets, conn[s] = "open", s \notin disturbed, Present(s)
  PROVE  User(p) # UserOf[s]
<1>1. CASE s \in joined
  BY <1>1, JoinedIsShown DEF Spares
<1>2. CASE \E q \in Procs : Registers(q, s)
  BY <1>2 DEF Inv, Overlapping, Registers, User, Socket
<1>. QED  BY <1>1, <1>2 DEF Present

LEMMA ReadSocketStep ==
  ASSUME Inv, NEW p \in Procs, ReadSocket(p)
  PROVE  Inv'
<1>. DEFINE j == [job[p] EXCEPT !.at = "dropSocket",
                     !.user = IF Exists(store, SocketKey(Socket(p)))
                              THEN UserOf[Socket(p)] ELSE NoUser]
<1>1. /\ job[p].at = "readSocket" /\ Become(p, j) /\ job[p] \in Job /\ Shaped(p)
      /\ Socket(p) \in Sockets
      /\ UNCHANGED <<store, online, conn, joined, faults>>
  BY JobKeys DEF ReadSocket, At, Inv, TypeOK, OfflineLabels
<1>2. j \in Job /\ j.at = "dropSocket" /\ j.socket = Socket(p) /\ j.user \in {UserOf[Socket(p)], NoUser}
  BY <1>1, KeyTypes DEF Job, Labels, OfflineLabels, Socket
<1>3. job'[p] = j
  BY <1>1 DEF Become, Inv, TypeOK
<1>. HIDE DEF j
<1>4. Shaped(p)'
  BY <1>1, <1>2, <1>3 DEF Shaped, OnlineLabels, BeatLabels, OfflineLabels, RemovalLabels,
     CleanupLabels, Socket
<1>5. store' \in Stores /\ \A k \in Keys : Lasts(p, k)
  BY <1>1, QuietLasts
<1>6. Grows(p, j)
  BY <1>1, <1>5 DEF Grows, Inv, TypeOK
<1>. QED  BY <1>1, <1>2, <1>4, <1>5, <1>6, CalmStep

LEMMA DropSocketStep ==
  ASSUME Inv, NEW p \in Procs, DropSocket(p)
  PROVE  Inv'
<1>. PICK key \in Keys : key = SocketKey(Socket(p))
  BY JobKeys DEF DropSocket, At, OfflineLabels
<1>1. /\ TypeOK /\ store \in Stores /\ job[p].at = "dropSocket" /\ job[p] \in Job /\ Shaped(p)
      /\ Socket(p) \in Sockets
      /\ store' = Del(store, key)
      /\ UNCHANGED <<online, conn, joined, faults>>
  BY JobKeys DEF DropSocket, At, Inv, TypeOK, OfflineLabels
<1>2. /\ store' \in Stores
      /\ \A k \in Keys : k # key => store'[k] = store[k]
      /\ ~Exists(store', key)
  BY <1>1, DelEffect
<1>3. \A k \in Keys : Lasts(p, k)
  BY <1>1, <1>2, DropLasts
<1>4. ASSUME NEW s \in Sockets, conn[s] = "open"
      PROVE  Kept(s)
  <2>1. s # Socket(p)
    BY <1>1, <1>4 DEF Shaped, OfflineLabels, Socket
  <2>. QED  BY <1>1, <1>2, <2>1, KeyTypes, KeysDiffer DEF Kept, SMembers, Exists
<1>5. CASE User(p) = NoUser
  <2>1. Become(p, Idle) /\ job'[p] = Idle
    BY <1>1, <1>5 DEF DropSocket, Become, TypeOK
  <2>2. Shaped(p)' /\ \A s \in Sockets : Spares(p, s)'
    BY <2>1, IdleJob DEF Shaped, Spares, OnlineLabels, BeatLabels, OfflineLabels,
       RemovalLabels, CleanupLabels
  <2>. QED  BY <1>1, <1>2, <1>3, <1>4, <2>1, <2>2, IdleJob, SweepStep DEF TypeOK, OnlineLabels
<1>6. CASE User(p) # NoUser
  <2>. DEFINE j == [job[p] EXCEPT !.at = "remSocket"]
  <2>1. Goto(p, "remSocket") /\ Become(p, j)
    BY <1>1, <1>6 DEF DropSocket, Goto
  <2>2. /\ j \in Job /\ j.at = "remSocket" /\ job'[p] = j
        /\ job'[p].socket = Socket(p) /\ job'[p].user = User(p)
    BY <1>1, <2>1, GotoJob DEF Become, TypeOK, Job, Labels, OfflineLabels, User, Socket
  <2>. HIDE DEF j
  <2>3. Shaped(p)' /\ \A s \in Sockets : Spares(p, s)'
    BY <1>1, <1>6, <2>2 DEF Shaped, Spares, OnlineLabels, BeatLabels, OfflineLabels,
       RemovalLabels, CleanupLabels, User, Socket
  <2>. QED  BY <1>1, <1>2, <1>3, <1>4, <2>1, <2>2, <2>3, SweepStep DEF TypeOK, OnlineLabels
<1>. QED  BY <1>5, <1>6

LEMMA RemSocketStep ==
  ASSUME Inv, NEW p \in Procs, RemSocket(p)
  PROVE  Inv'
<1>. PICK key \in Keys : key = SocketsKey(User(p))
  BY JobKeys DEF RemSocket, Command, At, OfflineLabels
<1>. DEFINE j == [job[p] EXCEPT !.at = "readRest"]
<1>1. /\ TypeOK /\ store \in Stores /\ job[p].at = "remSocket" /\ Shaped(p)
      /\ Socket(p) \in Sockets /\ User(p) = UserOf[Socket(p)]
      /\ store' = SRem(store, key, Socket(p)) /\ Goto(p, "readRest")
      /\ UNCHANGED <<online, conn, joined, faults>>
  BY JobKeys DEF RemSocket, Command, At, Inv, TypeOK, OfflineLabels
<1>2. /\ store' \in Stores
      /\ \A k \in Keys : k # key => store'[k] = store[k]
      /\ \A x : x # Socket(p) /\ x \in store[key].members => x \in store'[key].members
      /\ Exists(store', key) => Exists(store, key) /\ store'[key].ttl = store[key].ttl
  BY <1>1, RemEffect
<1>3. \A k \in Keys : Lasts(p, k)
  BY <1>1, <1>2, DropLasts
<1>4. ASSUME NEW s \in Sockets, conn[s] = "open"
      PROVE  Kept(s)
  <2>1. s # Socket(p)
    BY <1>1, <1>4 DEF Shaped, OfflineLabels, Socket
  <2>. QED  BY <1>1, <1>2, <2>1, KeyTypes, KeysDiffer DEF Kept, SMembers, Exists
<1>5. /\ j \in Job /\ Become(p, j) /\ job'[p].at = "readRest" /\ j.at = "readRest"
      /\ job'[p].socket = Socket(p) /\ job'[p].user = User(p)
  BY <1>1, GotoJob DEF Become, TypeOK, Job, Labels, OfflineLabels, User, Socket
<1>. HIDE DEF j
<1>6. Shaped(p)' /\ \A s \in Sockets : Spares(p, s)'
  BY <1>1, <1>5 DEF Shaped, Spares, OnlineLabels, BeatLabels, OfflineLabels,
     RemovalLabels, CleanupLabels, User, Socket
<1>. QED  BY <1>1, <1>2, <1>3, <1>4, <1>5, <1>6, SweepStep DEF TypeOK, OnlineLabels

\* The account goes only if no device is registered.
LEMMA ReadRestStep ==
  ASSUME Inv, NEW p \in Procs, ReadRest(p)
  PROVE  Inv'
<1>. PICK next \in {"remUser", "keepSockets"} :
        /\ Goto(p, next)
        /\ next = "remUser" => SMembers(store, SocketsKey(User(p))) = {}
  BY DEF ReadRest, Command
<1>. DEFINE j == [job[p] EXCEPT !.at = next]
<1>1. /\ TypeOK /\ store \in Stores /\ job[p].at = "readRest" /\ Shaped(p)
      /\ Socket(p) \in Sockets /\ User(p) = UserOf[Socket(p)] /\ User(p) \in Users
      /\ UNCHANGED <<store, online, conn, joined, faults>>
  BY JobKeys DEF ReadRest, Command, At, Inv, TypeOK, OfflineLabels
<1>2. store' \in Stores /\ \A k \in Keys : Lasts(p, k)
  BY <1>1, QuietLasts
<1>3. /\ j \in Job /\ Become(p, j) /\ job'[p].at = next /\ j.at = next
      /\ job'[p].socket = Socket(p) /\ job'[p].user = User(p)
  BY <1>1, GotoJob DEF Become, TypeOK, Job, Labels, OfflineLabels, RemovalLabels, User, Socket
<1>. HIDE DEF j
<1>4. Shaped(p)'
  BY <1>1, <1>3 DEF Shaped, OnlineLabels, BeatLabels, OfflineLabels,
     RemovalLabels, CleanupLabels, User, Socket
<1>5. ASSUME NEW s \in Sockets, conn[s] = "open", s \notin disturbed', s \in joined
      PROVE  Spares(p, s)'
  <2>1. s \in SMembers(store, SocketsKey(UserOf[s]))
    BY <1>3, <1>5, JoinedIsShown DEF Become
  <2>. QED  BY <1>3, <2>1 DEF Spares, RemovalLabels, User
<1>6. \A s \in Sockets : Kept(s)
  BY <1>1 DEF Kept
<1>. QED  BY <1>1, <1>2, <1>3, <1>4, <1>5, <1>6, SweepStep DEF TypeOK, OnlineLabels

LEMMA KeepSocketsStep ==
  ASSUME Inv, NEW p \in Procs, KeepSockets(p)
  PROVE  Inv'
<1>. PICK key \in Keys : key = SocketsKey(User(p))
  BY JobKeys DEF KeepSockets, Command, At, OfflineLabels
<1>. DEFINE j == [job[p] EXCEPT !.at = "keepUser"]
<1>1. /\ TypeOK /\ store \in Stores /\ job[p].at = "keepSockets" /\ Shaped(p)
      /\ Socket(p) \in Sockets /\ User(p) = UserOf[Socket(p)]
      /\ store' = Expire(store, key) /\ Goto(p, "keepUser")
      /\ UNCHANGED <<online, conn, joined, faults>>
  BY JobKeys DEF KeepSockets, Command, At, Inv, TypeOK, OfflineLabels
<1>2. \A k : Due(p, k) => k = key
  BY <1>1 DEF Due, At
<1>3. /\ store' \in Stores
      /\ \A k \in Keys : store'[k].members = store[k].members
      /\ \A k \in Keys : Lasts(p, k)
  BY <1>1, <1>2, ExpireLasts
<1>4. /\ j \in Job /\ Become(p, j) /\ job'[p].at = "keepUser" /\ j.at = "keepUser"
      /\ job'[p].socket = Socket(p) /\ job'[p].user = User(p)
  BY <1>1, GotoJob DEF Become, TypeOK, Job, Labels, OfflineLabels, User, Socket
<1>. HIDE DEF j
<1>5. Shaped(p)'
  BY <1>1, <1>4 DEF Shaped, OnlineLabels, BeatLabels, OfflineLabels,
     RemovalLabels, CleanupLabels, User, Socket
<1>6. Grows(p, j)
  BY <1>1, <1>3, <1>4 DEF Grows, TypeOK
<1>. QED  BY <1>1, <1>3, <1>4, <1>5, <1>6, CalmStep

LEMMA KeepUserStep ==
  ASSUME Inv, NEW p \in Procs, KeepUser(p)
  PROVE  Inv'
<1>. DEFINE key == UserKey(User(p))
<1>1. /\ key \in Keys /\ job[p].at = "keepUser"
      /\ store' = Expire(store, key) /\ Become(p, Idle)
      /\ UNCHANGED <<online, conn, joined, faults>>
  BY JobKeys DEF KeepUser, Command, At, OfflineLabels
<1>2. \A k : Due(p, k) => k = key
  BY <1>1 DEF Due, At
<1>3. /\ store' \in Stores
      /\ \A k \in Keys : store'[k].members = store[k].members
      /\ \A k \in Keys : Lasts(p, k)
  <2>. HIDE DEF key
  <2>. QED  BY <1>1, <1>2, ExpireLasts
<1>4. Grows(p, Idle)
  BY <1>1, <1>3 DEF Grows, Inv, TypeOK
<1>. QED  BY <1>1, <1>3, <1>4, IdleStep

-----------------------------------------------------------------------------
(* A turn of the cleanup, and the removal that ends it or markOffline.      *)

LEMMA RemUserStep ==
  ASSUME Inv, NEW p \in Procs, RemUser(p)
  PROVE  Inv'
<1>. DEFINE j == [job[p] EXCEPT !.at = "delUser"]
<1>1. /\ TypeOK /\ store \in Stores /\ job[p].at = "remUser" /\ Shaped(p) /\ User(p) \in Users
      /\ online' = online \ {User(p)} /\ Goto(p, "delUser")
      /\ UNCHANGED <<store, conn, joined, faults>>
  BY JobKeys DEF RemUser, At, Inv, RemovalLabels
<1>2. store' \in Stores /\ \A k \in Keys : Lasts(p, k)
  BY <1>1, QuietLasts
<1>3. /\ j \in Job /\ Become(p, j) /\ job'[p].at = "delUser" /\ j.at = "delUser"
      /\ job'[p].socket = Socket(p) /\ job'[p].user = User(p)
  BY <1>1, GotoJob DEF Become, TypeOK, Job, Labels, RemovalLabels, User, Socket
<1>. HIDE DEF j
<1>4. Shaped(p)'
  BY <1>1, <1>3 DEF Shaped, OnlineLabels, BeatLabels, OfflineLabels, RemovalLabels, User, Socket
<1>5. ASSUME NEW s \in Sockets, conn[s] = "open", s \notin disturbed', Present(s)
      PROVE  Kept(s) /\ Spares(p, s)'
  <2>1. User(p) # UserOf[s]
    BY <1>1, <1>3, <1>5, NoneRemoved DEF Become, RemovalLabels
  <2>. QED  BY <1>1, <1>3, <2>1 DEF Kept, Spares, User
<1>. QED  BY <1>1, <1>2, <1>3, <1>4, <1>5, SweepStep DEF TypeOK, OnlineLabels, Present

LEMMA DelUserStep ==
  ASSUME Inv, NEW p \in Procs, DelUser(p)
  PROVE  Inv'
<1>. PICK key \in Keys : key = UserKey(User(p))
  BY JobKeys DEF DelUser, Command, At, RemovalLabels
<1>. DEFINE j == [job[p] EXCEPT !.at = "delSockets"]
<1>1. /\ TypeOK /\ store \in Stores /\ job[p].at = "delUser" /\ Shaped(p) /\ User(p) \in Users
      /\ store' = Del(store, key) /\ Goto(p, "delSockets")
      /\ UNCHANGED <<online, conn, joined, faults>>
  BY JobKeys DEF DelUser, Command, At, Inv, RemovalLabels
<1>2. /\ store' \in Stores
      /\ \A k \in Keys : k # key => store'[k] = store[k]
      /\ ~Exists(store', key)
  BY <1>1, DelEffect
<1>3. \A k \in Keys : Lasts(p, k)
  BY <1>1, <1>2, DropLasts
<1>4. /\ j \in Job /\ Become(p, j) /\ job'[p].at = "delSockets" /\ j.at = "delSockets"
      /\ job'[p].socket = Socket(p) /\ job'[p].user = User(p)
  BY <1>1, GotoJob DEF Become, TypeOK, Job, Labels, RemovalLabels, User, Socket
<1>. HIDE DEF j
<1>5. Shaped(p)'
  BY <1>1, <1>4 DEF Shaped, OnlineLabels, BeatLabels, OfflineLabels, RemovalLabels, User, Socket
<1>6. ASSUME NEW s \in Sockets, conn[s] = "open", s \notin disturbed', Present(s)
      PROVE  Kept(s) /\ Spares(p, s)'
  <2>1. User(p) # UserOf[s]
    BY <1>1, <1>4, <1>6, NoneRemoved DEF Become, RemovalLabels
  <2>2. Kept(s)
    BY <1>1, <1>2, <2>1, KeyTypes, KeysDiffer DEF Kept, SMembers, Exists
  <2>. QED  BY <1>4, <2>1, <2>2 DEF Spares, User
<1>. QED  BY <1>1, <1>2, <1>3, <1>4, <1>5, <1>6, SweepStep DEF TypeOK, OnlineLabels, Present

\* The next account of a sweep: nothing of it has been read.
LEMMA NextJob ==
  ASSUME Inv, NEW p \in Procs, NextUser(p)
  PROVE  /\ \E j \in Job : Become(p, j) /\ job'[p] = j /\ j.at \notin OnlineLabels
         /\ Shaped(p)'
         /\ \A s \in Sockets : Spares(p, s)'
<1>1. /\ job \in [Procs -> Job] /\ job[p] \in Job /\ job[p].users \subseteq Users
      /\ \A j : Become(p, j) => job'[p] = j
  BY DEF Inv, TypeOK, Become, Job
<1>2. CASE job[p].users = {}
  <2>1. Become(p, Idle) /\ job'[p] = Idle
    BY <1>1, <1>2 DEF NextUser
  <2>. QED  BY <2>1, IdleJob DEF Shaped, Spares, OnlineLabels, BeatLabels, OfflineLabels,
            RemovalLabels, CleanupLabels
<1>3. CASE job[p].users # {}
  <2>1. PICK u \in job[p].users : Become(p, Sweeping(u, job[p].users \ {u}))
    BY <1>3 DEF NextUser
  <2>. DEFINE j == Sweeping(u, job[p].users \ {u})
  <2>2. j \in Job /\ j.at = "readSockets" /\ j.user = u /\ u \in Users
    BY <1>1 DEF Sweeping, NewJob, Job, Labels, CleanupLabels
  <2>3. Become(p, j) /\ job'[p] = j
    BY <1>1, <2>1
  <2>. HIDE DEF j
  <2>. QED  BY <2>2, <2>3 DEF Shaped, Spares, OnlineLabels, BeatLabels, OfflineLabels,
            RemovalLabels, CleanupLabels
<1>. QED  BY <1>2, <1>3

LEMMA DelSocketsStep ==
  ASSUME Inv, NEW p \in Procs, DelSockets(p)
  PROVE  Inv'
<1>. PICK key \in Keys : key = SocketsKey(User(p))
  BY JobKeys DEF DelSockets, At, RemovalLabels
<1>1. /\ TypeOK /\ store \in Stores /\ job[p].at = "delSockets" /\ User(p) \in Users
      /\ store' = Del(store, key) /\ NextUser(p)
      /\ UNCHANGED <<online, conn, joined, faults>>
  BY JobKeys DEF DelSockets, At, Inv, RemovalLabels
<1>2. /\ store' \in Stores
      /\ \A k \in Keys : k # key => store'[k] = store[k]
      /\ ~Exists(store', key)
  BY <1>1, DelEffect
<1>3. \A k \in Keys : Lasts(p, k)
  BY <1>1, <1>2, DropLasts
<1>4. PICK j \in Job : Become(p, j) /\ job'[p] = j /\ j.at \notin OnlineLabels
  BY <1>1, NextJob
<1>5. Shaped(p)' /\ \A s \in Sockets : Spares(p, s)'
  BY <1>1, NextJob
<1>6. ASSUME NEW s \in Sockets, conn[s] = "open", s \notin disturbed', Present(s)
      PROVE  Kept(s)
  <2>1. User(p) # UserOf[s]
    BY <1>1, <1>4, <1>6, NoneRemoved DEF Become, RemovalLabels
  <2>. QED  BY <1>1, <1>2, <2>1, KeyTypes, KeysDiffer DEF Kept, SMembers, Exists
<1>. QED  BY <1>1, <1>2, <1>3, <1>4, <1>5, <1>6, SweepStep DEF TypeOK

LEMMA CleanupBeginStep ==
  ASSUME Inv, NEW p \in Procs, CleanupBegin(p)
  PROVE  Inv'
<1>1. /\ TypeOK /\ store \in Stores /\ job[p].at = "idle" /\ online \subseteq Users
      /\ UNCHANGED <<store, online, conn, joined, faults>>
  BY DEF CleanupBegin, At, Inv, TypeOK
<1>2. store' \in Stores /\ \A k \in Keys : Lasts(p, k)
  BY <1>1, QuietLasts
<1>3. CASE Become(p, Idle)
  <2>1. Grows(p, Idle)
    BY <1>1, <1>2, <1>3 DEF Grows
  <2>. QED  BY <1>1, <1>2, <2>1, IdleStep
<1>4. ASSUME NEW u \in online, Become(p, Sweeping(u, online \ {u}))
      PROVE  Inv'
  <2>. DEFINE j == Sweeping(u, online \ {u})
  <2>1. j \in Job /\ j.at = "readSockets" /\ j.user = u /\ u \in Users
    BY <1>1 DEF Sweeping, NewJob, Job, Labels, CleanupLabels
  <2>2. Become(p, j) /\ job'[p] = j
    BY <1>1, <1>4 DEF Become, TypeOK
  <2>. HIDE DEF j
  <2>3. Shaped(p)' /\ \A s \in Sockets : Spares(p, s)'
    BY <2>1, <2>2 DEF Shaped, Spares, OnlineLabels, BeatLabels, OfflineLabels,
            RemovalLabels, CleanupLabels
  <2>4. \A s \in Sockets : Kept(s)
    BY <1>1 DEF Kept
  <2>. QED  BY <1>1, <1>2, <2>1, <2>2, <2>3, <2>4, SweepStep DEF OnlineLabels
<1>. QED  BY <1>3, <1>4 DEF CleanupBegin

LEMMA ReadSocketsStep ==
  ASSUME Inv, NEW p \in Procs, ReadSockets(p)
  PROVE  Inv'
<1>. DEFINE found == SMembers(store, SocketsKey(User(p)))
            j == [job[p] EXCEPT !.at = "testSocket", !.active = FALSE, !.found = found]
<1>1. /\ TypeOK /\ store \in Stores /\ job[p].at = "readSockets" /\ job[p] \in Job
      /\ User(p) \in Users /\ Become(p, j)
      /\ UNCHANGED <<store, online, conn, joined, faults>>
  BY JobKeys DEF ReadSockets, At, Inv, TypeOK, CleanupLabels
<1>2. store' \in Stores /\ \A k \in Keys : Lasts(p, k)
  BY <1>1, QuietLasts
<1>3. found \subseteq Sockets
  BY <1>1 DEF Stores, SMembers
<1>4. /\ j \in Job /\ j.at = "testSocket" /\ j.user = User(p) /\ j.found = found
  BY <1>1, <1>3 DEF Job, Labels, CleanupLabels, User
<1>5. job'[p] = j
  BY <1>1 DEF Become, TypeOK
<1>6. \A s \in Sockets : Kept(s)
  BY <1>1 DEF Kept
<1>. HIDE DEF j
<1>7. Shaped(p)'
  BY <1>1, <1>4, <1>5 DEF Shaped, OnlineLabels, BeatLabels, OfflineLabels, RemovalLabels
<1>8. ASSUME NEW s \in Sockets, conn[s] = "open", s \notin disturbed', s \in joined
      PROVE  Spares(p, s)'
  <2>1. s \in SMembers(store, SocketsKey(UserOf[s]))
    BY <1>1, <1>8, JoinedIsShown DEF Become
  <2>. QED  BY <1>4, <1>5, <2>1 DEF Spares, RemovalLabels, User
<1>. QED  BY <1>1, <1>2, <1>4, <1>6, <1>7, <1>8, SweepStep DEF TypeOK, OnlineLabels

\* A device that is registered is found alive.
LEMMA TestSocketStep ==
  ASSUME Inv, NEW p \in Procs, NEW x \in Sockets, TestSocket(p, x)
  PROVE  Inv'
<1>. DEFINE j == IF Exists(store, SocketKey(x))
                 THEN [job[p] EXCEPT !.found = @ \ {x}, !.active = TRUE]
                 ELSE [job[p] EXCEPT !.at = "remDangling", !.socket = x]
<1>1. /\ TypeOK /\ store \in Stores /\ job[p].at = "testSocket" /\ job[p] \in Job
      /\ User(p) \in Users /\ Become(p, j)
      /\ UNCHANGED <<store, online, conn, joined, faults>>
  BY JobKeys DEF TestSocket, At, Inv, TypeOK, CleanupLabels
<1>2. store' \in Stores /\ \A k \in Keys : Lasts(p, k)
  BY <1>1, QuietLasts
<1>3. /\ j \in Job /\ j.at \in {"testSocket", "remDangling"} /\ j.user = User(p)
      /\ j.active \/ (j.found = job[p].found /\ j.active = job[p].active)
      /\ j.at = "remDangling" => j.socket = x /\ ~Exists(store, SocketKey(x))
  <2>1. CASE Exists(store, SocketKey(x))
    <3>1. job[p].found \ {x} \in SUBSET Sockets
      BY <1>1 DEF Job
    <3>2. /\ j \in Job /\ j.at = job[p].at /\ j.user = job[p].user /\ j.active
      BY <1>1, <2>1, <3>1 DEF Job
    <3>. HIDE DEF j
    <3>3. j.at = "testSocket" /\ j.user = User(p)
      BY <1>1, <3>2 DEF User
    <3>. QED  BY <3>2, <3>3
  <2>2. CASE ~Exists(store, SocketKey(x))
    BY <1>1, <2>2 DEF Job, Labels, CleanupLabels, User
  <2>. QED  BY <2>1, <2>2
<1>4. job'[p] = j
  BY <1>1 DEF Become, TypeOK
<1>5. \A s \in Sockets : Kept(s)
  BY <1>1 DEF Kept
<1>. HIDE DEF j
<1>6. Shaped(p)'
  BY <1>1, <1>3, <1>4 DEF Shaped, OnlineLabels, BeatLabels, OfflineLabels, RemovalLabels
<1>7. ASSUME NEW s \in Sockets, conn[s] = "open", s \notin disturbed', s \in joined
      PROVE  Spares(p, s)'
  <2>1. Exists(store, SocketKey(s)) /\ Spares(p, s)
    BY <1>1, <1>7, JoinedIsShown DEF Become
  <2>. QED  BY <1>1, <1>3, <1>4, <2>1 DEF Spares, RemovalLabels, User, Socket
<1>. QED  BY <1>1, <1>2, <1>3, <1>5, <1>6, <1>7, SweepStep DEF TypeOK, OnlineLabels

LEMMA RemDanglingStep ==
  ASSUME Inv, NEW p \in Procs, RemDangling(p)
  PROVE  Inv'
<1>. PICK key \in Keys : key = SocketsKey(User(p))
  BY JobKeys DEF RemDangling, At, CleanupLabels
<1>. DEFINE j == [job[p] EXCEPT !.at = "testSocket", !.socket = NoSocket,
                     !.found = @ \ {Socket(p)}]
<1>1. /\ TypeOK /\ store \in Stores /\ job[p].at = "remDangling" /\ job[p] \in Job
      /\ User(p) \in Users /\ store' = SRem(store, key, Socket(p)) /\ Become(p, j)
      /\ UNCHANGED <<online, conn, joined, faults>>
  BY JobKeys DEF RemDangling, At, Inv, TypeOK, CleanupLabels
<1>2. /\ store' \in Stores
      /\ \A k \in Keys : k # key => store'[k] = store[k]
      /\ \A x : x # Socket(p) /\ x \in store[key].members => x \in store'[key].members
      /\ Exists(store', key) => Exists(store, key) /\ store'[key].ttl = store[key].ttl
  BY <1>1, RemEffect
<1>3. \A k \in Keys : Lasts(p, k)
  BY <1>1, <1>2, DropLasts
<1>4. /\ j \in Job /\ j.at = "testSocket" /\ j.user = User(p)
      /\ j.found = job[p].found \ {Socket(p)} /\ j.active = job[p].active
  BY <1>1 DEF Job, Labels, CleanupLabels, User
<1>5. job'[p] = j
  BY <1>1 DEF Become, TypeOK
<1>. HIDE DEF j
<1>6. Shaped(p)'
  BY <1>1, <1>4, <1>5 DEF Shaped, OnlineLabels, BeatLabels, OfflineLabels, RemovalLabels
<1>7. ASSUME NEW s \in Sockets, conn[s] = "open", s \notin disturbed', s \in joined
      PROVE  Spares(p, s)'
  <2>1. Spares(p, s)
    BY <1>1, <1>7, JoinedIsShown DEF Become
  <2>. QED  BY <1>1, <1>4, <1>5, <2>1 DEF Spares, RemovalLabels, User
<1>8. ASSUME NEW s \in Sockets, conn[s] = "open", s \notin disturbed', Present(s)
      PROVE  Kept(s)
  <2>1. s \notin disturbed
    BY <1>1, <1>8 DEF Become
  <2>2. ~(User(p) = UserOf[s] /\ Socket(p) = s)
    <3>1. CASE s \in joined
      BY <1>1, <1>8, <2>1, <3>1, JoinedIsShown DEF Spares
    <3>2. CASE \E q \in Procs : Registers(q, s)
      BY <1>1, <2>1, <3>2 DEF Inv, Overlapping, Registers, User, Socket, CleanupLabels
    <3>. QED  BY <1>8, <3>1, <3>2 DEF Present
  <2>3. CASE User(p) = UserOf[s]
    BY <1>1, <1>2, <2>2, <2>3, KeyTypes, KeysDiffer DEF Kept, SMembers, Exists
  <2>4. CASE User(p) # UserOf[s]
    BY <1>1, <1>2, <2>4, KeyTypes, KeysDiffer DEF Kept, SMembers, Exists
  <2>. QED  BY <2>3, <2>4
<1>. QED  BY <1>1, <1>2, <1>3, <1>4, <1>6, <1>7, <1>8, SweepStep DEF TypeOK, OnlineLabels

\* The account goes only if no device was found alive, or it has no hash.
LEMMA TestUserStep ==
  ASSUME Inv, NEW p \in Procs, TestUser(p)
  PROVE  Inv'
<1>1. /\ TypeOK /\ job[p].at = "testSocket" /\ job[p].found = {} /\ User(p) \in Users
      /\ UNCHANGED <<store, online, conn, joined, faults>>
  BY JobKeys DEF TestUser, At, Inv, CleanupLabels
<1>2. store' \in Stores /\ \A k \in Keys : Lasts(p, k)
  BY <1>1, QuietLasts DEF Inv
<1>3. \A s \in Sockets : Kept(s)
  BY <1>1 DEF Kept
<1>4. CASE NextUser(p)
  <2>1. PICK j \in Job : Become(p, j) /\ job'[p] = j /\ j.at \notin OnlineLabels
    BY <1>4, NextJob
  <2>2. Shaped(p)' /\ \A s \in Sockets : Spares(p, s)'
    BY <1>4, NextJob
  <2>. QED  BY <1>1, <1>2, <1>3, <2>1, <2>2, SweepStep DEF TypeOK
<1>5. CASE ~(Exists(store, UserKey(User(p))) /\ job[p].active) /\ Goto(p, "remUser")
  <2>. DEFINE j == [job[p] EXCEPT !.at = "remUser"]
  <2>1. /\ j \in Job /\ Become(p, j) /\ job'[p].at = "remUser" /\ j.at = "remUser"
        /\ job'[p].socket = Socket(p) /\ job'[p].user = User(p)
    BY <1>1, <1>5, GotoJob DEF Become, TypeOK, Job, Labels, RemovalLabels, User, Socket
  <2>. HIDE DEF j
  <2>2. Shaped(p)'
    BY <1>1, <2>1 DEF Shaped, OnlineLabels, BeatLabels, OfflineLabels, RemovalLabels, User
  <2>3. ASSUME NEW s \in Sockets, conn[s] = "open", s \notin disturbed', s \in joined
        PROVE  Spares(p, s)'
    <3>1. Exists(store, UserKey(UserOf[s])) /\ Spares(p, s)
      BY <2>1, <2>3, JoinedIsShown DEF Become
    <3>2. User(p) # UserOf[s]
      BY <1>1, <1>5, <3>1 DEF Spares
    <3>. QED  BY <2>1, <3>2 DEF Spares, User
  <2>. QED  BY <1>1, <1>2, <1>3, <2>1, <2>2, <2>3, SweepStep DEF TypeOK, OnlineLabels
<1>. QED  BY <1>4, <1>5 DEF TestUser

-----------------------------------------------------------------------------
(* The events, and the world.                                              *)

LEMMA ConnectStep ==
  ASSUME Inv, NEW s \in Sockets, Connect(s)
  PROVE  Inv'
<1>1. /\ conn \in [Sockets -> {"new", "open", "closed"}] /\ conn[s] = "new"
      /\ conn' = [conn EXCEPT ![s] = "open"]
      /\ UNCHANGED <<store, online, joined, job, faults, disturbed>>
  BY DEF Connect, Inv, TypeOK
<1>2. /\ TypeOK' /\ store' \in Stores /\ NothingImmortal' /\ Overlapping(job') \subseteq disturbed'
      /\ \A x \in joined' : conn'[x] # "new"
  BY <1>1 DEF Inv, TypeOK, NothingImmortal, Expiring, At, User, Socket
<1>3. \A p \in Procs : Shaped(p)'
  BY <1>1 DEF Inv, Shaped
<1>4. ASSUME NEW x \in Sockets
      PROVE  Safe(x)'
  <2>1. CASE x = s
    <3>1. s \notin joined' /\ \A p \in Procs : ~Registers(p, s)'
      BY <1>1 DEF Inv, Shaped, Registers, Socket
    <3>. QED  BY <2>1, <3>1 DEF Safe
  <2>2. CASE x # s
    <3>1. conn'[x] = conn[x] /\ Safe(x)
      BY <1>1, <2>2 DEF Inv
    <3>. QED  BY <1>1, <3>1 DEF Safe, Spares, Registers, Arrived, At, User, Socket
  <2>. QED  BY <2>1, <2>2
<1>. QED  BY <1>2, <1>3, <1>4 DEF Inv

LEMMA EventStep ==
  ASSUME Inv, NEW p \in Procs, NEW x \in Sockets,
         NEW label \in {"addSocket", "beat", "status"}, Event(p, x, label)
  PROVE  Inv'
<1>. DEFINE j == NewJob(label, x, UserOf[x])
<1>1. /\ TypeOK /\ store \in Stores /\ job[p].at = "idle" /\ Become(p, j) /\ conn[x] = "open"
      /\ UNCHANGED <<store, online, conn, joined, faults>>
  BY DEF Event, At, Inv
<1>2. j \in Job /\ j.at = label /\ j.socket = x /\ j.user = UserOf[x]
  BY KeyTypes DEF NewJob, Job, Labels, OnlineLabels, BeatLabels
<1>3. job'[p] = j
  BY <1>1 DEF Become, TypeOK
<1>. HIDE DEF j
<1>4. Shaped(p)'
  BY <1>1, <1>2, <1>3 DEF Shaped, OfflineLabels, RemovalLabels, CleanupLabels
<1>5. store' \in Stores /\ \A k \in Keys : Lasts(p, k)
  BY <1>1, QuietLasts
<1>6. Grows(p, j)
  BY <1>1, <1>5 DEF Grows, TypeOK
<1>7. \A s \in Sockets : /\ Registers(p, s)' => Arrived(s, job[p].at)'
                         /\ Spares(p, s)'
  BY <1>2, <1>3 DEF Registers, Arrived, Spares, OnlineLabels, RemovalLabels
<1>. QED  BY <1>1, <1>2, <1>4, <1>5, <1>6, <1>7, GrowStep

LEMMA DisconnectStep ==
  ASSUME Inv, NEW p \in Procs, NEW x \in Sockets, Disconnect(p, x)
  PROVE  Inv'
<1>. DEFINE j == NewJob("readSocket", x, NoUser)
<1>1. /\ TypeOK /\ store \in Stores /\ job[p].at = "idle" /\ Become(p, j) /\ conn[x] = "open"
      /\ conn' = [conn EXCEPT ![x] = "closed"]
      /\ UNCHANGED <<store, online, joined, faults>>
  BY DEF Disconnect, At, Inv
<1>2. j \in Job /\ j.at = "readSocket" /\ j.socket = x
  BY DEF NewJob, Job, Labels, OfflineLabels
<1>3. job'[p] = j
  BY <1>1 DEF Become, TypeOK
<1>. HIDE DEF j
<1>4. /\ conn' \in [Sockets -> {"new", "open", "closed"}] /\ conn'[x] = "closed"
      /\ \A s \in Sockets : conn'[s] \in {conn[s], "closed"}
  BY <1>1 DEF TypeOK
<1>5. Shaped(p)'
  BY <1>1, <1>2, <1>3, <1>4 DEF Shaped, OnlineLabels, BeatLabels, OfflineLabels, RemovalLabels,
     CleanupLabels
<1>6. store' \in Stores /\ \A k \in Keys : Lasts(p, k)
  BY <1>1, QuietLasts
<1>7. \A s \in Sockets : ~Registers(p, s)' /\ Spares(p, s)' /\ Kept(s)
  BY <1>1, <1>2, <1>3 DEF Registers, Spares, Kept, OnlineLabels, RemovalLabels
<1>. QED  BY <1>1, <1>2, <1>4, <1>5, <1>6, <1>7, JobStep DEF TypeOK

LEMMA AbortStep ==
  ASSUME Inv, NEW p \in Procs, Abort(p)
  PROVE  Inv'
<1>1. /\ TypeOK /\ store \in Stores /\ Become(p, Idle) /\ faults' \in 0..MaxFaults /\ faults' # 0
      /\ UNCHANGED <<store, online, conn, joined>>
  BY PresenceAssumption DEF Abort, Fault, Inv, TypeOK
<1>2. job'[p] = Idle
  BY <1>1 DEF Become, TypeOK
<1>3. Shaped(p)'
  BY <1>2, IdleJob DEF Shaped, OnlineLabels, BeatLabels, OfflineLabels, RemovalLabels,
     CleanupLabels
<1>4. store' \in Stores /\ \A k \in Keys : Lasts(p, k)
  BY <1>1 DEF Lasts
<1>5. \A s \in Sockets : ~Registers(p, s)' /\ Spares(p, s)' /\ Kept(s)
  BY <1>1, <1>2, IdleJob DEF Registers, Spares, Kept, OnlineLabels, RemovalLabels
<1>. QED  BY <1>1, <1>3, <1>4, <1>5, IdleJob, JobStep DEF TypeOK

\* A TTL that runs out disturbs the devices it takes something from.
LEMMA LapseStep ==
  ASSUME Inv, NEW key \in Keys, Lapse(key)
  PROVE  Inv'
<1>1. /\ TypeOK /\ store \in Stores /\ store' = Del(store, key)
      /\ disturbed' = disturbed \cup {s \in Sockets :
                         key \in {SocketKey(s), UserKey(UserOf[s]), SocketsKey(UserOf[s])}}
      /\ UNCHANGED <<online, conn, joined, job, faults>>
  BY DEF Lapse, Inv
<1>2. /\ store' \in Stores
      /\ \A k \in Keys : k # key => store'[k] = store[k]
      /\ ~Exists(store', key)
  BY <1>1, DelEffect
<1>3. TypeOK'
  BY <1>1, <1>2 DEF TypeOK, Stores, Entry
<1>4. NothingImmortal'
  BY <1>1, <1>2 DEF Inv, NothingImmortal, Expiring, At, User, Socket, Exists
<1>5. Overlapping(job') \subseteq disturbed' /\ \A s \in joined' : conn'[s] # "new"
  BY <1>1 DEF Inv
<1>6. \A p \in Procs : Shaped(p)'
  BY <1>1 DEF Inv, Shaped
<1>7. ASSUME NEW s \in Sockets
      PROVE  Safe(s)'
  <2>. SUFFICES ASSUME conn'[s] = "open", s \notin disturbed'
                PROVE  /\ s \in joined' => Arrived(s, "expireSocket")'
                                           /\ \A q \in Procs : Spares(q, s)'
                       /\ \A q \in Procs : Registers(q, s)' => Arrived(s, job[q].at)'
    BY DEF Safe
  <2>1. Safe(s) /\ conn[s] = "open" /\ s \notin disturbed
    BY <1>1 DEF Inv
  <2>2. Kept(s)
    <3>1. key # SocketKey(s) /\ key # UserKey(UserOf[s]) /\ key # SocketsKey(UserOf[s])
      BY <1>1
    <3>. QED  BY <1>1, <1>2, <3>1, KeyTypes DEF Kept, SMembers, Exists
  <2>3. \A q \in Procs : Registers(q, s)' => Registers(q, s) /\ job'[q] = job[q]
    BY <1>1 DEF Registers, Socket
  <2>4. \A q \in Procs : Registers(q, s)' => Arrived(s, job[q].at)'
    BY <2>1, <2>2, <2>3 DEF Safe, Arrived, Kept
  <2>5. s \in joined' => Arrived(s, "expireSocket")'
    BY <1>1, <2>1, <2>2 DEF Safe, Arrived, Kept
  <2>6. s \in joined' => \A q \in Procs : Spares(q, s)'
    BY <1>1, <2>1 DEF Safe, Spares, User, Socket
  <2>. QED  BY <2>4, <2>5, <2>6
<1>. QED  BY <1>2, <1>3, <1>4, <1>5, <1>6, <1>7 DEF Inv

LEMMA CrashStep ==
  ASSUME Inv, NEW n \in Nodes, NEW cleanups \in SUBSET Procs, Crash(n, cleanups)
  PROVE  Inv'
<1>1. /\ TypeOK /\ store \in Stores
      /\ conn' \in [Sockets -> {"new", "open", "closed"}]
      /\ \A s \in Sockets : /\ conn[s] = "closed" => conn'[s] = "closed"
                            /\ conn[s] # "new" => conn'[s] # "new"
                            /\ conn'[s] = "open" => conn[s] = "open"
      /\ UNCHANGED <<store, online, joined, disturbed>>
  BY DEF Crash, Inv, TypeOK
<1>2. faults' \in 0..MaxFaults /\ faults' # 0
  BY PresenceAssumption DEF Crash, Fault, Inv, TypeOK
<1>3. job' \in [Procs -> Job] /\ \A p \in Procs : job'[p] \in {job[p], Idle}
  BY <1>1, IdleJob DEF Crash, TypeOK
<1>4. TypeOK'
  BY <1>1, <1>2, <1>3 DEF TypeOK
<1>5. NothingImmortal'
  BY <1>2 DEF NothingImmortal
<1>6. Overlapping(job') \subseteq disturbed'
  <2>1. \A p \in Procs : job'[p].at # "idle" => job'[p] = job[p]
    BY <1>3, IdleJob
  <2>2. Overlapping(job') \subseteq Overlapping(job)
    BY <2>1 DEF Overlapping, OnlineLabels, RemovalLabels, CleanupLabels
  <2>. QED  BY <1>1, <2>2 DEF Inv
<1>7. ASSUME NEW p \in Procs
      PROVE  Shaped(p)'
  <2>1. CASE job'[p] = job[p]
    BY <1>1, <2>1 DEF Inv, Shaped
  <2>2. CASE job'[p] = Idle
    BY <2>2, IdleJob DEF Shaped, OnlineLabels, BeatLabels, OfflineLabels, RemovalLabels,
       CleanupLabels
  <2>. QED  BY <1>3, <2>1, <2>2
<1>8. ASSUME NEW s \in Sockets
      PROVE  Safe(s)'
  <2>. SUFFICES ASSUME conn'[s] = "open", s \notin disturbed'
                PROVE  /\ s \in joined' => Arrived(s, "expireSocket")'
                                           /\ \A q \in Procs : Spares(q, s)'
                       /\ \A q \in Procs : Registers(q, s)' => Arrived(s, job[q].at)'
    BY DEF Safe
  <2>1. Safe(s) /\ conn[s] = "open" /\ s \notin disturbed
    BY <1>1 DEF Inv
  <2>2. ASSUME NEW q \in Procs
        PROVE  /\ Registers(q, s)' => Registers(q, s) /\ job'[q] = job[q]
               /\ Spares(q, s) => Spares(q, s)'
    <3>1. CASE job'[q] = job[q]
      BY <3>1 DEF Registers, Spares, User, Socket
    <3>2. CASE job'[q] = Idle
      BY <3>2, IdleJob DEF Registers, Spares, OnlineLabels, RemovalLabels
    <3>. QED  BY <1>3, <3>1, <3>2
  <2>3. \A q \in Procs : Registers(q, s)' => Arrived(s, job[q].at)'
    BY <1>1, <2>1, <2>2 DEF Safe, Arrived
  <2>4. s \in joined' => Arrived(s, "expireSocket")' /\ \A q \in Procs : Spares(q, s)'
    BY <1>1, <2>1, <2>2 DEF Safe, Arrived
  <2>. QED  BY <2>3, <2>4
<1>9. \A s \in joined' : conn'[s] # "new"
  BY <1>1 DEF Inv, TypeOK
<1>. QED  BY <1>1, <1>4, <1>5, <1>6, <1>7, <1>8, <1>9 DEF Inv

-----------------------------------------------------------------------------
LEMMA InitInv == Init => Inv
<1>. SUFFICES ASSUME Init PROVE Inv
  OBVIOUS
<1>1. /\ store = [k \in Keys |-> NoEntry] /\ online = {} /\ joined = {} /\ faults = 0
      /\ conn = [s \in Sockets |-> "new"] /\ job = [p \in Procs |-> Idle] /\ disturbed = {}
  BY DEF Init
<1>2. NoEntry \in Entry /\ NoEntry.members = {}
  BY DEF NoEntry, Entry
<1>3. store \in Stores /\ \A k \in Keys : ~Exists(store, k)
  BY <1>1, <1>2, KeyTypes DEF Stores, Exists
<1>4. TypeOK
  BY <1>1, <1>3, IdleJob, PresenceAssumption DEF TypeOK, Stores, Entry
<1>5. NothingImmortal
  BY <1>3 DEF NothingImmortal
<1>6. \A p \in Procs : job[p] = Idle
  BY <1>1
<1>7. /\ \A p \in Procs : Shaped(p)
      /\ Overlapping(job) \subseteq disturbed
      /\ \A s \in Sockets, p \in Procs : ~Registers(p, s)
  BY <1>6, IdleJob DEF Shaped, Overlapping, Registers, OnlineLabels, BeatLabels, OfflineLabels,
     RemovalLabels, CleanupLabels
<1>8. \A s \in Sockets : Safe(s)
  BY <1>1, <1>7 DEF Safe
<1>. QED  BY <1>1, <1>3, <1>4, <1>5, <1>7, <1>8 DEF Inv

LEMMA StepInv ==
  ASSUME Inv, NEW p \in Procs, Step(p)
  PROVE  Inv'
<1>1. CASE Online(p)
  BY <1>1, AddSocketStep, ExpireSocketsStep, AddUserStep, PutUserStep, ExpireUserStep,
     PutSocketStep, ExpireSocketStep DEF Online
<1>2. CASE Offline(p)
  BY <1>2, ReadSocketStep, DropSocketStep, RemSocketStep, ReadRestStep, KeepSocketsStep,
     KeepUserStep DEF Offline
<1>3. CASE Remove(p)
  BY <1>3, RemUserStep, DelUserStep, DelSocketsStep DEF Remove
<1>4. CASE Touch(p)
  BY <1>4, BeatStep, BeatUserStep, BeatExpireUserStep, BeatExpireSocketsStep,
     BeatExpireSocketStep, StatusStep, StatusUserStep, StatusCustomStep,
     StatusExpireUserStep DEF Touch
<1>5. CASE Cleanup(p)
  BY <1>5, ReadSocketsStep, RemDanglingStep, TestUserStep, TestSocketStep DEF Cleanup
<1>. QED  BY <1>1, <1>2, <1>3, <1>4, <1>5 DEF Step

LEMMA NextInv == Inv /\ [Next]_vars => Inv'
<1>. SUFFICES ASSUME Inv, [Next]_vars PROVE Inv'
  OBVIOUS
<1>1. ASSUME NEW s \in Sockets, Connect(s)
      PROVE  Inv'
  BY <1>1, ConnectStep
<1>2. ASSUME NEW p \in Procs, NEW s \in Sockets, Event(p, s, "addSocket") \/ Disconnect(p, s)
      PROVE  Inv'
  BY <1>2, EventStep, DisconnectStep
<1>3. ASSUME NEW p \in Procs, NEW s \in Beating, Event(p, s, "beat") \/ Event(p, s, "status")
      PROVE  Inv'
  <2>1. s \in Sockets
    BY PresenceAssumption
  <2>. QED  BY <1>3, <2>1, EventStep
<1>4. ASSUME NEW p \in Procs, CleanupBegin(p) \/ Step(p) \/ Abort(p)
      PROVE  Inv'
  BY <1>4, CleanupBeginStep, StepInv, AbortStep
<1>5. ASSUME NEW k \in Keys, Lapse(k)
      PROVE  Inv'
  BY <1>5, LapseStep
<1>6. ASSUME NEW n \in Nodes, NEW cleanups \in SUBSET Procs, Crash(n, cleanups)
      PROVE  Inv'
  BY <1>6, CrashStep
<1>7. CASE UNCHANGED vars
  BY <1>7 DEF vars, Inv, TypeOK, Stores, Entry, NothingImmortal, Expiring, Overlapping, Shaped,
     Safe, Arrived, Spares, Registers, At, User, Socket
<1>. QED  BY <1>1, <1>2, <1>3, <1>4, <1>5, <1>6, <1>7 DEF Next

\* What each registration has written, and what each sweep has seen, holds throughout.
THEOREM InvKept == Spec => []Inv
  BY InitInv, NextInv, PTL DEF Spec

\* Every entry and every job keeps its shape.
THEOREM PresenceTypesCorrect == Spec => []TypeOK
<1>1. Inv => TypeOK
  BY DEF Inv
<1>. QED  BY <1>1, InvKept, PTL

\* However the handlers of all sockets and the cleanups of all processes interleave, no
\* key of presence is left without a TTL unless a handler failed half way.
THEOREM KeysRunOut == Spec => []NothingImmortal
<1>1. Inv => NothingImmortal
  BY DEF Inv
<1>. QED  BY <1>1, InvKept, PTL

\* A device that registered while its account was neither removed nor swept is not taken
\* off by the disconnects of the account's other devices, by their heartbeats, or by the
\* cleanup of any process.
THEOREM DevicesStayOnline == Spec => []UndisturbedStaysOnline
<1>1. Inv => UndisturbedStaysOnline
  <2>. SUFFICES ASSUME Inv, NEW s \in joined \ disturbed, conn[s] = "open"
                PROVE  /\ s \in SMembers(store, SocketsKey(UserOf[s]))
                       /\ Listed(UserOf[s])
    BY DEF UndisturbedStaysOnline
  <2>1. s \in Sockets
    BY DEF Inv, TypeOK
  <2>. QED  BY <2>1, JoinedIsShown DEF Listed, Shown, Exists, SMembers
<1>. QED  BY <1>1, InvKept, PTL
=============================================================================
