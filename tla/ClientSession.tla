--------------------------- MODULE ClientSession ---------------------------
(***************************************************************************)
(* The sign-in of one browser: its cookies, its tabs (each with a store,   *)
(* hichat/src/store/auth.store.ts, and an axios client with interceptors,  *)
(* hichat/src/api/client.ts) and the server's answers (routes/auth.ts      *)
(* behind csrfProtection and cookieUtils of middleware/security.ts).       *)
(*                                                                         *)
(* The server's table is here a set of live tokens: RefreshTokens has its  *)
(* transactions, and what concurrent ones may do; each takes effect here   *)
(* in one step.  Tokens are numbered as they are issued; 0 is none.  The   *)
(* client never sends an X-CSRF-Token or X-Requested-With header.          *)
(***************************************************************************)
EXTENDS Naturals, FiniteSets

CONSTANTS Tabs, Jobs,  \* slots for calls in progress
          MaxTokens,   \* bounds logins and refreshes: then the server fails
          MaxLoads     \* bounds page loads

ASSUME BoundsAssumption == IsFiniteSet(Jobs) /\ MaxTokens \in Nat /\ MaxLoads \in Nat

VARIABLES
    jar,     \* the browser's cookies
    live,    \* refresh tokens that are not revoked
    issued,  \* refresh tokens so far
    tab,     \* store and client of each tab
    job,     \* calls in progress
    loads,
    met      \* history: what has overlapped or been lost

vars == <<jar, live, issued, tab, job, loads, met>>

Tokens == 0..MaxTokens

Jar == [refresh : Tokens, csrf : BOOLEAN]
EmptyJar == [refresh |-> 0, csrf |-> FALSE]

\* isAuthenticated, accessToken; isRefreshing of the interceptor
TabType == [signedIn : BOOLEAN, access : {"none", "good", "stale"},
            refreshing : BOOLEAN]

\* "me" is checkAuth; "api" any other request that needs the access token
Kinds == {"me", "api", "login", "logout"}

\* A request and its answer, a wait in failedQueue, a refresh and its answer, which
\* the interceptor asked for or the call itself.
JobType == [at : {"idle", "sent", "answered", "queued", "refresh", "refreshed"},
            tab : Tabs, kind : Kinds, retried : BOOLEAN, intercepted : BOOLEAN,
            jar : Jar, access : {"none", "good", "stale"},
            answer : {0, 200, 400, 401, 403}, given : Tokens]

Out(t) == [t EXCEPT !.signedIn = FALSE, !.access = "none"]
In(t) == [t EXCEPT !.signedIn = TRUE, !.access = "good"]

Idle(q) == [q EXCEPT !.at = "idle", !.kind = "me", !.retried = FALSE, !.answer = 0,
                     !.intercepted = FALSE, !.jar = EmptyJar, !.access = "none", !.given = 0]

Busy(q) == q.at # "idle"
Of(jobs, t) == {j \in Jobs : Busy(jobs[j]) /\ jobs[j].tab = t}

Cookied(kind) == kind \in {"login", "logout"}

Posts(q) == \/ q.at \in {"refresh", "refreshed"}
            \/ q.at \in {"sent", "answered"} /\ Cookied(q.kind)

\* Two requests that move tokens; an answer to checkAuth that arrives at a store
\* which has been cleared since it was given.
Overlaps(jobs, tabs) ==
    {o \in {"posts", "late"} :
        \/ o = "posts" /\ Cardinality({j \in Jobs : Posts(jobs[j])}) > 1
        \/ o = "late" /\ \E j \in Jobs : /\ jobs[j].at = "answered" /\ jobs[j].kind = "me"
                                         /\ jobs[j].answer = 200
                                         /\ tabs[jobs[j].tab].access = "none"}

Watch == met' = met \cup Overlaps(job', tab')

Init == /\ jar = EmptyJar
        /\ live = {} /\ issued = 0
        /\ tab = [t \in Tabs |-> [signedIn |-> FALSE, access |-> "none", refreshing |-> FALSE]]
        /\ job \in [Jobs -> {Idle(q) : q \in [at : {"idle"}, tab : Tabs, kind : {"me"},
                       retried : {FALSE}, intercepted : {FALSE}, jar : {EmptyJar},
                       access : {"none"}, answer : {0}, given : {0}]}]
        /\ loads = 0 /\ met = {}

-----------------------------------------------------------------------------
(* What the user and the browser do.                                       *)

\* The browser adds the cookies to what goes to /api/auth, the request interceptor the
\* token; both are kept where the answer depends on them.
Sent(q, cookies, access) ==
    [q EXCEPT !.at = "sent", !.answer = 0, !.given = 0, !.intercepted = FALSE,
              !.jar = IF Cookied(q.kind) THEN cookies ELSE EmptyJar,
              !.access = IF Cookied(q.kind) THEN "none" ELSE access]

Begun(j, t, kind) == Sent([Idle(job[j]) EXCEPT !.tab = t, !.kind = kind], jar, tab[t].access)

\* A page load: a new store, checkAuth; what was in flight is never heard of.
Load(j, t, kept) ==
    /\ ~Busy(job[j]) \/ job[j].tab = t
    /\ loads < MaxLoads /\ loads' = loads + 1
    /\ tab' = [tab EXCEPT ![t] = [signedIn |-> kept, access |-> "none", refreshing |-> FALSE]]
    /\ job' = [k \in Jobs |->
                 IF k = j THEN Sent([Idle(job[j]) EXCEPT !.tab = t], jar, "none")
                 ELSE IF k \in Of(job, t) THEN Idle(job[k]) ELSE job[k]]
    /\ met' = met \cup Overlaps(job', tab')
                  \cup (IF \E k \in Of(job, t) : Posts(job[k]) THEN {"lost"} ELSE {})
    /\ UNCHANGED <<jar, live, issued>>

\* The form is shown to who is signed out, the button to who is signed in.
Call(j, t, kind) ==
    /\ ~Busy(job[j])
    /\ kind = "login" => ~tab[t].signedIn
    /\ kind = "logout" => tab[t].signedIn
    /\ job' = [job EXCEPT ![j] = Begun(j, t, kind)]
    /\ UNCHANGED tab
    /\ Watch
    /\ UNCHANGED <<jar, live, issued, loads>>

\* The 15 minutes of an access token are over.
Stale(t) ==
    /\ tab[t].access = "good"
    /\ tab' = [tab EXCEPT ![t].access = "stale"]
    /\ UNCHANGED <<jar, live, issued, job, loads, met>>

\* Cookies lapse; the browser may drop the one that scripts can reach earlier.
Drop(smaller) ==
    /\ smaller \in {[jar EXCEPT !.csrf = FALSE], EmptyJar}
    /\ smaller # jar
    /\ jar' = smaller
    /\ UNCHANGED <<live, issued, tab, job, loads, met>>

-----------------------------------------------------------------------------
(* The server.                                                             *)

\* csrfProtection: a POST with both cookies needs a header that is never sent.
CsrfRefused(q) == q.jar.refresh # 0 /\ q.jar.csrf

Answer(j, label, status, token) ==
    /\ job' = [job EXCEPT ![j] = [@ EXCEPT !.at = label, !.answer = status, !.given = token]]
    /\ UNCHANGED <<jar, tab, loads>>
    /\ Watch

Issue(j, label, kept) ==
    IF issued < MaxTokens
    THEN /\ issued' = issued + 1
         /\ live' = kept \cup {issued'}
         /\ Answer(j, label, 200, issued')
    ELSE Answer(j, label, 0, 0) /\ UNCHANGED <<live, issued>>

Protected(j) ==
    /\ job[j].at = "sent" /\ job[j].kind \in {"me", "api"}
    /\ Answer(j, "answered", IF job[j].access = "good" THEN 200 ELSE 401, 0)
    /\ UNCHANGED <<live, issued>>

Login(j) ==
    /\ job[j].at = "sent" /\ job[j].kind = "login"
    /\ \/ /\ CsrfRefused(job[j])
          /\ Answer(j, "answered", 403, 0) /\ UNCHANGED <<live, issued>>
       \/ /\ ~CsrfRefused(job[j])
          /\ \/ Issue(j, "answered", live)
             \/ Answer(j, "answered", 401, 0) /\ UNCHANGED <<live, issued>>

Logout(j) ==
    /\ job[j].at = "sent" /\ job[j].kind = "logout"
    /\ \/ /\ CsrfRefused(job[j])
          /\ Answer(j, "answered", 403, 0) /\ UNCHANGED <<live, issued>>
       \/ /\ ~CsrfRefused(job[j])
          /\ live' = live \ {job[j].jar.refresh}
          /\ Answer(j, "answered", 200, 0) /\ UNCHANGED issued

\* mutant: the old token stays valid, and the new one is not recorded
RotateUnrecorded(j) ==
    /\ issued < MaxTokens
    /\ issued' = issued + 1
    /\ Answer(j, "refreshed", 200, issued') /\ UNCHANGED live

\* mutant: the new token is in force before it is issued
RotateAhead(j) ==
    /\ live' = {issued + 1}
    /\ Answer(j, "refreshed", 0, 0) /\ UNCHANGED issued

\* rotateRefreshToken; a token that was used before ends all sessions.
Rotate(j) == Issue(j, "refreshed", live \ {job[j].jar.refresh})

Refresh(j) ==
    LET t == job[j].jar.refresh IN
    /\ job[j].at = "refresh"
    /\ \/ /\ CsrfRefused(job[j])
          /\ Answer(j, "refreshed", 403, 0) /\ UNCHANGED <<live, issued>>
       \/ /\ t = 0
          /\ Answer(j, "refreshed", 400, 0) /\ UNCHANGED <<live, issued>>
       \/ /\ ~CsrfRefused(job[j]) /\ t \in live
          /\ Rotate(j)
       \/ /\ ~CsrfRefused(job[j]) /\ t # 0 /\ t \notin live
          /\ live' = {}
          /\ Answer(j, "refreshed", 401, 0) /\ UNCHANGED issued

\* The request or its answer does not arrive.
Lose(j) ==
    /\ job[j].at \in {"sent", "answered", "refresh", "refreshed"}
    /\ job[j].answer # 0 \/ job[j].at \in {"sent", "refresh"}
    /\ job' = [job EXCEPT ![j] = [@ EXCEPT !.answer = 0, !.given = 0,
                 !.at = IF job[j].at \in {"sent", "answered"} THEN "answered"
                        ELSE "refreshed"]]
    /\ met' = met \cup {"lost"}
    /\ UNCHANGED <<jar, live, issued, tab, loads>>

-----------------------------------------------------------------------------
(* The client, when an answer arrives.                                     *)

\* setAuthCookies and clearAuthCookies
Cookies(q) ==
    CASE q.given # 0 -> [refresh |-> q.given, csrf |-> TRUE]
      [] q.given = 0 /\ q.kind = "logout" /\ q.at = "answered" /\ q.answer = 200 -> EmptyJar
      [] OTHER -> jar

ToRefresh(q, intercepted) ==
    [q EXCEPT !.at = "refresh", !.jar = jar, !.intercepted = intercepted, !.answer = 0,
              !.given = 0, !.access = "none", !.retried = @ \/ intercepted]

\* What the caller does about a rejection: checkAuth refreshes by itself.
Rejected(q) == IF q.kind = "me" THEN ToRefresh(q, FALSE) ELSE Idle(q)

Step(j, q, t) ==
    /\ job' = [job EXCEPT ![j] = q]
    /\ tab' = [tab EXCEPT ![job[j].tab] = t]
    /\ jar' = Cookies(job[j])
    /\ Watch
    /\ UNCHANGED <<live, issued, loads>>

Resolve(j) ==
    LET q == job[j]
        t == tab[q.tab]
    IN
    /\ q.at = "answered" /\ q.answer = 200
    /\ Step(j, Idle(q), CASE q.kind = "me" -> [t EXCEPT !.signedIn = TRUE]
                          [] q.kind = "login" -> In(t)
                          [] q.kind = "logout" -> Out(t)
                          [] q.kind = "api" -> t)

Unauthorized(q) == q.answer = 401 /\ ~q.retried

\* else if (isRefreshing) failedQueue.push
Enqueue(j) ==
    LET q == job[j] IN
    /\ q.at = "answered" /\ Unauthorized(q)
    /\ tab[q.tab].refreshing
    /\ Step(j, [q EXCEPT !.at = "queued", !.access = "none", !.answer = 0], tab[q.tab])

Intercept(j) ==
    LET q == job[j] IN
    /\ q.at = "answered" /\ Unauthorized(q)
    /\ ~tab[q.tab].refreshing
    /\ Step(j, ToRefresh(q, TRUE), [tab[q.tab] EXCEPT !.refreshing = TRUE])

Reject(j) ==
    LET q == job[j]
        t == tab[q.tab]
    IN
    /\ q.at = "answered" /\ q.answer # 200 /\ ~Unauthorized(q)
    /\ Step(j, Rejected(q), IF q.kind = "logout" THEN Out(t) ELSE t)

Queued(q) == {k \in Jobs : job[k].at = "queued" /\ job[k].tab = q.tab}

\* mutant: on a failure the queue is not processed
QueuedIfResolved(q) ==
    {k \in Jobs : q.answer = 200 /\ job[k].at = "queued" /\ job[k].tab = q.tab}

\* processQueue settles those who wait, with the call that asked for the refresh
Awaiting(q) == Queued(q)

\* mutant: a failed refresh leaves the store as it is
StoreKept(q) ==
    LET t == IF q.intercepted THEN [tab[q.tab] EXCEPT !.refreshing = FALSE] ELSE tab[q.tab]
    IN  IF q.answer = 200 THEN In(t) ELSE [t EXCEPT !.access = "none"]

\* store and isRefreshing after a refresh
Store(q) ==
    LET t == IF q.intercepted THEN [tab[q.tab] EXCEPT !.refreshing = FALSE] ELSE tab[q.tab]
    IN  IF q.answer = 200 THEN In(t) ELSE Out(t)

RefreshDone(j) ==
    LET q == job[j]
        settled == IF q.intercepted THEN {j} \cup Awaiting(q) ELSE {}
    IN
    /\ q.at = "refreshed"
    /\ tab' = [tab EXCEPT ![q.tab] = Store(q)]
    /\ jar' = Cookies(q)
    /\ job' = [k \in Jobs |->
                 IF k \in settled
                 THEN IF q.answer = 200 THEN Sent(job[k], jar', "good")
                      ELSE Rejected(job[k])
                 ELSE IF k = j THEN Idle(q) ELSE job[k]]
    /\ Watch
    /\ UNCHANGED <<live, issued, loads>>

-----------------------------------------------------------------------------
Serve(j) == Protected(j) \/ Login(j) \/ Logout(j) \/ Refresh(j)

Receive(j) == Resolve(j) \/ Enqueue(j) \/ Intercept(j) \/ Reject(j) \/ RefreshDone(j)

Next ==
    \/ \E t \in Tabs : Stale(t)
    \/ \E smaller \in Jar : Drop(smaller)
    \/ \E j \in Jobs, t \in Tabs : \/ \E kept \in BOOLEAN : Load(j, t, kept)
                                   \/ \E kind \in Kinds \ {"me"} : Call(j, t, kind)
    \/ \E j \in Jobs : Serve(j) \/ Lose(j) \/ Receive(j)

\* A request is answered or fails, and its promise is settled.
Fairness == \A j \in Jobs : WF_vars(Serve(j)) /\ WF_vars(Receive(j))

Spec == Init /\ [][Next]_vars /\ Fairness

-----------------------------------------------------------------------------
(* Cookies, stores and calls have their shape, and a token that is live    *)
(* was issued.                                                             *)
TypeOK == /\ jar \in Jar
          /\ issued \in Tokens /\ live \subseteq 1..issued
          /\ tab \in [Tabs -> TabType]
          /\ job \in [Jobs -> JobType]
          /\ loads \in 0..MaxLoads
          /\ met \subseteq {"posts", "late", "lost"}

\* When nothing is in flight, the browser holds a token the server will take: it
\* loses its session only through a lost answer or requests that overlapped.
JarIsLive ==
    /\ met \cap {"posts", "lost"} = {}
    /\ \A j \in Jobs : ~Busy(job[j])
    => jar.refresh \in live \cup {0}

\* A tab that has settled and shows a user can act for this user; only an answer to
\* checkAuth that a sign-out or a failed refresh has overtaken leaves it with a name
\* and no token.
SignedInHasToken ==
    "late" \notin met =>
        \A t \in Tabs : Of(job, t) = {} /\ tab[t].signedIn => tab[t].access # "none"

\* No call waits forever, in failedQueue or elsewhere, whichever of the tab's calls
\* fail, are refreshed and sent again.
CallsSettle == \A j \in Jobs : Busy(job[j]) ~> ~Busy(job[j])

-----------------------------------------------------------------------------
(* What the documents say and the code does not do.                        *)

\* A logout "revokes current refresh token": the session that a tab signs out of is
\* not alive once its call has settled.
SignedOutIsOver ==
    [][\A j \in Jobs :
          /\ job[j].kind = "logout" /\ Busy(job[j]) /\ ~Busy(job'[j]) /\ loads' = loads
          => job[j].jar.refresh \notin live]_vars
=============================================================================
