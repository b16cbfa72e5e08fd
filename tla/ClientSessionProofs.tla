------------------------ MODULE ClientSessionProofs ------------------------
(***************************************************************************)
(* The safety of ClientSession for any tabs, calls, tokens and page loads. *)
(*                                                                         *)
(* Both properties speak of a browser that has settled.  While it has not, *)
(* a call in progress accounts for what is missing: a tab that shows a     *)
(* user without a token waits for checkAuth (Accounted), and a cookie that *)
(* is no longer live is about to be replaced by an answer (TokenHeld).     *)
(***************************************************************************)
EXTENDS ClientSession, FiniteSetTheorems, TLAPS

\* no two requests that move tokens have overlapped, and no answer was lost
Calm == met \cap {"posts", "lost"} = {}

\* an answer that changes the cookies
Settling(q) == \/ q.at \in {"answered", "refreshed"} /\ q.given # 0
               \/ q.at = "answered" /\ q.kind = "logout" /\ q.answer = 200

\* Only a success gives a token.
GivenBySuccess(q) == q.given # 0 => Settling(q) /\ Posts(q) /\ q.answer = 200

TokenHeld ==
    Calm => /\ jar.refresh \in live \cup {0} \/ \E j \in Jobs : Settling(job[j])
            /\ \A j \in Jobs : job[j].given \in live \cup {0}
            /\ \A j \in Jobs : job[j].at = "refresh" => job[j].jar.refresh \in live \cup {0}

Accounted ==
    "late" \notin met =>
        \A t \in Tabs : tab[t].signedIn /\ tab[t].access = "none" =>
            \E j \in Of(job, t) : job[j].kind = "me"

Inv == /\ TypeOK
       /\ \A j \in Jobs : GivenBySuccess(job[j])
       /\ Overlaps(job, tab) \subseteq met
       /\ TokenHeld
       /\ Accounted

-----------------------------------------------------------------------------
(* The shapes of what the operators make.                                  *)

Labels == {"idle", "sent", "answered", "queued", "refresh", "refreshed"}
Statuses == {0, 200, 400, 401, 403}
Access == {"none", "good", "stale"}

Calls == [at : Labels, tab : Tabs, kind : Kinds, retried : BOOLEAN, intercepted : BOOLEAN,
          jar : Jar, access : Access, answer : Statuses, given : Tokens]

LEMMA JobIsCall == JobType = Calls
  BY DEF JobType, Calls, Labels, Statuses, Access

LEMMA Members ==
  /\ "idle" \in Labels /\ "sent" \in Labels /\ "answered" \in Labels
  /\ "queued" \in Labels /\ "refresh" \in Labels /\ "refreshed" \in Labels
  /\ 0 \in Statuses /\ 200 \in Statuses /\ 400 \in Statuses
  /\ 401 \in Statuses /\ 403 \in Statuses
  /\ "none" \in Access /\ "good" \in Access /\ "stale" \in Access
  /\ "me" \in Kinds /\ "api" \in Kinds /\ "login" \in Kinds /\ "logout" \in Kinds
  /\ 0 \in Tokens
  BY BoundsAssumption DEF Labels, Statuses, Access, Kinds, Tokens

LEMMA EmptyJarType == EmptyJar \in Jar /\ EmptyJar.refresh = 0
  BY BoundsAssumption DEF EmptyJar, Jar, Tokens

LEMMA IdleShape ==
  ASSUME NEW q \in JobType
  PROVE  /\ Idle(q) \in JobType /\ Idle(q).at = "idle" /\ Idle(q).kind = "me"
         /\ Idle(q).given = 0 /\ Idle(q).tab = q.tab
<1>1. q \in Calls
  BY JobIsCall
<1>2. Idle(q) \in Calls
  <2>. DEFINE r == [q EXCEPT !.at = "idle", !.kind = "me", !.retried = FALSE, !.answer = 0]
  <2>1. r \in Calls
    BY <1>1, Members DEF Calls
  <2>2. Idle(q) = [r EXCEPT !.intercepted = FALSE, !.jar = EmptyJar, !.access = "none",
                            !.given = 0]
    BY DEF Idle
  <2>3. EmptyJar \in Jar /\ "none" \in Access /\ 0 \in Tokens /\ FALSE \in BOOLEAN
    BY EmptyJarType, Members
  <2>. HIDE DEF r
  <2>. QED  BY <2>1, <2>2, <2>3 DEF Calls
<1>3. /\ Idle(q).at = "idle" /\ Idle(q).kind = "me"
      /\ Idle(q).given = 0 /\ Idle(q).tab = q.tab
  BY <1>1 DEF Idle, Calls
<1>. QED  BY <1>2, <1>3, JobIsCall

LEMMA SentShape ==
  ASSUME NEW q \in JobType, NEW cookies \in Jar, NEW access \in Access
  PROVE  /\ Sent(q, cookies, access) \in JobType
         /\ Sent(q, cookies, access).at = "sent"
         /\ Sent(q, cookies, access).kind = q.kind /\ Sent(q, cookies, access).tab = q.tab
         /\ Sent(q, cookies, access).given = 0 /\ Sent(q, cookies, access).answer = 0
<1>. DEFINE c == IF Cookied(q.kind) THEN cookies ELSE EmptyJar
            a == IF Cookied(q.kind) THEN "none" ELSE access
            r == [q EXCEPT !.at = "sent", !.answer = 0, !.given = 0,
                           !.intercepted = FALSE, !.jar = c, !.access = a]
<1>1. c \in Jar /\ a \in Access
  BY EmptyJarType, Members
<1>2. Sent(q, cookies, access) = r
  BY DEF Sent
<1>3. q \in Calls
  BY JobIsCall
<1>. HIDE DEF c, a
<1>4. r \in Calls
  BY <1>1, <1>3, Members DEF Calls
<1>5. r.at = "sent" /\ r.kind = q.kind /\ r.tab = q.tab /\ r.given = 0 /\ r.answer = 0
  BY <1>3 DEF Calls
<1>. HIDE DEF r
<1>. QED  BY <1>2, <1>4, <1>5, JobIsCall

LEMMA ToRefreshShape ==
  ASSUME TypeOK, NEW q \in JobType, NEW intercepted \in BOOLEAN
  PROVE  /\ ToRefresh(q, intercepted) \in JobType
         /\ ToRefresh(q, intercepted).at = "refresh" /\ ToRefresh(q, intercepted).jar = jar
         /\ ToRefresh(q, intercepted).kind = q.kind /\ ToRefresh(q, intercepted).tab = q.tab
         /\ ToRefresh(q, intercepted).given = 0 /\ ToRefresh(q, intercepted).answer = 0
<1>. DEFINE b == q.retried \/ intercepted
            r == [q EXCEPT !.at = "refresh", !.jar = jar, !.intercepted = intercepted,
                           !.answer = 0, !.given = 0, !.access = "none", !.retried = b]
<1>1. b \in BOOLEAN /\ jar \in Jar
  BY DEF TypeOK
<1>2. q \in Calls
  BY JobIsCall
<1>3. ToRefresh(q, intercepted) = r
  BY <1>2 DEF ToRefresh, Calls
<1>. HIDE DEF b
<1>4. r \in Calls
  BY <1>1, <1>2, Members DEF Calls
<1>5. /\ r.at = "refresh" /\ r.jar = jar /\ r.kind = q.kind /\ r.tab = q.tab
      /\ r.given = 0 /\ r.answer = 0
  BY <1>2 DEF Calls
<1>. HIDE DEF r
<1>. QED  BY <1>3, <1>4, <1>5, JobIsCall

LEMMA RejectedShape ==
  ASSUME TypeOK, NEW q \in JobType
  PROVE  /\ Rejected(q) \in JobType /\ Rejected(q).tab = q.tab
         /\ Rejected(q).kind = "me" /\ Rejected(q).given = 0
         /\ Rejected(q).at \in {"idle", "refresh"}
         /\ q.kind = "me" => Rejected(q).at = "refresh"
         /\ Rejected(q).at = "refresh" => Rejected(q).jar = jar
  BY IdleShape, ToRefreshShape DEF Rejected

LEMMA TabShapes ==
  ASSUME NEW t \in TabType
  PROVE  /\ In(t) \in TabType /\ In(t).access = "good"
         /\ Out(t) \in TabType /\ ~Out(t).signedIn
         /\ \A a \in Access : [t EXCEPT !.access = a] \in TabType
         /\ \A r \in BOOLEAN : /\ [t EXCEPT !.refreshing = r] \in TabType
                               /\ [t EXCEPT !.refreshing = r].signedIn = t.signedIn
                               /\ [t EXCEPT !.refreshing = r].access = t.access
         /\ [t EXCEPT !.signedIn = TRUE] \in TabType
         /\ [t EXCEPT !.signedIn = TRUE].access = t.access
  BY DEF In, Out, TabType, Access

\* Two calls that post at once are recorded.
LEMMA PostsAreAlone ==
  ASSUME NEW jobs, NEW tabs, "posts" \notin Overlaps(jobs, tabs),
         NEW j \in Jobs, NEW k \in Jobs, Posts(jobs[j]), Posts(jobs[k])
  PROVE  j = k
<1>. SUFFICES ASSUME j # k PROVE FALSE
  OBVIOUS
<1>. DEFINE S == {i \in Jobs : Posts(jobs[i])}
<1>1. ~(Cardinality(S) > 1)
  BY DEF Overlaps
<1>2. IsFiniteSet(S)
  BY BoundsAssumption, FS_Subset
<1>3. {j} \cup {k} \subseteq S
  OBVIOUS
<1>4. Cardinality({j} \cup {k}) = 2
  <2>1. IsFiniteSet({j}) /\ Cardinality({j}) = 1 /\ k \notin {j}
    BY FS_Singleton
  <2>2. Cardinality({j} \cup {k}) = 1 + 1
    BY <2>1, FS_AddElement
  <2>. QED  BY <2>2
<1>5. Cardinality({j} \cup {k}) <= Cardinality(S)
  BY <1>2, <1>3, FS_Subset
<1>6. Cardinality(S) \in Nat
  BY <1>2, FS_CardinalityType
<1>. HIDE DEF S
<1>. QED  BY <1>1, <1>4, <1>5, <1>6

LEMMA SettlingPosts ==
  ASSUME NEW q, Settling(q), GivenBySuccess(q)
  PROVE  Posts(q)
  BY DEF Settling, GivenBySuccess, Posts, Cookied

LEMMA CalmAlone ==
  ASSUME Calm', Overlaps(job', tab') \subseteq met',
         NEW j \in Jobs, NEW k \in Jobs, Posts(job'[j]), Posts(job'[k])
  PROVE  j = k
<1>1. "posts" \notin Overlaps(job', tab')
  BY DEF Calm
<1>. QED  BY <1>1, PostsAreAlone

LEMMA CalmWasAlone ==
  ASSUME Inv, Calm, NEW j \in Jobs, NEW k \in Jobs, Posts(job[j]), Posts(job[k])
  PROVE  j = k
<1>1. "posts" \notin Overlaps(job, tab)
  BY DEF Inv, Calm
<1>. QED  BY <1>1, PostsAreAlone

-----------------------------------------------------------------------------
(* Steps that leave the cookies and the tokens alone.                      *)

\* Some calls change: none of them was about to change the cookies, none is, and one
\* that is about to refresh sends the cookies there are.
LEMMA CookiesKept ==
  ASSUME Inv, met \subseteq met', UNCHANGED <<jar, live>>,
         Overlaps(job', tab') \subseteq met',
         \A j \in Jobs : GivenBySuccess(job'[j]),
         \A j \in Jobs :
            \/ job'[j] = job[j]
            \/ /\ Calm' => ~Settling(job[j])
               /\ job'[j].given = 0
               /\ job'[j].at = "refresh" => job'[j].jar = jar
  PROVE  TokenHeld'
<1>. SUFFICES ASSUME Calm'
              PROVE  /\ jar.refresh \in live \cup {0} \/ \E j \in Jobs : Settling(job'[j])
                     /\ \A j \in Jobs : job'[j].given \in live \cup {0}
                     /\ \A j \in Jobs : job'[j].at = "refresh" =>
                           job'[j].jar.refresh \in live \cup {0}
  BY DEF TokenHeld, Settling
<1>1. Calm
  BY DEF Calm
<1>2. /\ jar.refresh \in live \cup {0} \/ \E j \in Jobs : Settling(job[j])
      /\ \A j \in Jobs : job[j].given \in live \cup {0}
      /\ \A j \in Jobs : job[j].at = "refresh" => job[j].jar.refresh \in live \cup {0}
  BY <1>1 DEF Inv, TokenHeld
<1>3. \A j \in Jobs : Settling(job[j]) => job'[j] = job[j]
  OBVIOUS
<1>4. ASSUME NEW j \in Jobs, job'[j].at = "refresh"
      PROVE  job'[j].jar.refresh \in live \cup {0}
  <2>1. CASE job'[j] = job[j]
    BY <1>2, <1>4, <2>1
  <2>2. CASE job'[j].jar = jar
    <3>1. CASE \E k \in Jobs : Settling(job[k])
      <4>1. PICK k \in Jobs : Settling(job[k])
        BY <3>1
      <4>2. Settling(job'[k]) /\ Posts(job'[k]) /\ Posts(job'[j])
        BY <1>3, <1>4, <4>1, SettlingPosts DEF Posts
      <4>3. j = k
        BY <4>2, CalmAlone
      <4>. QED  BY <1>4, <4>2, <4>3 DEF Settling
    <3>. QED  BY <1>2, <2>2, <3>1
  <2>. QED  BY <1>4, <2>1, <2>2
<1>5. jar.refresh \in live \cup {0} \/ \E j \in Jobs : Settling(job'[j])
  BY <1>2, <1>3
<1>6. \A j \in Jobs : job'[j].given \in live \cup {0}
  BY <1>2
<1>. QED  BY <1>4, <1>5, <1>6

\* A tab that has not changed waits for checkAuth as long as the call is one.
LEMMA StillAccounted ==
  ASSUME Inv, met \subseteq met',
         \A t \in Tabs : "late" \notin met' /\ tab'[t].signedIn /\ tab'[t].access = "none" =>
            \/ /\ tab[t].signedIn /\ tab[t].access = "none"
               /\ \A j \in Jobs : Busy(job[j]) /\ job[j].tab = t /\ job[j].kind = "me" =>
                     Busy(job'[j]) /\ job'[j].tab = t /\ job'[j].kind = "me"
            \/ \E j \in Jobs : Busy(job'[j]) /\ job'[j].tab = t /\ job'[j].kind = "me"
  PROVE  Accounted'
<1>. SUFFICES ASSUME "late" \notin met', NEW t \in Tabs, tab'[t].signedIn, tab'[t].access = "none"
              PROVE  \E j \in Jobs : Busy(job'[j]) /\ job'[j].tab = t /\ job'[j].kind = "me"
  BY DEF Accounted, Of
<1>1. CASE /\ tab[t].signedIn /\ tab[t].access = "none"
           /\ \A j \in Jobs : Busy(job[j]) /\ job[j].tab = t /\ job[j].kind = "me" =>
                 Busy(job'[j]) /\ job'[j].tab = t /\ job'[j].kind = "me"
  <2>1. PICK j \in Of(job, t) : job[j].kind = "me"
    BY <1>1 DEF Inv, Accounted
  <2>. QED  BY <1>1, <2>1 DEF Of
<1>. QED  BY <1>1

\* The same for a step of one call.
LEMMA OneCall ==
  ASSUME Inv, NEW j \in Jobs, NEW q \in JobType, job' = [job EXCEPT ![j] = q],
         UNCHANGED <<jar, live, issued, loads>>, Watch,
         tab' \in [Tabs -> TabType],
         \A t \in Tabs : t # job[j].tab => tab'[t] = tab[t],
         LET t == job[j].tab IN
            "late" \notin met' /\ tab'[t].signedIn /\ tab'[t].access = "none" =>
               /\ tab[t].signedIn /\ tab[t].access = "none"
               /\ Busy(job[j]) /\ job[j].kind = "me" =>
                     Busy(q) /\ q.kind = "me" /\ q.tab = t,
         q.given = 0, q.at = "answered" /\ q.kind = "logout" => q.answer # 200,
         q.at = "refresh" => q.jar = jar,
         ~Settling(job[j])
  PROVE  Inv'
<1>. job \in [Jobs -> JobType] /\ job'[j] = q /\ \A k \in Jobs : k # j => job'[k] = job[k]
  BY DEF Inv, TypeOK
<1>1. TypeOK'
  BY DEF Inv, TypeOK, Watch, Overlaps
<1>2. \A k \in Jobs : GivenBySuccess(job'[k])
  BY DEF Inv, GivenBySuccess
<1>3. Overlaps(job', tab') \subseteq met' /\ met \subseteq met'
  BY DEF Watch
<1>4. TokenHeld'
  BY <1>2, <1>3, CookiesKept
<1>5. Accounted'
  <2>. DEFINE u == job[j].tab
  <2>1. u \in Tabs
    BY DEF JobType
  <2>2. ASSUME NEW t \in Tabs, "late" \notin met', tab'[t].signedIn, tab'[t].access = "none"
        PROVE  /\ tab[t].signedIn /\ tab[t].access = "none"
               /\ \A k \in Jobs : Busy(job[k]) /\ job[k].tab = t /\ job[k].kind = "me" =>
                     Busy(job'[k]) /\ job'[k].tab = t /\ job'[k].kind = "me"
    BY <2>2
  <2>. QED  BY <1>3, <2>2, StillAccounted
<1>. QED  BY <1>1, <1>2, <1>3, <1>4, <1>5 DEF Inv, GivenBySuccess, Settling, Posts

-----------------------------------------------------------------------------
(* The server.                                                             *)

LEMMA AnswerShape ==
  ASSUME Inv, NEW j \in Jobs, NEW label \in {"answered", "refreshed"}, NEW status \in Statuses,
         NEW token \in Tokens, Answer(j, label, status, token)
  PROVE  \E q \in JobType :
            /\ job' = [job EXCEPT ![j] = q] /\ job'[j] = q
            /\ \A k \in Jobs : k # j => job'[k] = job[k]
            /\ q.at = label /\ q.answer = status /\ q.given = token
            /\ q.tab = job[j].tab /\ q.kind = job[j].kind
<1>. DEFINE q == [job[j] EXCEPT !.at = label, !.answer = status, !.given = token]
<1>1. job \in [Jobs -> Calls] /\ job[j] \in Calls
  BY JobIsCall DEF Inv, TypeOK
<1>2. label \in Labels
  BY Members
<1>3. q \in Calls
  BY <1>1, <1>2 DEF Calls
<1>4. /\ q.at = label /\ q.answer = status /\ q.given = token
      /\ q.tab = job[j].tab /\ q.kind = job[j].kind
  BY <1>1 DEF Calls
<1>5. job' = [job EXCEPT ![j] = q]
  BY DEF Answer
<1>. HIDE DEF q
<1>. QED  BY <1>1, <1>3, <1>4, <1>5, JobIsCall

\* An answer without a token that changes no token.
LEMMA AnswerStep ==
  ASSUME Inv, NEW j \in Jobs, job[j].at \in {"sent", "refresh"},
         NEW label \in {"answered", "refreshed"}, NEW status \in Statuses,
         Answer(j, label, status, 0), UNCHANGED <<live, issued>>,
         label = "answered" /\ job[j].kind = "logout" => status # 200
  PROVE  Inv'
<1>1. PICK q \in JobType :
            /\ job' = [job EXCEPT ![j] = q] /\ job'[j] = q
            /\ q.at = label /\ q.answer = status /\ q.given = 0
            /\ q.tab = job[j].tab /\ q.kind = job[j].kind
  BY AnswerShape, Members
<1>2. UNCHANGED <<jar, live, issued, loads, tab>> /\ Watch
  BY DEF Answer
<1>3. ~Settling(job[j]) /\ Busy(q)
  BY <1>1 DEF Settling, Busy
<1>4. tab' \in [Tabs -> TabType]
  BY <1>2 DEF Inv, TypeOK
<1>. QED  BY <1>1, <1>2, <1>3, <1>4, OneCall

\* An answer that changes the tokens.
LEMMA TokenStep ==
  ASSUME Inv, NEW j \in Jobs, job[j].at \in {"sent", "refresh"}, NEW q \in JobType,
         job' = [job EXCEPT ![j] = q], UNCHANGED <<jar, tab, loads>>, Watch,
         issued' \in Tokens, live' \subseteq 1..issued',
         q.at \in {"answered", "refreshed"}, q.tab = job[j].tab, q.kind = job[j].kind,
         GivenBySuccess(q), Posts(q), Posts(job[j]),
         Calm' => Settling(q) /\ q.given \in live' \cup {0}
  PROVE  Inv'
<1>. job \in [Jobs -> JobType] /\ job'[j] = q /\ \A k \in Jobs : k # j => job'[k] = job[k]
  BY DEF Inv, TypeOK
<1>1. TypeOK'
  BY DEF Inv, TypeOK, Watch, Overlaps
<1>2. \A k \in Jobs : GivenBySuccess(job'[k])
  BY DEF Inv
<1>3. Overlaps(job', tab') \subseteq met' /\ met \subseteq met'
  BY DEF Watch
<1>4. TokenHeld'
  <2>. SUFFICES ASSUME Calm'
                PROVE  /\ \E k \in Jobs : Settling(job'[k])
                       /\ \A k \in Jobs : job'[k].given \in live' \cup {0}
                       /\ \A k \in Jobs : job'[k].at # "refresh"
    BY DEF TokenHeld, Settling
  <2>1. ASSUME NEW k \in Jobs, Posts(job'[k])
        PROVE  k = j
    BY <1>3, <2>1, CalmAlone
  <2>2. \A k \in Jobs : job'[k].given \in live' \cup {0}
    BY <1>2, <2>1 DEF GivenBySuccess
  <2>3. \A k \in Jobs : job'[k].at # "refresh"
    BY <2>1 DEF Posts
  <2>. QED  BY <2>2, <2>3
<1>5. Accounted'
  <2>1. Busy(q)
    BY DEF Busy
  <2>. QED  BY <1>3, <2>1, StillAccounted
<1>. QED  BY <1>1, <1>2, <1>3, <1>4, <1>5 DEF Inv, GivenBySuccess, Settling, Posts

LEMMA IssueStep ==
  ASSUME Inv, NEW j \in Jobs, NEW label \in {"answered", "refreshed"}, NEW kept,
         kept \subseteq live, Issue(j, label, kept),
         \/ job[j].at = "sent" /\ job[j].kind = "login" /\ label = "answered"
         \/ job[j].at = "refresh" /\ label = "refreshed"
  PROVE  Inv'
<1>1. CASE issued < MaxTokens
  <2>1. /\ issued \in Nat /\ issued + 1 \in Tokens /\ issued' = issued + 1 /\ issued' # 0
        /\ live' = kept \cup {issued'} /\ Answer(j, label, 200, issued + 1)
    BY <1>1, BoundsAssumption DEF Issue, Inv, TypeOK, Tokens
  <2>2. live' \subseteq 1..issued'
    BY <2>1 DEF Inv, TypeOK
  <2>3. PICK q \in JobType :
            /\ job' = [job EXCEPT ![j] = q] /\ job'[j] = q
            /\ q.at = label /\ q.answer = 200 /\ q.given = issued'
            /\ q.tab = job[j].tab /\ q.kind = job[j].kind
    BY <2>1, AnswerShape, Members
  <2>4. UNCHANGED <<jar, tab, loads>> /\ Watch
    BY <2>1 DEF Answer
  <2>5. Posts(q) /\ Posts(job[j])
    BY <2>3 DEF Posts, Cookied
  <2>6. q.given # 0
    BY <2>1, <2>3
  <2>7. Settling(q)
    BY <2>3, <2>6 DEF Settling
  <2>8. GivenBySuccess(q)
    BY <2>3, <2>5, <2>7 DEF GivenBySuccess
  <2>9. q.at \in {"answered", "refreshed"} /\ q.given \in live' \cup {0}
    BY <2>1, <2>3
  <2>10. issued' \in Tokens
    BY <2>1
  <2>. QED  BY <2>2, <2>3, <2>4, <2>5, <2>7, <2>8, <2>9, <2>10, TokenStep
<1>2. CASE ~(issued < MaxTokens)
  <2>1. Answer(j, label, 0, 0) /\ UNCHANGED <<live, issued>>
    BY <1>2 DEF Issue
  <2>. QED  BY <2>1, AnswerStep, Members
<1>. QED  BY <1>1, <1>2

LEMMA ProtectedStep ==
  ASSUME Inv, NEW j \in Jobs, Protected(j)
  PROVE  Inv'
<1>1. PICK status \in Statuses : Answer(j, "answered", status, 0)
  BY Members DEF Protected
<1>. QED  BY <1>1, AnswerStep DEF Protected

LEMMA LoginStep ==
  ASSUME Inv, NEW j \in Jobs, Login(j)
  PROVE  Inv'
<1>1. CASE Issue(j, "answered", live)
  BY <1>1, IssueStep DEF Login
<1>2. ASSUME NEW status \in Statuses, Answer(j, "answered", status, 0), UNCHANGED <<live, issued>>
      PROVE  Inv'
  BY <1>2, AnswerStep DEF Login
<1>. QED  BY <1>1, <1>2, Members DEF Login

LEMMA LogoutStep ==
  ASSUME Inv, NEW j \in Jobs, Logout(j)
  PROVE  Inv'
<1>1. CASE Answer(j, "answered", 403, 0) /\ UNCHANGED <<live, issued>>
  BY <1>1, AnswerStep, Members DEF Logout
<1>2. CASE /\ live' = live \ {job[j].jar.refresh}
           /\ Answer(j, "answered", 200, 0) /\ UNCHANGED issued
  <2>1. PICK q \in JobType :
            /\ job' = [job EXCEPT ![j] = q] /\ job'[j] = q
            /\ q.at = "answered" /\ q.answer = 200 /\ q.given = 0
            /\ q.tab = job[j].tab /\ q.kind = job[j].kind
    BY <1>2, AnswerShape, Members
  <2>2. UNCHANGED <<jar, tab, loads>> /\ Watch
    BY <1>2 DEF Answer
  <2>3. Posts(q) /\ Posts(job[j]) /\ Settling(q) /\ GivenBySuccess(q)
    BY <2>1 DEF Logout, Posts, Settling, GivenBySuccess, Cookied
  <2>4. issued' \in Tokens /\ live' \subseteq 1..issued'
    BY <1>2 DEF Inv, TypeOK
  <2>. QED  BY <2>1, <2>2, <2>3, <2>4, TokenStep DEF Logout
<1>. QED  BY <1>1, <1>2 DEF Logout

\* The token that is sent is live unless an answer was lost or another request
\* overlapped: only then are all sessions ended.
LEMMA RefreshStep ==
  ASSUME Inv, NEW j \in Jobs, Refresh(j)
  PROVE  Inv'
<1>. DEFINE token == job[j].jar.refresh
<1>1. ASSUME NEW status \in Statuses, Answer(j, "refreshed", status, 0), UNCHANGED <<live, issued>>
      PROVE  Inv'
  BY <1>1, AnswerStep DEF Refresh
<1>2. CASE Rotate(j)
  BY <1>2, IssueStep DEF Refresh, Rotate
<1>3. CASE /\ token # 0 /\ token \notin live /\ live' = {}
           /\ Answer(j, "refreshed", 401, 0) /\ UNCHANGED issued
  <2>1. PICK q \in JobType :
            /\ job' = [job EXCEPT ![j] = q] /\ job'[j] = q
            /\ q.at = "refreshed" /\ q.answer = 401 /\ q.given = 0
            /\ q.tab = job[j].tab /\ q.kind = job[j].kind
    BY <1>3, AnswerShape, Members
  <2>2. UNCHANGED <<jar, tab, loads>> /\ Watch /\ met \subseteq met'
    BY <1>3 DEF Answer, Watch
  <2>3. Posts(q) /\ Posts(job[j]) /\ GivenBySuccess(q)
    BY <2>1 DEF Refresh, Posts, GivenBySuccess
  <2>4. issued' \in Tokens /\ live' \subseteq 1..issued'
    BY <1>3 DEF Inv, TypeOK
  <2>5. ~Calm'
    <3>1. ~Calm
      BY <1>3 DEF Refresh, Inv, TokenHeld
    <3>. QED  BY <2>2, <3>1 DEF Calm
  <2>. QED  BY <2>1, <2>2, <2>3, <2>4, <2>5, TokenStep DEF Refresh
<1>. QED  BY <1>1, <1>2, <1>3, Members DEF Refresh

LEMMA LoseStep ==
  ASSUME Inv, NEW j \in Jobs, Lose(j)
  PROVE  Inv'
<1>. DEFINE label == IF job[j].at \in {"sent", "answered"} THEN "answered" ELSE "refreshed"
            q == [job[j] EXCEPT !.answer = 0, !.given = 0, !.at = label]
<1>1. job \in [Jobs -> Calls] /\ job[j] \in Calls
  BY JobIsCall DEF Inv, TypeOK
<1>2. label \in Labels /\ label \in {"answered", "refreshed"}
      /\ (label = "answered" => job[j].at \in {"sent", "answered"})
  BY Members DEF Lose
<1>3. /\ job' = [job EXCEPT ![j] = q] /\ met' = met \cup {"lost"}
      /\ UNCHANGED <<jar, live, issued, tab, loads>>
      /\ Busy(job[j])
  BY DEF Lose, Busy
<1>. HIDE DEF label
<1>4. q \in Calls
  BY <1>1, <1>2, Members DEF Calls
<1>5. /\ q.at = label /\ q.answer = 0 /\ q.given = 0
      /\ q.tab = job[j].tab /\ q.kind = job[j].kind
  BY <1>1 DEF Calls
<1>. HIDE DEF q
<1>6. job'[j] = q /\ \A k \in Jobs : k # j => job'[k] = job[k]
  BY <1>1, <1>3
<1>7. TypeOK'
  BY <1>3, <1>4, JobIsCall DEF Inv, TypeOK
<1>8. \A k \in Jobs : GivenBySuccess(job'[k])
  BY <1>5, <1>6 DEF Inv, GivenBySuccess
<1>9. Overlaps(job', tab') \subseteq met'
  <2>1. ASSUME NEW k \in Jobs
        PROVE  Posts(job'[k]) => Posts(job[k])
    <3>1. CASE k = j
      BY <1>2, <1>5, <1>6, <3>1 DEF Posts, Lose
    <3>. QED  BY <1>6, <3>1
  <2>2. "posts" \in Overlaps(job', tab') => "posts" \in Overlaps(job, tab)
    <3>. DEFINE S == {k \in Jobs : Posts(job[k])}
                T == {k \in Jobs : Posts(job'[k])}
    <3>1. T \subseteq S /\ IsFiniteSet(S)
      BY <2>1, BoundsAssumption, FS_Subset
    <3>2. /\ Cardinality(T) <= Cardinality(S)
          /\ Cardinality(T) \in Nat /\ Cardinality(S) \in Nat
      BY <3>1, FS_Subset, FS_CardinalityType
    <3>3. "posts" \in Overlaps(job', tab') => Cardinality(T) > 1
      BY DEF Overlaps
    <3>4. Cardinality(S) > 1 => "posts" \in Overlaps(job, tab)
      BY DEF Overlaps
    <3>. HIDE DEF S, T
    <3>. QED  BY <3>2, <3>3, <3>4
  <2>3. "late" \in Overlaps(job', tab') => "late" \in Overlaps(job, tab)
    <3>1. ASSUME NEW k \in Jobs, job'[k].answer = 200
          PROVE  job'[k] = job[k]
      BY <1>5, <1>6, <3>1
    <3>. QED  BY <1>3, <3>1 DEF Overlaps
  <2>4. Overlaps(job', tab') \subseteq {"posts", "late"}
    BY DEF Overlaps
  <2>. QED  BY <1>3, <2>2, <2>3, <2>4 DEF Inv
<1>10. TokenHeld'
  BY <1>3 DEF TokenHeld, Calm
<1>11. Accounted'
  <2>1. Busy(q)
    BY <1>2, <1>5 DEF Busy
  <2>. QED  BY <1>3, <1>5, <1>6, <2>1, StillAccounted
<1>. QED  BY <1>7, <1>8, <1>9, <1>10, <1>11 DEF Inv, GivenBySuccess, Settling, Posts

-----------------------------------------------------------------------------
(* The client, when an answer arrives.                                     *)

LEMMA CookiesType ==
  ASSUME Inv, NEW j \in Jobs
  PROVE  /\ Cookies(job[j]) \in Jar
         /\ ~Settling(job[j]) => Cookies(job[j]) = jar
         /\ job[j].given # 0 => Cookies(job[j]).refresh = job[j].given
         /\ Settling(job[j]) /\ job[j].given = 0 => Cookies(job[j]).refresh = 0
<1>1. job[j] \in JobType /\ jar \in Jar /\ GivenBySuccess(job[j])
  BY DEF Inv, TypeOK
<1>2. CASE job[j].given # 0
  <2>1. Cookies(job[j]) = [refresh |-> job[j].given, csrf |-> TRUE]
    BY <1>2 DEF Cookies
  <2>2. job[j].given \in Tokens
    BY <1>1 DEF JobType
  <2>. QED  BY <1>1, <1>2, <2>1, <2>2 DEF Jar, GivenBySuccess
<1>3. CASE job[j].given = 0 /\ job[j].kind = "logout" /\ job[j].at = "answered" /\ job[j].answer = 200
  <2>1. Cookies(job[j]) = EmptyJar
    BY <1>3 DEF Cookies
  <2>. QED  BY <1>3, <2>1, EmptyJarType DEF Settling
<1>4. CASE job[j].given = 0 /\ ~(job[j].kind = "logout" /\ job[j].at = "answered" /\ job[j].answer = 200)
  <2>1. Cookies(job[j]) = jar
    BY <1>4 DEF Cookies
  <2>. QED  BY <1>1, <1>4, <2>1 DEF Settling
<1>. QED  BY <1>2, <1>3, <1>4

LEMMA JobTypes ==
  ASSUME Inv, NEW j \in Jobs
  PROVE  /\ job[j] \in JobType /\ job[j].tab \in Tabs /\ tab[job[j].tab] \in TabType
         /\ job[j].retried \in BOOLEAN /\ job[j].kind \in Kinds
  BY DEF Inv, TypeOK, JobType

\* An answer that changes no cookie.
LEMMA PlainStep ==
  ASSUME Inv, NEW j \in Jobs, NEW q \in JobType, NEW t \in TabType, Step(j, q, t),
         ~Settling(job[j]), q.given = 0, q.at \in {"idle", "queued", "refresh"},
         q.at = "refresh" => q.jar = jar,
         "late" \notin met /\ t.signedIn /\ t.access = "none" =>
            /\ tab[job[j].tab].signedIn /\ tab[job[j].tab].access = "none"
            /\ Busy(job[j]) /\ job[j].kind = "me" =>
                  Busy(q) /\ q.kind = "me" /\ q.tab = job[j].tab
  PROVE  Inv'
<1>1. /\ job' = [job EXCEPT ![j] = q] /\ tab' = [tab EXCEPT ![job[j].tab] = t]
      /\ jar' = jar /\ Watch /\ UNCHANGED <<live, issued, loads>>
  BY CookiesType DEF Step
<1>2. /\ tab' \in [Tabs -> TabType] /\ tab'[job[j].tab] = t
      /\ \A u \in Tabs : u # job[j].tab => tab'[u] = tab[u]
  BY <1>1, JobTypes DEF Inv, TypeOK
<1>3. met \subseteq met'
  BY <1>1 DEF Watch
<1>. QED  BY <1>1, <1>2, <1>3, OneCall

LEMMA EnqueueStep ==
  ASSUME Inv, NEW j \in Jobs, Enqueue(j)
  PROVE  Inv'
<1>. DEFINE q == [job[j] EXCEPT !.at = "queued", !.access = "none", !.answer = 0]
<1>1. job[j] \in Calls /\ GivenBySuccess(job[j])
  BY JobTypes, JobIsCall DEF Inv
<1>2. q \in Calls
  BY <1>1, Members DEF Calls
<1>3. q.at = "queued" /\ q.given = job[j].given /\ q.kind = job[j].kind /\ q.tab = job[j].tab
  BY <1>1 DEF Calls
<1>4. Step(j, q, tab[job[j].tab]) /\ job[j].answer = 401 /\ job[j].at = "answered"
  BY DEF Enqueue, Unauthorized
<1>5. ~Settling(job[j]) /\ job[j].given = 0
  BY <1>1, <1>4 DEF GivenBySuccess, Settling
<1>. HIDE DEF q
<1>6. q \in JobType /\ q.given = 0
  BY <1>2, <1>3, <1>5, JobIsCall
<1>7. Busy(q)
  BY <1>3 DEF Busy
<1>. QED  BY <1>3, <1>4, <1>5, <1>6, <1>7, JobTypes, PlainStep

LEMMA InterceptStep ==
  ASSUME Inv, NEW j \in Jobs, Intercept(j)
  PROVE  Inv'
<1>. DEFINE q == ToRefresh(job[j], TRUE)
            t == [tab[job[j].tab] EXCEPT !.refreshing = TRUE]
<1>1. job[j] \in JobType /\ GivenBySuccess(job[j]) /\ TypeOK
  BY JobTypes DEF Inv
<1>2. /\ q \in JobType /\ q.at = "refresh" /\ q.jar = jar /\ q.given = 0
      /\ q.kind = job[j].kind /\ q.tab = job[j].tab
  BY <1>1, ToRefreshShape
<1>3. t \in TabType /\ t.signedIn = tab[job[j].tab].signedIn /\ t.access = tab[job[j].tab].access
  BY JobTypes, TabShapes
<1>4. Step(j, q, t) /\ job[j].answer = 401 /\ job[j].at = "answered"
  BY DEF Intercept, Unauthorized
<1>5. ~Settling(job[j])
  BY <1>1, <1>4 DEF GivenBySuccess, Settling
<1>6. Busy(q)
  BY <1>2 DEF Busy
<1>. HIDE DEF q, t
<1>. QED  BY <1>2, <1>3, <1>4, <1>5, <1>6, PlainStep

LEMMA RejectStep ==
  ASSUME Inv, NEW j \in Jobs, Reject(j)
  PROVE  Inv'
<1>. DEFINE q == Rejected(job[j])
            u == tab[job[j].tab]
            t == IF job[j].kind = "logout" THEN Out(u) ELSE u
<1>1. job[j] \in JobType /\ GivenBySuccess(job[j]) /\ TypeOK /\ u \in TabType
  BY JobTypes DEF Inv
<1>2. /\ q \in JobType /\ q.at \in {"idle", "refresh"} /\ q.given = 0
      /\ q.at = "refresh" => q.jar = jar
      /\ q.kind = "me" /\ q.tab = job[j].tab
      /\ job[j].kind = "me" => Busy(q)
  BY <1>1, RejectedShape DEF Busy
<1>3. t \in TabType /\ (t.signedIn => t = u)
  BY <1>1, TabShapes
<1>4. Step(j, q, t) /\ job[j].answer # 200 /\ job[j].at = "answered"
  BY DEF Reject
<1>5. ~Settling(job[j])
  BY <1>1, <1>4 DEF GivenBySuccess, Settling
<1>. HIDE DEF q, t
<1>. QED  BY <1>2, <1>3, <1>4, <1>5, PlainStep

\* An answer that changes the cookies: no other call is about to.
LEMMA ResolveStep ==
  ASSUME Inv, NEW j \in Jobs, Resolve(j)
  PROVE  Inv'
<1>. DEFINE q == Idle(job[j])
            u == job[j].tab
            t == CASE job[j].kind = "me" -> [tab[u] EXCEPT !.signedIn = TRUE]
                   [] job[j].kind = "login" -> In(tab[u])
                   [] job[j].kind = "logout" -> Out(tab[u])
                   [] job[j].kind = "api" -> tab[u]
<1>1. job[j] \in JobType /\ GivenBySuccess(job[j]) /\ TypeOK /\ tab[u] \in TabType
      /\ u \in Tabs /\ job[j].kind \in Kinds
  BY JobTypes DEF Inv
<1>2. q \in JobType /\ q.at = "idle" /\ q.given = 0 /\ q.tab = u
  BY <1>1, IdleShape
<1>3. /\ t \in TabType
      /\ job[j].kind = "me" => t.access = tab[u].access
      /\ job[j].kind # "me" /\ t.signedIn /\ t.access = "none" => t = tab[u]
  BY <1>1, TabShapes DEF Kinds
<1>4. Step(j, q, t) /\ job[j].answer = 200 /\ job[j].at = "answered"
  BY DEF Resolve
\* an answer to checkAuth that finds the store cleared is recorded
<1>5. job[j].kind = "me" /\ "late" \notin met => tab[u].access # "none"
  BY <1>4 DEF Inv, Overlaps
<1>. HIDE DEF q, t
<1>6. CASE ~Settling(job[j])
  BY <1>2, <1>3, <1>4, <1>5, <1>6, PlainStep
<1>7. CASE Settling(job[j])
  <2>1. /\ job' = [job EXCEPT ![j] = q] /\ tab' = [tab EXCEPT ![u] = t]
        /\ jar' = Cookies(job[j]) /\ Watch /\ UNCHANGED <<live, issued, loads>>
    BY <1>4 DEF Step
  <2>2. /\ tab' \in [Tabs -> TabType] /\ tab'[u] = t
        /\ \A x \in Tabs : x # u => tab'[x] = tab[x]
    BY <1>1, <1>3, <2>1 DEF TypeOK
  <2>3. job'[j] = q /\ \A k \in Jobs : k # j => job'[k] = job[k]
    BY <1>1, <2>1 DEF TypeOK
  <2>4. TypeOK'
    <3>1. jar' \in Jar
      BY <2>1, CookiesType
    <3>. QED  BY <1>1, <1>2, <2>1, <2>2, <3>1 DEF TypeOK, Watch, Overlaps
  <2>5. \A k \in Jobs : GivenBySuccess(job'[k])
    BY <1>2, <2>3 DEF Inv, GivenBySuccess
  <2>6. Overlaps(job', tab') \subseteq met' /\ met \subseteq met'
    BY <2>1 DEF Watch
  <2>7. TokenHeld'
    <3>. SUFFICES ASSUME Calm'
                  PROVE  /\ jar'.refresh \in live \cup {0}
                         /\ \A k \in Jobs : job'[k].given \in live \cup {0}
                         /\ \A k \in Jobs : job'[k].at # "refresh"
      BY <2>1 DEF TokenHeld
    <3>1. Calm
      BY <2>6 DEF Calm
    <3>2. \A k \in Jobs : job[k].given \in live \cup {0}
      BY <3>1 DEF Inv, TokenHeld
    <3>3. jar'.refresh \in live \cup {0}
      BY <1>7, <2>1, <3>2, CookiesType
    <3>4. ASSUME NEW k \in Jobs
          PROVE  job'[k].at # "refresh"
      <4>1. Posts(job[j])
        BY <1>1, <1>7, SettlingPosts
      <4>2. job[k].at = "refresh" => k = j
        BY <3>1, <4>1, CalmWasAlone DEF Posts
      <4>. QED  BY <1>2, <2>3, <4>2
    <3>. QED  BY <1>2, <2>3, <3>2, <3>3, <3>4
  <2>8. Accounted'
    <3>1. ASSUME NEW x \in Tabs, "late" \notin met', tab'[x].signedIn, tab'[x].access = "none"
          PROVE  /\ tab[x].signedIn /\ tab[x].access = "none"
                 /\ \A k \in Jobs : Busy(job[k]) /\ job[k].tab = x /\ job[k].kind = "me" =>
                       Busy(job'[k]) /\ job'[k].tab = x /\ job'[k].kind = "me"
      <4>1. CASE x = u
        BY <1>3, <1>5, <2>2, <2>3, <2>6, <3>1, <4>1
      <4>2. CASE x # u
        BY <2>2, <2>3, <3>1, <4>2
      <4>. QED  BY <4>1, <4>2
    <3>. QED  BY <2>6, <3>1, StillAccounted
  <2>. QED  BY <2>4, <2>5, <2>6, <2>7, <2>8 DEF Inv, GivenBySuccess, Settling, Posts
<1>. QED  BY <1>6, <1>7

-----------------------------------------------------------------------------
\* The end of a refresh settles the calls that waited for it.
LEMMA RefreshDoneStep ==
  ASSUME Inv, NEW j \in Jobs, RefreshDone(j)
  PROVE  Inv'
<1>. DEFINE u == job[j].tab
            settled == IF job[j].intercepted THEN {j} \cup Awaiting(job[j]) ELSE {}
            after(k) == IF k \in settled
                        THEN IF job[j].answer = 200 THEN Sent(job[k], jar', "good")
                             ELSE Rejected(job[k])
                        ELSE IF k = j THEN Idle(job[j]) ELSE job[k]
<1>1. /\ job[j] \in JobType /\ GivenBySuccess(job[j]) /\ TypeOK /\ tab[u] \in TabType
      /\ u \in Tabs
  BY JobTypes DEF Inv
<1>2. /\ job[j].at = "refreshed" /\ tab' = [tab EXCEPT ![u] = Store(job[j])]
      /\ jar' = Cookies(job[j]) /\ job' = [k \in Jobs |-> after(k)]
      /\ Watch /\ UNCHANGED <<live, issued, loads>>
  BY DEF RefreshDone
<1>3. Store(job[j]) \in TabType /\ (Store(job[j]).signedIn => Store(job[j]).access # "none")
  BY <1>1, TabShapes DEF Store
<1>4. /\ tab' \in [Tabs -> TabType] /\ tab'[u] = Store(job[j])
      /\ \A x \in Tabs : x # u => tab'[x] = tab[x]
  BY <1>1, <1>2, <1>3 DEF TypeOK
<1>5. jar' \in Jar
  BY <1>2, CookiesType
\* only the calls of the tab that were queued, and the refresh itself, change
<1>6. ASSUME NEW k \in Jobs
      PROVE  /\ after(k) \in JobType
             /\ \/ after(k) = job[k]
                \/ /\ after(k).given = 0 /\ job[k].tab = u /\ (k = j \/ job[k].at = "queued")
                   /\ after(k).at = "refresh" => after(k).jar = jar
  <2>1. job[k] \in JobType /\ "good" \in Access
    BY JobTypes, Members
  <2>2. CASE k \in settled
    <3>1. k = j \/ (job[k].at = "queued" /\ job[k].tab = u)
      BY <2>2 DEF Awaiting, Queued
    <3>2. CASE job[j].answer = 200
      <4>1. after(k) = Sent(job[k], jar', "good")
        BY <2>2, <3>2
      <4>2. /\ after(k) \in JobType /\ after(k).given = 0 /\ after(k).at = "sent"
        BY <1>5, <2>1, <4>1, SentShape
      <4>. HIDE DEF after
      <4>. QED  BY <3>1, <4>2
    <3>3. CASE job[j].answer # 200
      <4>1. after(k) = Rejected(job[k])
        BY <2>2, <3>3
      <4>2. /\ after(k) \in JobType /\ after(k).given = 0
            /\ after(k).at = "refresh" => after(k).jar = jar
        BY <1>1, <2>1, <4>1, RejectedShape
      <4>. HIDE DEF after
      <4>. QED  BY <3>1, <4>2
    <3>. QED  BY <3>2, <3>3
  <2>3. CASE k \notin settled /\ k = j
    <3>1. after(k) = Idle(job[j])
      BY <2>3
    <3>2. after(k) \in JobType /\ after(k).given = 0 /\ after(k).at = "idle"
      BY <1>1, <3>1, IdleShape
    <3>. HIDE DEF after
    <3>. QED  BY <2>3, <3>2
  <2>4. CASE k \notin settled /\ k # j
    <3>1. after(k) = job[k]
      BY <2>4
    <3>. HIDE DEF after
    <3>. QED  BY <2>1, <3>1
  <2>. QED  BY <2>2, <2>3, <2>4
<1>. HIDE DEF after, settled
<1>7. \A k \in Jobs : job'[k] = after(k)
  BY <1>2
<1>8. TypeOK'
  BY <1>1, <1>2, <1>4, <1>5, <1>6 DEF TypeOK, Watch, Overlaps
<1>9. \A k \in Jobs : GivenBySuccess(job'[k])
  BY <1>6, <1>7 DEF Inv, GivenBySuccess
<1>10. Overlaps(job', tab') \subseteq met' /\ met \subseteq met'
  BY <1>2 DEF Watch
<1>11. TokenHeld'
  <2>1. CASE job[j].given = 0
    <3>1. ~Settling(job[j])
      BY <1>2, <2>1 DEF Settling
    <3>2. jar' = jar
      BY <1>2, <3>1, CookiesType
    <3>3. \A k \in Jobs : job'[k] = job[k] \/ ~Settling(job[k])
      BY <1>6, <1>7, <3>1 DEF Settling
    <3>4. \A k \in Jobs : \/ job'[k] = job[k]
                          \/ /\ Calm' => ~Settling(job[k])
                             /\ job'[k].given = 0
                             /\ job'[k].at = "refresh" => job'[k].jar = jar
      BY <1>6, <1>7, <3>3
    <3>. QED  BY <1>2, <1>9, <1>10, <3>2, <3>4, CookiesKept
  <2>2. CASE job[j].given # 0
    <3>. SUFFICES ASSUME Calm'
                  PROVE  /\ jar'.refresh \in live \cup {0}
                         /\ \A k \in Jobs : job'[k].given \in live \cup {0}
                         /\ \A k \in Jobs : job'[k].at # "refresh"
      BY <1>2 DEF TokenHeld
    <3>1. Calm
      BY <1>10 DEF Calm
    <3>2. \A k \in Jobs : job[k].given \in live \cup {0}
      BY <3>1 DEF Inv, TokenHeld
    <3>3. jar'.refresh \in live \cup {0}
      BY <1>2, <2>2, <3>2, CookiesType
    <3>4. job[j].answer = 200
      BY <1>1, <2>2 DEF GivenBySuccess
    <3>5. ASSUME NEW k \in Jobs
          PROVE  job'[k].at # "refresh"
      <4>1. job[k].at = "refresh" => k = j
        BY <1>2, <3>1, CalmWasAlone DEF Posts
      <4>2. CASE k \in settled
        <5>1. job'[k] = Sent(job[k], jar', "good")
          BY <1>7, <3>4, <4>2 DEF after
        <5>2. job'[k].at = "sent"
          BY <1>5, <5>1, JobTypes, SentShape, Members
        <5>. QED  BY <5>2
      <4>3. CASE k \notin settled /\ k = j
        <5>1. job'[k] = Idle(job[j])
          BY <1>7, <4>3 DEF after
        <5>2. job'[k].at = "idle"
          BY <1>1, <5>1, IdleShape
        <5>. QED  BY <5>2
      <4>4. CASE k \notin settled /\ k # j
        BY <1>7, <4>1, <4>4 DEF after
      <4>. QED  BY <4>2, <4>3, <4>4
    <3>6. \A k \in Jobs : job'[k].given \in live \cup {0}
      BY <1>6, <1>7, <3>2
    <3>. QED  BY <3>3, <3>5, <3>6
  <2>. QED  BY <2>1, <2>2
<1>12. Accounted'
  <2>1. ASSUME NEW x \in Tabs, tab'[x].signedIn, tab'[x].access = "none"
        PROVE  /\ tab[x].signedIn /\ tab[x].access = "none"
               /\ \A k \in Jobs : Busy(job[k]) /\ job[k].tab = x /\ job[k].kind = "me" =>
                     Busy(job'[k]) /\ job'[k].tab = x /\ job'[k].kind = "me"
    <3>1. x # u
      BY <1>3, <1>4, <2>1
    <3>2. \A k \in Jobs : job[k].tab = x => job'[k] = job[k]
      BY <1>1, <1>6, <1>7, <3>1
    <3>. QED  BY <1>4, <2>1, <3>1, <3>2
  <2>. QED  BY <1>10, <2>1, StillAccounted
<1>. QED  BY <1>8, <1>9, <1>10, <1>11, <1>12 DEF Inv, GivenBySuccess, Settling, Posts

-----------------------------------------------------------------------------
(* The user and the browser.                                               *)

LEMMA CallStep ==
  ASSUME Inv, NEW j \in Jobs, NEW t \in Tabs, NEW kind \in Kinds, Call(j, t, kind)
  PROVE  Inv'
<1>. DEFINE r == [Idle(job[j]) EXCEPT !.tab = t, !.kind = kind]
            q == Sent(r, jar, tab[t].access)
<1>1. job[j] \in JobType /\ TypeOK /\ jar \in Jar /\ tab[t].access \in Access
  BY JobTypes DEF Inv, TypeOK, TabType, Access
<1>2. Idle(job[j]) \in Calls
  BY <1>1, IdleShape, JobIsCall
<1>3. r \in JobType
  BY <1>2, JobIsCall DEF Calls
<1>4. q \in JobType /\ q.at = "sent" /\ q.given = 0
  BY <1>1, <1>3, SentShape
<1>5. /\ job' = [job EXCEPT ![j] = q] /\ Watch
      /\ UNCHANGED <<jar, live, issued, loads, tab>>
      /\ ~Busy(job[j])
  BY DEF Call, Begun
<1>6. ~Settling(job[j]) /\ tab' \in [Tabs -> TabType]
  BY <1>1, <1>5 DEF Settling, Busy, TypeOK
<1>. HIDE DEF q, r
<1>. QED  BY <1>4, <1>5, <1>6, OneCall

\* The calls that a page load ends post nothing, or their answers are lost.
LEMMA LoadStep ==
  ASSUME Inv, NEW j \in Jobs, NEW t \in Tabs, NEW kept \in BOOLEAN, Load(j, t, kept)
  PROVE  Inv'
<1>. DEFINE r == [Idle(job[j]) EXCEPT !.tab = t]
            q == Sent(r, jar, "none")
            after(k) == IF k = j THEN q ELSE IF k \in Of(job, t) THEN Idle(job[k]) ELSE job[k]
            fresh == [signedIn |-> kept, access |-> "none", refreshing |-> FALSE]
<1>1. job[j] \in JobType /\ TypeOK /\ jar \in Jar /\ "none" \in Access
  BY JobTypes, Members DEF Inv, TypeOK
<1>2. Idle(job[j]) \in Calls /\ Idle(job[j]).kind = "me"
  BY <1>1, IdleShape, JobIsCall
<1>3. r \in JobType /\ r.tab = t /\ r.kind = "me"
  BY <1>2, JobIsCall DEF Calls
<1>4. q \in JobType /\ q.at = "sent" /\ q.given = 0 /\ q.tab = t /\ q.kind = "me"
  BY <1>1, <1>3, SentShape
<1>5. /\ ~Busy(job[j]) \/ job[j].tab = t
      /\ tab' = [tab EXCEPT ![t] = fresh] /\ job' = [k \in Jobs |-> after(k)]
      /\ UNCHANGED <<jar, live, issued>>
      /\ Overlaps(job', tab') \subseteq met' /\ met \subseteq met'
      /\ met' \subseteq met \cup {"posts", "late", "lost"}
      /\ (\E k \in Of(job, t) : Posts(job[k])) => "lost" \in met'
  BY DEF Load, Overlaps
<1>6. loads' \in 0..MaxLoads
  BY <1>1, BoundsAssumption DEF Load, TypeOK
<1>7. fresh \in TabType
  BY DEF TabType
<1>. HIDE DEF q, r, fresh
<1>8. ASSUME NEW k \in Jobs
      PROVE  /\ after(k) \in JobType
             /\ \/ after(k) = job[k] /\ k # j
                \/ /\ after(k).given = 0 /\ after(k).at # "refresh"
                   /\ k \in Of(job, t) \/ ~Busy(job[k])
  <2>1. CASE k = j
    BY <1>4, <1>5, <2>1 DEF Of
  <2>2. CASE k # j /\ k \in Of(job, t)
    <3>1. after(k) = Idle(job[k])
      BY <2>2
    <3>2. Idle(job[k]) \in JobType /\ Idle(job[k]).given = 0 /\ Idle(job[k]).at = "idle"
      BY JobTypes, IdleShape
    <3>. HIDE DEF after
    <3>. QED  BY <2>2, <3>1, <3>2
  <2>3. CASE k # j /\ k \notin Of(job, t)
    BY <2>3, JobTypes
  <2>. QED  BY <2>1, <2>2, <2>3
<1>9. job'[j] = q
  BY <1>5
<1>. HIDE DEF after
<1>10. \A k \in Jobs : job'[k] = after(k)
  BY <1>5
<1>11. TypeOK'
  <2>1. met' \subseteq {"posts", "late", "lost"}
    BY <1>1, <1>5 DEF TypeOK
  <2>2. tab' \in [Tabs -> TabType]
    BY <1>1, <1>5, <1>7 DEF TypeOK
  <2>3. job' \in [Jobs -> JobType]
    BY <1>5, <1>8
  <2>. QED  BY <1>1, <1>5, <1>6, <2>1, <2>2, <2>3 DEF TypeOK
<1>12. \A k \in Jobs : GivenBySuccess(job'[k])
  BY <1>8, <1>10 DEF Inv, GivenBySuccess
<1>13. TokenHeld'
  <2>1. ASSUME Calm', NEW k \in Jobs, k \in Of(job, t) \/ ~Busy(job[k])
        PROVE  ~Settling(job[k])
    <3>1. CASE ~Busy(job[k])
      BY <3>1 DEF Busy, Settling
    <3>2. CASE k \in Of(job, t)
      <4>1. ~Posts(job[k])
        BY <1>5, <2>1, <3>2 DEF Calm
      <4>. QED  BY <4>1, SettlingPosts DEF Inv
    <3>. QED  BY <2>1, <3>1, <3>2
  <2>2. \A k \in Jobs : \/ job'[k] = job[k]
                        \/ /\ Calm' => ~Settling(job[k])
                           /\ job'[k].given = 0
                           /\ job'[k].at = "refresh" => job'[k].jar = jar
    BY <1>8, <1>10, <2>1
  <2>. QED  BY <1>5, <1>12, <2>2, CookiesKept
<1>14. Accounted'
  <2>1. ASSUME NEW x \in Tabs, tab'[x].signedIn, tab'[x].access = "none"
        PROVE  \/ /\ tab[x].signedIn /\ tab[x].access = "none"
                  /\ \A k \in Jobs : Busy(job[k]) /\ job[k].tab = x /\ job[k].kind = "me" =>
                        Busy(job'[k]) /\ job'[k].tab = x /\ job'[k].kind = "me"
               \/ \E k \in Jobs : Busy(job'[k]) /\ job'[k].tab = x /\ job'[k].kind = "me"
    <3>1. CASE x = t
      BY <1>4, <1>9, <3>1 DEF Busy
    <3>2. CASE x # t
      <4>1. tab'[x] = tab[x]
        BY <1>1, <1>5, <3>2 DEF TypeOK
      <4>2. \A k \in Jobs : Busy(job[k]) /\ job[k].tab = x => job'[k] = job[k]
        BY <1>5, <1>8, <1>10, <3>2 DEF Of
      <4>. QED  BY <2>1, <4>1, <4>2
    <3>. QED  BY <3>1, <3>2
  <2>. QED  BY <1>5, <2>1, StillAccounted
<1>. QED  BY <1>5, <1>11, <1>12, <1>13, <1>14 DEF Inv, GivenBySuccess, Settling, Posts

LEMMA StaleStep ==
  ASSUME Inv, NEW t \in Tabs, Stale(t)
  PROVE  Inv'
<1>1. /\ tab[t].access = "good" /\ tab' = [tab EXCEPT ![t].access = "stale"]
      /\ UNCHANGED <<jar, live, issued, job, loads, met>>
  BY DEF Stale
<1>2. TypeOK /\ tab[t] \in TabType
  BY DEF Inv, TypeOK
<1>3. tab' \in [Tabs -> TabType]
  <2>1. [tab[t] EXCEPT !.access = "stale"] \in TabType
    BY <1>2, TabShapes, Members
  <2>. QED  BY <1>1, <1>2, <2>1 DEF TypeOK
<1>4. \A x \in Tabs : /\ tab'[x].signedIn = tab[x].signedIn
                      /\ tab'[x].access = "none" <=> tab[x].access = "none"
  BY <1>1, <1>2 DEF TypeOK, TabType
<1>5. Overlaps(job', tab') \subseteq met'
  <2>1. Overlaps(job', tab') = Overlaps(job, tab)
    BY <1>1, <1>4, JobTypes DEF Overlaps
  <2>. QED  BY <1>1, <2>1 DEF Inv
<1>6. TypeOK' /\ TokenHeld' /\ \A k \in Jobs : GivenBySuccess(job'[k])
  BY <1>1, <1>2, <1>3 DEF Inv, TypeOK, TokenHeld, Calm
<1>7. Accounted'
  BY <1>1, <1>4, StillAccounted
<1>. QED  BY <1>5, <1>6, <1>7 DEF Inv, GivenBySuccess, Settling, Posts

LEMMA DropStep ==
  ASSUME Inv, NEW smaller \in Jar, Drop(smaller)
  PROVE  Inv'
<1>1. /\ jar' = smaller /\ smaller.refresh \in {jar.refresh, 0}
      /\ UNCHANGED <<live, issued, tab, job, loads, met>>
  BY EmptyJarType DEF Drop, Inv, TypeOK, Jar
<1>2. TypeOK' /\ TokenHeld' /\ \A k \in Jobs : GivenBySuccess(job'[k])
  BY <1>1 DEF Inv, TypeOK, TokenHeld, Calm
<1>3. Overlaps(job', tab') \subseteq met' /\ Accounted'
  BY <1>1 DEF Inv, Accounted
<1>. QED  BY <1>2, <1>3 DEF Inv, GivenBySuccess, Settling, Posts

-----------------------------------------------------------------------------
LEMMA InitInv == Init => Inv
<1>. SUFFICES ASSUME Init PROVE Inv
  OBVIOUS
<1>. DEFINE Q == [at : {"idle"}, tab : Tabs, kind : {"me"},
                  retried : {FALSE}, intercepted : {FALSE}, jar : {EmptyJar},
                  access : {"none"}, answer : {0}, given : {0}]
<1>1. Q \subseteq JobType
  <2>. DEFINE R == [at : Labels, tab : Tabs, kind : Kinds, retried : BOOLEAN,
                    intercepted : BOOLEAN, jar : Jar, access : Access, answer : Statuses,
                    given : Tokens]
  <2>1. /\ {"idle"} \subseteq Labels /\ {"me"} \subseteq Kinds /\ {FALSE} \subseteq BOOLEAN
        /\ {EmptyJar} \subseteq Jar /\ {"none"} \subseteq Access
        /\ {0} \subseteq Statuses /\ {0} \subseteq Tokens
    BY EmptyJarType, Members
  <2>2. Q \subseteq R
    BY <2>1
  <2>. QED  BY <2>2, JobIsCall DEF Calls
<1>2. ASSUME NEW j \in Jobs
      PROVE  job[j] \in JobType /\ job[j].at = "idle" /\ job[j].given = 0
  <2>1. job[j] \in {Idle(q) : q \in Q}
    BY DEF Init
  <2>. HIDE DEF Q
  <2>. QED  BY <1>1, <2>1, IdleShape
<1>3. job \in [Jobs -> JobType]
  BY <1>2 DEF Init
<1>4. TypeOK
  <2>1. [signedIn |-> FALSE, access |-> "none", refreshing |-> FALSE] \in TabType
    BY DEF TabType
  <2>. QED  BY <1>3, <2>1, EmptyJarType, BoundsAssumption DEF Init, TypeOK, Tokens
<1>5. \A j \in Jobs : ~Posts(job[j]) /\ GivenBySuccess(job[j])
  BY <1>2 DEF Posts, GivenBySuccess
<1>6. Overlaps(job, tab) \subseteq met
  <2>1. {j \in Jobs : Posts(job[j])} = {}
    BY <1>5
  <2>2. Cardinality({}) = 0
    BY FS_EmptySet
  <2>3. "posts" \notin Overlaps(job, tab)
    BY <2>1, <2>2 DEF Overlaps
  <2>4. "late" \notin Overlaps(job, tab)
    BY <1>2 DEF Overlaps
  <2>. QED  BY <2>3, <2>4 DEF Overlaps
<1>7. TokenHeld
  BY <1>2, EmptyJarType DEF Init, TokenHeld
<1>8. Accounted
  BY DEF Init, Accounted
<1>. QED  BY <1>4, <1>5, <1>6, <1>7, <1>8 DEF Inv

LEMMA NextInv == Inv /\ [Next]_vars => Inv'
<1>. SUFFICES ASSUME Inv, [Next]_vars PROVE Inv'
  OBVIOUS
<1>1. ASSUME NEW t \in Tabs, Stale(t)
      PROVE  Inv'
  BY <1>1, StaleStep
<1>2. ASSUME NEW smaller \in Jar, Drop(smaller)
      PROVE  Inv'
  BY <1>2, DropStep
<1>3. ASSUME NEW j \in Jobs, NEW t \in Tabs, NEW kept \in BOOLEAN, Load(j, t, kept)
      PROVE  Inv'
  BY <1>3, LoadStep
<1>4. ASSUME NEW j \in Jobs, NEW t \in Tabs, NEW kind \in Kinds \ {"me"}, Call(j, t, kind)
      PROVE  Inv'
  BY <1>4, CallStep
<1>5. ASSUME NEW j \in Jobs, Serve(j)
      PROVE  Inv'
  BY <1>5, ProtectedStep, LoginStep, LogoutStep, RefreshStep DEF Serve
<1>6. ASSUME NEW j \in Jobs, Lose(j)
      PROVE  Inv'
  BY <1>6, LoseStep
<1>7. ASSUME NEW j \in Jobs, Receive(j)
      PROVE  Inv'
  BY <1>7, ResolveStep, EnqueueStep, InterceptStep, RejectStep, RefreshDoneStep DEF Receive
<1>8. CASE UNCHANGED vars
  BY <1>8 DEF vars, Inv, TypeOK, TokenHeld, Calm, Accounted, GivenBySuccess, Settling, Posts
<1>. QED  BY <1>1, <1>2, <1>3, <1>4, <1>5, <1>6, <1>7, <1>8 DEF Next

\* What the calls in progress account for holds throughout.
THEOREM InvKept == Spec => []Inv
  BY InitInv, NextInv, PTL DEF Spec

\* Cookies, stores and calls keep their shape, and a live token was issued.
THEOREM SessionTypesCorrect == Spec => []TypeOK
<1>1. Inv => TypeOK
  BY DEF Inv
<1>. QED  BY <1>1, InvKept, PTL

\* However calls are retried, queued and refreshed in any number of tabs, a browser whose
\* requests did not overlap and whose answers all arrived holds, once it has settled, no
\* refresh token that the server would refuse.
THEOREM CookieIsLive == Spec => []JarIsLive
<1>1. Inv => JarIsLive
  BY DEF Inv, JarIsLive, TokenHeld, Calm, Settling, Busy
<1>. QED  BY <1>1, InvKept, PTL

\* A tab that has settled and shows a user has an access token, unless an answer to
\* checkAuth came after its store was cleared.
THEOREM UserCanAct == Spec => []SignedInHasToken
<1>1. Inv => SignedInHasToken
  BY DEF Inv, SignedInHasToken, Accounted
<1>. QED  BY <1>1, InvKept, PTL
=============================================================================
