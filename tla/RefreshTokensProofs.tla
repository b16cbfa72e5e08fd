------------------------ MODULE RefreshTokensProofs ------------------------
(***************************************************************************)
(* The safety of RefreshTokens for any accounts, tokens and requests.      *)
(*                                                                         *)
(* None of the properties is inductive.  What carries them is the lock: a  *)
(* rotation that is about to commit holds a live token, alone (Holding),   *)
(* and the rows of the table hang together (Linked).                       *)
(***************************************************************************)
EXTENDS RefreshTokens, TLAPS

\* A row is in a family that was started, and its parent is revoked.
Linked ==
    \A t \in Tokens :
        /\ ~Fresh(t) => token[t].family \in Tokens /\ ~Fresh(token[t].family)
        /\ Fresh(t) => token[t].parent = NoToken
        /\ token[t].parent # NoToken => token[token[t].parent].status = "revoked"

\* A request that was given a token has the id of a row.
Presented ==
    \A r \in Requests :
        request[r].at \in {"lock", "commit", "theft", "logout"} =>
            request[r].token \in Tokens /\ ~Fresh(request[r].token)

\* A rotation about to commit holds a live token that no other one holds.
Holding ==
    /\ \A r \in Requests : At(r, "commit") => IsLive(request[r].token)
    /\ \A q, r \in Requests :
          At(q, "commit") /\ At(r, "commit") /\ request[q].token = request[r].token
              => q = r

Inv == TypeOK /\ Linked /\ Presented /\ Holding /\ OneLivePerFamily /\ SingleUse

-----------------------------------------------------------------------------
LEMMA InitInv == Init => Inv
  BY TokensAssumption DEF Init, Inv, TypeOK, TokenType, Status, NoRow, RequestType,
     Labels, Idle, Linked, Presented, Holding, OneLivePerFamily, SingleUse, At,
     IsLive, Fresh

\* A step that leaves the table alone and takes one request to its next await:
\* what the code has checked about q.token by then is what Inv asks for.
LEMMA RequestStep ==
  ASSUME Inv, NEW r \in Requests, NEW q \in RequestType, Become(r, q), token' = token,
         expired' \subseteq Tokens, terminated' \subseteq Tokens,
         q.at \in {"lock", "commit", "theft", "logout"} =>
             q.token \in Tokens /\ ~Fresh(q.token),
         q.at = "commit" => IsLive(q.token) /\ ~Locked(q.token)
  PROVE  Inv'
<1>1. /\ request \in [Requests -> RequestType]
      /\ request' = [request EXCEPT ![r] = q]
  BY DEF Inv, TypeOK, Become
<1>2. TypeOK'
  BY <1>1 DEF Inv, TypeOK
<1>3. (Linked /\ OneLivePerFamily /\ SingleUse)'
  BY DEF Inv, Linked, OneLivePerFamily, SingleUse, IsLive, Fresh
<1>4. Presented'
  BY <1>1 DEF Inv, Presented, Fresh
<1>5. Holding'
  <2>1. ASSUME NEW x \in Requests, At(x, "commit")'
        PROVE  IsLive(request[x].token)'
    BY <2>1, <1>1 DEF Inv, Holding, At, IsLive
  <2>2. ASSUME NEW x \in Requests, NEW y \in Requests, At(x, "commit")', At(y, "commit")',
               (request[x].token = request[y].token)'
        PROVE  y = x
    BY <2>2, <1>1 DEF Inv, Holding, At, Locked
  <2>. QED  BY <2>1, <2>2 DEF Holding
<1>. QED  BY <1>2, <1>3, <1>4, <1>5 DEF Inv

\* The family of every row is a token, so what a reuse reports is.
LEMMA FamiliesAreTokens ==
  ASSUME Inv, NEW t \in Tokens, ~Fresh(t)
  PROVE  token[t].family \in Tokens
  BY DEF Inv, Linked

-----------------------------------------------------------------------------
(* The steps that leave the table alone.                                   *)

LEMMA RotateBeginStep ==
  ASSUME Inv, NEW r \in Requests, NEW t \in Tokens, RotateBegin(r, t)
  PROVE  Inv'
<1>. DEFINE q == [Idle EXCEPT !.at = "lock", !.token = t]
<1>1. q \in RequestType /\ q.at = "lock" /\ q.token = t
  BY DEF Idle, RequestType, Labels
<1>. QED  BY <1>1, RequestStep DEF RotateBegin, Fresh, Inv, TypeOK

LEMMA RotateReuseStep ==
  ASSUME Inv, NEW r \in Requests, RotateReuse(r)
  PROVE  Inv'
<1>. DEFINE t == request[r].token
            families == {token[x].family : x \in LiveOf(token[t].user)}
            q == [request[r] EXCEPT !.at = "theft", !.ends = families]
<1>1. request[r] \in RequestType /\ t \in Tokens /\ ~Fresh(t)
  BY DEF Inv, TypeOK, Presented, RotateReuse, At
<1>2. families \subseteq Tokens
  BY FamiliesAreTokens DEF LiveOf, IsLive, Fresh
<1>3. q \in RequestType /\ q.at = "theft" /\ q.token = t
  BY <1>1, <1>2 DEF RequestType, Labels
<1>. QED  BY <1>1, <1>3, RequestStep DEF RotateReuse, Inv, TypeOK

LEMMA RotateLockStep ==
  ASSUME Inv, NEW r \in Requests, RotateLock(r)
  PROVE  Inv'
<1>. DEFINE t == request[r].token
            q == [request[r] EXCEPT !.at = "commit"]
<1>1. request[r] \in RequestType /\ t \in Tokens /\ ~Fresh(t)
  BY DEF Inv, TypeOK, Presented, RotateLock, At
<1>2. q \in RequestType /\ q.at = "commit" /\ q.token = t
  BY <1>1 DEF RequestType, Labels
<1>. QED  BY <1>1, <1>2, RequestStep DEF RotateLock, Inv, TypeOK

LEMMA RevokeBeginStep ==
  ASSUME Inv, NEW r \in Requests, RevokeBegin(r)
  PROVE  Inv'
<1>. DEFINE q == [request[r] EXCEPT !.at = "revoke",
                     !.rows = LiveOf(token[request[r].token].user)]
<1>1. request[r] \in RequestType
  BY DEF Inv, TypeOK
<1>2. q \in RequestType /\ q.at = "revoke"
  BY <1>1 DEF RequestType, Labels, LiveOf
<1>. QED  BY <1>2, RequestStep DEF RevokeBegin, Inv, TypeOK

LEMMA LogoutAllStep ==
  ASSUME Inv, NEW r \in Requests, NEW u \in Users, LogoutAll(r, u)
  PROVE  Inv'
<1>. DEFINE q == [Idle EXCEPT !.at = "revoke", !.rows = LiveOf(u)]
<1>1. q \in RequestType /\ q.at = "revoke"
  BY DEF Idle, RequestType, Labels, LiveOf
<1>. QED  BY <1>1, RequestStep DEF LogoutAll, Inv, TypeOK

LEMMA LogoutBeginStep ==
  ASSUME Inv, NEW r \in Requests, NEW t \in Tokens, LogoutBegin(r, t)
  PROVE  Inv'
<1>. DEFINE q == [Idle EXCEPT !.at = "logout", !.token = t]
<1>1. q \in RequestType /\ q.at = "logout" /\ q.token = t
  BY DEF Idle, RequestType, Labels
<1>. QED  BY <1>1, RequestStep DEF LogoutBegin, Fresh, Inv, TypeOK

\* RotateExpired and Abort leave nothing behind.
LEMMA GiveUpStep ==
  ASSUME Inv, NEW r \in Requests, RotateExpired(r) \/ Abort(r)
  PROVE  Inv'
<1>1. Idle \in RequestType /\ Idle.at = "idle"
  BY DEF Idle, RequestType, Labels
<1>. QED  BY <1>1, RequestStep DEF RotateExpired, Abort, Inv, TypeOK

LEMMA ExpireStep ==
  ASSUME Inv, NEW t \in Tokens, Expire(t)
  PROVE  Inv'
  BY DEF Expire, Inv, TypeOK, Linked, Presented, Holding, OneLivePerFamily, SingleUse,
     At, IsLive, Fresh

LEMMA StutterStep == Inv /\ UNCHANGED vars => Inv'
  BY DEF vars, Inv, TypeOK, Linked, Presented, Holding, OneLivePerFamily, SingleUse,
     At, IsLive, Fresh

-----------------------------------------------------------------------------
(* The steps that write the table.                                         *)

LEMMA LoginStep ==
  ASSUME Inv, NEW u \in Users, NEW n \in Tokens, Login(u, n)
  PROVE  Inv'
<1>. DEFINE row == NewRow(u, n, NoToken)
<1>1. token \in [Tokens -> TokenType] /\ token' = [token EXCEPT ![n] = row]
  BY DEF Inv, TypeOK, Login
<1>2. /\ row \in TokenType
      /\ row.status = "live" /\ row.family = n /\ row.parent = NoToken
  BY DEF NewRow, TokenType, Status
<1>. HIDE DEF row
<1>3. /\ token'[n] = row
      /\ \A t \in Tokens \ {n} : token'[t] = token[t]
  BY <1>1
<1>4. /\ Fresh(n)
      /\ \A t \in Tokens : token[t].parent \in (Tokens \cup {NoToken}) \ {n}
      /\ \A t \in Tokens : IsLive(t) => token[t].family # n
  BY TokensAssumption DEF Login, Inv, TypeOK, TokenType, Linked, Fresh, IsLive
<1>5. request' = request /\ \A r \in Requests : At(r, "commit")' = At(r, "commit")
  BY DEF Login, At
<1>6. TypeOK'
  BY <1>1, <1>2 DEF Login, Inv, TypeOK
<1>7. Linked'
  BY <1>2, <1>3, <1>4, TokensAssumption DEF Inv, Linked, Fresh
<1>8. Presented'
  BY <1>2, <1>3, <1>5 DEF Inv, Presented, Fresh
<1>9. Holding'
  <2>1. \A r \in Requests : At(r, "commit") => request[r].token \in Tokens \ {n}
    BY <1>4 DEF Inv, Presented, At, Fresh
  <2>. QED  BY <2>1, <1>3, <1>5 DEF Inv, Holding, IsLive
<1>10. OneLivePerFamily'
  BY <1>2, <1>3, <1>4 DEF Inv, OneLivePerFamily, IsLive
<1>11. SingleUse'
  BY <1>2, <1>3, <1>4 DEF Inv, SingleUse, IsLive
<1>. QED  BY <1>6, <1>7, <1>8, <1>9, <1>10, <1>11 DEF Inv

\* A rotation that commits: its token is live until then and no one else's to
\* rotate, so it has no child yet and is the only live one of its family.
LEMMA RotateCommitStep ==
  ASSUME Inv, NEW r \in Requests, NEW n \in Tokens, RotateCommit(r, n)
  PROVE  Inv'
<1>. DEFINE t == request[r].token
            old == Replaced(token[t], n)
            new == NewRow(token[t].user, token[t].family, t)
<1>1. /\ t \in Tokens /\ ~Fresh(t) /\ IsLive(t) /\ Fresh(n) /\ t # n
      /\ token[t].family \in Tokens /\ ~Fresh(token[t].family)
  BY DEF Inv, RotateCommit, Presented, Holding, Linked, At, IsLive, Fresh
<1>2. /\ token \in [Tokens -> TokenType]
      /\ token' = [token EXCEPT ![t] = old, ![n] = new]
  BY DEF Inv, TypeOK, RotateCommit
<1>3. /\ old \in TokenType /\ old.status = "revoked"
      /\ old.family = token[t].family /\ old.parent = token[t].parent
  <2>1. token[t] \in TokenType
    BY <1>1, <1>2
  <2>. QED  BY <2>1 DEF Replaced, TokenType, Status
<1>4. /\ new \in TokenType /\ new.status = "live"
      /\ new.family = token[t].family /\ new.parent = t
  BY <1>1, <1>2 DEF NewRow, TokenType, Status
<1>. HIDE DEF t, old, new
<1>5. /\ token'[t] = old /\ token'[n] = new
      /\ \A x \in Tokens \ {t, n} : token'[x] = token[x]
  BY <1>1, <1>2
<1>6. /\ \A x \in Tokens : token[x].parent \in (Tokens \cup {NoToken}) \ {t, n}
      /\ \A x \in Tokens : IsLive(x) /\ token[x].family = token[t].family => x = t
  BY <1>1, TokensAssumption
     DEF Inv, TypeOK, TokenType, Linked, OneLivePerFamily, IsLive, Fresh
<1>7. /\ request \in [Requests -> RequestType] /\ Idle \in RequestType
      /\ request' = [request EXCEPT ![r] = Idle] /\ Idle.at = "idle"
  BY DEF Inv, TypeOK, RotateCommit, Become, Idle, RequestType, Labels
<1>8. TypeOK'
  BY <1>2, <1>3, <1>4, <1>7 DEF RotateCommit, Inv, TypeOK
<1>9. Linked'
  BY <1>1, <1>3, <1>4, <1>5, <1>6, TokensAssumption DEF Inv, Linked, Fresh, IsLive
<1>10. Presented'
  BY <1>3, <1>4, <1>5, <1>7 DEF Inv, Presented, Fresh
<1>11. Holding'
  <2>1. \A q \in Requests : At(q, "commit")' =>
            q # r /\ At(q, "commit") /\ request'[q] = request[q]
    BY <1>7 DEF At
  <2>2. \A q \in Requests : At(q, "commit")' => request[q].token \in Tokens \ {t, n}
    BY <2>1, <1>1 DEF Inv, Holding, Presented, RotateCommit, At, Fresh, t
  <2>. QED  BY <2>1, <2>2, <1>5 DEF Inv, Holding, IsLive
<1>12. OneLivePerFamily'
  BY <1>3, <1>4, <1>5, <1>6 DEF Inv, OneLivePerFamily, IsLive
<1>13. SingleUse'
  BY <1>1, <1>3, <1>4, <1>5, <1>6, TokensAssumption DEF Inv, SingleUse, IsLive
<1>. QED  BY <1>8, <1>9, <1>10, <1>11, <1>12, <1>13 DEF Inv

\* Revocation: rows become revoked and keep what they are linked to, except
\* those that a rotation has locked.
LEMMA RevocationStep ==
  ASSUME Inv, NEW r \in Requests, Become(r, Idle), token' \in [Tokens -> TokenType],
         \A t \in Tokens : /\ token'[t].family = token[t].family
                           /\ token'[t].parent = token[t].parent
                           /\ \/ token'[t].status = token[t].status
                              \/ ~Fresh(t) /\ ~Locked(t) /\ token'[t].status = "revoked",
         expired' = expired, terminated' \subseteq Tokens
  PROVE  Inv'
<1>1. /\ request \in [Requests -> RequestType] /\ Idle \in RequestType
      /\ request' = [request EXCEPT ![r] = Idle] /\ Idle.at = "idle"
  BY DEF Inv, TypeOK, Become, Idle, RequestType, Labels
<1>2. TypeOK'
  BY <1>1 DEF Inv, TypeOK
<1>3. Linked'
  BY TokensAssumption DEF Inv, TypeOK, TokenType, Linked, Fresh
<1>4. Presented'
  BY <1>1 DEF Inv, Presented, Fresh
<1>5. Holding'
  <2>1. \A q \in Requests : At(q, "commit")' => At(q, "commit") /\ request'[q] = request[q]
    BY <1>1 DEF At
  <2>2. \A q \in Requests : At(q, "commit") => IsLive(request[q].token)'
                                                 \/ request'[q] # request[q]
    BY DEF Inv, Holding, Presented, IsLive, Locked, At
  <2>. QED  BY <2>1, <2>2 DEF Inv, Holding
<1>6. (OneLivePerFamily /\ SingleUse)'
  BY DEF Inv, TypeOK, TokenType, OneLivePerFamily, SingleUse, IsLive
<1>. QED  BY <1>2, <1>3, <1>4, <1>5, <1>6 DEF Inv

LEMMA RevokeCommitStep ==
  ASSUME Inv, NEW r \in Requests, RevokeCommit(r)
  PROVE  Inv'
<1>1. token \in [Tokens -> TokenType] /\ request[r] \in RequestType
  BY DEF Inv, TypeOK
<1>2. \A t \in Tokens :
        /\ Revoked(token[t]) \in TokenType
        /\ Revoked(token[t]).status = "revoked"
        /\ Revoked(token[t]).family = token[t].family
        /\ Revoked(token[t]).parent = token[t].parent
  <2>1. \A t \in Tokens : token[t] \in TokenType
    BY <1>1
  <2>. QED  BY <2>1 DEF Revoked, TokenType, Status
<1>3. \A t \in Tokens : token'[t] = IF t \in request[r].rows /\ IsLive(t)
                                    THEN Revoked(token[t]) ELSE token[t]
  BY DEF RevokeCommit
<1>4. token' \in [Tokens -> TokenType]
  BY <1>1, <1>2 DEF RevokeCommit
<1>5. \A t \in Tokens : /\ token'[t].family = token[t].family
                        /\ token'[t].parent = token[t].parent
                        /\ \/ token'[t].status = token[t].status
                           \/ ~Fresh(t) /\ ~Locked(t) /\ token'[t].status = "revoked"
  BY <1>2, <1>3 DEF RevokeCommit, IsLive, Fresh
<1>6. terminated' \subseteq Tokens
  BY <1>1 DEF RevokeCommit, RequestType, Inv, TypeOK
<1>. QED  BY <1>4, <1>5, <1>6, RevocationStep DEF RevokeCommit, Inv, TypeOK

LEMMA LogoutCommitStep ==
  ASSUME Inv, NEW r \in Requests, LogoutCommit(r)
  PROVE  Inv'
<1>. DEFINE t == request[r].token
            row == Replaced(token[t], NoToken)
<1>1. /\ token \in [Tokens -> TokenType]
      /\ t \in Tokens /\ ~Fresh(t) /\ ~Locked(t)
      /\ token[t].family \in Tokens
  BY DEF Inv, TypeOK, Presented, Linked, LogoutCommit, At
<1>2. /\ row \in TokenType /\ row.status = "revoked"
      /\ row.family = token[t].family /\ row.parent = token[t].parent
  <2>1. token[t] \in TokenType
    BY <1>1
  <2>. QED  BY <2>1 DEF Replaced, TokenType, Status
<1>3. token' = [token EXCEPT ![t] = row]
  BY DEF LogoutCommit
<1>. HIDE DEF t, row
<1>5. token' \in [Tokens -> TokenType]
  BY <1>1, <1>2, <1>3
<1>6. \A x \in Tokens : /\ token'[x].family = token[x].family
                        /\ token'[x].parent = token[x].parent
                        /\ \/ token'[x].status = token[x].status
                           \/ ~Fresh(x) /\ ~Locked(x) /\ token'[x].status = "revoked"
  BY <1>1, <1>2, <1>3
<1>. QED  BY <1>5, <1>6, RevocationStep DEF LogoutCommit, Inv, TypeOK

-----------------------------------------------------------------------------
LEMMA NextStep == Inv /\ [Next]_vars => Inv'
<1>. SUFFICES ASSUME Inv, [Next]_vars
              PROVE  Inv'
  OBVIOUS
<1>1. ASSUME NEW u \in Users, NEW n \in Tokens, Login(u, n)
      PROVE  Inv'
  BY <1>1, LoginStep
<1>2. ASSUME NEW r \in Requests, NEW t \in Tokens,
             RotateBegin(r, t) \/ RotateCommit(r, t) \/ LogoutBegin(r, t)
      PROVE  Inv'
  BY <1>2, RotateBeginStep, RotateCommitStep, LogoutBeginStep
<1>3. ASSUME NEW r \in Requests, NEW u \in Users, LogoutAll(r, u)
      PROVE  Inv'
  BY <1>3, LogoutAllStep
<1>4. ASSUME NEW r \in Requests, RotateReuse(r) \/ RotateExpired(r) \/ RotateLock(r)
      PROVE  Inv'
  BY <1>4, RotateReuseStep, GiveUpStep, RotateLockStep
<1>5. ASSUME NEW r \in Requests,
             RevokeBegin(r) \/ RevokeCommit(r) \/ LogoutCommit(r) \/ Abort(r)
      PROVE  Inv'
  BY <1>5, RevokeBeginStep, RevokeCommitStep, LogoutCommitStep, GiveUpStep
<1>6. ASSUME NEW t \in Tokens, Expire(t)
      PROVE  Inv'
  BY <1>6, ExpireStep
<1>7. CASE UNCHANGED vars
  BY <1>7, StutterStep
<1>. QED  BY <1>1, <1>2, <1>3, <1>4, <1>5, <1>6, <1>7 DEF Next

\* The inductive invariant: the table hangs together, and a rotation about to
\* commit (authService.ts 282-338) holds a live token alone.
THEOREM InvKept == Spec => []Inv
<1>. QED  BY InitInv, NextStep, PTL DEF Spec

\* Every row and request keeps its shape, and what a reuse reports
\* (authService.ts 362-385) are families that were started.
THEOREM SessionTypesCorrect == Spec => []TypeOK
<1>1. Inv => TypeOK
  BY DEF Inv
<1>. QED  BY <1>1, InvKept, PTL

\* However many rotations, retries, logouts and revocations of a session are in
\* progress (authService.ts 275-429), at most one of its tokens is alive.
THEOREM SessionsHaveOneToken == Spec => []OneLivePerFamily
<1>1. Inv => OneLivePerFamily
  BY DEF Inv
<1>. QED  BY <1>1, InvKept, PTL

\* A token is exchanged at most once (authService.ts 282-338), and is dead once
\* it was.
THEOREM TokensAreUsedOnce == Spec => []SingleUse
<1>1. Inv => SingleUse
  BY DEF Inv
<1>. QED  BY <1>1, InvKept, PTL

-----------------------------------------------------------------------------
\* One step: a token that becomes live is the first of its family or the
\* successor of one that was live.
LEMMA EndedStep ==
  ASSUME Inv, [Next]_vars, NEW f \in Tokens, Ended(f)
  PROVE  Ended(f)'
<1>1. ASSUME NEW u \in Users, NEW n \in Tokens, Login(u, n)
      PROVE  Ended(f)'
  <2>1. /\ f # n /\ token' = [token EXCEPT ![n] = NewRow(u, n, NoToken)]
        /\ NewRow(u, n, NoToken).family = n
    BY <1>1 DEF Login, Ended, Fresh, NewRow
  <2>. QED  BY <2>1 DEF Inv, TypeOK, Ended, Fresh, IsLive
<1>2. ASSUME NEW r \in Requests, NEW n \in Tokens, RotateCommit(r, n)
      PROVE  Ended(f)'
  <2>. DEFINE t == request[r].token
              old == Replaced(token[t], n)
              new == NewRow(token[t].user, token[t].family, t)
  <2>1. /\ t \in Tokens /\ IsLive(t) /\ token[t].family # f
        /\ f # n /\ t # n
    BY <1>2 DEF RotateCommit, Inv, Presented, Holding, Ended, At, Fresh, IsLive
  <2>2. old.status = "revoked" /\ new.family = token[t].family
    <3>1. token[t] \in TokenType
      BY <2>1 DEF Inv, TypeOK
    <3>. QED  BY <3>1 DEF Replaced, NewRow, TokenType
  <2>3. token \in [Tokens -> TokenType] /\ token' = [token EXCEPT ![t] = old, ![n] = new]
    BY <1>2 DEF RotateCommit, Inv, TypeOK
  <2>. HIDE DEF t, old, new
  <2>. QED  BY <2>1, <2>2, <2>3 DEF Ended, Fresh, IsLive
<1>3. ASSUME NEW r \in Requests, RevokeCommit(r)
      PROVE  Ended(f)'
  <2>1. \A t \in Tokens : Revoked(token[t]).status = "revoked"
    BY DEF Inv, TypeOK, TokenType, Revoked
  <2>2. \A t \in Tokens : token'[t] = token[t] \/ token'[t].status = "revoked"
    BY <1>3, <2>1 DEF RevokeCommit
  <2>. QED  BY <2>2 DEF Ended, Fresh, IsLive
<1>4. ASSUME NEW r \in Requests, LogoutCommit(r)
      PROVE  Ended(f)'
  <2>. DEFINE t == request[r].token
  <2>1. token[t] \in TokenType /\ token \in [Tokens -> TokenType]
    BY <1>4 DEF Inv, TypeOK, Presented, LogoutCommit, At
  <2>2. Replaced(token[t], NoToken).status = "revoked"
    BY <2>1 DEF TokenType, Replaced
  <2>3. \A x \in Tokens : token'[x] = token[x] \/ token'[x].status = "revoked"
    BY <1>4, <2>1, <2>2 DEF LogoutCommit
  <2>. QED  BY <2>3 DEF Ended, Fresh, IsLive
<1>5. CASE token' = token
  BY <1>5 DEF Ended, Fresh, IsLive
<1>. QED
  BY <1>1, <1>2, <1>3, <1>4, <1>5
     DEF Next, vars, RotateBegin, RotateReuse, RotateExpired, RotateLock, RevokeBegin,
         LogoutAll, LogoutBegin, Abort, Expire

\* A session that was ended (authService.ts 364, 409, 426) never has a token
\* again, whatever rotation was in progress.
THEOREM EndedSessionsStayEnded == Spec => EndedStaysEnded
<1>1. Inv /\ [Next]_vars => [\A f \in Tokens : Ended(f) => Ended(f)']_vars
  BY EndedStep
<1>. QED  BY <1>1, InvKept, PTL DEF Spec, EndedStaysEnded
=============================================================================
