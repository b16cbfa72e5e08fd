--------------------------- MODULE RefreshTokens ---------------------------
(***************************************************************************)
(* Sessions on the server: hichat-server/src/services/authService.ts over  *)
(* the table refresh_tokens, for any number of concurrent requests.        *)
(*                                                                         *)
(* Postgres runs at READ COMMITTED.  A rotation is a transaction that      *)
(* locks the row it was given and writes two rows that nobody sees before  *)
(* it commits; revokeAllForUser is one UPDATE, which takes its rows from   *)
(* the snapshot at its start, waits for those that are locked and looks at *)
(* them again; the two statements of a logout share no transaction.        *)
(***************************************************************************)
CONSTANTS
    Users,     \* accounts
    Tokens,    \* refresh tokens there may ever be; bounds logins and rotations
    Requests,  \* slots for requests in progress
    NoToken,   \* NULL of parent_token_id and replaced_by
    NoUser     \* the account of a row that is not there

ASSUME TokensAssumption == NoToken \notin Tokens /\ NoUser \notin Users

VARIABLES
    token,       \* table refresh_tokens
    expired,     \* tokens past their expires_at
    request,     \* requests in progress
    terminated   \* history: families a reuse error reported as terminated

vars == <<token, expired, request, terminated>>

Status == {"absent", "live", "revoked"}

TokenType == [status : Status, user : Users \cup {NoUser},
              family : Tokens \cup {NoToken}, parent : Tokens \cup {NoToken},
              replacedBy : Tokens \cup {NoToken}]

NoRow == [status |-> "absent", user |-> NoUser, family |-> NoToken,
          parent |-> NoToken, replacedBy |-> NoToken]

\* mutant: two parameters of the INSERT are exchanged
MisplacedRow(u, family, parent) ==
    [status |-> "live", user |-> u, family |-> parent, parent |-> family,
     replacedBy |-> NoToken]

\* INSERT ... is_revoked = 0
NewRow(u, family, parent) ==
    [status |-> "live", user |-> u, family |-> family, parent |-> parent,
     replacedBy |-> NoToken]

\* mutant: the old token of a rotation is linked but not revoked
OnlyLinked(row, by) == [row EXCEPT !.replacedBy = by]

\* UPDATE ... SET is_revoked = 1, with or without replaced_by
Replaced(row, by) == [row EXCEPT !.status = "revoked", !.replacedBy = by]

Revoked(row) == [row EXCEPT !.status = "revoked"]

-----------------------------------------------------------------------------
(* A request and the await it is suspended at: "lock" waits for the row of *)
(* its token, "commit" holds it, "theft" has found it revoked, "revoke"    *)
(* runs the UPDATE over rows, "logout" has found the row to revoke.        *)

Labels == {"idle", "lock", "commit", "theft", "revoke", "logout"}

RequestType == [at : Labels, token : Tokens \cup {NoToken},
                rows : SUBSET Tokens, ends : SUBSET Tokens]

Idle == [at |-> "idle", token |-> NoToken, rows |-> {}, ends |-> {}]

At(r, label) == request[r].at = label

Become(r, q) == request' = [request EXCEPT ![r] = q]

IsLive(t) == token[t].status = "live"

LiveOf(u) == {t \in Tokens : IsLive(t) /\ token[t].user = u}

\* mutant: SELECT without FOR UPDATE
NeverLocked(t) == FALSE

Locked(t) == \E r \in Requests : At(r, "commit") /\ request[r].token = t

\* ids are random: no row has the one that is drawn
Fresh(n) == token[n].status = "absent"

Init == /\ token = [t \in Tokens |-> NoRow]
        /\ expired = {}
        /\ request = [r \in Requests |-> Idle]
        /\ terminated = {}

-----------------------------------------------------------------------------
\* login and register: createRefreshSession, one INSERT that starts a family.
Login(u, n) ==
    /\ Fresh(n)
    /\ token' = [token EXCEPT ![n] = NewRow(u, n, NoToken)]
    /\ UNCHANGED <<expired, request, terminated>>

(* rotateRefreshToken                                                      *)

\* Whoever was given a token may present it, at any time and again.
RotateBegin(r, t) ==
    /\ At(r, "idle")
    /\ token[t].status # "absent"
    /\ Become(r, [Idle EXCEPT !.at = "lock", !.token = t])
    /\ UNCHANGED <<token, expired, terminated>>

\* The row is revoked: the transaction ends, and the sessions of the account
\* are still to be revoked.
RotateReuse(r) ==
    LET t == request[r].token IN
    /\ At(r, "lock")
    /\ ~Locked(t)
    /\ token[t].status = "revoked"
    /\ Become(r, [request[r] EXCEPT !.at = "theft",
                     !.ends = {token[x].family : x \in LiveOf(token[t].user)}])
    /\ UNCHANGED <<token, expired, terminated>>

\* The UPDATE that revokes an expired token is rolled back by the throw.
RotateExpired(r) ==
    LET t == request[r].token IN
    /\ At(r, "lock")
    /\ ~Locked(t)
    /\ IsLive(t) /\ t \in expired
    /\ Become(r, Idle)
    /\ UNCHANGED <<token, expired, terminated>>

RotateLock(r) ==
    LET t == request[r].token IN
    /\ At(r, "lock")
    /\ ~Locked(t)
    /\ IsLive(t) /\ t \notin expired
    /\ Become(r, [request[r] EXCEPT !.at = "commit"])
    /\ UNCHANGED <<token, expired, terminated>>

RotateCommit(r, n) ==
    LET t == request[r].token IN
    /\ At(r, "commit")
    /\ Fresh(n)
    /\ token' = [token EXCEPT ![t] = Replaced(@, n),
                              ![n] = NewRow(token[t].user, token[t].family, t)]
    /\ Become(r, Idle)
    /\ UNCHANGED <<expired, terminated>>

(* revokeAllForUser, for a reuse and for logout-all                        *)

RevokeBegin(r) ==
    /\ At(r, "theft")
    /\ Become(r, [request[r] EXCEPT !.at = "revoke",
                     !.rows = LiveOf(token[request[r].token].user)])
    /\ UNCHANGED <<token, expired, terminated>>

LogoutAll(r, u) ==
    /\ At(r, "idle")
    /\ Become(r, [Idle EXCEPT !.at = "revoke", !.rows = LiveOf(u)])
    /\ UNCHANGED <<token, expired, terminated>>

\* Rows that a rotation revoked meanwhile no longer match and stay as they are.
RevokeCommit(r) ==
    /\ At(r, "revoke")
    /\ \A t \in request[r].rows : ~Locked(t)
    /\ token' = [t \in Tokens |-> IF t \in request[r].rows /\ IsLive(t)
                                  THEN Revoked(token[t]) ELSE token[t]]
    /\ terminated' = terminated \cup request[r].ends
    /\ Become(r, Idle)
    /\ UNCHANGED expired

(* logout: findByTokenHash, then revokeToken, which clears replaced_by     *)

LogoutBegin(r, t) ==
    /\ At(r, "idle")
    /\ token[t].status # "absent"
    /\ Become(r, [Idle EXCEPT !.at = "logout", !.token = t])
    /\ UNCHANGED <<token, expired, terminated>>

LogoutCommit(r) ==
    LET t == request[r].token IN
    /\ At(r, "logout")
    /\ ~Locked(t)
    /\ token' = [token EXCEPT ![t] = Replaced(@, NoToken)]
    /\ Become(r, Idle)
    /\ UNCHANGED <<expired, terminated>>

\* A query rejects or the process dies: an open transaction is rolled back.
Abort(r) ==
    /\ ~At(r, "idle")
    /\ Become(r, Idle)
    /\ UNCHANGED <<token, expired, terminated>>

Expire(t) ==
    /\ token[t].status # "absent"
    /\ t \notin expired
    /\ expired' = expired \cup {t}
    /\ UNCHANGED <<token, request, terminated>>

Next ==
    \/ \E u \in Users, n \in Tokens : Login(u, n)
    \/ \E r \in Requests, t \in Tokens : RotateBegin(r, t)
    \/ \E r \in Requests, n \in Tokens : RotateCommit(r, n)
    \/ \E r \in Requests, u \in Users : LogoutAll(r, u)
    \/ \E r \in Requests, t \in Tokens : LogoutBegin(r, t)
    \/ \E r \in Requests :
          \/ RotateReuse(r) \/ RotateExpired(r) \/ RotateLock(r)
          \/ RevokeBegin(r) \/ RevokeCommit(r) \/ LogoutCommit(r) \/ Abort(r)
    \/ \E t \in Tokens : Expire(t)

Spec == Init /\ [][Next]_vars

-----------------------------------------------------------------------------
(* Every row and every request in progress has its shape, and a family has *)
(* the name of the token that started it.                                  *)
TypeOK == /\ token \in [Tokens -> TokenType]
          /\ expired \subseteq Tokens
          /\ request \in [Requests -> RequestType]
          /\ terminated \subseteq Tokens

\* A session has one token at a time that it can be continued with, whatever
\* rotations (rotateRefreshToken), retries and logouts are in progress.
OneLivePerFamily ==
    \A s, t \in Tokens :
        IsLive(s) /\ IsLive(t) /\ token[s].family = token[t].family => s = t

\* rotateRefreshToken exchanges a token for one successor at most, and the token
\* is dead from then on.
SingleUse ==
    \A s, t \in Tokens :
        /\ token[s].parent # NoToken => ~IsLive(token[s].parent)
        /\ token[s].parent # NoToken /\ token[s].parent = token[t].parent => s = t

\* The family was started and has no token to be continued with.
Ended(f) ==
    ~Fresh(f) /\ \A t \in Tokens : IsLive(t) => token[t].family # f

\* A session that was ended, by logout, logoutAll or a reuse, never comes back:
\* no rotation in progress can give it a new token.
EndedStaysEnded == [][\A f \in Tokens : Ended(f) => Ended(f)']_vars

-----------------------------------------------------------------------------
(* What the documents say and the code does not do.                        *)

\* "All active sessions have been terminated": no session that was active
\* when the reuse was detected is alive once the error is reported.
ReuseEndsSessions == \A t \in Tokens : token[t].family \in terminated => ~IsLive(t)
=============================================================================
