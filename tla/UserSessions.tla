---------------------------- MODULE UserSessions ----------------------------
(***************************************************************************)
(* Authentication of one wallet: login, refresh and logout, the user row   *)
(* and its sessions.  A refresh token is named by the login that made it.  *)
(*                                                                         *)
(* The module declares the requests in progress, which FanErasure and      *)
(* Accounts share: a request serves one operation and is never used again, *)
(* so that the number of requests bounds what can happen.  Time is kept as *)
(* the age of things, in ticks, up to the age at which nothing more        *)
(* depends on it.                                                          *)
(***************************************************************************)
EXTENDS Naturals, FiniteSets

CONSTANTS
    Requests,    \* positive numbers
    SessionTtl,  \* REFRESH_TOKEN_TTL_MS, in ticks
    AccessTtl,   \* expiresIn of the access tokens, in ticks
    MaxLatency   \* bound: ticks that a request may take

VARIABLES
    user,      \* id of the wallet's user row, or None
    users,     \* ids given out so far
    sessions,  \* per refresh token: the row's user, or None, and its age
    access,    \* access tokens given out and not expired: refresh token, age; history: ticks since its session ended
    req        \* the requests

None == 0
FirstToken == 0   \* of a login before the run began
Tokens == Requests \union {FirstToken}
NoSession == [user |-> None, age |-> 0]

\* What a request holds: its operation, its place, and what it has read.
Unused == [op |-> "none", at |-> "new", user |-> None, fan |-> None, token |-> FirstToken,
           waited |-> 0, gone |-> 0, gap |-> 0]

Begin(r, call) == req[r] = Unused /\ req' = [req EXCEPT ![r] = call]
Goto(r, place) == req' = [req EXCEPT ![r].at = place]
\* An answered request remembers only what the properties speak of: what was
\* deleted, and how close exports came.
Ended(op, fields) ==
    IF op = "erase" THEN [Unused EXCEPT !.op = op, !.at = "ok", !.user = fields.user, !.fan = fields.fan]
    ELSE IF op = "export" THEN [Unused EXCEPT !.op = op, !.at = "ok", !.gap = fields.gap]
    ELSE [Unused EXCEPT !.at = "ok"]
Succeed(r) == req' = [req EXCEPT ![r] = Ended(req[r].op, req[r])]
Throw(r) == req' = [req EXCEPT ![r] = [Unused EXCEPT !.at = "refused"]]
BeginEnd(r, how) == req[r] = Unused /\ req' = [req EXCEPT ![r].at = how]
Refuse(r) == BeginEnd(r, "refused")
InProgress(r) == req[r].at \notin {"new", "ok", "refused"}

Live(token) == sessions[token].user # None /\ sessions[token].age <= SessionTtl

SessionsInit ==
    /\ user = 1 /\ users = 1
    /\ sessions = [t \in Tokens |-> IF t = FirstToken THEN [user |-> 1, age |-> 0] ELSE NoSession]
    /\ access = {}
    /\ req = [r \in Requests |-> Unused]

-----------------------------------------------------------------------------
\* JwtAuthGuard looks at the signature and the expiry only, not at the user.
Accepted(k) == k.age < AccessTtl

\* The user row is found or made, by an upsert ...
UpsertUser ==
    IF user = None THEN user' = users + 1 /\ users' = users + 1 ELSE UNCHANGED <<user, users>>

\* ... by a login, which signs the access token at once ...
LoginUser(r) ==
    /\ UpsertUser
    /\ Begin(r, [Unused EXCEPT !.op = "login", !.at = "user", !.user = user'])
    /\ UNCHANGED <<sessions, access>>

\* Mutant: no foreign key asks for the user.
LoginSessionAnyway(r) ==
    /\ req[r].op = "login" /\ req[r].at = "user"
    /\ sessions' = [sessions EXCEPT ![r] = [user |-> req[r].user, age |-> 0]]
    /\ Succeed(r)
    /\ UNCHANGED <<user, users, access>>

\* ... and stores the session: the foreign key refuses it without its user.
LoginSession(r) ==
    /\ req[r].op = "login" /\ req[r].at = "user"
    /\ IF req[r].user = user
       THEN /\ sessions' = [sessions EXCEPT ![r] = [user |-> user, age |-> 0]]
            /\ access' = {k \in access \union {[token |-> r, age |-> req[r].waited, gone |-> 0]} : Accepted(k)}
            /\ Succeed(r)
       ELSE Throw(r) /\ UNCHANGED <<sessions, access>>
    /\ UNCHANGED <<user, users>>

\* History: ticks since a session ended.
Gone(token, ticks) == IF Live(token) THEN 0 ELSE ticks + 1

Found(token) ==
    [Unused EXCEPT !.op = "refresh", !.at = "found", !.token = token, !.user = sessions[token].user, !.gone = Gone(token, 0)]

\* Mutant: the expiry of the session is not looked at.
RefreshReadAnyAge(r, token) ==
    /\ IF sessions[token].user # None THEN Begin(r, Found(token)) ELSE Refuse(r)
    /\ UNCHANGED <<user, users, sessions, access>>

RefreshRead(r, token) ==
    /\ \/ Live(token) /\ Begin(r, Found(token))
       \/ sessions[token].user = None /\ Refuse(r)
       \/ /\ sessions[token].user # None /\ ~Live(token)
          /\ Begin(r, [Unused EXCEPT !.op = "refresh", !.at = "expired", !.token = token])
    /\ UNCHANGED <<user, users, sessions, access>>

\* An expired session is deleted; if another request was first this throws.
RefreshExpired(r) ==
    /\ req[r].op = "refresh" /\ req[r].at = "expired"
    /\ sessions' = [sessions EXCEPT ![req[r].token] = NoSession]
    /\ Throw(r)
    /\ UNCHANGED <<user, users, access>>

RefreshUser(r) ==
    /\ req[r].op = "refresh" /\ req[r].at = "found"
    /\ IF req[r].user = user
       THEN /\ access' = access \union {[token |-> req[r].token, age |-> 0, gone |-> req[r].gone]}
            /\ Succeed(r)
       ELSE Throw(r) /\ UNCHANGED access
    /\ UNCHANGED <<user, users, sessions>>

Logout(r, token) ==
    /\ BeginEnd(r, "ok")
    /\ sessions' = [sessions EXCEPT ![token] = NoSession]
    /\ UNCHANGED <<user, users, access>>

\* Sessions are deleted with their user (onDelete: Cascade).
WithoutUser(u) == [t \in Tokens |-> IF sessions[t].user = u THEN NoSession ELSE sessions[t]]

-----------------------------------------------------------------------------
Older(age, limit) == IF age < limit THEN age + 1 ELSE age

SessionsTick ==
    /\ \A r \in Requests : InProgress(r) => req[r].waited < MaxLatency
    /\ req' = [r \in Requests |->
                 IF InProgress(r)
                 THEN [req[r] EXCEPT !.waited = @ + 1,
                                     !.gone = IF req[r].op = "refresh" THEN Gone(req[r].token, @) ELSE @]
                 ELSE req[r]]
    /\ sessions' = [t \in Tokens |-> IF sessions[t].user = None THEN NoSession
                                     ELSE [sessions[t] EXCEPT !.age = Older(@, SessionTtl + 1)]]
    /\ access' = {k \in {[k EXCEPT !.age = @ + 1, !.gone = Gone(k.token, @)] : k \in access} : Accepted(k)}
    /\ UNCHANGED <<user, users>>

SessionSteps(r) == LoginSession(r) \/ RefreshExpired(r) \/ RefreshUser(r)
SessionRequests(r) == LoginUser(r) \/ \E t \in Tokens : RefreshRead(r, t) \/ Logout(r, t)
=============================================================================
