------------------------------ MODULE AuthState ------------------------------
(***************************************************************************)
(* Login sessions (service/auth_state_manager.go, service/auth.go,         *)
(* middleware/auth.go).                                                    *)
(*                                                                         *)
(* The secret of a user's session is kept in two stores: in a column of    *)
(* the user's row in Postgres and in a record in Redis that expires.       *)
(* Login, logout and every request with a token use one or both of them,   *)
(* in an order that the migration mode decides.  No transaction spans the  *)
(* stores, each call may fail, requests of one user overlap, and the       *)
(* server is restarted to change the mode.                                 *)
(***************************************************************************)
EXTENDS Naturals, FiniteSets

CONSTANTS
    AuthUser,      \* user names
    AuthProcess,   \* requests that are served at the same time
    Secret,        \* the keys that may be generated (bound)
    NoSecret,      \* the empty login token, or no record
    NoRow,         \* no row of that name
    AuthFault      \* what may go wrong, see AuthFaultKind

AuthFaultKind == {"redis", "postgres", "expiry", "restart"}

ASSUME AuthAssumption ==
    /\ NoSecret \notin Secret
    /\ NoRow \notin Secret \cup {NoSecret}
    /\ AuthFault \subseteq AuthFaultKind

\* "postgres-only" is dual-write with [redis].enable = false.
AuthMode == {"postgres-only", "dual-write", "redis-primary", "postgres-off"}

\* The rollout README.md recommends, with its way back.
NextModes(m) ==
    CASE m = "postgres-only" -> {"postgres-only", "dual-write"}
      [] m = "dual-write" -> {"dual-write", "redis-primary"}
      [] m = "redis-primary" -> {"redis-primary", "postgres-off", "dual-write"}
      [] m = "postgres-off" -> {"postgres-off", "dual-write"}

RedisStep == {"setRedis", "delRedis", "backfill"}
PostgresStep == {"presave", "savePg", "clearPg"}
CheckStep == {"checkPg", "checkRedis", "backfillCheck", "readUser"}
AuthLabel == {"idle", "done"} \cup RedisStep \cup PostgresStep \cup CheckStep

AnySecret == Secret \cup {NoSecret}

VARIABLES
    mode,    \* migration mode and whether Redis is enabled
    token,   \* column users.login_token
    record,  \* Redis, <prefix>:session:<username>
    at,      \* next step of each request
    req,     \* local variables of each request
    used,    \* keys generated so far
    issued,  \* secrets in tokens that a client has been given
    open,    \* secret of a session that must be valid now (history)
    ended    \* secrets of sessions that must not be valid any more (history)

authVars == <<mode, token, record, at, req, used, issued, open, ended>>

\* alone: no other request of the user has been served meanwhile.
AuthContext == [kind : {"login", "use", "logout"}, user : AuthUser,
            secret : AnySecret, copy : AnySecret, alone : BOOLEAN]

Unserved == [kind |-> "none", user |-> NoRow, secret |-> NoSecret,
             copy |-> NoSecret, alone |-> FALSE]

AuthTypeOK ==
    /\ mode \in AuthMode
    /\ token \in [AuthUser -> AnySecret \cup {NoRow}]
    /\ record \in [AuthUser -> AnySecret]
    /\ at \in [AuthProcess -> AuthLabel]
    /\ req \in [AuthProcess -> AuthContext \cup {Unserved}]
    /\ used \subseteq Secret
    /\ issued \in [AuthUser -> SUBSET Secret]
    /\ open \in [AuthUser -> AnySecret]
    /\ ended \in [AuthUser -> SUBSET Secret]

AuthInit ==
    /\ mode = "postgres-only"
    /\ token \in [AuthUser -> {NoSecret, NoRow}]
    /\ record = [u \in AuthUser |-> NoSecret]
    /\ at = [p \in AuthProcess |-> "idle"]
    /\ req = [p \in AuthProcess |-> Unserved]
    /\ used = {}
    /\ issued = [u \in AuthUser |-> {}]
    /\ open = [u \in AuthUser |-> NoSecret]
    /\ ended = [u \in AuthUser |-> {}]

-----------------------------------------------------------------------------
(* Requests                                                                *)

Serving(p, u) == at[p] # "idle" /\ req[p].user = u

\* A request arrives: those of the same user are not alone any more.
Arrive(p, label, kind, u, secret, copy) ==
    /\ at[p] = "idle"
    /\ at' = [at EXCEPT ![p] = label]
    /\ req' = [q \in AuthProcess |->
                 IF q = p
                 THEN [kind |-> kind, user |-> u, secret |-> secret,
                       copy |-> copy,
                       alone |-> \A r \in AuthProcess \ {p} : ~Serving(r, u)]
                 ELSE IF Serving(q, u) THEN [req[q] EXCEPT !.alone = FALSE]
                                       ELSE req[q]]

GoOn(p, label) ==
    /\ at' = [at EXCEPT ![p] = label]
    /\ req' = IF label = "idle" THEN [req EXCEPT ![p] = Unserved] ELSE req

\* Keys are random and never repeat: which one comes next makes no difference.
Generated(k) ==
    /\ k \in Secret \ used
    /\ k = CHOOSE x \in Secret \ used : TRUE

CreateUser(u) ==
    /\ token[u] = NoRow
    /\ token' = [token EXCEPT ![u] = NoSecret]
    /\ UNCHANGED <<mode, record, at, req, used, issued, open, ended>>

\* The store that Issue writes first.
IssueStart ==
    IF mode \in {"redis-primary", "postgres-off"} THEN "setRedis" ELSE "savePg"

\* The store that Revoke clears first.
RevokeStart == IF mode = "postgres-only" THEN "clearPg" ELSE "delRedis"

\* A login takes over the secret in the row, or a new one.  Under
\* postgres-off that may be the secret of a session that has been closed, and
\* a new one displaces the session that is open.
LoginWith(u, s) ==
    /\ used' = used \cup {s}
    /\ open' = IF open[u] = s THEN open ELSE [open EXCEPT ![u] = NoSecret]
    /\ ended' = IF mode = "postgres-off" THEN [ended EXCEPT ![u] = @ \ {s}]
                                         ELSE ended
    /\ UNCHANGED <<mode, record, issued>>

SecretOf(row, s) == IF row = NoSecret THEN Generated(s) ELSE s = row

\* Mistake: a login does not check that a row was found.
LoginUnchecked(p, u) ==
    /\ \E s \in Secret \cup {NoRow} :
          /\ SecretOf(token[u], s)
          /\ Arrive(p, IssueStart, "login", u, s, token[u])
          /\ LoginWith(u, s)
    /\ UNCHANGED token

\* normalLogin: the row is found, the password is right.
Login(p, u) ==
    /\ token[u] # NoRow
    /\ \E s \in Secret :
          /\ SecretOf(token[u], s)
          /\ Arrive(p, IssueStart, "login", u, s, token[u])
          /\ LoginWith(u, s)
    /\ UNCHANGED token

\* upsertUserAndGenerateToken, for a row that is there and for a new one.
Upsert(p, u) ==
    \E s \in Secret :
       /\ \/ /\ token[u] # NoRow
             /\ SecretOf(token[u], s)
             /\ Arrive(p, "presave", "login", u, s, token[u])
             /\ UNCHANGED token
          \/ /\ token[u] = NoRow
             /\ Generated(s)
             /\ Arrive(p, "presave", "login", u, s, s)
             /\ token' = [token EXCEPT ![u] = s]
       /\ LoginWith(u, s)

\* A request with a token, for logging out or for anything else.
UseToken(p, u) ==
    /\ \E s \in issued[u], kind \in {"use", "logout"} :
          Arrive(p,
                 IF mode \in {"postgres-only", "dual-write"} THEN "checkPg"
                                                             ELSE "checkRedis",
                 kind, u, s, NoSecret)
    /\ UNCHANGED <<mode, token, record, used, issued, open, ended>>

-----------------------------------------------------------------------------
(* Validate                                                                *)

Unstored == UNCHANGED <<mode, token, record, used, issued, open, ended>>

CheckPostgres(p) ==
    LET c == req[p] IN
    /\ at[p] = "checkPg"
    /\ GoOn(p, IF token[c.user] # c.secret THEN "idle"
               ELSE CASE mode = "dual-write" -> "backfillCheck"
                      [] mode = "redis-primary" -> "backfill"
                      [] OTHER -> "readUser")
    /\ Unstored

CheckRedis(p) ==
    LET c == req[p] IN
    /\ at[p] = "checkRedis"
    /\ GoOn(p, IF record[c.user] = c.secret THEN "readUser"
               ELSE IF record[c.user] = NoSecret /\ mode = "redis-primary" THEN "checkPg"
               ELSE "idle")
    /\ Unstored

\* dual-write: a record is written if there is none.
CheckBackfill(p) ==
    LET c == req[p] IN
    /\ at[p] = "backfillCheck"
    /\ GoOn(p, IF record[c.user] = NoSecret THEN "backfill" ELSE "readUser")
    /\ Unstored

\* ValidateToken reads the row; a logout goes on to revoke.
ReadUser(p) ==
    LET c == req[p] IN
    /\ at[p] = "readUser"
    /\ GoOn(p, IF c.kind = "logout" THEN RevokeStart ELSE "idle")
    /\ open' = IF c.kind = "logout" THEN [open EXCEPT ![c.user] = NoSecret] ELSE open
    /\ UNCHANGED <<mode, token, record, used, issued, ended>>

\* A lookup fails: only Redis has a substitute.
LookupFails(p) ==
    /\ \/ /\ "redis" \in AuthFault
          /\ \/ at[p] = "checkRedis" /\ mode = "redis-primary" /\ GoOn(p, "checkPg")
             \/ at[p] = "checkRedis" /\ mode # "redis-primary" /\ GoOn(p, "idle")
             \/ at[p] = "backfillCheck" /\ GoOn(p, "readUser")
       \/ /\ "postgres" \in AuthFault
          /\ at[p] \in {"checkPg", "readUser"}
          /\ GoOn(p, "idle")
    /\ Unstored

-----------------------------------------------------------------------------
(* Issue and Revoke                                                        *)

\* Mistake: a login under redis-primary does not write the row.
FollowingRedisOnly(step) ==
    CASE step = "presave" -> IssueStart
      [] step = "savePg" /\ mode = "dual-write" -> "setRedis"
      [] step = "setRedis" /\ mode = "postgres-off" -> "clearPg"
      [] step = "delRedis" /\ mode # "postgres-off" -> "clearPg"
      [] step = "backfill" -> "readUser"
      [] OTHER -> "done"

\* Mistake: a logout is over when the record is deleted.
FollowingKeepsRow(step) ==
    CASE step = "presave" -> IssueStart
      [] step = "savePg" /\ mode = "dual-write" -> "setRedis"
      [] step = "setRedis" /\ mode = "redis-primary" -> "savePg"
      [] step = "setRedis" /\ mode = "postgres-off" -> "clearPg"
      [] step = "backfill" -> "readUser"
      [] OTHER -> "done"

\* What comes after a store has been written.
Following(step) ==
    CASE step = "presave" -> IssueStart
      [] step = "savePg" /\ mode = "dual-write" -> "setRedis"
      [] step = "setRedis" /\ mode = "redis-primary" -> "savePg"
      [] step = "setRedis" /\ mode = "postgres-off" -> "clearPg"
      [] step = "delRedis" /\ mode # "postgres-off" -> "clearPg"
      [] step = "backfill" -> "readUser"
      [] OTHER -> "done"

\* Saves the whole row from a copy; of its columns only the token matters.
WritePostgres(p) ==
    LET c == req[p] IN
    /\ at[p] \in PostgresStep
    /\ token' = [token EXCEPT ![c.user] =
                   CASE at[p] = "presave" -> c.copy
                     [] at[p] = "savePg" -> c.secret
                     [] at[p] = "clearPg" -> NoSecret]
    /\ GoOn(p, Following(at[p]))
    /\ UNCHANGED <<mode, record, used, issued, open, ended>>

SetRecord(p) ==
    record' = [record EXCEPT ![req[p].user] =
                 IF at[p] = "delRedis" THEN NoSecret ELSE req[p].secret]

WriteRedis(p) ==
    /\ at[p] \in RedisStep
    /\ SetRecord(p)
    /\ GoOn(p, Following(at[p]))
    /\ UNCHANGED <<mode, token, used, issued, open, ended>>

PostgresFails(p) ==
    /\ "postgres" \in AuthFault
    /\ at[p] \in PostgresStep
    /\ GoOn(p, "idle")
    /\ Unstored

\* Redis has not obeyed, or its answer is lost.  Only a backfill goes on.
RedisFails(p) ==
    /\ "redis" \in AuthFault
    /\ at[p] \in RedisStep
    /\ SetRecord(p) \/ UNCHANGED record
    /\ GoOn(p, IF at[p] = "backfill" THEN "readUser" ELSE "idle")
    /\ UNCHANGED <<mode, token, used, issued, open, ended>>

\* A login or a logout is reported as successful.
AnswerRequest(p) ==
    LET c == req[p] IN
    /\ at[p] = "done"
    /\ GoOn(p, "idle")
    /\ \/ /\ c.kind = "login"
          /\ issued' = [issued EXCEPT ![c.user] = @ \cup {c.secret}]
          /\ open' = IF c.alone THEN [open EXCEPT ![c.user] = c.secret] ELSE open
          /\ UNCHANGED ended
       \/ /\ c.kind = "logout"
          /\ ended' = IF c.alone THEN [ended EXCEPT ![c.user] = issued[c.user]]
                                 ELSE ended
          /\ UNCHANGED <<issued, open>>
    /\ UNCHANGED <<mode, token, record, used>>

-----------------------------------------------------------------------------
(* Surroundings                                                            *)

\* What Validate answers when nothing fails and nothing else goes on.
AcceptedIn(m, u, s) ==
    CASE m = "postgres-off" -> record[u] = s
      [] m = "redis-primary" /\ record[u] # NoSecret -> record[u] = s
      [] OTHER -> token[u] = s

Accepted(u, s) == AcceptedIn(mode, u, s)

\* The record's time to live has passed: under postgres-off the session is
\* over.  A record outlives the login that writes it.
RecordExpires(u) ==
    /\ "expiry" \in AuthFault
    /\ record[u] # NoSecret
    /\ \A p \in AuthProcess : Serving(p, u) => req[p].kind # "login"
    /\ record' = [record EXCEPT ![u] = NoSecret]
    /\ open' = IF mode = "postgres-off" THEN [open EXCEPT ![u] = NoSecret] ELSE open
    /\ UNCHANGED <<mode, token, at, req, used, issued, ended>>

\* The server is stopped and started, perhaps in another mode; requests end
\* where they are.  Sessions the new mode's store does not hold are over, and
\* a token that postgres-off left in its row counts again on the way back.
RestartServer ==
    /\ "restart" \in AuthFault
    /\ mode' \in NextModes(mode)
    /\ at' = [p \in AuthProcess |-> "idle"]
    /\ open' = [u \in AuthUser |->
                  IF AcceptedIn(mode', u, open[u]) THEN open[u] ELSE NoSecret]
    /\ ended' = [u \in AuthUser |->
                   IF mode = "postgres-off" /\ mode' # "postgres-off"
                   THEN ended[u] \ {token[u]} ELSE ended[u]]
    /\ req' = [p \in AuthProcess |-> Unserved]
    /\ UNCHANGED <<token, record, used, issued>>

AuthNext ==
    \/ \E u \in AuthUser : CreateUser(u) \/ RecordExpires(u)
    \/ \E p \in AuthProcess, u \in AuthUser :
          Login(p, u) \/ Upsert(p, u) \/ UseToken(p, u)
    \/ \E p \in AuthProcess :
          \/ CheckPostgres(p) \/ CheckRedis(p) \/ CheckBackfill(p) \/ ReadUser(p)
          \/ LookupFails(p)
          \/ WritePostgres(p) \/ WriteRedis(p) \/ PostgresFails(p) \/ RedisFails(p)
          \/ AnswerRequest(p)
    \/ RestartServer

AuthSpec == AuthInit /\ [][AuthNext]_authVars

-----------------------------------------------------------------------------
(* Properties                                                              *)

\* A session whose login was reported as successful, with no other request of
\* the user meanwhile, is valid until it is logged out, it expires, a new mode
\* does not look where it is kept or, under postgres-off, another login takes
\* its place (LoginWith): failures of a store, requests that repair the record
\* and logins in the other modes do not end it.
LoggedInStaysValid ==
    \A u \in AuthUser : open[u] # NoSecret => Accepted(u, open[u])

\* After a logout that was reported as successful, with no other request of
\* the user meanwhile, none of the user's tokens is accepted again in any
\* store or mode, whatever fails later.  (Two exceptions, both of
\* postgres-off, where a logout leaves the row's token: a later login takes it
\* over, and the way back to dual-write accepts it.)
LoggedOutStaysOut ==
    \A u \in AuthUser : \A s \in ended[u] : ~Accepted(u, s)

==============================================================================
