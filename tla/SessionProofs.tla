---------------------------- MODULE SessionProofs ----------------------------
(*****************************************************************************)
(* Sessions, API keys and travel plans, for any number of users, secrets,    *)
(* keys, plans, items and overlapping requests: a session is valid after     *)
(* its login and until its logout, a revoked key stays revoked, and a        *)
(* deleted plan has no live item.                                            *)
(*****************************************************************************)
EXTENDS MCSessions, CalendarSyncProofs, TLAPS

-----------------------------------------------------------------------------
(* Sessions                                                                *)

\* Where a request of each kind can be, and in which modes: they do not change
\* while it is served.
LabelFits(p) ==
    LET c == req[p] IN
    /\ at[p] \in CheckStep \cup {"backfill"} => c.kind \in {"use", "logout"}
    /\ at[p] \in {"presave", "savePg", "setRedis"} => c.kind = "login"
    /\ at[p] = "delRedis" => c.kind = "logout"
    /\ at[p] \in {"clearPg", "done"} => c.kind \in {"login", "logout"}
    /\ at[p] = "backfillCheck" => mode = "dual-write"
    /\ at[p] = "backfill" => mode \in {"dual-write", "redis-primary"}
    /\ at[p] \in {"checkPg", "savePg"} => mode # "postgres-off"
    /\ at[p] \in {"setRedis", "delRedis"} => mode # "postgres-only"
    /\ at[p] = "clearPg" => (c.kind = "login" <=> mode = "postgres-off")

\* A login knows the secret of the open session, if there is one.
LoginFits(p) ==
    LET c == req[p] IN
    c.kind = "login" =>
        /\ c.secret \in used
        /\ c.secret \notin ended[c.user]
        /\ c.copy \in {c.secret, NoSecret}
        /\ open[c.user] # NoSecret => c.secret = open[c.user] /\ c.copy = c.secret

\* A request with a token has one that was given out; when it may write the
\* token to Redis it is that of the session that is open, if one is.
TokenFits(p) ==
    LET c == req[p] IN
    /\ c.kind # "login" => c.secret \in issued[c.user]
    /\ at[p] \in {"backfill", "backfillCheck"} =>
          /\ c.secret \notin ended[c.user]
          /\ open[c.user] # NoSecret => c.secret = open[c.user]
    /\ c.kind = "logout" /\ at[p] \in {"delRedis", "clearPg", "done"} =>
          open[c.user] = NoSecret

\* What the stores hold while a request that is alone goes on.
AloneFits(p) ==
    LET c == req[p]
        u == c.user
    IN  c.alone =>
          /\ \A q \in AuthProcess \ {p} : ~Serving(q, u)
          /\ c.kind = "login" =>
                /\ at[p] = "savePg" /\ mode = "redis-primary" => record[u] = c.secret
                /\ at[p] = "setRedis" /\ mode = "dual-write" => token[u] = c.secret
                /\ at[p] = "clearPg" => record[u] = c.secret
                /\ at[p] = "done" =>
                      /\ mode # "postgres-only" => record[u] = c.secret
                      /\ token[u] = IF mode = "postgres-off" THEN NoSecret ELSE c.secret
          /\ c.kind = "logout" =>
                /\ at[p] \in {"clearPg", "done"} => record[u] = NoSecret
                /\ at[p] = "done" /\ mode # "postgres-off" => token[u] = NoSecret

Fits(p) ==
    at[p] # "idle" =>
        /\ req[p] \in AuthContext
        /\ LabelFits(p) /\ LoginFits(p) /\ TokenFits(p) /\ AloneFits(p)

\* The stores hold the secret of the session that is open and no other, and
\* none of those that have ended, but for a row that postgres-off does not read.
StoresFit(u) ==
    /\ mode = "postgres-only" => record[u] = NoSecret
    /\ open[u] # NoSecret =>
          /\ token[u] \in {open[u], NoSecret}
          /\ record[u] \in {open[u], NoSecret}
          /\ IF mode = "postgres-off" THEN record[u] = open[u] ELSE token[u] = open[u]
    /\ \A s \in ended[u] : record[u] # s /\ (mode # "postgres-off" => token[u] # s)
    /\ ended[u] \subseteq issued[u]
    /\ issued[u] \subseteq used
    /\ open[u] \in used \cup {NoSecret}

AuthIInv ==
    /\ AuthTypeOK
    /\ \A p \in AuthProcess : Fits(p)
    /\ \A u \in AuthUser : StoresFit(u)

LEMMA AuthInitial == AuthInit => AuthIInv
<1> SUFFICES ASSUME AuthInit PROVE AuthIInv
  OBVIOUS
<1>1. AuthTypeOK
  BY DEF AuthInit, AuthTypeOK, AuthMode, AnySecret, AuthLabel
<1>2. \A p \in AuthProcess : Fits(p)
  BY DEF AuthInit, Fits
<1>3. \A u \in AuthUser : StoresFit(u)
  BY DEF AuthInit, StoresFit
<1> QED BY <1>1, <1>2, <1>3 DEF AuthIInv

-----------------------------------------------------------------------------
(* One step of a request                                                   *)

\* What request p does not touch: other requests, and users but its own.
OthersStay(p, u) ==
    /\ \A q \in AuthProcess \ {p} : at'[q] = at[q] /\ req'[q] = req[q]
    /\ \A v \in AuthUser \ {u} :
          /\ token'[v] = token[v] /\ record'[v] = record[v] /\ issued'[v] = issued[v]
          /\ open'[v] = open[v] /\ ended'[v] = ended[v]

LEMMA GoOnFacts ==
    ASSUME AuthTypeOK, NEW p \in AuthProcess, NEW label \in AuthLabel, GoOn(p, label)
    PROVE  /\ at' \in [AuthProcess -> AuthLabel]
           /\ req' \in [AuthProcess -> AuthContext \cup {Unserved}]
           /\ at'[p] = label
           /\ label # "idle" => req'[p] = req[p]
           /\ \A q \in AuthProcess \ {p} : at'[q] = at[q] /\ req'[q] = req[q]
BY DEF GoOn, AuthTypeOK

\* What is known of a request that is served.
LEMMA Served ==
    ASSUME AuthIInv, NEW p \in AuthProcess, at[p] # "idle"
    PROVE  /\ AuthTypeOK /\ req[p] \in AuthContext /\ req[p].user \in AuthUser
           /\ req[p].secret \in AnySecret /\ req[p].copy \in AnySecret
           /\ req[p].kind \in {"login", "use", "logout"}
           /\ LabelFits(p) /\ LoginFits(p) /\ TokenFits(p) /\ AloneFits(p)
           /\ StoresFit(req[p].user)
           /\ used \subseteq Secret /\ mode \in AuthMode
BY DEF AuthIInv, Fits, AuthContext, AuthTypeOK

\* A step of a request keeps the invariant if it does for the request and its
\* user, and opens or ends a session only if it is alone.
LEMMA StepOfRequest ==
    ASSUME AuthIInv, AuthTypeOK',
           NEW p \in AuthProcess, at[p] # "idle", NEW u \in AuthUser, req[p].user = u,
           mode' = mode, used' = used, OthersStay(p, u),
           \/ req[p].alone
           \/ ended'[u] \subseteq ended[u] /\ open'[u] \in {open[u], NoSecret},
           issued[u] \subseteq issued'[u],
           at'[p] = "idle" \/ req'[p].user = u,
           StoresFit(u)', Fits(p)'
    PROVE  AuthIInv'
<1>1. \A v \in AuthUser : StoresFit(v)'
  BY DEF AuthIInv, StoresFit, OthersStay
<1>2. ASSUME NEW q \in AuthProcess \ {p}, at'[q] # "idle" PROVE Fits(q)'
  <2> DEFINE v == req[q].user
  <2>1. at'[q] = at[q] /\ req'[q] = req[q] /\ Fits(q) /\ at[q] # "idle"
    BY <1>2 DEF AuthIInv, OthersStay
  <2>2. req[q] \in AuthContext /\ v \in AuthUser
        /\ LabelFits(q) /\ LoginFits(q) /\ TokenFits(q) /\ AloneFits(q)
    BY <2>1 DEF Fits, AuthContext
  <2>0. v = u => ~req[p].alone
    BY <2>1, Served DEF AloneFits, Serving
  <2>3. /\ ended'[v] \subseteq ended[v] /\ open'[v] \in {open[v], NoSecret}
        /\ issued[v] \subseteq issued'[v]
    BY <2>2, <2>0 DEF OthersStay
  <2>4. LabelFits(q)'
    BY <2>1, <2>2 DEF LabelFits
  <2>5. LoginFits(q)'
    BY <2>1, <2>2, <2>3 DEF LoginFits
  <2>6. TokenFits(q)'
    BY <2>1, <2>2, <2>3 DEF TokenFits
  <2>7. AloneFits(q)'
    <3>1. CASE v = u
      <4>1. ~req[q].alone
        BY <2>2, <3>1 DEF AloneFits, Serving
      <4> QED BY <4>1, <2>1 DEF AloneFits
    <3>2. CASE v # u
      <4>1. token'[v] = token[v] /\ record'[v] = record[v]
        BY <2>2, <3>2 DEF OthersStay
      <4>2. \A r \in AuthProcess \ {q} : ~Serving(r, v) => ~Serving(r, v)'
        BY <3>2 DEF OthersStay, Serving
      <4> QED BY <2>1, <2>2, <4>1, <4>2 DEF AloneFits
    <3> QED BY <3>1, <3>2
  <2> QED BY <2>1, <2>2, <2>4, <2>5, <2>6, <2>7 DEF Fits
<1>3. \A q \in AuthProcess : Fits(q)'
  BY <1>2 DEF Fits
<1> QED BY <1>1, <1>3 DEF AuthIInv

LEMMA LabelsTyped ==
    /\ AuthLabel = {"idle", "done", "setRedis", "delRedis", "backfill", "presave", "savePg",
                    "clearPg", "checkPg", "checkRedis", "backfillCheck", "readUser"}
    /\ CheckStep = {"checkPg", "checkRedis", "backfillCheck", "readUser"}
    /\ RedisStep = {"setRedis", "delRedis", "backfill"}
    /\ PostgresStep = {"presave", "savePg", "clearPg"}
    /\ AuthMode = {"postgres-only", "dual-write", "redis-primary", "postgres-off"}
BY DEF AuthLabel, CheckStep, RedisStep, PostgresStep, AuthMode

\* A step that writes nothing.
LEMMA StepUnstored ==
    ASSUME AuthIInv, NEW p \in AuthProcess, at[p] # "idle", NEW label \in AuthLabel,
           GoOn(p, label), Unstored,
           label = "idle" \/ (LabelFits(p) /\ LoginFits(p) /\ TokenFits(p) /\ AloneFits(p))'
    PROVE  AuthIInv'
<1>0. PICK u \in AuthUser : req[p].user = u
  BY Served
<1>1. AuthTypeOK /\ StoresFit(u) /\ req[p] \in AuthContext
  BY <1>0, Served
<1>2. /\ at' \in [AuthProcess -> AuthLabel]
      /\ req' \in [AuthProcess -> AuthContext \cup {Unserved}]
      /\ at'[p] = label /\ (label # "idle" => req'[p] = req[p])
      /\ \A q \in AuthProcess \ {p} : at'[q] = at[q] /\ req'[q] = req[q]
  BY <1>1, GoOnFacts
<1>3. AuthTypeOK' /\ OthersStay(p, u)
  BY <1>1, <1>2 DEF AuthTypeOK, OthersStay, Unstored
<1>4. StoresFit(u)'
  BY <1>1 DEF StoresFit, Unstored
<1>5. Fits(p)'
  BY <1>1, <1>2 DEF Fits
<1>6. mode' = mode /\ used' = used /\ ended'[u] \subseteq ended[u]
      /\ open'[u] \in {open[u], NoSecret} /\ issued[u] \subseteq issued'[u]
      /\ (at'[p] = "idle" \/ req'[p].user = u)
  BY <1>0, <1>2 DEF Unstored
<1> QED BY <1>0, <1>1, <1>3, <1>4, <1>5, <1>6, StepOfRequest

\* A token is checked, and the request goes on to another check or to a backfill.
LEMMA StepOfCheck ==
    ASSUME AuthIInv, NEW p \in AuthProcess, at[p] \in CheckStep \cup {"backfill"},
           NEW label \in CheckStep \cup {"backfill"}, GoOn(p, label), Unstored,
           label = "backfillCheck" => mode = "dual-write",
           label = "backfill" => mode \in {"dual-write", "redis-primary"},
           label = "checkPg" => mode # "postgres-off",
           label \in {"backfill", "backfillCheck"} =>
              token[req[p].user] = req[p].secret \/ at[p] = "backfillCheck"
    PROVE  AuthIInv'
<1>0. at[p] # "idle" /\ label \in AuthLabel /\ label # "idle"
  BY LabelsTyped
<1>1. PICK c \in AuthContext : req[p] = c
  BY <1>0, Served
<1>2. AuthTypeOK /\ LabelFits(p) /\ LoginFits(p) /\ TokenFits(p)
      /\ AloneFits(p) /\ StoresFit(c.user) /\ used \subseteq Secret
  BY <1>0, <1>1, Served
<1>3. at'[p] = label /\ req'[p] = c
      /\ \A q \in AuthProcess \ {p} : at'[q] = at[q] /\ req'[q] = req[q]
  BY <1>0, <1>1, <1>2, GoOnFacts
<1>4. c.kind \in {"use", "logout"}
  BY <1>1, <1>2 DEF LabelFits
<1>5. LabelFits(p)'
  BY <1>3, <1>4, LabelsTyped DEF LabelFits, Unstored
<1>6. LoginFits(p)'
  BY <1>3, <1>4 DEF LoginFits
<1>7. c.secret \in Secret
  BY <1>1, <1>2, <1>4 DEF TokenFits, StoresFit
<1>8. label \in {"backfill", "backfillCheck"} =>
         /\ c.secret \notin ended[c.user]
         /\ open[c.user] # NoSecret => c.secret = open[c.user]
  BY <1>1, <1>2, <1>7, AuthAssumption DEF TokenFits, StoresFit
<1>9. TokenFits(p)'
  BY <1>1, <1>2, <1>3, <1>4, <1>8, LabelsTyped DEF TokenFits, Unstored
<1>10. AloneFits(p)'
  BY <1>1, <1>2, <1>3, <1>4, LabelsTyped DEF AloneFits, Serving
<1> QED BY <1>0, <1>5, <1>6, <1>9, <1>10, StepUnstored

LEMMA CheckPostgresStep ==
    ASSUME AuthIInv, NEW p \in AuthProcess, CheckPostgres(p)
    PROVE  AuthIInv'
<1>1. at[p] = "checkPg" /\ Unstored /\ "idle" \in AuthLabel
  BY LabelsTyped DEF CheckPostgres
<1>2. CASE token[req[p].user] # req[p].secret
  <2>1. GoOn(p, "idle")
    BY <1>2 DEF CheckPostgres
  <2> QED BY <1>1, <2>1, StepUnstored
<1>3. CASE token[req[p].user] = req[p].secret /\ mode = "dual-write"
  <2>1. GoOn(p, "backfillCheck")
    BY <1>3 DEF CheckPostgres
  <2> QED BY <1>1, <1>3, <2>1, StepOfCheck, LabelsTyped
<1>4. CASE token[req[p].user] = req[p].secret /\ mode = "redis-primary"
  <2>1. GoOn(p, "backfill")
    BY <1>4 DEF CheckPostgres
  <2> QED BY <1>1, <1>4, <2>1, StepOfCheck, LabelsTyped
<1>5. CASE token[req[p].user] = req[p].secret /\ mode \notin {"dual-write", "redis-primary"}
  <2>1. GoOn(p, "readUser")
    BY <1>5 DEF CheckPostgres
  <2> QED BY <1>1, <2>1, StepOfCheck, LabelsTyped
<1> QED BY <1>2, <1>3, <1>4, <1>5

LEMMA CheckRedisStep ==
    ASSUME AuthIInv, NEW p \in AuthProcess, CheckRedis(p)
    PROVE  AuthIInv'
<1>1. at[p] = "checkRedis" /\ Unstored /\ "idle" \in AuthLabel
  BY LabelsTyped DEF CheckRedis
<1>2. PICK label \in {"readUser", "checkPg", "idle"} :
         GoOn(p, label) /\ (label = "checkPg" => mode = "redis-primary")
  BY DEF CheckRedis
<1>3. CASE label = "idle"
  BY <1>1, <1>2, <1>3, StepUnstored
<1>4. CASE label # "idle"
  BY <1>1, <1>2, <1>4, StepOfCheck, LabelsTyped
<1> QED BY <1>3, <1>4

LEMMA CheckBackfillStep ==
    ASSUME AuthIInv, NEW p \in AuthProcess, CheckBackfill(p)
    PROVE  AuthIInv'
<1>1. at[p] = "backfillCheck" /\ Unstored
  BY DEF CheckBackfill
<1>2. PICK label \in {"readUser", "backfill"} : GoOn(p, label)
  BY DEF CheckBackfill
<1>3. mode = "dual-write"
  BY <1>1, Served DEF LabelFits
<1> QED BY <1>1, <1>2, <1>3, StepOfCheck, LabelsTyped

LEMMA LookupFailsStep ==
    ASSUME AuthIInv, NEW p \in AuthProcess, LookupFails(p)
    PROVE  AuthIInv'
<1>1. Unstored /\ at[p] \in CheckStep /\ "idle" \in AuthLabel
  BY LabelsTyped DEF LookupFails
<1>2. PICK label \in {"readUser", "checkPg", "idle"} :
         GoOn(p, label) /\ (label = "checkPg" => mode = "redis-primary")
  BY DEF LookupFails
<1>3. CASE label = "idle"
  BY <1>1, <1>2, <1>3, StepUnstored, LabelsTyped
<1>4. CASE label # "idle"
  BY <1>1, <1>2, <1>4, StepOfCheck, LabelsTyped
<1> QED BY <1>3, <1>4

LEMMA PostgresFailsStep ==
    ASSUME AuthIInv, NEW p \in AuthProcess, PostgresFails(p)
    PROVE  AuthIInv'
BY StepUnstored, LabelsTyped DEF PostgresFails

LEMMA ReadUserStep ==
    ASSUME AuthIInv, NEW p \in AuthProcess, ReadUser(p)
    PROVE  AuthIInv'
<1>0. at[p] = "readUser" /\ UNCHANGED <<mode, token, record, used, issued, ended>>
  BY DEF ReadUser
<1>1. PICK c \in AuthContext : req[p] = c
  BY <1>0, Served
<1>2. /\ AuthTypeOK /\ LabelFits(p) /\ LoginFits(p) /\ TokenFits(p) /\ AloneFits(p)
      /\ StoresFit(c.user) /\ c.user \in AuthUser /\ mode \in AuthMode
      /\ c.kind \in {"use", "logout"}
  BY <1>0, <1>1, Served, LabelsTyped DEF LabelFits
<1>3. CASE c.kind = "use"
  <2>1. GoOn(p, "idle") /\ Unstored /\ "idle" \in AuthLabel
    BY <1>0, <1>1, <1>3, LabelsTyped DEF ReadUser, Unstored
  <2> QED BY <1>0, <2>1, StepUnstored
<1>4. CASE c.kind = "logout"
  <2>1. open' = [open EXCEPT ![c.user] = NoSecret] /\ GoOn(p, RevokeStart)
    BY <1>1, <1>4 DEF ReadUser
  <2>2. PICK label \in {"clearPg", "delRedis"} :
           /\ GoOn(p, label)
           /\ label = "clearPg" <=> mode = "postgres-only"
    BY <2>1 DEF RevokeStart
  <2>3. label \in AuthLabel /\ label # "idle"
    BY LabelsTyped
  <2>4. /\ at' \in [AuthProcess -> AuthLabel]
        /\ req' \in [AuthProcess -> AuthContext \cup {Unserved}]
        /\ at'[p] = label /\ req'[p] = c
        /\ \A q \in AuthProcess \ {p} : at'[q] = at[q] /\ req'[q] = req[q]
    BY <1>1, <1>2, <2>2, <2>3, GoOnFacts
  <2>5. open'[c.user] = NoSecret /\ \A v \in AuthUser \ {c.user} : open'[v] = open[v]
    BY <1>2, <2>1 DEF AuthTypeOK
  <2>6. AuthTypeOK' /\ OthersStay(p, c.user)
    BY <1>0, <1>2, <2>1, <2>4, <2>5 DEF AuthTypeOK, OthersStay, AnySecret
  <2>7. StoresFit(c.user)'
    BY <1>0, <1>2, <2>5 DEF StoresFit
  <2>8. LabelFits(p)'
    BY <1>0, <1>4, <2>2, <2>4, LabelsTyped DEF LabelFits
  <2>9. LoginFits(p)' /\ TokenFits(p)'
    BY <1>0, <1>1, <1>2, <1>4, <2>4, <2>5 DEF LoginFits, TokenFits
  <2>10. AloneFits(p)'
    BY <1>0, <1>1, <1>2, <1>4, <2>2, <2>4 DEF AloneFits, Serving, StoresFit
  <2>11. Fits(p)'
    BY <1>1, <2>4, <2>8, <2>9, <2>10 DEF Fits
  <2> QED BY <1>0, <1>1, <1>2, <2>4, <2>5, <2>6, <2>7, <2>11, StepOfRequest
<1> QED BY <1>2, <1>3, <1>4

\* The row and the record of a user may be so.
MayHold(u, t, d) ==
    /\ mode = "postgres-only" => d = NoSecret
    /\ open[u] # NoSecret =>
          /\ t \in {open[u], NoSecret} /\ d \in {open[u], NoSecret}
          /\ IF mode = "postgres-off" THEN d = open[u] ELSE t = open[u]
    /\ \A s \in ended[u] : d # s /\ (mode # "postgres-off" => t # s)

\* A write, or an attempt to write: the token or the record of the user is set.
LEMMA StepOfWrite ==
    ASSUME AuthIInv, NEW p \in AuthProcess, at[p] # "idle",
           NEW c \in AuthContext, req[p] = c, NEW label \in AuthLabel, GoOn(p, label),
           UNCHANGED <<mode, used, issued, open, ended>>,
           NEW t \in AnySecret \cup {NoRow}, token' = [token EXCEPT ![c.user] = t],
           NEW d \in AnySecret, record' = [record EXCEPT ![c.user] = d],
           MayHold(c.user, t, d),
           label = "idle" \/ (LabelFits(p) /\ LoginFits(p) /\ TokenFits(p) /\ AloneFits(p))'
    PROVE  AuthIInv'
<1>1. AuthTypeOK /\ StoresFit(c.user) /\ c.user \in AuthUser
  BY Served
<1>2. /\ at' \in [AuthProcess -> AuthLabel]
      /\ req' \in [AuthProcess -> AuthContext \cup {Unserved}]
      /\ at'[p] = label /\ (label # "idle" => req'[p] = c)
      /\ \A q \in AuthProcess \ {p} : at'[q] = at[q] /\ req'[q] = req[q]
  BY <1>1, GoOnFacts
<1>3. /\ token'[c.user] = t /\ record'[c.user] = d
      /\ \A v \in AuthUser \ {c.user} : token'[v] = token[v] /\ record'[v] = record[v]
  BY <1>1 DEF AuthTypeOK
<1>4. AuthTypeOK' /\ OthersStay(p, c.user)
  BY <1>1, <1>2, <1>3 DEF AuthTypeOK, OthersStay
<1>5. StoresFit(c.user)'
  BY <1>1, <1>3 DEF StoresFit, MayHold
<1>6. Fits(p)'
  BY <1>2 DEF Fits
<1>7. ended'[c.user] \subseteq ended[c.user] /\ open'[c.user] \in {open[c.user], NoSecret}
      /\ issued[c.user] \subseteq issued'[c.user]
      /\ (at'[p] = "idle" \/ req'[p].user = c.user)
  BY <1>2
<1> QED BY <1>1, <1>4, <1>5, <1>6, <1>7, StepOfRequest

LEMMA WritePostgresStep ==
    ASSUME AuthIInv, NEW p \in AuthProcess, WritePostgres(p)
    PROVE  AuthIInv'
<1>0. /\ at[p] \in {"presave", "savePg", "clearPg"} /\ GoOn(p, Following(at[p]))
      /\ UNCHANGED <<mode, record, used, issued, open, ended>>
  BY LabelsTyped DEF WritePostgres
<1>1. PICK c \in AuthContext : req[p] = c
  BY <1>0, Served
<1>2. /\ AuthTypeOK /\ LabelFits(p) /\ LoginFits(p) /\ TokenFits(p) /\ AloneFits(p)
      /\ StoresFit(c.user) /\ c.user \in AuthUser /\ mode \in AuthMode
      /\ used \subseteq Secret /\ c.secret \in AnySecret /\ c.copy \in AnySecret
  BY <1>0, <1>1, Served
<1>3. PICK d \in AnySecret : record[c.user] = d
  BY <1>2 DEF AuthTypeOK
<1>4. record' = [record EXCEPT ![c.user] = d]
  BY <1>0, <1>2, <1>3 DEF AuthTypeOK
<1>5. NoSecret \notin ended[c.user] /\ NoSecret \in AnySecret
  BY <1>2, AuthAssumption DEF StoresFit, AnySecret
<1>6. CASE at[p] = "presave"
  <2>1. PICK label \in {"setRedis", "savePg"} :
           /\ GoOn(p, label)
           /\ label = "setRedis" <=> mode \in {"redis-primary", "postgres-off"}
    BY <1>0, <1>6 DEF Following, IssueStart
  <2>2. label \in AuthLabel /\ label # "idle" /\ c.kind = "login"
    BY <1>1, <1>2, <1>6, LabelsTyped DEF LabelFits
  <2>3. at'[p] = label /\ req'[p] = c
        /\ \A q \in AuthProcess \ {p} : at'[q] = at[q] /\ req'[q] = req[q]
    BY <1>1, <1>2, <2>1, <2>2, GoOnFacts
  <2>4. token' = [token EXCEPT ![c.user] = c.copy]
    BY <1>1, <1>6 DEF WritePostgres
  <2>5. LabelFits(p)'
    BY <1>0, <1>2, <2>1, <2>2, <2>3, LabelsTyped DEF LabelFits
  <2>6. LoginFits(p)' /\ TokenFits(p)'
    BY <1>0, <1>1, <1>2, <2>2, <2>3 DEF LoginFits, TokenFits
  <2>7. AloneFits(p)'
    BY <1>0, <1>1, <1>2, <2>1, <2>2, <2>3 DEF AloneFits, Serving
  <2>8. MayHold(c.user, c.copy, d)
    BY <1>1, <1>2, <1>3, <1>5, <2>2 DEF LoginFits, StoresFit, MayHold
  <2> QED BY <1>0, <1>1, <1>2, <1>4, <2>1, <2>2, <2>4, <2>5, <2>6, <2>7, <2>8, StepOfWrite
<1>7. CASE at[p] = "savePg"
  <2>1. PICK label \in {"setRedis", "done"} :
           GoOn(p, label) /\ (label = "setRedis" <=> mode = "dual-write")
    BY <1>0, <1>7 DEF Following
  <2>2. label \in AuthLabel /\ label # "idle" /\ c.kind = "login" /\ mode # "postgres-off"
    BY <1>1, <1>2, <1>7, LabelsTyped DEF LabelFits
  <2>3. at'[p] = label /\ req'[p] = c
        /\ \A q \in AuthProcess \ {p} : at'[q] = at[q] /\ req'[q] = req[q]
    BY <1>1, <1>2, <2>1, <2>2, GoOnFacts
  <2>4. token' = [token EXCEPT ![c.user] = c.secret] /\ token'[c.user] = c.secret
    BY <1>1, <1>2, <1>7 DEF WritePostgres, AuthTypeOK
  <2>5. LabelFits(p)'
    BY <1>0, <1>2, <2>1, <2>2, <2>3, LabelsTyped DEF LabelFits
  <2>6. LoginFits(p)' /\ TokenFits(p)'
    BY <1>0, <1>1, <1>2, <2>2, <2>3 DEF LoginFits, TokenFits
  <2>7. AloneFits(p)'
    BY <1>0, <1>1, <1>2, <1>7, <2>1, <2>2, <2>3, <2>4, LabelsTyped DEF AloneFits, Serving
  <2>8. MayHold(c.user, c.secret, d)
    BY <1>1, <1>2, <1>3, <2>2 DEF LoginFits, StoresFit, MayHold
  <2> QED BY <1>0, <1>1, <1>2, <1>4, <2>1, <2>2, <2>4, <2>5, <2>6, <2>7, <2>8, StepOfWrite
<1>8. CASE at[p] = "clearPg"
  <2>1. GoOn(p, "done") /\ "done" \in AuthLabel /\ "done" # "idle"
    BY <1>0, <1>8, LabelsTyped DEF Following
  <2>2. c.kind \in {"login", "logout"} /\ (c.kind = "login" <=> mode = "postgres-off")
    BY <1>1, <1>2, <1>8 DEF LabelFits
  <2>3. at'[p] = "done" /\ req'[p] = c
        /\ \A q \in AuthProcess \ {p} : at'[q] = at[q] /\ req'[q] = req[q]
    BY <1>1, <1>2, <2>1, GoOnFacts
  <2>4. token' = [token EXCEPT ![c.user] = NoSecret] /\ token'[c.user] = NoSecret
    BY <1>1, <1>2, <1>8 DEF WritePostgres, AuthTypeOK
  <2>5. LabelFits(p)'
    BY <2>2, <2>3, LabelsTyped DEF LabelFits
  <2>6. LoginFits(p)' /\ TokenFits(p)'
    BY <1>0, <1>1, <1>2, <1>8, <2>3 DEF LoginFits, TokenFits
  <2>7. AloneFits(p)'
    BY <1>0, <1>1, <1>2, <1>8, <2>2, <2>3, <2>4 DEF AloneFits, Serving
  <2>8. MayHold(c.user, NoSecret, d)
    BY <1>1, <1>2, <1>3, <1>5, <1>8, <2>2 DEF TokenFits, StoresFit, MayHold
  <2> QED BY <1>0, <1>1, <1>2, <1>4, <1>5, <2>1, <2>4, <2>5, <2>6, <2>7, <2>8, StepOfWrite
<1> QED BY <1>0, <1>6, <1>7, <1>8

LEMMA WriteRedisStep ==
    ASSUME AuthIInv, NEW p \in AuthProcess, WriteRedis(p) \/ RedisFails(p)
    PROVE  AuthIInv'
<1>0. /\ at[p] \in {"setRedis", "delRedis", "backfill"}
      /\ UNCHANGED <<mode, token, used, issued, open, ended>>
      /\ SetRecord(p) \/ UNCHANGED record
  BY LabelsTyped DEF WriteRedis, RedisFails
<1>1. PICK c \in AuthContext : req[p] = c
  BY <1>0, Served
<1>2. /\ AuthTypeOK /\ LabelFits(p) /\ LoginFits(p) /\ TokenFits(p) /\ AloneFits(p)
      /\ StoresFit(c.user) /\ c.user \in AuthUser /\ mode \in AuthMode
      /\ used \subseteq Secret /\ c.secret \in AnySecret
  BY <1>0, <1>1, Served
<1>3. PICK t \in AnySecret \cup {NoRow} : token[c.user] = t
  BY <1>2 DEF AuthTypeOK
<1>4. token' = [token EXCEPT ![c.user] = t]
  BY <1>0, <1>2, <1>3 DEF AuthTypeOK
<1>5. NoSecret \notin ended[c.user] /\ NoSecret \in AnySecret
  BY <1>2, AuthAssumption DEF StoresFit, AnySecret
<1>6. PICK d \in AnySecret :
         /\ record' = [record EXCEPT ![c.user] = d] /\ record'[c.user] = d
         /\ \/ d = IF at[p] = "delRedis" THEN NoSecret ELSE c.secret
            \/ RedisFails(p) /\ d = record[c.user]
  <2>1. CASE SetRecord(p)
    BY <1>1, <1>2, <1>5, <2>1 DEF SetRecord, AuthTypeOK
  <2>2. CASE ~SetRecord(p)
    <3>1. RedisFails(p) /\ record' = record
      BY <1>0, <2>2 DEF WriteRedis
    <3>2. record[c.user] \in AnySecret /\ record = [record EXCEPT ![c.user] = record[c.user]]
      BY <1>2 DEF AuthTypeOK
    <3> QED BY <3>1, <3>2
  <2> QED BY <2>1, <2>2
<1>7. MayHold(c.user, t, d)
  <2>1. MayHold(c.user, t, record[c.user])
    BY <1>2, <1>3 DEF StoresFit, MayHold
  <2>2. CASE at[p] = "setRedis" /\ d = c.secret
    BY <1>1, <1>2, <1>3, <2>1, <2>2 DEF LabelFits, LoginFits, MayHold
  <2>3. CASE at[p] = "delRedis" /\ d = NoSecret
    BY <1>1, <1>2, <1>3, <1>5, <2>1, <2>3 DEF LabelFits, TokenFits, MayHold
  <2>4. CASE at[p] = "backfill" /\ d = c.secret
    BY <1>1, <1>2, <1>3, <2>1, <2>4 DEF LabelFits, TokenFits, MayHold
  <2> QED BY <1>0, <1>6, <2>1, <2>2, <2>3, <2>4
<1>8. CASE RedisFails(p) /\ at[p] # "backfill"
  <2>1. GoOn(p, "idle") /\ "idle" \in AuthLabel
    BY <1>8, LabelsTyped DEF RedisFails
  <2> QED BY <1>0, <1>1, <1>4, <1>6, <1>7, <2>1, StepOfWrite
<1>9. CASE at[p] = "backfill"
  <2>1. GoOn(p, "readUser") /\ "readUser" \in AuthLabel /\ "readUser" # "idle"
    BY <1>9, LabelsTyped DEF RedisFails, WriteRedis, Following
  <2>2. at'[p] = "readUser" /\ req'[p] = c /\ c.kind \in {"use", "logout"}
        /\ \A q \in AuthProcess \ {p} : at'[q] = at[q] /\ req'[q] = req[q]
    BY <1>1, <1>2, <1>9, <2>1, GoOnFacts DEF LabelFits
  <2>3. LabelFits(p)' /\ LoginFits(p)' /\ TokenFits(p)'
    BY <1>0, <1>1, <1>2, <2>2, LabelsTyped DEF LabelFits, LoginFits, TokenFits
  <2>4. AloneFits(p)'
    BY <1>0, <1>1, <1>2, <2>2 DEF AloneFits, Serving
  <2> QED BY <1>0, <1>1, <1>4, <1>6, <1>7, <2>1, <2>3, <2>4, StepOfWrite
<1>10. CASE WriteRedis(p) /\ at[p] = "setRedis"
  <2>1. PICK label \in {"savePg", "clearPg", "done"} :
           /\ GoOn(p, label)
           /\ label = "savePg" <=> mode = "redis-primary"
           /\ label = "clearPg" <=> mode = "postgres-off"
    BY <1>10 DEF WriteRedis, Following
  <2>2. label \in AuthLabel /\ label # "idle" /\ c.kind = "login" /\ mode # "postgres-only"
    BY <1>1, <1>2, <1>10, LabelsTyped DEF LabelFits
  <2>3. at'[p] = label /\ req'[p] = c
        /\ \A q \in AuthProcess \ {p} : at'[q] = at[q] /\ req'[q] = req[q]
    BY <1>1, <1>2, <2>1, <2>2, GoOnFacts
  <2>4. record'[c.user] = c.secret
    BY <1>2, <1>1, <1>10 DEF WriteRedis, SetRecord, AuthTypeOK
  <2>5. LabelFits(p)'
    BY <1>0, <1>2, <2>1, <2>2, <2>3, LabelsTyped DEF LabelFits
  <2>6. LoginFits(p)' /\ TokenFits(p)'
    BY <1>0, <1>1, <1>2, <2>2, <2>3 DEF LoginFits, TokenFits
  <2>7. label = "done" => mode = "dual-write"
    BY <1>2, <2>1, <2>2, LabelsTyped
  <2>8. AloneFits(p)'
    BY <1>0, <1>1, <1>2, <1>10, <2>1, <2>2, <2>3, <2>4, <2>7 DEF AloneFits, Serving
  <2> QED BY <1>0, <1>1, <1>4, <1>6, <1>7, <2>1, <2>2, <2>5, <2>6, <2>8, StepOfWrite
<1>11. CASE WriteRedis(p) /\ at[p] = "delRedis"
  <2>1. PICK label \in {"clearPg", "done"} :
           GoOn(p, label) /\ (label = "done" <=> mode = "postgres-off")
    BY <1>11 DEF WriteRedis, Following
  <2>2. label \in AuthLabel /\ label # "idle" /\ c.kind = "logout" /\ mode # "postgres-only"
    BY <1>1, <1>2, <1>11, LabelsTyped DEF LabelFits
  <2>3. at'[p] = label /\ req'[p] = c
        /\ \A q \in AuthProcess \ {p} : at'[q] = at[q] /\ req'[q] = req[q]
    BY <1>1, <1>2, <2>1, <2>2, GoOnFacts
  <2>4. record'[c.user] = NoSecret
    BY <1>2, <1>1, <1>11 DEF WriteRedis, SetRecord, AuthTypeOK
  <2>5. LabelFits(p)'
    BY <1>0, <1>2, <2>1, <2>2, <2>3, LabelsTyped DEF LabelFits
  <2>6. LoginFits(p)' /\ TokenFits(p)'
    BY <1>0, <1>1, <1>2, <1>11, <2>2, <2>3 DEF LoginFits, TokenFits
  <2>7. AloneFits(p)'
    BY <1>0, <1>1, <1>2, <2>1, <2>2, <2>3, <2>4 DEF AloneFits, Serving
  <2> QED BY <1>0, <1>1, <1>4, <1>6, <1>7, <2>1, <2>2, <2>5, <2>6, <2>7, StepOfWrite
<1> QED BY <1>0, <1>8, <1>9, <1>10, <1>11

LEMMA AnswerRequestStep ==
    ASSUME AuthIInv, NEW p \in AuthProcess, AnswerRequest(p)
    PROVE  AuthIInv'
<1>0. at[p] = "done" /\ GoOn(p, "idle") /\ "idle" \in AuthLabel
      /\ UNCHANGED <<mode, token, record, used>>
  BY LabelsTyped DEF AnswerRequest
<1>1. PICK c \in AuthContext : req[p] = c
  BY <1>0, Served
<1>2. /\ AuthTypeOK /\ LabelFits(p) /\ LoginFits(p) /\ TokenFits(p) /\ AloneFits(p)
      /\ StoresFit(c.user) /\ c.user \in AuthUser /\ mode \in AuthMode
      /\ used \subseteq Secret /\ NoSecret \notin used
  BY <1>0, <1>1, Served, AuthAssumption
<1>3. /\ at' \in [AuthProcess -> AuthLabel] /\ at'[p] = "idle"
      /\ req' \in [AuthProcess -> AuthContext \cup {Unserved}]
      /\ \A q \in AuthProcess \ {p} : at'[q] = at[q] /\ req'[q] = req[q]
  BY <1>0, <1>2, GoOnFacts
<1>4. Fits(p)'
  BY <1>3 DEF Fits
<1>5. CASE c.kind = "login"
  <2>1. /\ issued' = [issued EXCEPT ![c.user] = @ \cup {c.secret}] /\ ended' = ended
        /\ open' = IF c.alone THEN [open EXCEPT ![c.user] = c.secret] ELSE open
    BY <1>1, <1>5 DEF AnswerRequest
  <2>2. c.secret \in used /\ c.secret \in Secret /\ c.secret # NoSecret
    BY <1>1, <1>2, <1>5 DEF LoginFits
  <2>3. /\ issued'[c.user] = issued[c.user] \cup {c.secret} /\ ended'[c.user] = ended[c.user]
        /\ open'[c.user] = IF c.alone THEN c.secret ELSE open[c.user]
    BY <1>2, <2>1 DEF AuthTypeOK
  <2>4. AuthTypeOK' /\ OthersStay(p, c.user)
    BY <1>0, <1>2, <1>3, <2>1, <2>2 DEF AuthTypeOK, OthersStay, AnySecret
  <2>5. StoresFit(c.user)'
    <3>1. CASE c.alone
      <4>1. /\ mode # "postgres-only" => record[c.user] = c.secret
            /\ token[c.user] = IF mode = "postgres-off" THEN NoSecret ELSE c.secret
        BY <1>0, <1>1, <1>2, <1>5, <3>1 DEF AloneFits
      <4> QED BY <1>0, <1>2, <2>2, <2>3, <3>1, <4>1 DEF StoresFit
    <3>2. CASE ~c.alone
      BY <1>0, <1>2, <2>2, <2>3, <3>2 DEF StoresFit
    <3> QED BY <3>1, <3>2
  <2>6. c.alone \/ (ended'[c.user] \subseteq ended[c.user]
                      /\ open'[c.user] \in {open[c.user], NoSecret})
    BY <2>3
  <2> QED BY <1>0, <1>1, <1>2, <1>3, <1>4, <2>3, <2>4, <2>5, <2>6, StepOfRequest
<1>6. CASE c.kind = "logout"
  <2>1. /\ ended' = IF c.alone THEN [ended EXCEPT ![c.user] = issued[c.user]] ELSE ended
        /\ issued' = issued /\ open' = open
    BY <1>1, <1>6 DEF AnswerRequest
  <2>2. ended'[c.user] = IF c.alone THEN issued[c.user] ELSE ended[c.user]
    BY <1>2, <2>1 DEF AuthTypeOK
  <2>3. AuthTypeOK' /\ OthersStay(p, c.user)
    BY <1>0, <1>2, <1>3, <2>1 DEF AuthTypeOK, OthersStay
  <2>4. StoresFit(c.user)'
    <3>1. CASE c.alone
      <4>1. /\ record[c.user] = NoSecret /\ open[c.user] = NoSecret
            /\ mode # "postgres-off" => token[c.user] = NoSecret
        BY <1>0, <1>1, <1>2, <1>6, <3>1 DEF AloneFits, TokenFits
      <4> QED BY <1>0, <1>2, <2>1, <2>2, <3>1, <4>1 DEF StoresFit
    <3>2. CASE ~c.alone
      BY <1>0, <1>2, <2>1, <2>2, <3>2 DEF StoresFit
    <3> QED BY <3>1, <3>2
  <2>5. c.alone \/ (ended'[c.user] \subseteq ended[c.user]
                      /\ open'[c.user] \in {open[c.user], NoSecret})
    BY <2>1, <2>2
  <2> QED BY <1>0, <1>1, <1>2, <1>3, <1>4, <2>1, <2>3, <2>4, <2>5, StepOfRequest
<1> QED BY <1>0, <1>1, <1>2, <1>5, <1>6 DEF LabelFits

-----------------------------------------------------------------------------
(* A request arrives                                                       *)

\* An arrival keeps the invariant if it does for the user and the new request.
LEMMA StepOfArrival ==
    ASSUME AuthIInv, NEW p \in AuthProcess, NEW u \in AuthUser,
           NEW label \in AuthLabel \ {"idle", "clearPg", "done"},
           NEW kind \in {"login", "use", "logout"},
           NEW s \in AnySecret, NEW x \in AnySecret, Arrive(p, label, kind, u, s, x),
           UNCHANGED <<mode, record, issued>>,
           used \subseteq used', used' \subseteq Secret,
           token' \in [AuthUser -> AnySecret \cup {NoRow}],
           open' \in [AuthUser -> AnySecret], ended' \in [AuthUser -> SUBSET Secret],
           \A v \in AuthUser \ {u} :
              token'[v] = token[v] /\ open'[v] = open[v] /\ ended'[v] = ended[v],
           ended'[u] \subseteq ended[u], open'[u] \in {open[u], NoSecret},
           label = "savePg" => mode # "redis-primary",
           label = "setRedis" => mode # "dual-write",
           StoresFit(u)', (LabelFits(p) /\ LoginFits(p) /\ TokenFits(p))'
    PROVE  AuthIInv'
<1>1. AuthTypeOK
  BY DEF AuthIInv
<1>2. /\ at[p] = "idle" /\ at'[p] = label /\ at' \in [AuthProcess -> AuthLabel]
      /\ \A q \in AuthProcess \ {p} : at'[q] = at[q]
  BY <1>1 DEF Arrive, AuthTypeOK
<1>3. /\ req'[p] = [kind |-> kind, user |-> u, secret |-> s, copy |-> x,
                    alone |-> \A r \in AuthProcess \ {p} : ~Serving(r, u)]
      /\ \A q \in AuthProcess \ {p} :
            req'[q] = IF Serving(q, u) THEN [req[q] EXCEPT !.alone = FALSE] ELSE req[q]
  BY DEF Arrive
<1>4. req'[p] \in AuthContext /\ req'[p].user = u /\ req'[p].kind = kind
      /\ (req'[p].alone => \A r \in AuthProcess \ {p} : ~Serving(r, u))
  BY <1>3 DEF AuthContext
<1>5. \A q \in AuthProcess \ {p} :
         at[q] # "idle" =>
            /\ req[q] \in AuthContext /\ req'[q] \in AuthContext
            /\ req'[q].kind = req[q].kind /\ req'[q].user = req[q].user
            /\ req'[q].secret = req[q].secret /\ req'[q].copy = req[q].copy
            /\ IF req[q].user = u THEN ~req'[q].alone ELSE req'[q].alone = req[q].alone
  <2>1. SUFFICES ASSUME NEW q \in AuthProcess \ {p}, at[q] # "idle"
                 PROVE  /\ req[q] \in AuthContext /\ req'[q] \in AuthContext
                        /\ req'[q].kind = req[q].kind /\ req'[q].user = req[q].user
                        /\ req'[q].secret = req[q].secret /\ req'[q].copy = req[q].copy
                        /\ IF req[q].user = u THEN ~req'[q].alone
                                              ELSE req'[q].alone = req[q].alone
    OBVIOUS
  <2>2. PICK c \in AuthContext : req[q] = c
    BY <2>1, Served
  <2>3. req'[q] = IF c.user = u THEN [c EXCEPT !.alone = FALSE] ELSE c
    BY <1>3, <2>1, <2>2 DEF Serving
  <2> QED BY <2>2, <2>3 DEF AuthContext
<1>6. req' \in [AuthProcess -> AuthContext \cup {Unserved}]
  <2>1. req' = [q \in AuthProcess |-> req'[q]]
    BY DEF Arrive
  <2>2. \A q \in AuthProcess \ {p} : at[q] = "idle" => req'[q] \in AuthContext \cup {Unserved}
    BY <1>1, <1>3 DEF Serving, AuthTypeOK
  <2> QED BY <1>4, <1>5, <2>1, <2>2
<1>7. AuthTypeOK'
  BY <1>1, <1>2, <1>6 DEF AuthTypeOK
<1>8. \A v \in AuthUser : StoresFit(v)'
  BY DEF AuthIInv, StoresFit
<1>9. Fits(p)'
  <2>1. AloneFits(p)'
    <3>1. \A r \in AuthProcess \ {p} : ~Serving(r, u) => ~Serving(r, u)'
      BY <1>2, <1>5 DEF Serving
    <3> QED BY <1>2, <1>4, <3>1 DEF AloneFits
  <2> QED BY <1>4, <2>1 DEF Fits
<1>10. ASSUME NEW q \in AuthProcess \ {p}, at'[q] # "idle" PROVE Fits(q)'
  <2>1. at'[q] = at[q] /\ at[q] # "idle"
    BY <1>2, <1>10
  <2>2. PICK c \in AuthContext : req[q] = c
    BY <2>1, Served
  <2>3. PICK d \in AuthContext : req'[q] = d
    BY <1>5, <2>1
  <2>4. /\ c.user = d.user /\ c.kind = d.kind /\ c.secret = d.secret /\ c.copy = d.copy
        /\ c.user \in AuthUser
        /\ IF c.user = u THEN ~d.alone ELSE d.alone = c.alone
    BY <1>5, <2>1, <2>2, <2>3 DEF AuthContext
  <2>5. LabelFits(q) /\ LoginFits(q) /\ TokenFits(q) /\ AloneFits(q)
    BY <2>1, Served
  <2>6. LabelFits(q)'
    BY <2>1, <2>2, <2>3, <2>4, <2>5 DEF LabelFits
  <2>7. ended'[c.user] \subseteq ended[c.user] /\ open'[c.user] \in {open[c.user], NoSecret}
    BY <2>4
  <2>8. LoginFits(q)'
    BY <2>1, <2>2, <2>3, <2>4, <2>5, <2>7 DEF LoginFits
  <2>9. TokenFits(q)'
    BY <2>1, <2>2, <2>3, <2>4, <2>5, <2>7 DEF TokenFits
  <2>10. AloneFits(q)'
    <3>1. CASE c.user = u
      BY <2>3, <2>4, <3>1 DEF AloneFits
    <3>2. CASE c.user # u
      <4>1. token'[c.user] = token[c.user] /\ record'[c.user] = record[c.user]
        BY <2>4, <3>2
      <4>2. \A r \in AuthProcess \ {q} : ~Serving(r, c.user) => ~Serving(r, c.user)'
        BY <1>2, <1>4, <1>5, <3>2 DEF Serving
      <4> QED BY <2>1, <2>2, <2>3, <2>4, <2>5, <3>2, <4>1, <4>2 DEF AloneFits
    <3> QED BY <3>1, <3>2
  <2> QED BY <2>3, <2>6, <2>8, <2>9, <2>10 DEF Fits
<1> QED BY <1>7, <1>8, <1>9, <1>10 DEF AuthIInv, Fits

\* A login starts with a secret that has not ended: it is that of the session
\* that is open, or none is any more.
LEMMA LoginFacts ==
    ASSUME AuthIInv, NEW u \in AuthUser, NEW s \in Secret,
           \/ token[u] # NoRow /\ SecretOf(token[u], s)
           \/ token[u] = NoRow /\ Generated(s),
           LoginWith(u, s)
    PROVE  /\ s \in used' /\ used \subseteq used' /\ used' \subseteq Secret
           /\ open' \in [AuthUser -> AnySecret] /\ ended' \in [AuthUser -> SUBSET Secret]
           /\ \A v \in AuthUser \ {u} : open'[v] = open[v] /\ ended'[v] = ended[v]
           /\ ended'[u] \subseteq ended[u] /\ s \notin ended'[u]
           /\ open'[u] \in {open[u], NoSecret}
           /\ open'[u] # NoSecret => open'[u] = s /\ token[u] = s
           /\ UNCHANGED <<mode, record, issued>>
<1>1. AuthTypeOK /\ StoresFit(u)
  BY DEF AuthIInv
<1>2. /\ used' = used \cup {s} /\ UNCHANGED <<mode, record, issued>>
      /\ open' = IF open[u] = s THEN open ELSE [open EXCEPT ![u] = NoSecret]
      /\ ended' = IF mode = "postgres-off" THEN [ended EXCEPT ![u] = @ \ {s}] ELSE ended
  BY DEF LoginWith
<1>3. /\ open' \in [AuthUser -> AnySecret] /\ ended' \in [AuthUser -> SUBSET Secret]
      /\ open'[u] = IF open[u] = s THEN open[u] ELSE NoSecret
      /\ ended'[u] = IF mode = "postgres-off" THEN ended[u] \ {s} ELSE ended[u]
      /\ \A v \in AuthUser \ {u} : open'[v] = open[v] /\ ended'[v] = ended[v]
  BY <1>1, <1>2 DEF AuthTypeOK, AnySecret
<1>4. s \notin used \/ token[u] = s
  BY DEF SecretOf, Generated
<1>5. mode # "postgres-off" => s \notin ended[u]
  BY <1>1, <1>4 DEF StoresFit
<1>6. open[u] = s => token[u] = s
  BY <1>1, <1>4, AuthAssumption DEF StoresFit
<1> QED BY <1>1, <1>2, <1>3, <1>5, <1>6, AuthAssumption DEF AuthTypeOK

LEMMA LoginStep ==
    ASSUME AuthIInv, NEW p \in AuthProcess, NEW u \in AuthUser, Login(p, u)
    PROVE  AuthIInv'
<1>1. PICK s \in Secret :
         /\ SecretOf(token[u], s) /\ Arrive(p, IssueStart, "login", u, s, token[u])
         /\ LoginWith(u, s) /\ token[u] # NoRow /\ token' = token
  BY DEF Login
<1>2. AuthTypeOK /\ StoresFit(u)
  BY DEF AuthIInv
<1>3. /\ s \in used' /\ used \subseteq used' /\ used' \subseteq Secret
      /\ open' \in [AuthUser -> AnySecret] /\ ended' \in [AuthUser -> SUBSET Secret]
      /\ \A v \in AuthUser \ {u} : open'[v] = open[v] /\ ended'[v] = ended[v]
      /\ ended'[u] \subseteq ended[u] /\ s \notin ended'[u]
      /\ open'[u] \in {open[u], NoSecret}
      /\ open'[u] # NoSecret => open'[u] = s /\ token[u] = s
      /\ UNCHANGED <<mode, record, issued>>
  BY <1>1, LoginFacts
<1>4. s \in AnySecret /\ token[u] \in AnySecret /\ token[u] \in {s, NoSecret}
  BY <1>1, <1>2 DEF AuthTypeOK, AnySecret, SecretOf
<1>5. PICK label \in {"setRedis", "savePg"} :
         /\ label = IssueStart
         /\ label = "setRedis" <=> mode \in {"redis-primary", "postgres-off"}
  BY DEF IssueStart
<1>6. StoresFit(u)'
  BY <1>1, <1>2, <1>3 DEF StoresFit
<1>7. at'[p] = label /\ req'[p].kind = "login" /\ req'[p].user = u
      /\ req'[p].secret = s /\ req'[p].copy = token[u]
  BY <1>1, <1>2, <1>5 DEF Arrive, AuthTypeOK
<1>8. LabelFits(p)'
  BY <1>2, <1>3, <1>5, <1>7, LabelsTyped DEF LabelFits, AuthTypeOK
<1>9. LoginFits(p)' /\ TokenFits(p)'
  BY <1>3, <1>4, <1>5, <1>7 DEF LoginFits, TokenFits
<1>10. /\ label \in AuthLabel \ {"idle", "clearPg", "done"}
       /\ label = "savePg" => mode # "redis-primary"
       /\ label = "setRedis" => mode # "dual-write"
       /\ Arrive(p, label, "login", u, s, token[u])
  BY <1>1, <1>5, LabelsTyped
<1>11. /\ token' \in [AuthUser -> AnySecret \cup {NoRow}]
       /\ \A v \in AuthUser \ {u} :
             token'[v] = token[v] /\ open'[v] = open[v] /\ ended'[v] = ended[v]
  BY <1>1, <1>2, <1>3 DEF AuthTypeOK
<1>12. "login" \in {"login", "use", "logout"}
  OBVIOUS
<1> QED BY <1>3, <1>4, <1>6, <1>8, <1>9, <1>10, <1>11, <1>12, StepOfArrival

LEMMA UpsertStep ==
    ASSUME AuthIInv, NEW p \in AuthProcess, NEW u \in AuthUser, Upsert(p, u)
    PROVE  AuthIInv'
<1>0. PICK s \in Secret :
         /\ \/ token[u] # NoRow /\ SecretOf(token[u], s)
               /\ Arrive(p, "presave", "login", u, s, token[u]) /\ token' = token
            \/ token[u] = NoRow /\ Generated(s)
               /\ Arrive(p, "presave", "login", u, s, s) /\ token' = [token EXCEPT ![u] = s]
         /\ LoginWith(u, s)
  BY DEF Upsert
<1>1. PICK x \in {token[u], s} :
         /\ \/ token[u] # NoRow /\ SecretOf(token[u], s) /\ x = token[u] /\ token' = token
            \/ token[u] = NoRow /\ Generated(s) /\ x = s /\ token' = [token EXCEPT ![u] = s]
         /\ Arrive(p, "presave", "login", u, s, x)
  BY <1>0
<1>2. AuthTypeOK /\ StoresFit(u)
  BY DEF AuthIInv
<1>3. /\ s \in used' /\ used \subseteq used' /\ used' \subseteq Secret
      /\ open' \in [AuthUser -> AnySecret] /\ ended' \in [AuthUser -> SUBSET Secret]
      /\ \A v \in AuthUser \ {u} : open'[v] = open[v] /\ ended'[v] = ended[v]
      /\ ended'[u] \subseteq ended[u] /\ s \notin ended'[u]
      /\ open'[u] \in {open[u], NoSecret}
      /\ open'[u] # NoSecret => open'[u] = s /\ token[u] = s
      /\ UNCHANGED <<mode, record, issued>>
  BY <1>0, LoginFacts
<1>4. s \in AnySecret /\ x \in AnySecret /\ x \in {s, NoSecret}
  BY <1>1, <1>2 DEF AuthTypeOK, AnySecret, SecretOf
<1>5. open'[u] # NoSecret => x = s
  BY <1>1, <1>3, AuthAssumption
<1>6. /\ token' \in [AuthUser -> AnySecret \cup {NoRow}]
      /\ token'[u] \in {token[u], s} /\ (open'[u] # NoSecret => token'[u] = s)
      /\ \A v \in AuthUser \ {u} :
            token'[v] = token[v] /\ open'[v] = open[v] /\ ended'[v] = ended[v]
  BY <1>1, <1>2, <1>3, <1>4 DEF AuthTypeOK
<1>7. StoresFit(u)'
  BY <1>2, <1>3, <1>6 DEF StoresFit
<1>8. at'[p] = "presave" /\ req'[p].kind = "login" /\ req'[p].user = u
      /\ req'[p].secret = s /\ req'[p].copy = x
  BY <1>1, <1>2 DEF Arrive, AuthTypeOK
<1>9. LabelFits(p)' /\ LoginFits(p)' /\ TokenFits(p)'
  BY <1>3, <1>4, <1>5, <1>8, LabelsTyped DEF LabelFits, LoginFits, TokenFits
<1>10. "login" \in {"login", "use", "logout"}
       /\ "presave" \in AuthLabel \ {"idle", "clearPg", "done"}
       /\ "presave" # "savePg" /\ "presave" # "setRedis"
  BY LabelsTyped
<1> QED BY <1>1, <1>3, <1>4, <1>6, <1>7, <1>9, <1>10, StepOfArrival

LEMMA UseTokenStep ==
    ASSUME AuthIInv, NEW p \in AuthProcess, NEW u \in AuthUser, UseToken(p, u)
    PROVE  AuthIInv'
<1>1. PICK s \in issued[u], kind \in {"use", "logout"}, label \in {"checkPg", "checkRedis"} :
         /\ label = "checkPg" <=> mode \in {"postgres-only", "dual-write"}
         /\ Arrive(p, label, kind, u, s, NoSecret)
         /\ UNCHANGED <<mode, token, record, used, issued, open, ended>>
  BY DEF UseToken
<1>2. AuthTypeOK /\ StoresFit(u)
  BY DEF AuthIInv
<1>3. s \in AnySecret /\ NoSecret \in AnySecret
  BY <1>1, <1>2 DEF AuthTypeOK, AnySecret
<1>4. StoresFit(u)'
  BY <1>1, <1>2 DEF StoresFit
<1>5. at'[p] = label /\ req'[p].kind = kind /\ req'[p].user = u /\ req'[p].secret = s
  BY <1>1, <1>2 DEF Arrive, AuthTypeOK
<1>6. LabelFits(p)' /\ LoginFits(p)' /\ TokenFits(p)'
  BY <1>1, <1>5, LabelsTyped DEF LabelFits, LoginFits, TokenFits
<1>7. /\ label \in AuthLabel \ {"idle", "clearPg", "done"}
      /\ label # "savePg" /\ label # "setRedis"
      /\ kind \in {"login", "use", "logout"}
  BY LabelsTyped
<1>8. /\ used \subseteq used' /\ used' \subseteq Secret
      /\ token' \in [AuthUser -> AnySecret \cup {NoRow}]
      /\ open' \in [AuthUser -> AnySecret] /\ ended' \in [AuthUser -> SUBSET Secret]
      /\ \A v \in AuthUser \ {u} :
            token'[v] = token[v] /\ open'[v] = open[v] /\ ended'[v] = ended[v]
      /\ ended'[u] \subseteq ended[u] /\ open'[u] \in {open[u], NoSecret}
      /\ UNCHANGED <<mode, record, issued>>
  BY <1>1, <1>2 DEF AuthTypeOK
<1> QED BY <1>1, <1>3, <1>4, <1>6, <1>7, <1>8, StepOfArrival

-----------------------------------------------------------------------------
(* Surroundings                                                            *)

\* What happens around the requests keeps the invariant if it does for the
\* user and for what a request that is alone relies on.
LEMMA StepAround ==
    ASSUME AuthIInv, AuthTypeOK', NEW u \in AuthUser,
           UNCHANGED <<mode, at, req, used, issued, ended>>,
           open'[u] \in {open[u], NoSecret},
           \A v \in AuthUser \ {u} :
              token'[v] = token[v] /\ record'[v] = record[v] /\ open'[v] = open[v],
           StoresFit(u)',
           \A q \in AuthProcess : Serving(q, u) => AloneFits(q)'
    PROVE  AuthIInv'
<1>1. \A v \in AuthUser : StoresFit(v)'
  BY DEF AuthIInv, StoresFit
<1>2. ASSUME NEW q \in AuthProcess, at[q] # "idle" PROVE Fits(q)'
  <2>1. PICK c \in AuthContext : req[q] = c
    BY <1>2, Served
  <2>2. LabelFits(q) /\ LoginFits(q) /\ TokenFits(q) /\ AloneFits(q) /\ c.user \in AuthUser
    BY <1>2, <2>1, Served
  <2>3. open'[c.user] \in {open[c.user], NoSecret}
    BY <2>2
  <2>4. LabelFits(q)' /\ LoginFits(q)' /\ TokenFits(q)'
    BY <2>1, <2>2, <2>3 DEF LabelFits, LoginFits, TokenFits
  <2>5. AloneFits(q)'
    <3>1. CASE c.user = u
      BY <1>2, <2>1, <3>1 DEF Serving
    <3>2. CASE c.user # u
      <4>1. token'[c.user] = token[c.user] /\ record'[c.user] = record[c.user]
        BY <2>2, <3>2
      <4> QED BY <2>1, <2>2, <4>1 DEF AloneFits, Serving
    <3> QED BY <3>1, <3>2
  <2> QED BY <2>1, <2>4, <2>5 DEF Fits
<1> QED BY <1>1, <1>2 DEF AuthIInv, Fits

LEMMA CreateUserStep ==
    ASSUME AuthIInv, NEW u \in AuthUser, CreateUser(u)
    PROVE  AuthIInv'
<1>1. /\ token[u] = NoRow /\ token' = [token EXCEPT ![u] = NoSecret]
      /\ UNCHANGED <<mode, record, at, req, used, issued, open, ended>>
  BY DEF CreateUser
<1>2. AuthTypeOK /\ StoresFit(u) /\ NoSecret \notin Secret
      /\ NoRow \notin Secret \cup {NoSecret}
  BY AuthAssumption DEF AuthIInv
<1>3. token'[u] = NoSecret /\ \A v \in AuthUser \ {u} : token'[v] = token[v]
  BY <1>1, <1>2 DEF AuthTypeOK
<1>4. AuthTypeOK'
  BY <1>1, <1>2 DEF AuthTypeOK, AnySecret
<1>5. StoresFit(u)'
  BY <1>1, <1>2, <1>3 DEF StoresFit, AuthTypeOK
<1>6. ASSUME NEW q \in AuthProcess, Serving(q, u) PROVE AloneFits(q)'
  <2>1. PICK c \in AuthContext : req[q] = c /\ c.user = u /\ at[q] # "idle"
    BY <1>6, Served DEF Serving
  <2>2. LoginFits(q) /\ AloneFits(q) /\ used \subseteq Secret
    BY <2>1, Served
  <2>3. c.kind = "login" => c.secret # NoRow
    BY <1>2, <2>1, <2>2 DEF LoginFits
  <2>4. c.alone /\ c.kind = "login" => at[q] # "done" /\ ~(at[q] = "setRedis" /\ mode = "dual-write")
    BY <1>1, <1>2, <2>1, <2>2, <2>3 DEF AloneFits
  <2>5. c.alone /\ c.kind = "logout" /\ at[q] = "done" => mode = "postgres-off"
    BY <1>1, <1>2, <2>1, <2>2 DEF AloneFits
  <2> QED BY <1>1, <2>1, <2>2, <2>4, <2>5 DEF AloneFits, Serving
<1>7. open'[u] \in {open[u], NoSecret}
      /\ \A v \in AuthUser \ {u} :
            token'[v] = token[v] /\ record'[v] = record[v] /\ open'[v] = open[v]
  BY <1>1, <1>3
<1> QED BY <1>1, <1>4, <1>5, <1>6, <1>7, StepAround

LEMMA RecordExpiresStep ==
    ASSUME AuthIInv, NEW u \in AuthUser, RecordExpires(u)
    PROVE  AuthIInv'
<1>1. /\ \A p \in AuthProcess : Serving(p, u) => req[p].kind # "login"
      /\ record' = [record EXCEPT ![u] = NoSecret]
      /\ open' = IF mode = "postgres-off" THEN [open EXCEPT ![u] = NoSecret] ELSE open
      /\ UNCHANGED <<mode, token, at, req, used, issued, ended>>
  BY DEF RecordExpires
<1>2. AuthTypeOK /\ StoresFit(u) /\ NoSecret \notin ended[u]
  BY AuthAssumption DEF AuthIInv, AuthTypeOK
<1>3. /\ record'[u] = NoSecret
      /\ open'[u] = IF mode = "postgres-off" THEN NoSecret ELSE open[u]
      /\ \A v \in AuthUser \ {u} :
            token'[v] = token[v] /\ record'[v] = record[v] /\ open'[v] = open[v]
  BY <1>1, <1>2 DEF AuthTypeOK
<1>4. AuthTypeOK'
  BY <1>1, <1>2 DEF AuthTypeOK, AnySecret
<1>5. StoresFit(u)'
  BY <1>1, <1>2, <1>3 DEF StoresFit
<1>6. ASSUME NEW q \in AuthProcess, Serving(q, u) PROVE AloneFits(q)'
  <2>1. PICK c \in AuthContext : req[q] = c /\ c.user = u /\ at[q] # "idle" /\ c.kind # "login"
    BY <1>1, <1>6, Served DEF Serving
  <2>2. AloneFits(q)
    BY <2>1, Served
  <2> QED BY <1>1, <1>3, <2>1, <2>2 DEF AloneFits, Serving
<1> QED BY <1>1, <1>3, <1>4, <1>5, <1>6, StepAround

LEMMA RestartServerStep ==
    ASSUME AuthIInv, RestartServer
    PROVE  AuthIInv'
<1>1. /\ mode' \in NextModes(mode)
      /\ at' = [p \in AuthProcess |-> "idle"] /\ req' = [p \in AuthProcess |-> Unserved]
      /\ open' = [u \in AuthUser |->
                    IF AcceptedIn(mode', u, open[u]) THEN open[u] ELSE NoSecret]
      /\ ended' = [u \in AuthUser |->
                     IF mode = "postgres-off" /\ mode' # "postgres-off"
                     THEN ended[u] \ {token[u]} ELSE ended[u]]
      /\ UNCHANGED <<token, record, used, issued>>
  BY DEF RestartServer
<1>2. AuthTypeOK
  BY DEF AuthIInv
<1>3. /\ mode' \in AuthMode
      /\ mode' = "postgres-only" => mode = "postgres-only"
      /\ mode' = "redis-primary" => mode \in {"dual-write", "redis-primary"}
  BY <1>1, <1>2 DEF AuthTypeOK, AuthMode, NextModes
<1>4. AuthTypeOK'
  BY <1>1, <1>2, <1>3 DEF AuthTypeOK, AnySecret, AuthLabel
<1>5. ASSUME NEW u \in AuthUser PROVE StoresFit(u)'
  <2>1. StoresFit(u)
    BY DEF AuthIInv
  <2>2. /\ open'[u] = IF AcceptedIn(mode', u, open[u]) THEN open[u] ELSE NoSecret
        /\ ended'[u] = IF mode = "postgres-off" /\ mode' # "postgres-off"
                       THEN ended[u] \ {token[u]} ELSE ended[u]
    BY <1>1
  <2>3. open'[u] # NoSecret =>
           IF mode' = "postgres-off" THEN record[u] = open[u] ELSE token[u] = open[u]
    BY <1>3, <2>1, <2>2 DEF AcceptedIn, StoresFit
  <2> QED BY <1>1, <1>3, <2>1, <2>2, <2>3 DEF StoresFit
<1>6. \A p \in AuthProcess : Fits(p)'
  BY <1>1 DEF Fits
<1> QED BY <1>4, <1>5, <1>6 DEF AuthIInv

LEMMA AuthStutters ==
    ASSUME AuthIInv, UNCHANGED authVars
    PROVE  AuthIInv'
<1>1. AuthTypeOK'
  BY DEF AuthIInv, AuthTypeOK, authVars
<1>2. \A u \in AuthUser : StoresFit(u)'
  BY DEF AuthIInv, StoresFit, authVars
<1>3. ASSUME NEW p \in AuthProcess PROVE Fits(p)'
  <2>1. Fits(p)
    BY DEF AuthIInv
  <2>2. UNCHANGED <<mode, token, record, at, req, used, issued, open, ended>>
    BY DEF authVars
  <2> QED BY <2>1, <2>2
       DEF Fits, LabelFits, LoginFits, TokenFits, AloneFits, Serving
<1> QED BY <1>1, <1>2, <1>3 DEF AuthIInv

-----------------------------------------------------------------------------

\* What requests rely on and what the stores hold, after any number of
\* logins, logouts, checks, failures and restarts (auth_state_manager.go).
THEOREM AuthInvariant == AuthSpec => []AuthIInv
<1>1. AuthInit => AuthIInv
  BY AuthInitial
<1>2. ASSUME AuthIInv, [AuthNext]_authVars PROVE AuthIInv'
  <2>1. ASSUME NEW u \in AuthUser, CreateUser(u) \/ RecordExpires(u) PROVE AuthIInv'
    BY <1>2, <2>1, CreateUserStep, RecordExpiresStep
  <2>2. ASSUME NEW p \in AuthProcess, NEW u \in AuthUser,
               Login(p, u) \/ Upsert(p, u) \/ UseToken(p, u)
        PROVE  AuthIInv'
    BY <1>2, <2>2, LoginStep, UpsertStep, UseTokenStep
  <2>3. ASSUME NEW p \in AuthProcess,
               \/ CheckPostgres(p) \/ CheckRedis(p) \/ CheckBackfill(p) \/ ReadUser(p)
               \/ LookupFails(p)
        PROVE  AuthIInv'
    BY <1>2, <2>3, CheckPostgresStep, CheckRedisStep, CheckBackfillStep, ReadUserStep,
       LookupFailsStep
  <2>4. ASSUME NEW p \in AuthProcess,
               \/ WritePostgres(p) \/ WriteRedis(p) \/ PostgresFails(p) \/ RedisFails(p)
               \/ AnswerRequest(p)
        PROVE  AuthIInv'
    BY <1>2, <2>4, WritePostgresStep, WriteRedisStep, PostgresFailsStep, AnswerRequestStep
  <2>5. CASE RestartServer
    BY <1>2, <2>5, RestartServerStep
  <2>6. CASE UNCHANGED authVars
    BY <1>2, <2>6, AuthStutters
  <2> QED BY <1>2, <2>1, <2>2, <2>3, <2>4, <2>5, <2>6 DEF AuthNext
<1> QED BY <1>1, <1>2, PTL DEF AuthSpec

\* A session that was opened undisturbed is valid until it is logged out,
\* expires, is left behind by a new mode or, under postgres-off, displaced by
\* another login; whatever fails, and however often its user logs in again in
\* the other modes (Issue and Validate).
THEOREM SessionsStayValid == AuthSpec => []LoggedInStaysValid
<1>1. AuthIInv => LoggedInStaysValid
  BY DEF AuthIInv, StoresFit, LoggedInStaysValid, Accepted, AcceptedIn
<1> QED BY <1>1, AuthInvariant, PTL

\* No token of a user is accepted again after an undisturbed logout, in any
\* mode and whatever is written to the stores later (Revoke and Validate).
THEOREM LogoutsHold == AuthSpec => []LoggedOutStaysOut
<1>1. AuthIInv => LoggedOutStaysOut
  BY DEF AuthIInv, StoresFit, LoggedOutStaysOut, Accepted, AcceptedIn
<1> QED BY <1>1, AuthInvariant, PTL

-----------------------------------------------------------------------------
(* API keys                                                                *)

\* A request that writes a row knows which.
CopyFits(a) ==
    /\ keyStep[a] \in {"revoke", "rotate", "create", "link", "delete"} =>
          keyCopy[a].id \in Key
    /\ keyStep[a] = "link" => keyCopy[a].new \in Key

\* The row a request has read is still so, as far as others may not touch it,
\* and so is the row it has created.
CopyCurrent(a) ==
    LET c == keyCopy[a] IN
    /\ keyStep[a] \in {"revoke", "rotate", "create"} =>
          c.row.from = key[c.id].from /\ c.row.service = key[c.id].service
    /\ keyStep[a] = "link" =>
          /\ key[c.new].status = "active" /\ ~key[c.new].deleted
          /\ key[c.new].from = NoKey /\ ~key[c.new].service

\* As long as requests have not overlapped, at most one is being served.
OneAtATime ==
    \A a, b \in Admin : keyStep[a] # "idle" /\ keyStep[b] # "idle" => a = b

KeyIInv ==
    /\ KeyTypeOK
    /\ \A k \in rotated : key[k].status # "absent"
    /\ \A a \in Admin : CopyFits(a)
    /\ ~overlapped => OneAtATime /\ \A a \in Admin : CopyCurrent(a)
    /\ RotatedStaysRevoked
    /\ RotatedUserKeyHasSuccessor

LEMMA KeyInitial == KeyInit => KeyIInv
<1> SUFFICES ASSUME KeyInit PROVE KeyIInv
  OBVIOUS
<1>1. KeyTypeOK
  BY DEF KeyInit, KeyTypeOK, KeyRow, Unused, KeyStep, KeyCopy, NoCopy
<1>2. (\A a \in Admin : CopyFits(a) /\ CopyCurrent(a)) /\ OneAtATime
  BY DEF KeyInit, CopyFits, CopyCurrent, OneAtATime
<1>3. RotatedStaysRevoked /\ RotatedUserKeyHasSuccessor
  BY DEF KeyInit, RotatedStaysRevoked, RotatedUserKeyHasSuccessor
<1> QED BY <1>1, <1>2, <1>3 DEF KeyIInv, KeyInit

-----------------------------------------------------------------------------
(* Steps that write no key                                                 *)

\* Nothing that a property looks at in a row has changed.
RowsStay ==
    /\ key' \in [Key -> KeyRow]
    /\ \A k \in Key :
          /\ key'[k].status = key[k].status /\ key'[k].from = key[k].from
          /\ key'[k].service = key[k].service
          /\ key[k].status = "active" => key'[k].deleted = key[k].deleted

\* Time, use and retention disturb no request.
LEMMA RowsStayStep ==
    ASSUME KeyIInv, RowsStay,
           UNCHANGED <<account, keyStep, keyCopy, rotated, overlapped, dbFailed>>
    PROVE  KeyIInv'
<1>1. KeyTypeOK'
  BY DEF KeyIInv, KeyTypeOK, RowsStay
<1>2. \A k \in rotated' : key'[k].status # "absent"
  BY DEF KeyIInv, KeyTypeOK, RowsStay
<1>3. \A a \in Admin : CopyFits(a)'
  BY DEF KeyIInv, CopyFits
<1>4. ~overlapped' => OneAtATime' /\ \A a \in Admin : CopyCurrent(a)'
  <2>1. OneAtATime => OneAtATime'
    BY DEF OneAtATime
  <2>2. ASSUME NEW a \in Admin, CopyFits(a), CopyCurrent(a) PROVE CopyCurrent(a)'
    BY <2>2 DEF RowsStay, CopyFits, CopyCurrent
  <2> QED BY <2>1, <2>2 DEF KeyIInv
<1>5. RotatedStaysRevoked'
  BY DEF KeyIInv, KeyTypeOK, RowsStay, RotatedStaysRevoked
<1>6. RotatedUserKeyHasSuccessor'
  BY DEF KeyIInv, KeyTypeOK, RowsStay, RotatedUserKeyHasSuccessor, HasSuccessor
<1> QED BY <1>1, <1>2, <1>3, <1>4, <1>5, <1>6 DEF KeyIInv

LEMMA QuietRows ==
    ASSUME KeyIInv,
           CleanupKeys \/ \E k \in Key : AuthenticateAPIKey(k) \/ TimePasses(k)
    PROVE  RowsStay /\ UNCHANGED <<account, keyStep, keyCopy, rotated, overlapped, dbFailed>>
<1>1. key \in [Key -> KeyRow]
  BY DEF KeyIInv, KeyTypeOK
<1>2. CASE CleanupKeys
  BY <1>1, <1>2 DEF CleanupKeys, RowsStay, KeyRow
<1>3. ASSUME NEW k \in Key, AuthenticateAPIKey(k) \/ TimePasses(k)
      PROVE  RowsStay /\ UNCHANGED <<account, keyStep, keyCopy, rotated, overlapped, dbFailed>>
  <2>1. UNCHANGED <<account, keyStep, keyCopy, rotated, overlapped, dbFailed>>
    BY <1>3 DEF AuthenticateAPIKey, TimePasses
  <2>2. PICK r \in KeyRow : r = key[k]
    BY <1>1
  <2>3. PICK new \in KeyRow :
           /\ key' = [key EXCEPT ![k] = new]
           /\ new.status = r.status /\ new.from = r.from
           /\ new.service = r.service /\ new.deleted = r.deleted
    <3>1. CASE key' = [key EXCEPT ![k].stale = FALSE]
      <4> DEFINE e == [r EXCEPT !.stale = FALSE]
      <4>1. /\ e \in KeyRow /\ e.status = r.status /\ e.from = r.from
            /\ e.service = r.service /\ e.deleted = r.deleted
        BY DEF KeyRow
      <4>2. key' = [key EXCEPT ![k] = e]
        BY <2>2, <3>1
      <4> HIDE DEF e
      <4> QED BY <4>1, <4>2
    <3>2. CASE key' = [key EXCEPT ![k].stale = TRUE]
      <4> DEFINE e == [r EXCEPT !.stale = TRUE]
      <4>1. /\ e \in KeyRow /\ e.status = r.status /\ e.from = r.from
            /\ e.service = r.service /\ e.deleted = r.deleted
        BY DEF KeyRow
      <4>2. key' = [key EXCEPT ![k] = e]
        BY <2>2, <3>2
      <4> HIDE DEF e
      <4> QED BY <4>1, <4>2
    <3>3. CASE key' = [key EXCEPT ![k].expired = TRUE]
      <4> DEFINE e == [r EXCEPT !.expired = TRUE]
      <4>1. /\ e \in KeyRow /\ e.status = r.status /\ e.from = r.from
            /\ e.service = r.service /\ e.deleted = r.deleted
        BY DEF KeyRow
      <4>2. key' = [key EXCEPT ![k] = e]
        BY <2>2, <3>3
      <4> HIDE DEF e
      <4> QED BY <4>1, <4>2
    <3> QED BY <1>3, <3>1, <3>2, <3>3 DEF AuthenticateAPIKey, TimePasses
  <2> QED BY <1>1, <2>1, <2>2, <2>3 DEF RowsStay
<1> QED BY <1>2, <1>3

\* A request that starts: another one is served, or it is the only one.
LEMMA StartStep ==
    ASSUME KeyIInv, NEW a \in Admin, NEW label \in {"revoke", "rotate", "delete", "account"},
           NEW c \in KeyCopy, StartKey(a, label, c),
           label # "account" => c.id \in Key /\ c.row.from = key[c.id].from
                                /\ c.row.service = key[c.id].service,
           UNCHANGED <<key, account, rotated>>
    PROVE  KeyIInv'
<1>1. /\ keyStep[a] = "idle" /\ dbFailed' = dbFailed
      /\ overlapped' = (overlapped \/ \E b \in Admin : keyStep[b] # "idle")
      /\ keyStep' = [keyStep EXCEPT ![a] = label] /\ keyCopy' = [keyCopy EXCEPT ![a] = c]
  BY DEF StartKey, MayManage
<1>2. /\ keyStep'[a] = label /\ keyCopy'[a] = c
      /\ \A b \in Admin \ {a} : keyStep'[b] = keyStep[b] /\ keyCopy'[b] = keyCopy[b]
  BY <1>1 DEF KeyIInv, KeyTypeOK
<1>3. KeyTypeOK'
  BY <1>1 DEF KeyIInv, KeyTypeOK, KeyStep
<1>4. \A b \in Admin : CopyFits(b)'
  BY <1>2 DEF KeyIInv, CopyFits
<1>5. ~overlapped' => OneAtATime' /\ \A b \in Admin : CopyCurrent(b)'
  BY <1>1, <1>2 DEF OneAtATime, CopyCurrent
<1>6. RotatedStaysRevoked'
  BY DEF KeyIInv, RotatedStaysRevoked
<1>7. RotatedUserKeyHasSuccessor'
  BY <1>1, <1>2 DEF KeyIInv, RotatedUserKeyHasSuccessor, HasSuccessor
<1> QED BY <1>3, <1>4, <1>5, <1>6, <1>7 DEF KeyIInv

LEMMA ReadKeyStep ==
    ASSUME KeyIInv, NEW a \in Admin, NEW k \in Key, ReadKey(a, k)
    PROVE  KeyIInv'
<1> DEFINE c == [NoCopy EXCEPT !.id = k, !.row = [key[k] EXCEPT !.stale = FALSE,
                                                               !.expired = FALSE]]
<1>1. PICK label \in {"revoke", "rotate", "delete"} : StartKey(a, label, c)
  BY DEF ReadKey
<1>2. key[k] \in KeyRow
  BY DEF KeyIInv, KeyTypeOK
<1>3. c \in KeyCopy /\ c.id = k /\ c.row.from = key[k].from /\ c.row.service = key[k].service
  BY <1>2 DEF KeyRow, KeyCopy, NoCopy
<1>4. UNCHANGED <<key, account, rotated>>
  BY DEF ReadKey
<1> HIDE DEF c
<1> QED BY <1>1, <1>3, <1>4, StartStep

LEMMA ReadServiceAccountStep ==
    ASSUME KeyIInv, NEW a \in Admin, ReadServiceAccount(a)
    PROVE  KeyIInv'
<1>1. PICK new \in {account, "active", "inactive"} :
         StartKey(a, "account", [NoCopy EXCEPT !.account = new])
  BY DEF ReadServiceAccount
<1>2. [NoCopy EXCEPT !.account = new] \in KeyCopy
  BY DEF KeyIInv, KeyTypeOK, KeyCopy, NoCopy, KeyRow, Unused
<1>3. UNCHANGED <<key, account, rotated>>
  BY DEF ReadServiceAccount
<1> QED BY <1>1, <1>2, <1>3, StartStep

\* A request that has written ends, or the database fails; no key is written.
LEMMA EndStep ==
    ASSUME KeyIInv, NEW a \in Admin,
           keyStep' = [keyStep EXCEPT ![a] = "idle"],
           keyCopy' = [keyCopy EXCEPT ![a] = NoCopy],
           account' \in {"absent", "active", "inactive"},
           UNCHANGED <<key, rotated, overlapped>>,
           dbFailed' = TRUE \/ (dbFailed' = dbFailed /\ keyStep[a] \notin {"create", "link"})
    PROVE  KeyIInv'
<1>1. /\ keyStep'[a] = "idle" /\ keyCopy'[a] = NoCopy
      /\ \A b \in Admin \ {a} : keyStep'[b] = keyStep[b] /\ keyCopy'[b] = keyCopy[b]
  BY DEF KeyIInv, KeyTypeOK
<1>2. KeyTypeOK'
  BY DEF KeyIInv, KeyTypeOK, KeyStep, KeyCopy, NoCopy, KeyRow, Unused
<1>3. \A b \in Admin : CopyFits(b)'
  BY <1>1 DEF KeyIInv, CopyFits
<1>4. ~overlapped' => OneAtATime' /\ \A b \in Admin : CopyCurrent(b)'
  BY <1>1 DEF KeyIInv, OneAtATime, CopyCurrent
<1>5. RotatedStaysRevoked'
  BY DEF KeyIInv, RotatedStaysRevoked
<1>6. RotatedUserKeyHasSuccessor'
  BY <1>1 DEF KeyIInv, RotatedUserKeyHasSuccessor, HasSuccessor
<1> QED BY <1>2, <1>3, <1>4, <1>5, <1>6 DEF KeyIInv

LEMMA CreateServiceAccountStep ==
    ASSUME KeyIInv, NEW a \in Admin, CreateServiceAccount(a)
    PROVE  KeyIInv'
<1>1. /\ account' = "active" /\ overlapped' \in BOOLEAN /\ (overlapped => overlapped')
      /\ UNCHANGED <<key, keyStep, keyCopy, rotated, dbFailed>>
  BY DEF CreateServiceAccount, MayManage, KeyIInv, KeyTypeOK
<1>2. KeyTypeOK'
  BY <1>1 DEF KeyIInv, KeyTypeOK
<1>3. \A b \in Admin : CopyFits(b)' /\ (CopyCurrent(b) => CopyCurrent(b)')
  BY <1>1 DEF KeyIInv, CopyFits, CopyCurrent
<1>4. OneAtATime => OneAtATime'
  BY <1>1 DEF OneAtATime
<1>5. RotatedStaysRevoked' /\ RotatedUserKeyHasSuccessor'
  BY <1>1 DEF KeyIInv, RotatedStaysRevoked, RotatedUserKeyHasSuccessor, HasSuccessor
<1> QED BY <1>1, <1>2, <1>3, <1>4, <1>5 DEF KeyIInv

-----------------------------------------------------------------------------
(* Steps that write a key                                                  *)

\* What a save of a row does.
LEMMA Saved ==
    ASSUME KeyTypeOK, NEW k \in Key, NEW row \in KeyRow, SaveRow(k, row)
    PROVE  /\ key' \in [Key -> KeyRow]
           /\ key'[k].status = row.status /\ key'[k].from = row.from
           /\ key'[k].service = row.service /\ key'[k].deleted = row.deleted
           /\ key'[k].expired = key[k].expired
           /\ \A n \in Key \ {k} : key'[n] = key[n]
BY DEF KeyTypeOK, SaveRow, KeyRow

LEMMA NewKeyRows ==
    /\ \A service \in BOOLEAN :
          /\ NewRow(service) \in KeyRow /\ NewRow(service).status = "active"
          /\ NewRow(service).service = service /\ NewRow(service).from = NoKey
          /\ ~NewRow(service).deleted
    /\ Unused \in KeyRow /\ Unused.status = "absent" /\ Unused.from = NoKey
BY DEF NewRow, Unused, KeyRow

LEMMA RevokedRows ==
    ASSUME KeyIInv, NEW a \in Admin
    PROVE  /\ RevokedCopy(a) \in KeyRow /\ RevokedCopy(a).status = "revoked"
           /\ RevokedCopy(a).from = keyCopy[a].row.from
           /\ RevokedCopy(a).service = keyCopy[a].row.service
<1>1. PICK r \in KeyRow : r = keyCopy[a].row
  BY DEF KeyIInv, KeyTypeOK, KeyCopy
<1> QED BY <1>1 DEF RevokedCopy, KeyRow

LEMMA CreateAPIKeyStep ==
    ASSUME KeyIInv, NEW a \in Admin, NEW k \in Key, CreateAPIKey(a, k)
    PROVE  KeyIInv'
<1>1. PICK service \in BOOLEAN : key' = [key EXCEPT ![k] = NewRow(service)]
  BY DEF CreateAPIKey
<1>2. /\ overlapped' \in BOOLEAN
      /\ ~overlapped' => ~overlapped /\ \A b \in Admin : keyStep[b] = "idle"
      /\ UNCHANGED <<account, keyStep, keyCopy, rotated, dbFailed>> /\ key[k] = Unused
  BY DEF CreateAPIKey, MayManage, NextId, KeyIInv, KeyTypeOK
<1>3. PICK new \in KeyRow : new = NewRow(service) /\ new.status = "active" /\ new.from = NoKey
  BY NewKeyRows
<1>4. /\ key' \in [Key -> KeyRow] /\ key'[k] = new /\ key[k].from = NoKey
      /\ key[k].status = "absent" /\ \A n \in Key \ {k} : key'[n] = key[n]
  BY <1>1, <1>2, <1>3, NewKeyRows DEF KeyIInv, KeyTypeOK
<1>5. KeyTypeOK'
  BY <1>2, <1>4 DEF KeyIInv, KeyTypeOK
<1>6. k \notin rotated /\ rotated \subseteq Key
  BY <1>4 DEF KeyIInv, KeyTypeOK
<1>7. (\A r \in rotated' : key'[r].status # "absent") /\ RotatedStaysRevoked'
  BY <1>2, <1>4, <1>6 DEF KeyIInv, RotatedStaysRevoked
<1>8. \A b \in Admin : CopyFits(b)'
  BY <1>2 DEF KeyIInv, CopyFits
<1>9. ~overlapped' => OneAtATime' /\ \A b \in Admin : CopyCurrent(b)'
  BY <1>2 DEF OneAtATime, CopyCurrent
<1>10. RotatedUserKeyHasSuccessor'
  <2>1. ASSUME NEW r \in rotated, HasSuccessor(r) PROVE HasSuccessor(r)'
    BY <2>1, <1>2, <1>4, <1>6, KeyAssumption DEF HasSuccessor
  <2> QED BY <1>2, <1>4, <1>6, <2>1 DEF KeyIInv, RotatedUserKeyHasSuccessor
<1> QED BY <1>5, <1>7, <1>8, <1>9, <1>10 DEF KeyIInv

\* The key that was read is revoked; the request ends, or it is a rotation.
LEMMA RevokeStep ==
    ASSUME KeyIInv, NEW a \in Admin, keyStep[a] \in {"revoke", "rotate"},
           SaveRow(keyCopy[a].id, RevokedCopy(a)), UNCHANGED <<account, overlapped, dbFailed>>,
           \/ /\ keyStep' = [keyStep EXCEPT ![a] = "idle"]
              /\ keyCopy' = [keyCopy EXCEPT ![a] = NoCopy] /\ rotated' = rotated
           \/ /\ keyStep' = [keyStep EXCEPT ![a] = "create"]
              /\ keyCopy' = keyCopy /\ rotated' = rotated \cup {keyCopy[a].id}
    PROVE  KeyIInv'
<1>0. KeyTypeOK
  BY DEF KeyIInv
<1>1. PICK k \in Key : k = keyCopy[a].id
  BY DEF KeyIInv, CopyFits
<1>2. PICK row \in KeyRow :
         /\ row = RevokedCopy(a) /\ row.status = "revoked"
         /\ row.from = keyCopy[a].row.from /\ row.service = keyCopy[a].row.service
  BY RevokedRows
<1>3. /\ key' \in [Key -> KeyRow] /\ key'[k].status = "revoked"
      /\ key'[k].from = row.from /\ key'[k].service = row.service
      /\ \A n \in Key \ {k} : key'[n] = key[n]
  BY <1>0, <1>1, <1>2, Saved
<1>4. \A b \in Admin \ {a} : keyStep'[b] = keyStep[b] /\ keyCopy'[b] = keyCopy[b]
  BY <1>0 DEF KeyTypeOK
<1>5. \/ keyStep'[a] = "idle" /\ keyCopy'[a] = NoCopy /\ rotated' = rotated
      \/ /\ keyStep'[a] = "create" /\ keyCopy'[a] = keyCopy[a]
         /\ rotated' = rotated \cup {k}
  BY <1>0, <1>1 DEF KeyTypeOK
<1>6. KeyTypeOK'
  <2>1. NoCopy \in KeyCopy
    BY NewKeyRows DEF KeyCopy, NoCopy
  <2>2. keyStep' \in [Admin -> KeyStep] /\ keyCopy' \in [Admin -> KeyCopy]
    BY <1>0, <2>1 DEF KeyTypeOK, KeyStep
  <2>3. rotated' \subseteq Key
    BY <1>0, <1>5 DEF KeyTypeOK
  <2> QED BY <1>0, <1>3, <2>2, <2>3 DEF KeyTypeOK
<1>7. (\A r \in rotated' : key'[r].status # "absent") /\ RotatedStaysRevoked'
  BY <1>0, <1>3, <1>5 DEF KeyIInv, KeyTypeOK, RotatedStaysRevoked
<1>8. \A b \in Admin : CopyFits(b)'
  BY <1>1, <1>4, <1>5 DEF KeyIInv, CopyFits
<1>9. ~overlapped => \A b \in Admin \ {a} : keyStep[b] = "idle"
  BY DEF KeyIInv, OneAtATime
<1>10. ~overlapped' => OneAtATime' /\ \A b \in Admin : CopyCurrent(b)'
  BY <1>1, <1>2, <1>3, <1>4, <1>5, <1>9 DEF OneAtATime, CopyCurrent
<1>11. ~overlapped => row.from = key[k].from /\ row.service = key[k].service
  BY <1>1, <1>2 DEF KeyIInv, CopyCurrent
<1>12. RotatedUserKeyHasSuccessor'
  <2>1. SUFFICES ASSUME ~overlapped, ~dbFailed, NEW r \in rotated'
                 PROVE  HasSuccessor(r)' \/ key'[r].service
    BY DEF RotatedUserKeyHasSuccessor
  <2>2. \A n \in Key : key'[n].from = key[n].from /\ key'[n].service = key[n].service
    BY <1>3, <1>11, <2>1
  <2>3. CASE r \in rotated
    <3>1. HasSuccessor(r) \/ key[r].service
      BY <2>1, <2>3 DEF KeyIInv, RotatedUserKeyHasSuccessor
    <3>2. HasSuccessor(r) => \E n \in Key : key[n].from = r
      BY <1>9, <2>1 DEF HasSuccessor
    <3> QED BY <1>0, <2>2, <2>3, <3>1, <3>2 DEF HasSuccessor, KeyTypeOK
  <2>4. CASE r \notin rotated
    BY <1>1, <1>5, <2>4 DEF HasSuccessor
  <2> QED BY <2>3, <2>4
<1> QED BY <1>6, <1>7, <1>8, <1>10, <1>12 DEF KeyIInv

LEMMA RevokeAPIKeyStep ==
    ASSUME KeyIInv, NEW a \in Admin, RevokeAPIKey(a)
    PROVE  KeyIInv'
<1>1. keyStep[a] = "revoke" /\ FinishKey(a) /\ UNCHANGED <<account, rotated>>
      /\ (SaveRow(keyCopy[a].id, RevokedCopy(a)) \/ key' = key)
  BY DEF RevokeAPIKey, KeyRefused
<1>2. account' \in {"absent", "active", "inactive"}
  BY <1>1 DEF KeyIInv, KeyTypeOK
<1>3. CASE SaveRow(keyCopy[a].id, RevokedCopy(a))
  BY <1>1, <1>3, RevokeStep DEF FinishKey
<1>4. CASE key' = key
  BY <1>1, <1>2, <1>4, EndStep DEF FinishKey
<1> QED BY <1>1, <1>3, <1>4

LEMMA RevokeRotatedStep ==
    ASSUME KeyIInv, NEW a \in Admin, RevokeRotated(a)
    PROVE  KeyIInv'
<1>1. keyStep[a] = "rotate" /\ account' = account
  BY DEF RevokeRotated
<1>2. account' \in {"absent", "active", "inactive"}
  BY <1>1 DEF KeyIInv, KeyTypeOK
<1>3. CASE SaveRow(keyCopy[a].id, RevokedCopy(a)) /\ AdvanceKey(a, "create")
           /\ rotated' = rotated \cup {keyCopy[a].id}
  BY <1>1, <1>3, RevokeStep DEF AdvanceKey
<1>4. CASE KeyRefused(a) /\ UNCHANGED rotated
  BY <1>1, <1>2, <1>4, EndStep DEF KeyRefused, FinishKey
<1> QED BY <1>3, <1>4 DEF RevokeRotated

LEMMA CreateSuccessorStep ==
    ASSUME KeyIInv, NEW a \in Admin, CreateSuccessor(a)
    PROVE  KeyIInv'
<1>0. keyStep[a] = "create" /\ UNCHANGED <<account, rotated, overlapped, dbFailed>> /\ KeyTypeOK
  BY DEF CreateSuccessor, FinishKey, KeyIInv
<1>1. PICK k \in Key : k = keyCopy[a].id
  BY <1>0 DEF KeyIInv, CopyFits
<1>2. ~overlapped => \A b \in Admin \ {a} : keyStep[b] = "idle"
  BY <1>0 DEF KeyIInv, OneAtATime
<1>3. ~overlapped => keyCopy[a].row.service = key[k].service
  BY <1>0, <1>1 DEF KeyIInv, CopyCurrent
<1>4. CASE keyCopy[a].row.service /\ FinishKey(a) /\ UNCHANGED key
  <2>1. /\ keyStep'[a] = "idle" /\ keyCopy'[a] = NoCopy
        /\ \A b \in Admin \ {a} : keyStep'[b] = keyStep[b] /\ keyCopy'[b] = keyCopy[b]
    BY <1>0, <1>4 DEF FinishKey, KeyTypeOK
  <2>2. KeyTypeOK'
    BY <1>0, <1>4 DEF FinishKey, KeyTypeOK, KeyStep, KeyCopy, NoCopy, KeyRow, Unused
  <2>3. \A b \in Admin : CopyFits(b)'
    BY <2>1 DEF KeyIInv, CopyFits
  <2>4. ~overlapped' => OneAtATime' /\ \A b \in Admin : CopyCurrent(b)'
    BY <1>0, <1>2, <2>1 DEF OneAtATime, CopyCurrent
  <2>5. RotatedStaysRevoked' /\ \A r \in rotated' : key'[r].status # "absent"
    BY <1>0, <1>4 DEF KeyIInv, RotatedStaysRevoked
  <2>6. RotatedUserKeyHasSuccessor'
    <3>1. SUFFICES ASSUME ~overlapped, ~dbFailed, NEW r \in rotated
                   PROVE  HasSuccessor(r)' \/ key[r].service
      BY <1>0, <1>4 DEF RotatedUserKeyHasSuccessor
    <3>2. HasSuccessor(r) \/ key[r].service
      BY <3>1 DEF KeyIInv, RotatedUserKeyHasSuccessor
    <3>3. r = k => key[r].service
      BY <1>3, <1>4, <3>1
    <3> QED BY <1>0, <1>1, <1>4, <2>1, <3>2, <3>3 DEF HasSuccessor
  <2> QED BY <2>2, <2>3, <2>4, <2>5, <2>6 DEF KeyIInv
<1>5. ASSUME NEW n \in Key, NextId(n), ~keyCopy[a].row.service,
             key' = [key EXCEPT ![n] = [NewRow(FALSE) EXCEPT
                                          !.expired = key[keyCopy[a].id].expired]],
             keyCopy' = [keyCopy EXCEPT ![a].new = n],
             keyStep' = [keyStep EXCEPT ![a] = "link"]
      PROVE  KeyIInv'
  <2>1. PICK new \in KeyRow : new = [NewRow(FALSE) EXCEPT !.expired = key[k].expired]
    BY <1>0, <1>1, NewKeyRows DEF KeyTypeOK, KeyRow
  <2>2. new.status = "active" /\ ~new.deleted /\ new.from = NoKey /\ ~new.service
    BY <2>1, NewKeyRows DEF NewRow, Unused
  <2>3. /\ key' \in [Key -> KeyRow] /\ key'[n] = new
        /\ key[n].status = "absent" /\ key[n].from = NoKey
        /\ \A m \in Key \ {n} : key'[m] = key[m]
    BY <1>0, <1>1, <1>5, <2>1, NewKeyRows DEF KeyTypeOK, NextId
  <2>4. PICK c \in KeyCopy : c = keyCopy[a]
    BY <1>0 DEF KeyTypeOK
  <2>5. /\ keyStep'[a] = "link" /\ keyCopy'[a] = [c EXCEPT !.new = n]
        /\ \A b \in Admin \ {a} : keyStep'[b] = keyStep[b] /\ keyCopy'[b] = keyCopy[b]
    BY <1>0, <1>5, <2>4 DEF KeyTypeOK
  <2>6. [c EXCEPT !.new = n] \in KeyCopy /\ keyCopy'[a].id = k /\ keyCopy'[a].new = n
    BY <1>1, <2>4, <2>5 DEF KeyCopy
  <2>7. KeyTypeOK'
    BY <1>0, <1>5, <2>3, <2>4, <2>6 DEF KeyTypeOK, KeyStep
  <2>8. n \notin rotated /\ rotated \subseteq Key
    BY <1>0, <2>3 DEF KeyIInv, KeyTypeOK
  <2>9. RotatedStaysRevoked' /\ \A r \in rotated' : key'[r].status # "absent"
    BY <1>0, <2>3, <2>8 DEF KeyIInv, RotatedStaysRevoked
  <2>10. \A b \in Admin : CopyFits(b)'
    BY <2>5, <2>6 DEF KeyIInv, CopyFits
  <2>11. ~overlapped' => OneAtATime' /\ \A b \in Admin : CopyCurrent(b)'
    BY <1>0, <1>2, <2>2, <2>3, <2>5, <2>6 DEF OneAtATime, CopyCurrent
  <2>12. RotatedUserKeyHasSuccessor'
    <3>1. ASSUME NEW r \in rotated, HasSuccessor(r) PROVE HasSuccessor(r)'
      <4>1. r \in Key /\ r # NoKey
        BY <2>8, KeyAssumption
      <4>2. CASE \E m \in Key : key[m].from = r
        BY <2>3, <4>1, <4>2 DEF HasSuccessor
      <4>3. CASE \E b \in Admin : keyStep[b] \in {"create", "link"} /\ keyCopy[b].id = r
        <5>1. PICK b \in Admin : keyStep[b] \in {"create", "link"} /\ keyCopy[b].id = r
          BY <4>3
        <5>2. keyStep'[b] \in {"create", "link"} /\ keyCopy'[b].id = r
          BY <1>1, <2>5, <2>6, <5>1
        <5> QED BY <5>2 DEF HasSuccessor
      <4> QED BY <3>1, <4>2, <4>3 DEF HasSuccessor
    <3> QED BY <1>0, <2>3, <2>8, <3>1 DEF KeyIInv, RotatedUserKeyHasSuccessor
  <2> QED BY <2>7, <2>9, <2>10, <2>11, <2>12 DEF KeyIInv
<1> QED BY <1>4, <1>5 DEF CreateSuccessor

LEMMA LinkSuccessorStep ==
    ASSUME KeyIInv, NEW a \in Admin, LinkSuccessor(a)
    PROVE  KeyIInv'
<1>0. keyStep[a] = "link" /\ FinishKey(a)
      /\ UNCHANGED <<account, rotated, overlapped, dbFailed>> /\ KeyTypeOK
  BY DEF LinkSuccessor, FinishKey, KeyIInv
<1>1. PICK k \in Key, n \in Key : k = keyCopy[a].id /\ n = keyCopy[a].new
  BY <1>0 DEF KeyIInv, CopyFits
<1>2. ~overlapped => \A b \in Admin \ {a} : keyStep[b] = "idle"
  BY <1>0 DEF KeyIInv, OneAtATime
<1>3. ~overlapped => /\ key[n].status = "active" /\ ~key[n].deleted
                     /\ key[n].from = NoKey /\ ~key[n].service
  BY <1>0, <1>1 DEF KeyIInv, CopyCurrent
<1>4. /\ keyStep'[a] = "idle" /\ keyCopy'[a] = NoCopy
      /\ \A b \in Admin \ {a} : keyStep'[b] = keyStep[b] /\ keyCopy'[b] = keyCopy[b]
      /\ keyStep' \in [Admin -> KeyStep] /\ keyCopy' \in [Admin -> KeyCopy]
  BY <1>0 DEF FinishKey, KeyTypeOK, KeyStep, KeyCopy, NoCopy, KeyRow, Unused
<1>5. /\ key' \in [Key -> KeyRow]
      /\ \A m \in Key \ {n} : key'[m] = key[m]
      /\ \/ key'[n].status = "active" /\ key'[n].from = k /\ ~key'[n].service
         \/ key' = key /\ ~KeyFound(n)
  <2>1. PICK row \in KeyRow : row = [NewRow(FALSE) EXCEPT !.from = k]
    BY NewKeyRows DEF KeyRow
  <2>2. row.status = "active" /\ row.from = k /\ ~row.service
    BY <2>1, NewKeyRows DEF NewRow, Unused
  <2>3. CASE SaveRow(n, row)
    BY <1>0, <2>2, <2>3, Saved
  <2>4. CASE key' = key /\ ~KeyFound(n)
    BY <1>0, <2>4 DEF KeyTypeOK
  <2> QED BY <1>1, <2>1, <2>3, <2>4 DEF LinkSuccessor
<1>6. KeyTypeOK'
  BY <1>0, <1>4, <1>5 DEF KeyTypeOK
<1>7. RotatedStaysRevoked' /\ \A r \in rotated' : key'[r].status # "absent"
  BY <1>0, <1>5, KeyAssumption DEF KeyIInv, KeyTypeOK, RotatedStaysRevoked
<1>8. \A b \in Admin : CopyFits(b)'
  BY <1>4 DEF KeyIInv, CopyFits
<1>9. ~overlapped' => OneAtATime' /\ \A b \in Admin : CopyCurrent(b)'
  BY <1>0, <1>2, <1>4 DEF OneAtATime, CopyCurrent
<1>10. RotatedUserKeyHasSuccessor'
  <2>1. SUFFICES ASSUME ~overlapped, ~dbFailed, NEW r \in rotated
                 PROVE  HasSuccessor(r)' \/ key'[r].service
    BY <1>0 DEF RotatedUserKeyHasSuccessor
  <2>2. key'[n].from = k /\ ~key[n].service
    BY <1>3, <1>5, <2>1 DEF KeyFound
  <2>3. HasSuccessor(r) \/ key[r].service
    BY <2>1 DEF KeyIInv, RotatedUserKeyHasSuccessor
  <2>4. r \in Key /\ key[n].from # r
    BY <1>0, <1>3, <2>1, KeyAssumption DEF KeyTypeOK
  <2>5. HasSuccessor(r) => r = k \/ \E m \in Key \ {n} : key[m].from = r
    BY <1>1, <1>2, <2>1, <2>4 DEF HasSuccessor
  <2> QED BY <1>5, <2>2, <2>3, <2>4, <2>5 DEF HasSuccessor
<1> QED BY <1>6, <1>7, <1>8, <1>9, <1>10 DEF KeyIInv

LEMMA DeleteAPIKeyStep ==
    ASSUME KeyIInv, NEW a \in Admin, DeleteAPIKey(a)
    PROVE  KeyIInv'
<1>0. keyStep[a] = "delete" /\ FinishKey(a)
      /\ UNCHANGED <<account, rotated, overlapped, dbFailed>> /\ KeyTypeOK
      /\ key' = [key EXCEPT ![keyCopy[a].id].deleted = TRUE]
  BY DEF DeleteAPIKey, FinishKey, KeyIInv
<1>1. /\ key' \in [Key -> KeyRow]
      /\ \A m \in Key : /\ key'[m].status = key[m].status /\ key'[m].from = key[m].from
                        /\ key'[m].service = key[m].service
  BY <1>0 DEF KeyTypeOK, KeyRow
<1>2. ~overlapped => \A b \in Admin \ {a} : keyStep[b] = "idle"
  BY <1>0 DEF KeyIInv, OneAtATime
<1>3. /\ keyStep'[a] = "idle" /\ keyCopy'[a] = NoCopy
      /\ \A b \in Admin \ {a} : keyStep'[b] = keyStep[b] /\ keyCopy'[b] = keyCopy[b]
      /\ keyStep' \in [Admin -> KeyStep] /\ keyCopy' \in [Admin -> KeyCopy]
  BY <1>0 DEF FinishKey, KeyTypeOK, KeyStep, KeyCopy, NoCopy, KeyRow, Unused
<1>4. KeyTypeOK'
  BY <1>0, <1>1, <1>3 DEF KeyTypeOK
<1>5. RotatedStaysRevoked' /\ \A r \in rotated' : key'[r].status # "absent"
  BY <1>0, <1>1 DEF KeyIInv, KeyTypeOK, RotatedStaysRevoked
<1>6. \A b \in Admin : CopyFits(b)'
  BY <1>3 DEF KeyIInv, CopyFits
<1>7. ~overlapped' => OneAtATime' /\ \A b \in Admin : CopyCurrent(b)'
  BY <1>0, <1>2, <1>3 DEF OneAtATime, CopyCurrent
<1>8. RotatedUserKeyHasSuccessor'
  BY <1>0, <1>1, <1>3 DEF KeyIInv, KeyTypeOK, RotatedUserKeyHasSuccessor, HasSuccessor
<1> QED BY <1>4, <1>5, <1>6, <1>7, <1>8 DEF KeyIInv

LEMMA DatabaseFailsStep ==
    ASSUME KeyIInv, NEW a \in Admin, DatabaseFails(a)
    PROVE  KeyIInv'
<1>1. account' \in {"absent", "active", "inactive"}
  BY DEF KeyIInv, KeyTypeOK, DatabaseFails
<1> QED BY <1>1, EndStep DEF DatabaseFails

LEMMA SaveServiceAccountStep ==
    ASSUME KeyIInv, NEW a \in Admin, SaveServiceAccount(a)
    PROVE  KeyIInv'
<1>1. account' \in {"absent", "active", "inactive"}
  BY DEF KeyIInv, KeyTypeOK, KeyCopy, SaveServiceAccount
<1> QED BY <1>1, EndStep DEF SaveServiceAccount, FinishKey

LEMMA KeyStutters ==
    ASSUME KeyIInv, UNCHANGED keyVars
    PROVE  KeyIInv'
<1>1. RowsStay
  BY DEF KeyIInv, KeyTypeOK, RowsStay, keyVars
<1> QED BY <1>1, RowsStayStep DEF keyVars

-----------------------------------------------------------------------------

\* What a request knows of the row it has read, and what a rotation has left
\* behind, after any number of requests (RotateAPIKey, api_key.go:257).
THEOREM KeyInvariant == KeySpec => []KeyIInv
<1>1. ASSUME KeyIInv, [KeyNext]_keyVars PROVE KeyIInv'
  <2>1. ASSUME NEW a \in Admin, NEW k \in Key, CreateAPIKey(a, k) \/ ReadKey(a, k)
        PROVE  KeyIInv'
    BY <1>1, <2>1, CreateAPIKeyStep, ReadKeyStep
  <2>2. ASSUME NEW a \in Admin,
               \/ RevokeAPIKey(a)
               \/ RevokeRotated(a) \/ CreateSuccessor(a) \/ LinkSuccessor(a)
               \/ DeleteAPIKey(a) \/ DatabaseFails(a)
        PROVE  KeyIInv'
    BY <1>1, <2>2, RevokeAPIKeyStep, RevokeRotatedStep, CreateSuccessorStep,
       LinkSuccessorStep, DeleteAPIKeyStep, DatabaseFailsStep
  <2>3. ASSUME NEW a \in Admin,
               CreateServiceAccount(a) \/ ReadServiceAccount(a) \/ SaveServiceAccount(a)
        PROVE  KeyIInv'
    BY <1>1, <2>3, CreateServiceAccountStep, ReadServiceAccountStep, SaveServiceAccountStep
  <2>4. CASE CleanupKeys \/ \E k \in Key : AuthenticateAPIKey(k) \/ TimePasses(k)
    BY <1>1, <2>4, QuietRows, RowsStayStep
  <2>5. CASE UNCHANGED keyVars
    BY <1>1, <2>5, KeyStutters
  <2> QED BY <1>1, <2>1, <2>2, <2>3, <2>4, <2>5 DEF KeyNext
<1> QED BY <1>1, KeyInitial, PTL DEF KeySpec

\* A rotation leaves the user a successor of the key, and the key stays revoked
\* whatever overlaps or fails (RotateAPIKey).
THEOREM RotationsHold == KeySpec => []RotationHolds
<1>1. KeyIInv => RotationHolds
  BY DEF KeyIInv, RotationHolds
<1> QED BY <1>1, KeyInvariant, PTL

\* No save of a copy brings back the right of a key that was revoked, deleted
\* or has expired, unless requests overlap (RevokeAPIKey, RotateAPIKey).
THEOREM RevocationsHold == KeySpec => RevokedKeysStay
<1> DEFINE Stays == ~overlapped' =>
                      \A k \in Key : key[k].status # "absent" /\ ~Admitted(k) => ~Admitted(k)'
<1>1. ASSUME KeyIInv, [KeyNext]_keyVars PROVE Stays
  <2>0. KeyTypeOK
    BY <1>1 DEF KeyIInv
  <2>1. CASE key' = key
    BY <2>1 DEF Admitted, KeyFound
  <2>2. ASSUME NEW a \in Admin, NEW k \in Key, CreateAPIKey(a, k) PROVE Stays
    <3>1. key[k].status = "absent" /\ \A n \in Key \ {k} : key'[n] = key[n]
      BY <2>0, <2>2, NewKeyRows DEF CreateAPIKey, NextId, KeyTypeOK
    <3> QED BY <3>1 DEF Admitted, KeyFound
  <2>3. ASSUME NEW a \in Admin, RevokeAPIKey(a) \/ RevokeRotated(a), key' # key PROVE Stays
    <3>1. keyStep[a] \in {"revoke", "rotate"} /\ SaveRow(keyCopy[a].id, RevokedCopy(a))
      BY <2>3 DEF RevokeAPIKey, RevokeRotated, KeyRefused
    <3>2. PICK k \in Key : k = keyCopy[a].id
      BY <1>1, <3>1 DEF KeyIInv, CopyFits
    <3>3. key'[k].status = "revoked" /\ \A n \in Key \ {k} : key'[n] = key[n]
      BY <1>1, <2>0, <3>1, <3>2, RevokedRows, Saved
    <3> QED BY <3>3 DEF Admitted, KeyFound
  <2>4. ASSUME NEW a \in Admin, CreateSuccessor(a), key' # key PROVE Stays
    <3>1. PICK n \in Key :
             /\ NextId(n)
             /\ key' = [key EXCEPT ![n] = [NewRow(FALSE) EXCEPT
                                             !.expired = key[keyCopy[a].id].expired]]
      BY <2>4 DEF CreateSuccessor
    <3>2. key[n].status = "absent" /\ \A m \in Key \ {n} : key'[m] = key[m]
      BY <2>0, <3>1, NewKeyRows DEF NextId, KeyTypeOK
    <3> QED BY <3>2 DEF Admitted, KeyFound
  <2>5. ASSUME NEW a \in Admin, LinkSuccessor(a), key' # key PROVE Stays
    <3>1. /\ keyStep[a] = "link" /\ overlapped' = overlapped
          /\ SaveRow(keyCopy[a].new, [NewRow(FALSE) EXCEPT !.from = keyCopy[a].id])
      BY <2>5 DEF LinkSuccessor, FinishKey
    <3>2. PICK k \in Key, n \in Key : k = keyCopy[a].id /\ n = keyCopy[a].new
      BY <1>1, <3>1 DEF KeyIInv, CopyFits
    <3>3. [NewRow(FALSE) EXCEPT !.from = k] \in KeyRow
      BY NewKeyRows DEF KeyRow
    <3>4. key'[n].expired = key[n].expired /\ \A m \in Key \ {n} : key'[m] = key[m]
      BY <2>0, <3>1, <3>2, <3>3, Saved
    <3>5. ~overlapped => key[n].status = "active" /\ ~key[n].deleted
      BY <1>1, <3>1, <3>2 DEF KeyIInv, CopyCurrent
    <3> QED BY <3>1, <3>4, <3>5 DEF Admitted, KeyFound
  <2>6. ASSUME NEW a \in Admin, DeleteAPIKey(a) PROVE Stays
    <3>1. \A k \in Key : /\ key'[k].status = key[k].status
                         /\ key'[k].expired = key[k].expired
                         /\ key[k].deleted => key'[k].deleted
      BY <2>0, <2>6 DEF DeleteAPIKey, KeyTypeOK, KeyRow
    <3> QED BY <3>1 DEF Admitted, KeyFound
  <2>7. ASSUME NEW k \in Key, AuthenticateAPIKey(k) PROVE Stays
    <3>1. Admitted(k) /\ \A n \in Key \ {k} : key'[n] = key[n]
      BY <2>0, <2>7 DEF AuthenticateAPIKey, KeyTypeOK
    <3> QED BY <3>1 DEF Admitted, KeyFound
  <2>8. ASSUME NEW k \in Key, TimePasses(k) PROVE Stays
    <3>1. \A n \in Key : /\ key'[n].status = key[n].status /\ key'[n].deleted = key[n].deleted
                         /\ key[n].expired => key'[n].expired
      BY <2>0, <2>8 DEF TimePasses, KeyTypeOK, KeyRow
    <3> QED BY <3>1 DEF Admitted, KeyFound
  <2>9. CASE CleanupKeys
    <3>1. \A n \in Key : /\ key'[n].status = key[n].status /\ key'[n].expired = key[n].expired
                         /\ key[n].deleted => key'[n].deleted
      BY <2>0, <2>9 DEF CleanupKeys, KeyTypeOK, KeyRow
    <3> QED BY <3>1 DEF Admitted, KeyFound
  <2>10. ASSUME NEW a \in Admin, NEW k \in Key, ReadKey(a, k) PROVE key' = key
    BY <2>10 DEF ReadKey
  <2>11. ASSUME NEW a \in Admin,
                \/ DatabaseFails(a) \/ CreateServiceAccount(a)
                \/ ReadServiceAccount(a) \/ SaveServiceAccount(a)
         PROVE  key' = key
    BY <2>11 DEF DatabaseFails, CreateServiceAccount, ReadServiceAccount, SaveServiceAccount
  <2>12. CASE UNCHANGED keyVars
    BY <2>1, <2>12 DEF keyVars
  <2> HIDE DEF Stays
  <2> QED BY <1>1, <2>1, <2>2, <2>3, <2>4, <2>5, <2>6, <2>7, <2>8, <2>9, <2>10, <2>11, <2>12
      DEF KeyNext
<1>2. ASSUME KeyIInv, [KeyNext]_keyVars PROVE [Stays]_keyVars
  BY <1>1, <1>2
<1> QED BY <1>2, KeyInvariant, PTL DEF KeySpec, RevokedKeysStay

-----------------------------------------------------------------------------
(* Travel plans                                                            *)

\* The row of a plan is locked by one transaction at most.
OneHolder ==
    \A r, s \in PlanRequest :
        HoldsPlan(r) /\ HoldsPlan(s) /\ work[r].plan = work[s].plan => r = s

\* What a transaction has written fits its plan: a cleared plan keeps no live
\* item that is not about to go, and nobody else can add one, unless a deletion
\* without a lock has been outrun.
WorkFits ==
    \A r \in PlanRequest :
        /\ work[r].at # "idle" => work[r].plan \in Plan /\ plan[work[r].plan] # "absent"
        /\ work[r].at # "cleared" => work[r].gone = {} /\ work[r].fresh = {}
        /\ work[r].at = "clearing" =>
              work[r].outrun \/ LiveItems(work[r].plan) \subseteq work[r].target
        /\ work[r].at = "cleared" =>
              work[r].outrun \/ LiveItems(work[r].plan) \subseteq work[r].gone
        /\ work[r].outrun => work[r].kind = "deleteAsKey"
        /\ work[r].at = "saved" => work[r].kind # "deleteAsKey"
        /\ \A i \in work[r].gone : item[i].plan = work[r].plan
        /\ \A i \in work[r].fresh : item[i].status = "absent"
        /\ work[r].kind # "update" => work[r].fresh = {}
        /\ \A i \in work[r].target : item[i].status # "absent"

\* Ids are handed out once.
FreshOnce ==
    \A r, s \in PlanRequest : r # s => work[r].fresh \cap work[s].fresh = {}

\* Of a plan that has not been created there is no item.
NoStrayItem == \A p \in Plan : plan[p] = "absent" => LiveItems(p) = {}

PlanIInv ==
    /\ PlanTypeOK /\ OneHolder /\ WorkFits /\ FreshOnce /\ NoStrayItem
    /\ DeletedPlanHasNoItems /\ ItemsOfOneUpdate

-----------------------------------------------------------------------------
(* Steps                                                                   *)

USE PlanAssumption

LEMMA PlanInitial == PlanInit => PlanIInv
BY DEF PlanInit, PlanIInv, PlanTypeOK, OneHolder, HoldsPlan, WorkFits, FreshOnce,
       NoStrayItem, DeletedPlanHasNoItems, ItemsOfOneUpdate, LiveItems,
       LiveAmong, NoItem, ItemRow, NoWork, Work, WorkKind, WorkStep

LEMMA NoWorkTyped ==
    /\ NoWork \in Work
    /\ NoWork.at = "idle" /\ NoWork.gone = {} /\ NoWork.fresh = {} /\ NoWork.target = {}
    /\ NoWork.outrun = FALSE
BY DEF NoWork, Work, WorkKind, WorkStep

\* A request that ends without having written anything.
LEMMA EndsQuietly ==
    ASSUME PlanIInv, NEW r \in PlanRequest, EndWork(r), UNCHANGED <<plan, item, outrun>>
    PROVE  PlanIInv'
BY NoWorkTyped DEF PlanIInv, EndWork, PlanTypeOK, OneHolder, HoldsPlan, WorkFits,
       FreshOnce, NoStrayItem, DeletedPlanHasNoItems, ItemsOfOneUpdate, LiveItems, LiveAmong

LEMMA CreatePlanStep ==
    ASSUME PlanIInv, NEW p \in Plan, NEW S \in SUBSET Item, CreatePlan(p, S)
    PROVE  PlanIInv'
<1> USE DEF PlanIInv, CreatePlan, NewRows, UnusedItems
<1>1. PlanTypeOK'
  BY DEF PlanTypeOK, ItemRow
<1>2. LiveItems(p)' = S
  BY DEF LiveItems, LiveAmong, NoStrayItem, PlanTypeOK
<1>3. \A q \in Plan \ {p} : LiveItems(q)' = LiveItems(q)
  BY DEF LiveItems, LiveAmong, PlanTypeOK
<1>4. \A i \in S : item'[i].together = S
  BY DEF PlanTypeOK
<1>5. \A q \in Plan \ {p} : \A i \in LiveItems(q) : item'[i] = item[i]
  BY DEF LiveItems, LiveAmong, PlanTypeOK
<1>6. OneHolder' /\ FreshOnce'
  BY DEF OneHolder, HoldsPlan, FreshOnce
<1>7. NoStrayItem' /\ DeletedPlanHasNoItems'
  BY <1>3 DEF NoStrayItem, DeletedPlanHasNoItems, PlanTypeOK
<1>8. ItemsOfOneUpdate'
  <2> SUFFICES ASSUME NEW q \in Plan, NEW i \in LiveItems(q)', NEW j \in LiveItems(q)'
               PROVE  item'[i].together = item'[j].together
    BY DEF ItemsOfOneUpdate
  <2>1. CASE q = p
    BY <2>1, <1>2, <1>4
  <2>2. CASE q # p
    BY <2>2, <1>3, <1>5 DEF ItemsOfOneUpdate
  <2> QED
    BY <2>1, <2>2
<1>9. WorkFits'
  <2> SUFFICES ASSUME NEW r \in PlanRequest
               PROVE  /\ work[r].at # "idle" => work[r].plan \in Plan /\ plan'[work[r].plan] # "absent"
                      /\ work[r].at # "cleared" => work[r].gone = {} /\ work[r].fresh = {}
                      /\ work[r].at = "clearing" =>
                            work[r].outrun \/ LiveItems(work[r].plan)' \subseteq work[r].target
                      /\ work[r].at = "cleared" =>
                            work[r].outrun \/ LiveItems(work[r].plan)' \subseteq work[r].gone
                      /\ work[r].outrun => work[r].kind = "deleteAsKey"
                      /\ work[r].at = "saved" => work[r].kind # "deleteAsKey"
                      /\ \A i \in work[r].gone : item'[i].plan = work[r].plan
                      /\ \A i \in work[r].fresh : item'[i].status = "absent"
                      /\ work[r].kind # "update" => work[r].fresh = {}
                      /\ \A i \in work[r].target : item'[i].status # "absent"
    <3>1. work' = work
      OBVIOUS
    <3> HIDE DEF PlanIInv, CreatePlan, NewRows, UnusedItems
    <3> QED
      BY <3>1 DEF WorkFits, LiveItems
  <2>1. work[r] \in Work
    BY DEF PlanTypeOK
  <2>2. work[r].at # "idle" => work[r].plan \in Plan \ {p}
    BY DEF WorkFits
  <2>3. \A i \in work[r].fresh : i \in Item /\ i \notin S
    BY <2>1 DEF Work
  <2>4. \A i \in work[r].gone : i \in Item /\ i \notin S
    BY <2>1, <2>2 DEF Work, WorkFits, PlanTypeOK, WorkStep
  <2>5. \A i \in work[r].target : i \in Item /\ i \notin S
    BY <2>1 DEF Work, WorkFits
  <2> QED
    BY <1>3, <2>1, <2>2, <2>3, <2>4, <2>5 DEF WorkFits, PlanTypeOK
<1> QED
  BY <1>1, <1>6, <1>7, <1>8, <1>9

\* A step that changes only what one request knows and has written.
LEMMA PlanRequestStep ==
    ASSUME PlanIInv, NEW r \in PlanRequest, NEW w \in Work,
           work' = [work EXCEPT ![r] = w], UNCHANGED <<plan, item, outrun>>,
           w.at # "idle" => w.plan \in Plan /\ plan[w.plan] # "absent",
           w.at # "cleared" => w.gone = {} /\ w.fresh = {},
           w.at = "clearing" => w.outrun \/ LiveItems(w.plan) \subseteq w.target,
           w.at = "cleared" => w.outrun \/ LiveItems(w.plan) \subseteq w.gone,
           w.outrun => w.kind = "deleteAsKey",
           w.at = "saved" => w.kind # "deleteAsKey",
           \A i \in w.gone : item[i].plan = w.plan,
           \A i \in w.fresh : i \in work[r].fresh \/ i \in UnusedItems,
           w.kind # "update" => w.fresh = {},
           \A i \in w.target : item[i].status # "absent",
           w.at \in {"saved", "clearing", "cleared"} /\ w.kind # "deleteAsKey" =>
               \A s \in PlanRequest \ {r} : ~(HoldsPlan(s) /\ work[s].plan = w.plan)
    PROVE  PlanIInv'
<1> USE DEF PlanIInv
<1>1. PlanTypeOK' /\ NoStrayItem' /\ DeletedPlanHasNoItems' /\ ItemsOfOneUpdate'
  BY DEF PlanTypeOK, NoStrayItem, DeletedPlanHasNoItems, ItemsOfOneUpdate, LiveItems, LiveAmong
<1>2. OneHolder'
  BY DEF OneHolder, HoldsPlan, PlanTypeOK
<1>3. FreshOnce'
  BY DEF FreshOnce, PlanTypeOK, UnusedItems
<1>4. WorkFits'
  BY DEF WorkFits, PlanTypeOK, LiveItems, LiveAmong, UnusedItems
<1> QED
  BY <1>1, <1>2, <1>3, <1>4

LEMMA LoadPlanStep ==
    ASSUME PlanIInv, NEW r \in PlanRequest, NEW p \in Plan, NEW kind \in WorkKind,
           LoadPlan(r, p, kind)
    PROVE  PlanIInv'
<1> DEFINE w == [NoWork EXCEPT !.kind = kind, !.plan = p, !.at = "loaded"]
<1>1. /\ w \in Work /\ w.at = "loaded" /\ w.plan = p
      /\ w.gone = {} /\ w.fresh = {} /\ w.target = {} /\ w.outrun = FALSE
  BY DEF NoWork, Work, WorkStep
<1>2. work' = [work EXCEPT ![r] = w] /\ plan[p] = "live" /\ UNCHANGED <<plan, item, outrun>>
  BY DEF LoadPlan
<1> HIDE DEF w
<1> QED
  BY <1>1, <1>2, PlanRequestStep

LEMMA SavePlanStep ==
    ASSUME PlanIInv, NEW r \in PlanRequest, SavePlan(r)
    PROVE  PlanIInv'
<1>1. CASE EndWork(r)
  BY <1>1, EndsQuietly DEF SavePlan
<1>2. CASE work' = [work EXCEPT ![r].at = "saved"]
  <2> DEFINE w == [work[r] EXCEPT !.at = "saved"]
  <2>1. work[r] \in Work /\ work[r].at = "loaded"
    BY DEF PlanIInv, PlanTypeOK, SavePlan
  <2>2. /\ work[r].gone = {} /\ work[r].fresh = {} /\ work[r].plan \in Plan
        /\ plan[work[r].plan] # "absent"
        /\ \A i \in work[r].target : item[i].status # "absent"
        /\ work[r].outrun => work[r].kind = "deleteAsKey"
    BY <2>1 DEF PlanIInv, WorkFits
  <2>3. /\ w \in Work /\ w.at = "saved" /\ w.plan = work[r].plan
        /\ w.gone = {} /\ w.fresh = {} /\ w.target = work[r].target
        /\ w.kind # "deleteAsKey" /\ ~w.outrun
    BY <2>1, <2>2 DEF Work, WorkStep, SavePlan
  <2>4. work' = [work EXCEPT ![r] = w] /\ UNCHANGED <<plan, item, outrun>>
    BY <1>2 DEF SavePlan
  <2>5. \A s \in PlanRequest \ {r} : ~(HoldsPlan(s) /\ work[s].plan = w.plan)
    BY <2>3 DEF SavePlan, PlanLocked, HoldsPlan
  <2> HIDE DEF w
  <2>6. \A i \in w.gone : item[i].plan = w.plan
    BY <2>3
  <2>7. \A i \in w.fresh : i \in work[r].fresh \/ i \in UnusedItems
    BY <2>3
  <2> QED
    <3>1. /\ w.plan \in Plan /\ plan[w.plan] # "absent"
          /\ \A i \in w.target : item[i].status # "absent"
      BY <2>2, <2>3
    <3> QED
      BY <3>1, <2>3, <2>4, <2>5, <2>6, <2>7, PlanRequestStep
<1> QED
  BY <1>1, <1>2 DEF SavePlan

LEMMA StartClearingStep ==
    ASSUME PlanIInv, NEW r \in PlanRequest, StartClearing(r)
    PROVE  PlanIInv'
<1> DEFINE live == LiveItems(work[r].plan)
           w == [work[r] EXCEPT !.at = "clearing", !.target = live]
<1>1. work[r] \in Work /\ work[r].at \in {"loaded", "saved"}
      /\ (work[r].kind # "deleteAsKey" => work[r].at = "saved")
  BY DEF PlanIInv, PlanTypeOK, StartClearing
<1>2. work[r].gone = {} /\ work[r].fresh = {} /\ work[r].plan \in Plan
      /\ plan[work[r].plan] # "absent" /\ (work[r].outrun => work[r].kind = "deleteAsKey")
  BY <1>1 DEF PlanIInv, WorkFits
<1>3. live \in SUBSET Item /\ \A i \in live : item[i].status # "absent"
  BY DEF LiveItems, LiveAmong
<1>4. /\ w \in Work /\ w.at = "clearing" /\ w.plan = work[r].plan
      /\ w.gone = {} /\ w.fresh = {} /\ w.target = live
      /\ w.kind = work[r].kind /\ w.outrun = work[r].outrun
  BY <1>1, <1>2, <1>3 DEF Work, WorkStep
<1>5. work' = [work EXCEPT ![r] = w] /\ UNCHANGED <<plan, item, outrun>>
  BY DEF StartClearing
<1>6. w.kind # "deleteAsKey" =>
        \A s \in PlanRequest \ {r} : ~(HoldsPlan(s) /\ work[s].plan = w.plan)
  BY <1>1, <1>4 DEF PlanIInv, OneHolder, HoldsPlan
<1> HIDE DEF w, live
<1>7. LiveItems(w.plan) \subseteq w.target
  BY <1>4 DEF live
<1> QED
  BY <1>2, <1>3, <1>4, <1>5, <1>6, <1>7, PlanRequestStep

LEMMA ClearItemsStep ==
    ASSUME PlanIInv, NEW r \in PlanRequest, ClearItems(r)
    PROVE  PlanIInv'
<1> DEFINE dead == work[r].target \cap LiveItems(work[r].plan)
           w == [work[r] EXCEPT !.at = "cleared", !.gone = dead]
<1>1. work[r] \in Work /\ work[r].at = "clearing"
  BY DEF PlanIInv, PlanTypeOK, ClearItems
<1>2. /\ work[r].fresh = {} /\ work[r].plan \in Plan /\ plan[work[r].plan] # "absent"
      /\ \A i \in work[r].target : item[i].status # "absent"
      /\ work[r].outrun \/ LiveItems(work[r].plan) \subseteq work[r].target
      /\ work[r].outrun => work[r].kind = "deleteAsKey"
  BY <1>1 DEF PlanIInv, WorkFits
<1>3. dead \in SUBSET Item /\ \A i \in dead : item[i].plan = work[r].plan
  BY DEF LiveItems, LiveAmong
<1>4. /\ w \in Work /\ w.at = "cleared" /\ w.plan = work[r].plan
      /\ w.gone = dead /\ w.fresh = {} /\ w.target = work[r].target
      /\ w.kind = work[r].kind /\ w.outrun = work[r].outrun
  BY <1>1, <1>2, <1>3 DEF Work, WorkStep
<1>5. work' = [work EXCEPT ![r] = w] /\ UNCHANGED <<plan, item, outrun>>
  BY DEF ClearItems
<1>6. w.kind # "deleteAsKey" =>
        \A s \in PlanRequest \ {r} : ~(HoldsPlan(s) /\ work[s].plan = w.plan)
  BY <1>1, <1>4 DEF PlanIInv, OneHolder, HoldsPlan
<1> HIDE DEF w, dead
<1>7. w.outrun \/ LiveItems(w.plan) \subseteq w.gone
  BY <1>2, <1>4 DEF dead
<1> QED
  BY <1>2, <1>3, <1>4, <1>5, <1>6, <1>7, PlanRequestStep

LEMMA AddItemStep ==
    ASSUME PlanIInv, NEW r \in PlanRequest, AddItem(r)
    PROVE  PlanIInv'
<1>1. PICK i \in Item : NextItem(i) /\ work' = [work EXCEPT ![r].fresh = @ \cup {i}]
  BY DEF AddItem
<1> DEFINE w == [work[r] EXCEPT !.fresh = @ \cup {i}]
<1>2. work[r] \in Work /\ work[r].at = "cleared"
  BY DEF PlanIInv, PlanTypeOK, AddItem
<1>3. /\ work[r].plan \in Plan /\ plan[work[r].plan] # "absent"
      /\ work[r].outrun \/ LiveItems(work[r].plan) \subseteq work[r].gone
      /\ work[r].outrun => work[r].kind = "deleteAsKey"
      /\ \A k \in work[r].gone : item[k].plan = work[r].plan
      /\ \A k \in work[r].target : item[k].status # "absent"
  BY <1>2 DEF PlanIInv, WorkFits
<1>4. /\ w \in Work /\ w.at = "cleared" /\ w.plan = work[r].plan
      /\ w.gone = work[r].gone /\ w.fresh = work[r].fresh \cup {i}
      /\ w.kind = "update" /\ w.target = work[r].target
      /\ work[r].kind = "update" /\ w.outrun = work[r].outrun
  BY <1>2 DEF Work, AddItem
<1>5. work' = [work EXCEPT ![r] = w] /\ UNCHANGED <<plan, item, outrun>>
  BY <1>1 DEF AddItem
<1>6. \A s \in PlanRequest \ {r} : ~(HoldsPlan(s) /\ work[s].plan = w.plan)
  BY <1>2, <1>4 DEF PlanIInv, OneHolder, HoldsPlan
<1>7. i \in UnusedItems
  BY <1>1 DEF NextItem
<1> HIDE DEF w
<1> QED
  BY <1>3, <1>4, <1>5, <1>6, <1>7, PlanRequestStep

LEMMA FindItemStep ==
    ASSUME PlanIInv, NEW r \in PlanRequest, FindItem(r)
    PROVE  PlanIInv'
<1>1. CASE EndWork(r)
  BY <1>1, EndsQuietly DEF FindItem
<1>2. ASSUME NEW i \in LiveItems(work[r].plan),
             work' = [work EXCEPT ![r].at = "found", ![r].target = {i}]
      PROVE  PlanIInv'
  <2> DEFINE w == [work[r] EXCEPT !.at = "found", !.target = {i}]
  <2>1. work[r] \in Work /\ work[r].at = "loaded"
    BY DEF PlanIInv, PlanTypeOK, FindItem
  <2>2. work[r].gone = {} /\ work[r].fresh = {} /\ work[r].plan \in Plan
        /\ plan[work[r].plan] # "absent" /\ (work[r].outrun => work[r].kind = "deleteAsKey")
    BY <2>1 DEF PlanIInv, WorkFits
  <2>3. /\ w \in Work /\ w.at = "found" /\ w.plan = work[r].plan
        /\ w.gone = {} /\ w.fresh = {} /\ w.target = {i}
        /\ w.kind = work[r].kind /\ w.outrun = work[r].outrun
    BY <2>1, <2>2 DEF Work, WorkStep, LiveItems, LiveAmong
  <2>4. work' = [work EXCEPT ![r] = w] /\ UNCHANGED <<plan, item, outrun>>
    BY <1>2 DEF FindItem
  <2>5. item[i].status # "absent"
    BY DEF LiveItems, LiveAmong
  <2> HIDE DEF w
  <2> QED
    BY <2>2, <2>3, <2>4, <2>5, PlanRequestStep
<1> QED
  BY <1>1, <1>2 DEF FindItem

\* What a commit does to the items: those of its plan are its own.
LEMMA CommittedItems ==
    ASSUME PlanIInv, NEW r \in PlanRequest, work[r].at \in {"saved", "cleared"},
           item' = Committed(r)
    PROVE  /\ item' \in [Item -> ItemRow]
           /\ \A i \in Item : item'[i].status = "absent" <=> item'[i].plan = NoPlan
           /\ \A p \in Plan \ {work[r].plan} :
                 LiveAmong(item', p) = LiveItems(p) /\ \A i \in LiveItems(p) : item'[i] = item[i]
           /\ work[r].at = "cleared" /\ ~work[r].outrun =>
                 LiveAmong(item', work[r].plan) = work[r].fresh
           /\ LiveAmong(item', work[r].plan) \subseteq LiveItems(work[r].plan) \cup work[r].fresh
           /\ \A i \in work[r].fresh : item'[i].together = work[r].fresh
           /\ \A i \in Item \ work[r].fresh : item'[i].together = item[i].together
           /\ work[r].at = "saved" => item' = item
           /\ \A i \in Item : item[i].status # "absent" => item'[i].plan = item[i].plan
           /\ \A i \in Item \ work[r].fresh : item[i].status = "absent" => item'[i] = item[i]
           /\ \A i \in Item : item[i].status = "deleted" => item'[i].status = "deleted"
<1>1. work[r] \in Work /\ work[r].at \in {"saved", "cleared"} /\ item \in [Item -> ItemRow]
      /\ \A i \in Item : item[i].status = "absent" <=> item[i].plan = NoPlan
  BY DEF PlanIInv, PlanTypeOK
<1>2. /\ work[r].plan \in Plan
      /\ work[r].at = "saved" => work[r].gone = {} /\ work[r].fresh = {}
      /\ work[r].at = "cleared" =>
            work[r].outrun \/ LiveItems(work[r].plan) \subseteq work[r].gone
      /\ \A i \in work[r].gone : item[i].plan = work[r].plan
      /\ \A i \in work[r].fresh : item[i].status = "absent"
  BY <1>1 DEF PlanIInv, WorkFits
<1>3. work[r].gone \in SUBSET Item /\ work[r].fresh \in SUBSET Item
  BY <1>1 DEF Work
<1>4. work[r].gone \cap work[r].fresh = {}
  BY <1>1, <1>2, <1>3
<1>5. ASSUME NEW i \in work[r].gone
      PROVE  /\ i \in Item /\ item[i].status # "absent"
             /\ item'[i] \in ItemRow /\ item'[i].status = "deleted"
             /\ item'[i].plan = item[i].plan /\ item'[i].together = item[i].together
  <2>1. i \in Item /\ item[i] \in ItemRow /\ item[i].plan # NoPlan
    BY <1>1, <1>2, <1>3
  <2>2. item'[i] = [item[i] EXCEPT !.status = "deleted"]
    BY <2>1 DEF Committed
  <2> QED
    BY <1>1, <2>1, <2>2 DEF ItemRow
<1>6. ASSUME NEW i \in work[r].fresh
      PROVE  /\ i \in Item /\ item[i].status = "absent"
             /\ item'[i] \in ItemRow /\ item'[i].status = "live"
             /\ item'[i].plan = work[r].plan
             /\ item'[i].together = work[r].fresh
  <2>1. i \in Item /\ i \notin work[r].gone /\ item[i].status = "absent"
    BY <1>2, <1>3, <1>4
  <2>2. item'[i] = [status |-> "live", plan |-> work[r].plan,
                    together |-> work[r].fresh, linked |-> FALSE]
    BY <2>1 DEF Committed, NewRows
  <2> QED
    BY <1>2, <1>3, <2>1, <2>2 DEF ItemRow
<1>7. \A i \in Item : i \notin work[r].gone /\ i \notin work[r].fresh => item'[i] = item[i]
  BY DEF Committed, NewRows
<1>8. item' \in [Item -> ItemRow]
  <2>1. \A i \in Item : item'[i] \in ItemRow
    BY <1>1, <1>5, <1>6, <1>7
  <2> QED
    BY <2>1 DEF Committed
<1>9. \A i \in Item : item'[i].status = "absent" <=> item'[i].plan = NoPlan
  BY <1>1, <1>2, <1>5, <1>6, <1>7
<1>10. \A p \in Plan \ {work[r].plan} :
         LiveAmong(item', p) = LiveItems(p) /\ \A i \in LiveItems(p) : item'[i] = item[i]
  <2> SUFFICES ASSUME NEW p \in Plan \ {work[r].plan}
               PROVE  /\ LiveAmong(item', p) = LiveItems(p)
                      /\ \A i \in LiveItems(p) : item'[i] = item[i]
    OBVIOUS
  <2>1. \A i \in Item : item'[i].status = "live" /\ item'[i].plan = p => item'[i] = item[i]
    BY <1>5, <1>6, <1>7
  <2>2. \A i \in Item : item[i].status = "live" /\ item[i].plan = p => item'[i] = item[i]
    BY <1>2, <1>5, <1>6, <1>7
  <2> QED
    BY <2>1, <2>2 DEF LiveItems, LiveAmong
<1>11. work[r].at = "cleared" /\ ~work[r].outrun =>
         LiveAmong(item', work[r].plan) = work[r].fresh
  <2>1. \A i \in work[r].fresh : i \in LiveAmong(item', work[r].plan)
    BY <1>6 DEF LiveAmong
  <2>2. ASSUME work[r].at = "cleared", ~work[r].outrun, NEW i \in LiveAmong(item', work[r].plan)
        PROVE  i \in work[r].fresh
    BY <1>2, <1>5, <1>7, <2>2 DEF LiveAmong, LiveItems
  <2> QED
    BY <2>1, <2>2
<1>12. work[r].at = "saved" => item' = item
  BY <1>1, <1>2, <1>7, <1>8
<1>13. LiveAmong(item', work[r].plan) \subseteq LiveItems(work[r].plan) \cup work[r].fresh
  BY <1>5, <1>7 DEF LiveAmong, LiveItems
<1> QED
  BY <1>1, <1>2, <1>5, <1>6, <1>7, <1>8, <1>9, <1>10, <1>11, <1>12, <1>13

\* A commit keeps the invariant, whatever it makes of the plan, if a deletion
\* has inserted nothing and those that it outruns are marked.
LEMMA CommitStep ==
    ASSUME PlanIInv, NEW r \in PlanRequest, work[r].at \in {"saved", "cleared"},
           item' = Committed(r),
           NEW status \in {"live", "deleted"},
           plan' = [plan EXCEPT ![work[r].plan] = status],
           status = "deleted" => work[r].at = "cleared" /\ work[r].kind # "update",
           work' \in [PlanRequest -> Work], work'[r] = NoWork,
           \A s \in PlanRequest \ {r} :
              /\ work'[s].at = work[s].at /\ work'[s].kind = work[s].kind
              /\ work'[s].plan = work[s].plan /\ work'[s].gone = work[s].gone
              /\ work'[s].fresh = work[s].fresh /\ work'[s].target = work[s].target
              /\ work[s].outrun => work'[s].outrun
              /\ work'[s].outrun => work[s].outrun \/ work[s].kind = "deleteAsKey"
              /\ work[s].at \in {"clearing", "cleared"} /\ work[s].plan = work[r].plan
                 /\ work[r].fresh # {} => work'[s].outrun,
           outrun' \in SUBSET Plan,
           \A q \in Plan \ {work[r].plan} : q \in outrun <=> q \in outrun',
           status = "deleted" /\ work[r].outrun => work[r].plan \in outrun'
    PROVE  PlanIInv'
<1> DEFINE p == work[r].plan
<1>1. work \in [PlanRequest -> Work] /\ plan \in [Plan -> {"absent", "live", "deleted"}]
      /\ p \in Plan /\ plan[p] # "absent"
  BY DEF PlanIInv, PlanTypeOK, WorkFits
<1>2. \A s \in PlanRequest : HoldsPlan(s)' => s # r /\ HoldsPlan(s)
  BY NoWorkTyped DEF HoldsPlan
<1>3. PlanTypeOK'
  BY <1>1, CommittedItems DEF PlanTypeOK
<1>4. OneHolder' /\ FreshOnce'
  BY <1>2, NoWorkTyped DEF PlanIInv, OneHolder, FreshOnce
<1>5. \A q \in Plan \ {p} : plan'[q] = plan[q]
  BY <1>1
<1>6. plan'[p] = status
  BY <1>1
<1>7. NoStrayItem'
  BY <1>5, <1>6, CommittedItems DEF PlanIInv, NoStrayItem, LiveItems
<1>8. DeletedPlanHasNoItems'
  <2>1. status = "deleted" => work[r].fresh = {}
    BY <1>1 DEF PlanIInv, WorkFits
  <2> QED
    BY <2>1, <1>5, <1>6, CommittedItems DEF PlanIInv, DeletedPlanHasNoItems, LiveItems
<1>9. ItemsOfOneUpdate'
  <2> SUFFICES ASSUME NEW q \in Plan,
                      NEW i \in LiveAmong(item', q), NEW j \in LiveAmong(item', q)
               PROVE  item'[i].together = item'[j].together
    BY DEF ItemsOfOneUpdate, LiveItems
  <2>1. CASE q # p
    BY <2>1, CommittedItems DEF PlanIInv, ItemsOfOneUpdate
  <2>2. CASE q = p /\ work[r].at = "cleared" /\ ~work[r].outrun
    BY <2>2, CommittedItems
  <2>4. CASE q = p /\ work[r].at = "cleared" /\ work[r].outrun
    <3>1. work[r].fresh = {}
      BY <2>4 DEF PlanIInv, WorkFits
    <3>2. i \in LiveItems(q) /\ j \in LiveItems(q) /\ i \in Item /\ j \in Item
      BY <2>4, <3>1, CommittedItems DEF LiveAmong
    <3>3. item'[i].together = item[i].together /\ item'[j].together = item[j].together
      BY <3>1, <3>2, CommittedItems
    <3> QED
      BY <3>2, <3>3 DEF PlanIInv, ItemsOfOneUpdate
  <2>3. CASE q = p /\ work[r].at = "saved"
    <3>1. item' = item
      BY <2>3, CommittedItems
    <3>2. LiveAmong(item', q) = LiveItems(q)
      BY <3>1 DEF LiveItems
    <3> QED
      BY <3>1, <3>2 DEF PlanIInv, ItemsOfOneUpdate
  <2> QED
    BY <2>1, <2>2, <2>3, <2>4
<1>10. WorkFits'
  <2> SUFFICES ASSUME NEW s \in PlanRequest \ {r}
               PROVE  /\ work[s].at # "idle" =>
                            work[s].plan \in Plan /\ plan'[work[s].plan] # "absent"
                      /\ work[s].at # "cleared" => work[s].gone = {} /\ work[s].fresh = {}
                      /\ work[s].at = "clearing" =>
                            work'[s].outrun \/ LiveAmong(item', work[s].plan) \subseteq work[s].target
                      /\ work[s].at = "cleared" =>
                            work'[s].outrun \/ LiveAmong(item', work[s].plan) \subseteq work[s].gone
                      /\ work'[s].outrun => work[s].kind = "deleteAsKey"
                      /\ work[s].at = "saved" => work[s].kind # "deleteAsKey"
                      /\ \A i \in work[s].gone : item'[i].plan = work[s].plan
                      /\ \A i \in work[s].fresh : item'[i].status = "absent"
                      /\ work[s].kind # "update" => work[s].fresh = {}
                      /\ \A i \in work[s].target : item'[i].status # "absent"
    BY NoWorkTyped DEF WorkFits, LiveItems
  <2>1. work[s] \in Work
    BY <1>1
  <2>2. /\ work[s].at # "idle" =>
              work[s].plan \in Plan /\ plan[work[s].plan] # "absent"
        /\ work[s].at # "cleared" => work[s].gone = {} /\ work[s].fresh = {}
        /\ work[s].at = "clearing" =>
              work[s].outrun \/ LiveItems(work[s].plan) \subseteq work[s].target
        /\ work[s].at = "cleared" =>
              work[s].outrun \/ LiveItems(work[s].plan) \subseteq work[s].gone
        /\ work[s].outrun => work[s].kind = "deleteAsKey"
        /\ work[s].at = "saved" => work[s].kind # "deleteAsKey"
        /\ \A i \in work[s].gone : item[i].plan = work[s].plan
        /\ \A i \in work[s].fresh : item[i].status = "absent"
        /\ work[s].kind # "update" => work[s].fresh = {}
        /\ \A i \in work[s].target : item[i].status # "absent"
    BY DEF PlanIInv, WorkFits
  <2>3. work[s].at # "idle" => plan'[work[s].plan] # "absent"
    BY <2>2, <1>5, <1>6
  <2>4. work[s].at \in {"clearing", "cleared"} =>
          work'[s].outrun \/ LiveAmong(item', work[s].plan) \subseteq LiveItems(work[s].plan)
    BY <2>2, CommittedItems
  <2>5. work'[s].outrun => work[s].kind = "deleteAsKey"
    BY <2>2
  <2>6. \A i \in work[s].gone : i \in Item /\ item[i].status # "absent"
    BY <2>1, <2>2, <1>1 DEF Work, PlanIInv, PlanTypeOK
  <2>7. \A i \in work[s].gone : item'[i].plan = work[s].plan
    BY <2>2, <2>6, CommittedItems
  <2>8. \A i \in work[s].fresh : i \in Item \ work[r].fresh
    BY <2>1 DEF PlanIInv, FreshOnce, Work
  <2>9. \A i \in work[s].fresh : item'[i].status = "absent"
    BY <2>2, <2>8, CommittedItems
  <2>10. \A i \in work[s].target : i \in Item /\ item[i].status # "absent"
    BY <2>1 DEF Work, PlanIInv, WorkFits
  <2>11. \A i \in Item : item[i].status # "absent" => item[i].plan # NoPlan
    BY DEF PlanIInv, PlanTypeOK
  <2>12. \A i \in Item : item[i].status # "absent" => item'[i].status # "absent"
    BY <2>11, CommittedItems
  <2> QED
    BY <2>2, <2>3, <2>4, <2>5, <2>7, <2>9, <2>10, <2>12
<1> QED
  BY <1>3, <1>4, <1>7, <1>8, <1>9, <1>10 DEF PlanIInv

\* A statement that changes items in place, alive or not, adds none.
LEMMA InPlace ==
    ASSUME PlanIInv, NEW r \in PlanRequest, EndWork(r), UNCHANGED <<plan, outrun>>,
           item' \in [Item -> ItemRow],
           \A i \in Item :
              /\ item'[i].plan = item[i].plan /\ item'[i].together = item[i].together
              /\ item'[i].status = "live" => item[i].status = "live"
              /\ item'[i].status = "absent" <=> item[i].status = "absent"
    PROVE  PlanIInv'
<1>1. \A q \in Plan : LiveAmong(item', q) \subseteq LiveItems(q)
  BY DEF LiveItems, LiveAmong
<1>2. work \in [PlanRequest -> Work] /\ work' \in [PlanRequest -> Work]
      /\ work'[r] = NoWork /\ \A s \in PlanRequest \ {r} : work'[s] = work[s]
  BY NoWorkTyped DEF EndWork, PlanIInv, PlanTypeOK
<1>3. PlanTypeOK'
  BY <1>2 DEF PlanIInv, PlanTypeOK
<1>4. OneHolder' /\ FreshOnce'
  BY <1>2, NoWorkTyped DEF PlanIInv, OneHolder, FreshOnce, HoldsPlan
<1>5. NoStrayItem' /\ DeletedPlanHasNoItems'
  BY <1>1 DEF PlanIInv, NoStrayItem, DeletedPlanHasNoItems, LiveItems
<1>6. ItemsOfOneUpdate'
  <2> SUFFICES ASSUME NEW q \in Plan,
                      NEW i \in LiveAmong(item', q), NEW j \in LiveAmong(item', q)
               PROVE  item'[i].together = item'[j].together
    BY DEF ItemsOfOneUpdate, LiveItems
  <2>1. i \in LiveItems(q) /\ j \in LiveItems(q) /\ i \in Item /\ j \in Item
    BY <1>1 DEF LiveItems, LiveAmong
  <2> QED
    BY <2>1 DEF PlanIInv, ItemsOfOneUpdate
<1>7. WorkFits'
  <2> SUFFICES ASSUME NEW s \in PlanRequest \ {r}
               PROVE  /\ work[s].at # "idle" =>
                            work[s].plan \in Plan /\ plan[work[s].plan] # "absent"
                      /\ work[s].at # "cleared" => work[s].gone = {} /\ work[s].fresh = {}
                      /\ work[s].at = "clearing" =>
                            work[s].outrun \/ LiveAmong(item', work[s].plan) \subseteq work[s].target
                      /\ work[s].at = "cleared" =>
                            work[s].outrun \/ LiveAmong(item', work[s].plan) \subseteq work[s].gone
                      /\ work[s].outrun => work[s].kind = "deleteAsKey"
                      /\ work[s].at = "saved" => work[s].kind # "deleteAsKey"
                      /\ \A i \in work[s].gone : item'[i].plan = work[s].plan
                      /\ \A i \in work[s].fresh : item'[i].status = "absent"
                      /\ work[s].kind # "update" => work[s].fresh = {}
                      /\ \A i \in work[s].target : item'[i].status # "absent"
    BY <1>2, NoWorkTyped DEF WorkFits, LiveItems
  <2>1. /\ work[s].gone \in SUBSET Item /\ work[s].fresh \in SUBSET Item
        /\ work[s].target \in SUBSET Item
    BY <1>2 DEF Work
  <2>2. /\ work[s].at # "idle" =>
              work[s].plan \in Plan /\ plan[work[s].plan] # "absent"
        /\ work[s].at # "cleared" => work[s].gone = {} /\ work[s].fresh = {}
        /\ work[s].at = "clearing" =>
              work[s].outrun \/ LiveItems(work[s].plan) \subseteq work[s].target
        /\ work[s].at = "cleared" =>
              work[s].outrun \/ LiveItems(work[s].plan) \subseteq work[s].gone
        /\ work[s].outrun => work[s].kind = "deleteAsKey"
        /\ work[s].at = "saved" => work[s].kind # "deleteAsKey"
        /\ \A i \in work[s].gone : item[i].plan = work[s].plan
        /\ \A i \in work[s].fresh : item[i].status = "absent"
        /\ work[s].kind # "update" => work[s].fresh = {}
        /\ \A i \in work[s].target : item[i].status # "absent"
    BY DEF PlanIInv, WorkFits
  <2>3. work[s].at \in {"clearing", "cleared"} => work[s].plan \in Plan
    BY <2>2
  <2> QED
    BY <1>1, <2>1, <2>2, <2>3
<1> QED
  BY <1>3, <1>4, <1>5, <1>6, <1>7 DEF PlanIInv

LEMMA DeleteItemStep ==
    ASSUME PlanIInv, NEW r \in PlanRequest, DeleteItem(r)
    PROVE  PlanIInv'
<1>1. item \in [Item -> ItemRow] /\ work[r] \in Work
      /\ \A i \in work[r].target : item[i].status # "absent"
  BY DEF PlanIInv, PlanTypeOK, WorkFits
<1>2. \A i \in Item :
        item'[i] = IF i \in work[r].target
                   THEN [item[i] EXCEPT !.status = "deleted"] ELSE item[i]
  BY DEF DeleteItem
<1>3. \A i \in Item :
        /\ item'[i] \in ItemRow
        /\ item'[i].plan = item[i].plan /\ item'[i].together = item[i].together
        /\ item'[i].status = "live" => item[i].status = "live"
        /\ item'[i].status = "absent" <=> item[i].status = "absent"
  BY <1>1, <1>2 DEF ItemRow
<1>4. item' \in [Item -> ItemRow]
  BY <1>3 DEF DeleteItem
<1> QED
  BY <1>3, <1>4, InPlace DEF DeleteItem

LEMMA LinkItemStep ==
    ASSUME PlanIInv, NEW r \in PlanRequest, LinkItem(r)
    PROVE  PlanIInv'
<1>1. item \in [Item -> ItemRow]
  BY DEF PlanIInv, PlanTypeOK
<1>2. \A i \in Item :
        item'[i] = IF i \in work[r].target /\ item[i].status = "live"
                   THEN [item[i] EXCEPT !.linked = TRUE] ELSE item[i]
  BY DEF LinkItem
<1>3. \A i \in Item :
        /\ item'[i] \in ItemRow
        /\ item'[i].plan = item[i].plan /\ item'[i].together = item[i].together
        /\ item'[i].status = item[i].status
  BY <1>1, <1>2 DEF ItemRow
<1>4. item' \in [Item -> ItemRow]
  BY <1>3 DEF LinkItem
<1> QED
  BY <1>3, <1>4, InPlace DEF LinkItem

LEMMA CommitUpdateStep ==
    ASSUME PlanIInv, NEW r \in PlanRequest, CommitUpdate(r)
    PROVE  PlanIInv'
<1>1. work \in [PlanRequest -> Work] /\ outrun \in SUBSET Plan
      /\ work[r].kind = "update" /\ work[r].at \in {"saved", "cleared"}
  BY DEF PlanIInv, PlanTypeOK, CommitUpdate
<1>2. \A s \in PlanRequest \ {r} :
        work[s].at \in {"clearing", "cleared"} /\ work[s].plan = work[r].plan =>
            work[s].kind = "deleteAsKey"
  BY <1>1 DEF PlanIInv, OneHolder, HoldsPlan
<1>3. work' = [s \in PlanRequest |->
                 IF s = r THEN NoWork
                 ELSE [work[s] EXCEPT !.outrun =
                         @ \/ /\ work[s].kind = "deleteAsKey"
                              /\ work[s].at \in {"clearing", "cleared"}
                              /\ work[s].plan = work[r].plan
                              /\ work[r].fresh # {}]]
      /\ plan' = [plan EXCEPT ![work[r].plan] = "live"]
      /\ item' = Committed(r) /\ outrun' = outrun
  BY DEF CommitUpdate
<1>4. ASSUME NEW s \in PlanRequest \ {r}
      PROVE  /\ work'[s] \in Work
             /\ work'[s].at = work[s].at /\ work'[s].kind = work[s].kind
             /\ work'[s].plan = work[s].plan /\ work'[s].gone = work[s].gone
             /\ work'[s].fresh = work[s].fresh /\ work'[s].target = work[s].target
             /\ work[s].outrun => work'[s].outrun
             /\ work'[s].outrun => work[s].outrun \/ work[s].kind = "deleteAsKey"
             /\ work[s].at \in {"clearing", "cleared"} /\ work[s].plan = work[r].plan
                /\ work[r].fresh # {} => work'[s].outrun
  <2> DEFINE hit == /\ work[s].kind = "deleteAsKey"
                    /\ work[s].at \in {"clearing", "cleared"}
                    /\ work[s].plan = work[r].plan
                    /\ work[r].fresh # {}
  <2>1. work'[s] = [work[s] EXCEPT !.outrun = @ \/ hit] /\ work[s] \in Work
    BY <1>1, <1>3
  <2>2. hit \in BOOLEAN /\ (hit => work[s].kind = "deleteAsKey")
    OBVIOUS
  <2>3. work[s].at \in {"clearing", "cleared"} /\ work[s].plan = work[r].plan
        /\ work[r].fresh # {} => hit
    BY <1>2
  <2> HIDE DEF hit
  <2> QED
    BY <2>1, <2>2, <2>3 DEF Work
<1>5. work' \in [PlanRequest -> Work] /\ work'[r] = NoWork
  BY <1>3, <1>4, NoWorkTyped
<1> HIDE DEF CommitUpdate
<1> QED
  BY <1>1, <1>3, <1>4, <1>5, CommitStep

LEMMA CommitDeletionStep ==
    ASSUME PlanIInv, NEW r \in PlanRequest, CommitDeletion(r)
    PROVE  PlanIInv'
<1>1. work \in [PlanRequest -> Work] /\ outrun \in SUBSET Plan
      /\ work[r].kind # "update" /\ work[r].at = "cleared"
  BY DEF PlanIInv, PlanTypeOK, CommitDeletion
<1>2. work[r].plan \in Plan /\ work[r].fresh = {}
  BY <1>1 DEF PlanIInv, WorkFits
<1>3. work' \in [PlanRequest -> Work] /\ work'[r] = NoWork
      /\ \A s \in PlanRequest \ {r} : work'[s] = work[s]
  BY <1>1, NoWorkTyped DEF CommitDeletion, EndWork
<1>4. /\ plan' = [plan EXCEPT ![work[r].plan] = "deleted"] /\ item' = Committed(r)
      /\ outrun' \in SUBSET Plan
      /\ \A q \in Plan \ {work[r].plan} : q \in outrun <=> q \in outrun'
      /\ work[r].outrun => work[r].plan \in outrun'
  BY <1>1, <1>2 DEF CommitDeletion
<1> QED
  BY <1>1, <1>2, <1>3, <1>4, CommitStep

LEMMA PlanStep ==
    PlanIInv /\ [PlanNext]_planVars => PlanIInv'
<1> SUFFICES ASSUME PlanIInv, [PlanNext]_planVars
             PROVE  PlanIInv'
  OBVIOUS
<1>1. CASE UNCHANGED planVars
  BY <1>1 DEF planVars, PlanIInv, PlanTypeOK, OneHolder, HoldsPlan, WorkFits, FreshOnce,
              NoStrayItem, DeletedPlanHasNoItems, ItemsOfOneUpdate, LiveItems
<1>2. ASSUME NEW p \in Plan, PlanNotFound(p) \/ \E S \in SUBSET Item : CreatePlan(p, S)
      PROVE  PlanIInv'
  BY <1>1, <1>2, CreatePlanStep DEF PlanNotFound
<1>3. ASSUME NEW r \in PlanRequest, NEW p \in Plan, NEW kind \in WorkKind,
             LoadPlan(r, p, kind)
      PROVE  PlanIInv'
  BY <1>3, LoadPlanStep
<1>4. ASSUME NEW r \in PlanRequest, CommitUpdate(r)
      PROVE  PlanIInv'
  BY <1>4, CommitUpdateStep
<1>5. ASSUME NEW r \in PlanRequest, CommitDeletion(r)
      PROVE  PlanIInv'
  BY <1>5, CommitDeletionStep
<1>6. ASSUME NEW r \in PlanRequest, RollBack(r)
      PROVE  PlanIInv'
  BY <1>6, EndsQuietly DEF RollBack
<1> QED
  BY <1>1, <1>2, <1>3, <1>4, <1>5, <1>6, SavePlanStep, StartClearingStep, ClearItemsStep, AddItemStep,
     FindItemStep, DeleteItemStep, LinkItemStep DEF PlanNext

\* The inductive invariant, from which the theorems follow.
LEMMA PlanInvariant == PlanSpec => []PlanIInv
BY PlanInitial, PlanStep, PTL DEF PlanSpec

-----------------------------------------------------------------------------
(* Theorems                                                                *)

\* Rows and requests keep their types.
THEOREM PlanTypeCorrect == PlanSpec => []PlanTypeOK
BY PlanInvariant, PTL DEF PlanIInv

\* A deleted plan has no live item, whatever overlaps, except one whose deletion,
\* by a key without a user, an update has outrun.
THEOREM DeletionComplete == PlanSpec => []DeletedPlanHasNoItems
BY PlanInvariant, PTL DEF PlanIInv

\* Items of two updates are never mixed.
THEOREM UpdatesNotMixed == PlanSpec => []ItemsOfOneUpdate
BY PlanInvariant, PTL DEF PlanIInv

\* Only what an action writes on items matters for their deletion.
LEMMA DeletedItemsStep ==
    ASSUME PlanIInv, [PlanNext]_planVars, NEW i \in Item, item[i].status = "deleted"
    PROVE  item'[i].status = "deleted"
<1>1. CASE item' = item
  BY <1>1
<1>2. ASSUME NEW p \in Plan, NEW S \in SUBSET Item, CreatePlan(p, S)
      PROVE  item'[i].status = "deleted"
  BY <1>2 DEF CreatePlan, NewRows, UnusedItems
<1>3. ASSUME NEW r \in PlanRequest, work[r].at \in {"saved", "cleared"}, item' = Committed(r)
      PROVE  item'[i].status = "deleted"
  BY <1>3, CommittedItems
<1>4. ASSUME NEW r \in PlanRequest, DeleteItem(r) \/ LinkItem(r)
      PROVE  item'[i].status = "deleted"
  BY <1>4 DEF DeleteItem, LinkItem, PlanIInv, PlanTypeOK, ItemRow
<1>5. ASSUME NEW r \in PlanRequest, CommitUpdate(r) \/ CommitDeletion(r)
      PROVE  work[r].at \in {"saved", "cleared"} /\ item' = Committed(r)
  BY <1>5 DEF CommitUpdate, CommitDeletion
<1>6. ASSUME NEW r \in PlanRequest,
             SavePlan(r) \/ StartClearing(r) \/ ClearItems(r) \/ AddItem(r) \/ FindItem(r) \/ RollBack(r)
      PROVE  item' = item
  BY <1>6 DEF SavePlan, StartClearing, ClearItems, AddItem, FindItem, RollBack
<1>7. ASSUME NEW r \in PlanRequest, NEW p \in Plan, NEW kind \in WorkKind,
             LoadPlan(r, p, kind)
      PROVE  item' = item
  BY <1>7 DEF LoadPlan
<1>8. ASSUME NEW p \in Plan, PlanNotFound(p)
      PROVE  item' = item
  BY <1>8 DEF PlanNotFound, planVars
<1>9. CASE UNCHANGED planVars
  BY <1>1, <1>9 DEF planVars
<1> QED
  BY <1>1, <1>2, <1>3, <1>4, <1>5, <1>6, <1>7, <1>8, <1>9 DEF PlanNext

\* A deleted item never comes back.
THEOREM DeletionOfItemsFinal == PlanSpec => DeletedItemsStay
<1>1. PlanIInv /\ [PlanNext]_planVars =>
        [\A i \in Item : item[i].status = "deleted" => item'[i].status = "deleted"]_planVars
  BY DeletedItemsStep
<1> QED
  BY <1>1, PlanInvariant, PTL DEF PlanSpec, DeletedItemsStay

-----------------------------------------------------------------------------
(* The run of sessions, keys, plans and the calendar                       *)

\* Each behaviour of the run is one of every component, most of which rest: what
\* is proved of a component holds in the run.
LEMMA SessionsRun ==
    SessionsSpec => Spec /\ AuthSpec /\ KeySpec /\ PlanSpec
<1>1. SessionsInit => Init /\ AuthInit /\ KeyInit /\ PlanInit
  BY DEF SessionsInit
<1>2. [SessionsNext]_sessionsVars => [Next]_vars /\ [AuthNext]_authVars /\ [KeyNext]_keyVars /\ [PlanNext]_planVars
  BY DEF SessionsNext, sessionsVars
<1> QED BY <1>1, <1>2, PTL DEF SessionsSpec, Spec, AuthSpec, KeySpec, PlanSpec

\* The types of the calendar sync, sessions, keys and plans, together.
THEOREM SessionTypes == SessionsSpec => []SessionTypesOK
<1>1. TypeOK /\ AuthIInv /\ KeyIInv /\ PlanTypeOK => SessionTypesOK
  BY DEF AuthIInv, KeyIInv, SessionTypesOK
<1> QED BY <1>1, SessionsRun, TypeCorrect, AuthInvariant, KeyInvariant, PlanTypeCorrect, PTL

=============================================================================
