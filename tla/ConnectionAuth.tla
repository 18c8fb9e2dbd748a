--------------------------- MODULE ConnectionAuth ---------------------------
(***************************************************************************)
(* Credentials of a connection (cmd/redisshakeweb/connection_auth.go) and  *)
(* what the API does with them: create, update, test, list, generate the   *)
(* task's configuration (api.go, store.go, redis.go, config.go).           *)
(***************************************************************************)
EXTENDS Integers

Modes == {"none", "password", "username", "username_password"}
Refused == "refused"

inferAuthMode(c) ==
    IF c.mode # "" THEN c.mode
    ELSE CASE c.username # "" /\ c.password # "" -> "username_password"
           [] c.username # "" /\ c.password = "" -> "username"
           [] c.username = "" /\ c.password # "" -> "password"
           [] c.username = "" /\ c.password = "" -> "none"

\* A pair of credentials that cannot be used has mode Refused.
normalizeCredentials(c) ==
    LET mode == inferAuthMode(c)
        username == IF mode \in {"username", "username_password"} THEN c.username ELSE ""
        password == IF mode \in {"password", "username_password"} THEN c.password ELSE ""
        complete == /\ mode \in {"username", "username_password"} => username \notin {"", " "}
                    /\ mode \in {"password", "username_password"} => password # ""
    IN [mode |-> IF mode \in Modes /\ complete THEN mode ELSE Refused,
        username |-> username, password |-> password]

NoCredentials == [mode |-> "none", username |-> "", password |-> ""]

\* A connection has a kind, the credentials of Redis and those of Sentinel.
normalizeConnectionAuth(c) ==
    [kind |-> c.kind,
     redis |-> normalizeCredentials(c.redis),
     sentinel |-> IF c.kind = "sentinel" THEN normalizeCredentials(c.sentinel) ELSE NoCredentials]

IsRefused(c) == Refused \in {c.redis.mode, c.sentinel.mode}

\* Fault: a blank password keeps the old one only if no mode is given.
KeptIfUnset(form, old) ==
    [form EXCEPT !.password = IF @ = "" /\ form.mode = "" THEN old.password ELSE @]

\* A blank password keeps the old one in the modes that use a password.
Kept(form, old) ==
    [form EXCEPT !.password = IF @ = "" /\ form.mode \in {"", "password", "username_password"}
                              THEN old.password ELSE @]

prepareConnection(form, old) ==
    normalizeConnectionAuth([kind |-> form.kind, redis |-> Kept(form.redis, old.redis),
                             sentinel |-> Kept(form.sentinel, old.sentinel)])

\* What the API shows of a connection.
Hidden(c) == [mode |-> inferAuthMode(c), username |-> c.username, password |-> ""]
safe(c) == [kind |-> c.kind, redis |-> Hidden(c.redis), sentinel |-> Hidden(c.sentinel)]

\* createConnection and updateConnection: the row afterwards, or the old one if they refuse.
Saved(form, old) == LET c == prepareConnection(form, old) IN IF IsRefused(c) THEN old ELSE c

\* testConnection checks the form; redisClient and generateConfig normalise once more.
Tested(form, old) == normalizeConnectionAuth(prepareConnection(form, old))
Used(row) == normalizeConnectionAuth(row)
=============================================================================
