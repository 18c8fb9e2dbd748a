--------------------------- MODULE WebServerProofs ---------------------------
(***************************************************************************)
(* Proofs about WebServer, for any finite number of concurrent requests,   *)
(* any limit, and any number of passwords, connections and tasks.          *)
(***************************************************************************)
EXTENDS WebServer, FiniteSetTheorems, TLAPS

(***************************************************************************)
(* The inductive invariant.                                                *)
(***************************************************************************)
TypeOK ==
    /\ req = [w \in Workers |-> req[w]]
    /\ admin = [password |-> admin.password, version |-> admin.version]
    /\ admin.version \in Nat /\ failures \in Nat

\* Logins that have passed the check of the limit and may still count a failure.
Verifying == {w \in Workers : At(w, "login", "verify") \/ At(w, "login", "count")}

\* The failures counted, and those still to come, stay below the limit and one per request.
FailuresAreReserved == failures + Cardinality(Verifying) <= Limit - 1 + Cardinality(Workers)

\* There is an administrator before anybody has verified its password.
AdminBeforeSessions ==
    /\ sessions # {} => admin.version # 0
    /\ \A w \in Workers : At(w, "login", "insert") => admin.version # 0

\* Logins that have verified a password that has been changed since.
StaleLogins == {w \in Workers : At(w, "login", "insert") /\ req[w].version # admin.version}

\* The sessions of old passwords, and those still to come, leave out at least one request:
\* the one that made the last change.
StaleAreReserved == IsFiniteSet(Stale) /\ Cardinality(Stale) + Cardinality(StaleLogins) < Cardinality(Workers)

IndInv == TypeOK /\ FailuresAreReserved /\ AdminBeforeSessions /\ StaleAreReserved
-----------------------------------------------------------------------------
\* Any set of requests is finite and no larger than the set of all of them.
LEMMA RequestsAreBounded ==
    ASSUME NEW V \in SUBSET Workers
    PROVE  /\ IsFiniteSet(V) /\ Cardinality(V) \in Nat /\ Cardinality(Workers) \in Nat
           /\ Cardinality(V) <= Cardinality(Workers)
BY WorkersAssumption, FS_Subset, FS_CardinalityType

\* A server without failures, sessions and requests.
LEMMA InitInv == Init => IndInv
<1> SUFFICES ASSUME Init PROVE IndInv
  OBVIOUS
<1>1. TypeOK /\ AdminBeforeSessions
  BY DEF Init, TypeOK, AdminBeforeSessions, At, Idle
<1>2. failures = 0 /\ Verifying \in SUBSET Workers
  BY DEF Init, Verifying
<1>3. FailuresAreReserved
  BY <1>2, RequestsAreBounded, LimitAssumption DEF FailuresAreReserved
<1>4. Stale = {} /\ StaleLogins = {}
  BY DEF Init, Stale, StaleLogins, At, Idle
<1>5. StaleAreReserved
  <2>1. IsFiniteSet(Stale) /\ Cardinality(Stale) = 0 /\ Cardinality(StaleLogins) = 0
    BY <1>4, FS_EmptySet
  <2>2. Cardinality(Workers) \in Nat /\ Cardinality(Workers) # 0
    BY WorkersAssumption, FS_CardinalityType, FS_EmptySet
  <2> QED
    BY <2>1, <2>2 DEF StaleAreReserved
<1> QED
  BY <1>1, <1>3, <1>5 DEF IndInv

\* What a step does to the failures that were counted and reserved.
Reserves ==
    \/ failures' <= failures /\ Verifying' \subseteq Verifying
    \/ failures' < Limit
    \/ failures' = failures + 1 /\ \E w \in Verifying : Verifying' = Verifying \ {w}

\* A request that gets its slot keeps the count of failures and reservations.
LEMMA ReservesKeeps ==
    ASSUME TypeOK, TypeOK', FailuresAreReserved, Reserves PROVE FailuresAreReserved'
<1>1. /\ IsFiniteSet(Verifying) /\ IsFiniteSet(Verifying')
      /\ Cardinality(Verifying) \in Nat /\ Cardinality(Verifying') \in Nat
      /\ Cardinality(Workers) \in Nat /\ Cardinality(Verifying') <= Cardinality(Workers)
  <2>1. Verifying \in SUBSET Workers /\ Verifying' \in SUBSET Workers
    BY DEF Verifying
  <2> QED
    BY <2>1, RequestsAreBounded
<1>2. CASE failures' <= failures /\ Verifying' \subseteq Verifying
  <2>1. Cardinality(Verifying') <= Cardinality(Verifying)
    BY <1>1, <1>2, FS_Subset
  <2> QED
    BY <1>1, <1>2, <2>1, LimitAssumption DEF FailuresAreReserved, TypeOK
<1>3. CASE failures' < Limit
  BY <1>1, <1>3, LimitAssumption DEF FailuresAreReserved, TypeOK
<1>4. CASE failures' = failures + 1 /\ \E w \in Verifying : Verifying' = Verifying \ {w}
  <2>1. PICK w \in Verifying : Verifying' = Verifying \ {w}
    BY <1>4
  <2>2. Cardinality(Verifying') = Cardinality(Verifying) - 1
    BY <1>1, <2>1, FS_RemoveElement
  <2> QED
    BY <1>1, <1>4, <2>2, LimitAssumption DEF FailuresAreReserved, TypeOK
<1> QED
  BY <1>2, <1>3, <1>4 DEF Reserves

\* What a step does to the sessions of old passwords: it adds none, it deletes all of them
\* on behalf of a request that is no login, or a login turns into a session.
Ages ==
    \/ Stale' \subseteq Stale /\ StaleLogins' \subseteq StaleLogins
    \/ Stale' = {} /\ \E w \in Workers : w \notin StaleLogins'
    \/ \E w \in StaleLogins, s \in sessions' :
          Stale' \subseteq Stale \cup {s} /\ StaleLogins' \subseteq StaleLogins \ {w}

\* Such a step keeps the bound on sessions of old passwords.
LEMMA AgesKeeps ==
    ASSUME StaleAreReserved, Ages PROVE StaleAreReserved'
<1> DEFINE L == StaleLogins
           M == StaleLogins'
           S == Stale
           T == Stale'
<1>1. /\ IsFiniteSet(L) /\ IsFiniteSet(M) /\ Cardinality(L) \in Nat /\ Cardinality(M) \in Nat
      /\ Cardinality(Workers) \in Nat /\ L \subseteq Workers /\ M \subseteq Workers
  <2>1. L \in SUBSET Workers /\ M \in SUBSET Workers
    BY DEF StaleLogins
  <2> QED
    BY <2>1, RequestsAreBounded
<1>2. IsFiniteSet(S) /\ Cardinality(S) \in Nat /\ Cardinality(S) + Cardinality(L) < Cardinality(Workers)
  BY FS_CardinalityType DEF StaleAreReserved
<1>3. \/ T \subseteq S /\ M \subseteq L
      \/ T = {} /\ \E w \in Workers : w \notin M
      \/ \E w \in L, s \in sessions' : T \subseteq S \cup {s} /\ M \subseteq L \ {w}
  BY DEF Ages
<1> SUFFICES IsFiniteSet(T) /\ Cardinality(T) + Cardinality(M) < Cardinality(Workers)
  BY DEF StaleAreReserved
<1> HIDE DEF L, M, S, T
<1>4. CASE T \subseteq S /\ M \subseteq L
  <2>1. IsFiniteSet(T) /\ Cardinality(T) <= Cardinality(S) /\ Cardinality(T) \in Nat
    BY <1>2, <1>4, FS_Subset, FS_CardinalityType
  <2>2. Cardinality(M) <= Cardinality(L)
    BY <1>1, <1>4, FS_Subset
  <2> QED
    BY <1>1, <1>2, <2>1, <2>2
<1>5. CASE T = {} /\ \E w \in Workers : w \notin M
  <2>1. IsFiniteSet(T) /\ Cardinality(T) = 0
    BY <1>5, FS_EmptySet
  <2>2. PICK w \in Workers : w \notin M
    BY <1>5
  <2>3. IsFiniteSet(Workers \ {w}) /\ Cardinality(Workers \ {w}) = Cardinality(Workers) - 1
    BY WorkersAssumption, FS_RemoveElement
  <2>4. Cardinality(M) <= Cardinality(Workers \ {w})
    BY <1>1, <2>2, <2>3, FS_Subset
  <2> QED
    BY <1>1, <2>1, <2>3, <2>4
<1>6. CASE \E w \in L, s \in sessions' : T \subseteq S \cup {s} /\ M \subseteq L \ {w}
  <2>1. PICK w \in L, s \in sessions' : T \subseteq S \cup {s} /\ M \subseteq L \ {w}
    BY <1>6
  <2>2. /\ IsFiniteSet(S \cup {s}) /\ Cardinality(S \cup {s}) \in Nat
        /\ Cardinality(S \cup {s}) <= Cardinality(S) + 1
    <3>1. /\ IsFiniteSet(S \cup {s})
          /\ \/ Cardinality(S \cup {s}) = Cardinality(S)
             \/ Cardinality(S \cup {s}) = Cardinality(S) + 1
      BY <1>2, FS_AddElement
    <3> QED
      BY <1>2, <3>1
  <2>3. IsFiniteSet(T) /\ Cardinality(T) \in Nat /\ Cardinality(T) <= Cardinality(S \cup {s})
    BY <2>1, <2>2, FS_Subset, FS_CardinalityType
  <2>4. IsFiniteSet(L \ {w}) /\ Cardinality(L \ {w}) = Cardinality(L) - 1
    BY <1>1, FS_RemoveElement
  <2>5. Cardinality(M) <= Cardinality(L \ {w})
    BY <1>1, <2>1, <2>4, FS_Subset
  <2> QED
    BY <1>1, <1>2, <2>2, <2>3, <2>4, <2>5
<1> QED
  BY <1>3, <1>4, <1>5, <1>6

\* Every handler step keeps the parts of the invariant that count nothing.
LEMMA PlainStep ==
    ASSUME IndInv, [Next]_vars
    PROVE  TypeOK' /\ AdminBeforeSessions' /\ Reserves /\ Ages
<1> DEFINE Goal == TypeOK' /\ AdminBeforeSessions' /\ Reserves /\ Ages
<1> USE LimitAssumption
    DEF IndInv, TypeOK, AdminBeforeSessions, Reserves, Verifying, Ages, Stale, StaleLogins,
        At, Goto, Respond, Accept, Idle, Authenticated, Referenced, authState, catalog
<1>1. ASSUME NEW w \in Workers, NEW p \in Passwords, BootstrapInit(w, p) PROVE Goal
  BY <1>1 DEF BootstrapInit
<1>2. ASSUME NEW w \in Workers, NEW p \in Passwords, Login(w, p) PROVE Goal
  <2>1. TypeOK' /\ AdminBeforeSessions' /\ Reserves
    BY <1>2 DEF Login
  <2>2. Stale' = Stale
    BY <1>2 DEF Login
  <2>3. StaleLogins' \subseteq StaleLogins
    BY <1>2 DEF Login
  <2> QED
    BY <2>1, <2>2, <2>3
<1>3. ASSUME NEW w \in Workers, NEW old \in Passwords, NEW new \in Passwords, ChangePassword(w, old, new) PROVE Goal
  BY <1>3 DEF ChangePassword
<1>4. ASSUME NEW w \in Workers, BootstrapInsert(w) PROVE Goal
  BY <1>4 DEF BootstrapInsert
<1>5. ASSUME NEW w \in Workers, LoginVerify(w) PROVE Goal
  <2>1. TypeOK' /\ AdminBeforeSessions' /\ Reserves
    BY <1>5 DEF LoginVerify
  <2>2. Stale' = Stale
    BY <1>5 DEF LoginVerify
  <2>3. StaleLogins' \subseteq StaleLogins
    BY <1>5 DEF LoginVerify
  <2> QED
    BY <2>1, <2>2, <2>3
<1>6. ASSUME NEW w \in Workers, LoginCount(w) PROVE Goal
  <2>1. w \in Verifying /\ Verifying' = Verifying \ {w}
    BY <1>6 DEF LoginCount
  <2>2. TypeOK' /\ AdminBeforeSessions' /\ Ages
    BY <1>6 DEF LoginCount
  <2>3. failures' = failures + 1
    BY <1>6 DEF LoginCount
  <2> QED
    BY <2>1, <2>2, <2>3 DEF Reserves
<1>7. ASSUME NEW w \in Workers, LoginInsert(w) PROVE Goal
  <2>1. TypeOK' /\ AdminBeforeSessions' /\ Reserves
    <3>1. TypeOK'
      BY <1>7 DEF LoginInsert
    <3>2. AdminBeforeSessions'
      BY <1>7 DEF LoginInsert
    <3>3. failures' = failures /\ Verifying' = Verifying
      BY <1>7 DEF LoginInsert
    <3> QED
      BY <3>1, <3>2, <3>3
  <2> DEFINE s == [id |-> req[w].id, version |-> req[w].version]
  <2>2. sessions' = sessions \cup {s} /\ s.version = req[w].version /\ admin' = admin
    BY <1>7 DEF LoginInsert
  <2>3. StaleLogins' \subseteq StaleLogins \ {w}
    BY <1>7 DEF LoginInsert
  <2>4. CASE w \in StaleLogins
    <3>1. Stale' \subseteq Stale \cup {s} /\ s \in sessions'
      BY <2>2
    <3>2. Ages
      BY <2>3, <2>4, <3>1, Zenon DEF Ages
    <3> QED
      BY <2>1, <3>2, Zenon
  <2>5. CASE w \notin StaleLogins
    <3>1. s.version = admin.version
      BY <1>7, <2>2, <2>5 DEF LoginInsert
    <3>2. Stale' \subseteq Stale
      BY <2>2, <3>1
    <3> QED
      BY <2>1, <2>3, <3>2
  <2> QED
    BY <2>4, <2>5
<1>8. ASSUME NEW w \in Workers, LoginReset(w) PROVE Goal
  BY <1>8 DEF LoginReset
<1>9. ASSUME NEW w \in Workers, Logout(w) PROVE Goal
  BY <1>9 DEF Logout
<1>10. ASSUME NEW w \in Workers, LogoutDelete(w) PROVE Goal
  BY <1>10 DEF LogoutDelete
<1>11. ASSUME NEW w \in Workers, ChangeVerify(w) PROVE Goal
  <2>1. TypeOK' /\ AdminBeforeSessions' /\ Reserves
    BY <1>11 DEF ChangeVerify
  <2>2. Stale' = Stale
    BY <1>11 DEF ChangeVerify
  <2>3. StaleLogins' \subseteq StaleLogins
    BY <1>11 DEF ChangeVerify
  <2> QED
    BY <2>1, <2>2, <2>3
<1>12. ASSUME NEW w \in Workers, ChangeCommit(w) PROVE Goal
  BY <1>12 DEF ChangeCommit
<1>13. ASSUME NEW w \in Workers, NEW c \in Conns, CreateConnection(w, c) PROVE Goal
  BY <1>13 DEF CreateConnection
<1>14. ASSUME NEW w \in Workers, NEW c \in Conns, UpdateConnection(w, c) PROVE Goal
  BY <1>14 DEF UpdateConnection
<1>15. ASSUME NEW w \in Workers, NEW c \in Conns, DeleteConnection(w, c) PROVE Goal
  BY <1>15 DEF DeleteConnection
<1>16. ASSUME NEW w \in Workers, UpdateSave(w) PROVE Goal
  BY <1>16 DEF UpdateSave
<1>17. ASSUME NEW w \in Workers, DeleteConnectionRow(w) PROVE Goal
  BY <1>17 DEF DeleteConnectionRow
<1>18. ASSUME NEW w \in Workers, NEW c \in Conns, NEW d \in Conns, CreateTask(w, c, d) PROVE Goal
  BY <1>18 DEF CreateTask, SaveTask
<1>19. ASSUME NEW w \in Workers, NEW t \in tasks, CopyTask(w, t) PROVE Goal
  BY <1>19 DEF CopyTask, SaveTask
<1>20. ASSUME NEW w \in Workers, NEW t \in tasks, StartTask(w, t) PROVE Goal
  BY <1>20 DEF StartTask
<1>21. ASSUME NEW w \in Workers, NEW t \in tasks, DeleteTask(w, t) PROVE Goal
  BY <1>21 DEF DeleteTask
<1>22. ASSUME NEW w \in Workers, StartRun(w) PROVE Goal
  BY <1>22 DEF StartRun
<1>23. ASSUME NEW w \in Workers, DeleteTaskRow(w) PROVE Goal
  BY <1>23 DEF DeleteTaskRow
<1>24. ASSUME NEW w \in Workers, Abort(w) PROVE Goal
  <2>1. TypeOK' /\ AdminBeforeSessions' /\ Reserves
    BY <1>24 DEF Abort
  <2>2. Stale' = Stale
    BY <1>24 DEF Abort
  <2>3. StaleLogins' \subseteq StaleLogins
    BY <1>24 DEF Abort
  <2> QED
    BY <2>1, <2>2, <2>3
<1>25. ASSUME MinutePasses PROVE Goal
  BY <1>25 DEF MinutePasses
<1>26. ASSUME NEW s \in sessions, SessionExpires(s) PROVE Goal
  BY <1>26 DEF SessionExpires
<1>27. ASSUME NEW t \in active, RunEnds(t) PROVE Goal
  BY <1>27 DEF RunEnds
<1>28. CASE UNCHANGED vars
  BY <1>28 DEF vars
<1> QED
  BY <1>1, <1>2, <1>3, <1>4, <1>5, <1>6, <1>7, <1>8, <1>9, <1>10, <1>11, <1>12, <1>13, <1>14, <1>15, <1>16, <1>17, <1>18, <1>19, <1>20, <1>21, <1>22, <1>23, <1>24, <1>25, <1>26, <1>27, <1>28 DEF Next, AuthStep, CatalogStep

\* Every handler of the server keeps the invariant.
LEMMA InvStep == IndInv /\ [Next]_vars => IndInv'
BY PlainStep, ReservesKeeps, AgesKeeps DEF IndInv

\* The invariant of the web server holds for every interleaving of its requests.
THEOREM Invariance == Spec => []IndInv
BY InitInv, InvStep, PTL DEF Spec

\* The count of failed logins exceeds the limit by less than the number of requests
\* that run at the same time, although it is checked before and counted after the hash.
THEOREM LoginFailuresAreBounded == Spec => []FailuresBounded
<1>1. IndInv => FailuresBounded
  <2>1. Verifying \in SUBSET Workers
    BY DEF Verifying
  <2> QED
    BY <2>1, RequestsAreBounded, LimitAssumption DEF IndInv, TypeOK, FailuresAreReserved, FailuresBounded
<1> QED
  BY <1>1, Invariance, PTL

\* However many logins and changes of the password overlap, the sessions of old passwords
\* are fewer than the requests that run at the same time: a change deletes all of them, and
\* only a login that was in flight brings one back.
THEOREM OldSessionsAreFew == Spec => []StaleSessionsBounded
<1>1. IndInv => StaleSessionsBounded
  <2>1. StaleLogins \in SUBSET Workers
    BY DEF StaleLogins
  <2> QED
    BY <2>1, RequestsAreBounded, FS_CardinalityType DEF IndInv, StaleAreReserved, StaleSessionsBounded
<1> QED
  BY <1>1, Invariance, PTL

==============================================================================
