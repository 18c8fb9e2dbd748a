-------------------------- MODULE ConformanceProofs --------------------------
(***************************************************************************)
(* Proofs about the functions of Conformance that need no induction over   *)
(* their data: the lag report, for any histories, chains of replicas and   *)
(* MaxHops, and the credentials of a connection, for any forms and rows.   *)
(***************************************************************************)
EXTENDS Conformance, SequenceTheorems, WellFoundedInduction, TLAPS

(***************************************************************************)
(* Credentials.                                                            *)
(***************************************************************************)
IsPair(c) == c = [mode |-> c.mode, username |-> c.username, password |-> c.password]

\* A mode is never blank once it is inferred.
LEMMA Inferred ==
    ASSUME NEW c
    PROVE  inferAuthMode(c) # "" /\ (c.mode # "" => inferAuthMode(c) = c.mode)
BY DEF inferAuthMode

\* What normalising leaves of a pair.
LEMMA NormalFacts ==
    ASSUME NEW c
    PROVE  /\ normalizeCredentials(c).mode \in {inferAuthMode(c), Refused}
           /\ normalizeCredentials(c).username =
                  IF inferAuthMode(c) \in {"username", "username_password"} THEN c.username ELSE ""
           /\ normalizeCredentials(c).password =
                  IF inferAuthMode(c) \in {"password", "username_password"} THEN c.password ELSE ""
           /\ IsPair(normalizeCredentials(c))
           /\ normalizeCredentials(c).mode # Refused => inferAuthMode(c) \in Modes
BY DEF normalizeCredentials, IsPair

\* Normalising a pair again changes nothing, and what was refused stays refused.
LEMMA NormalTwice ==
    ASSUME NEW c
    PROVE  LET n == normalizeCredentials(c)
           IN  /\ n.mode # Refused => normalizeCredentials(n) = n
               /\ n.mode = Refused => normalizeCredentials(n).mode = Refused
<1> DEFINE n == normalizeCredentials(c)
<1> DEFINE m == inferAuthMode(c)
<1>1. /\ n.mode \in {m, Refused}
      /\ n.username = IF m \in {"username", "username_password"} THEN c.username ELSE ""
      /\ n.password = IF m \in {"password", "username_password"} THEN c.password ELSE ""
      /\ IsPair(n)
      /\ n.mode # Refused => m \in Modes
  BY NormalFacts
<1>2. m # ""
  BY Inferred
<1>3. inferAuthMode(n) = n.mode
  <2>1. n.mode # ""
    BY <1>1, <1>2 DEF Refused
  <2> QED BY <2>1, Inferred
<1>4. ASSUME n.mode = Refused PROVE normalizeCredentials(n).mode = Refused
  BY <1>3, <1>4 DEF normalizeCredentials, Modes, Refused
<1>5. ASSUME n.mode # Refused PROVE normalizeCredentials(n) = n
  <2>1. n.mode = m /\ m \in Modes
    BY <1>1, <1>5
  <2>2. /\ m \in {"username", "username_password"} => c.username \notin {"", " "}
        /\ m \in {"password", "username_password"} => c.password # ""
    BY <1>5 DEF normalizeCredentials
  <2>3. inferAuthMode(n) = m
    BY <1>3, <2>1
  <2> HIDE DEF n, m
  <2>4. normalizeCredentials(n) = [mode |-> m, username |-> n.username, password |-> n.password]
    BY <1>1, <2>1, <2>2, <2>3 DEF normalizeCredentials
  <2> QED BY <1>1, <2>1, <2>4 DEF IsPair
<1> QED BY <1>4, <1>5

\* A pair with another password.
LEMMA OtherPassword ==
    ASSUME NEW c, NEW v, IsPair(c)
    PROVE  [c EXCEPT !.password = v] = [mode |-> c.mode, username |-> c.username, password |-> v]
BY DEF IsPair

\* A pair that a form keeps: its mode, and its password in the modes without one.
LEMMA KeptFacts ==
    ASSUME NEW c, NEW old, IsPair(c)
    PROVE  /\ IsPair(Kept(c, old)) /\ Kept(c, old).mode = c.mode /\ Kept(c, old).username = c.username
           /\ Kept(c, old).password = IF c.password = "" /\ c.mode \in {"", "password", "username_password"}
                                      THEN old.password ELSE c.password
<1> DEFINE v == IF c.password = "" /\ c.mode \in {"", "password", "username_password"} THEN old.password ELSE c.password
<1>1. Kept(c, old) = [c EXCEPT !.password = v]
  BY DEF Kept
<1> HIDE DEF v
<1>2. Kept(c, old) = [mode |-> c.mode, username |-> c.username, password |-> v]
  BY <1>1, OtherPassword
<1>3. IsPair(Kept(c, old)) /\ Kept(c, old).mode = c.mode /\ Kept(c, old).username = c.username /\ Kept(c, old).password = v
  BY <1>2 DEF IsPair
<1> QED BY <1>3 DEF v

\* What a connection without Sentinel has for it.
LEMMA NoneFacts == NoCredentials.mode # Refused /\ NoCredentials.password = ""
BY DEF NoCredentials, Refused

\* A pair as the API shows it, saved again, is what it was.
LEMMA ShownIsSame ==
    ASSUME NEW c, normalizeCredentials(c).mode # Refused
    PROVE  normalizeCredentials(Kept(Hidden(c), c)) = normalizeCredentials(c)
<1> DEFINE m == inferAuthMode(c)
<1> DEFINE k == Kept(Hidden(c), c)
<1>1. m # "" /\ m \in Modes
  BY Inferred, NormalFacts
<1>2. IsPair(Hidden(c)) /\ Hidden(c).mode = m /\ Hidden(c).username = c.username /\ Hidden(c).password = ""
  BY DEF Hidden, IsPair
<1>3. /\ k.mode = m /\ k.username = c.username
      /\ k.password = IF m \in {"", "password", "username_password"} THEN c.password ELSE ""
  BY <1>2, KeptFacts
<1>4. inferAuthMode(k) = m
  BY <1>1, <1>3, Inferred
<1> HIDE DEF m, k
<1>5. m = inferAuthMode(c)
  BY DEF m
<1>6. /\ m \in {"username", "username_password"} => k.username = c.username
      /\ m \in {"password", "username_password"} => k.password = c.password
  BY <1>3
<1> QED BY <1>4, <1>5, <1>6 DEF normalizeCredentials, k

\* A connection that is normalised again.
LEMMA ConnectionTwice ==
    ASSUME NEW c
    PROVE  LET n == normalizeConnectionAuth(c)
           IN  /\ ~ IsRefused(n) => normalizeConnectionAuth(n) = n
               /\ IsRefused(n) => IsRefused(normalizeConnectionAuth(n))
<1> DEFINE n == normalizeConnectionAuth(c)
<1>1. /\ n = [kind |-> n.kind, redis |-> n.redis, sentinel |-> n.sentinel]
      /\ n.kind = c.kind /\ n.redis = normalizeCredentials(c.redis)
      /\ n.sentinel = IF c.kind = "sentinel" THEN normalizeCredentials(c.sentinel) ELSE NoCredentials
  BY DEF normalizeConnectionAuth
<1>2. /\ n.redis.mode # Refused => normalizeCredentials(n.redis) = n.redis
      /\ n.redis.mode = Refused => normalizeCredentials(n.redis).mode = Refused
  BY <1>1, NormalTwice
<1>3. c.kind = "sentinel" => /\ n.sentinel.mode # Refused => normalizeCredentials(n.sentinel) = n.sentinel
                             /\ n.sentinel.mode = Refused => normalizeCredentials(n.sentinel).mode = Refused
  BY <1>1, NormalTwice
<1>4. c.kind # "sentinel" => n.sentinel = NoCredentials /\ n.sentinel.mode # Refused
  BY <1>1, NoneFacts
<1> DEFINE nn == normalizeConnectionAuth(n)
<1>5. /\ nn = [kind |-> n.kind, redis |-> normalizeCredentials(n.redis),
               sentinel |-> IF n.kind = "sentinel" THEN normalizeCredentials(n.sentinel) ELSE NoCredentials]
  BY DEF normalizeConnectionAuth
<1> HIDE DEF n, nn
<1>6. ASSUME ~ IsRefused(n) PROVE nn = n
  <2>1. n.redis.mode # Refused /\ n.sentinel.mode # Refused
    BY <1>6 DEF IsRefused
  <2> QED BY <1>1, <1>2, <1>3, <1>4, <1>5, <2>1
<1>7. ASSUME IsRefused(n) PROVE IsRefused(nn)
  <2>1. n.redis.mode = Refused \/ n.sentinel.mode = Refused
    BY <1>7 DEF IsRefused
  <2>2. nn.redis = normalizeCredentials(n.redis)
        /\ nn.sentinel = IF n.kind = "sentinel" THEN normalizeCredentials(n.sentinel) ELSE NoCredentials
    BY <1>5
  <2>3. nn.redis.mode = Refused \/ nn.sentinel.mode = Refused
    BY <1>1, <1>2, <1>3, <1>4, <2>1, <2>2
  <2> QED BY <2>3 DEF IsRefused
<1> QED BY <1>6, <1>7 DEF n, nn

\* What was tested is what is used.
LEMMA TestedIsUsed ==
    ASSUME NEW form, NEW old, ~ IsRefused(Tested(form, old))
    PROVE  /\ Saved(form, old) = prepareConnection(form, old) /\ ~ IsRefused(prepareConnection(form, old))
           /\ Used(Saved(form, old)) = Tested(form, old)
<1> DEFINE p == prepareConnection(form, old)
<1>1. ~ IsRefused(normalizeConnectionAuth(p))
  BY DEF Tested
<1>2. PICK c : p = normalizeConnectionAuth(c)
  BY DEF prepareConnection
<1> HIDE DEF p
<1>3. IsRefused(p) => IsRefused(normalizeConnectionAuth(p))
  BY <1>2, ConnectionTwice
<1>4. ~ IsRefused(p)
  BY <1>1, <1>3
<1>5. Saved(form, old) = p
  BY <1>4 DEF Saved, p
<1> QED BY <1>4, <1>5 DEF Used, Tested, p

\* What the API shows can be saved.
LEMMA SafeIsSaved ==
    ASSUME NEW old, ~ IsRefused(Used(old))
    PROVE  Tested(safe(old), old) = Used(old)
<1> DEFINE s == safe(old)
<1> DEFINE p == prepareConnection(s, old)
<1>1. s.kind = old.kind /\ s.redis = Hidden(old.redis) /\ s.sentinel = Hidden(old.sentinel)
  BY DEF safe
<1>2. /\ normalizeCredentials(old.redis).mode # Refused
      /\ old.kind = "sentinel" => normalizeCredentials(old.sentinel).mode # Refused
  BY DEF Used, IsRefused, normalizeConnectionAuth
<1>3. normalizeCredentials(Kept(Hidden(old.redis), old.redis)) = normalizeCredentials(old.redis)
  BY <1>2, ShownIsSame
<1>4. old.kind = "sentinel" =>
          normalizeCredentials(Kept(Hidden(old.sentinel), old.sentinel)) = normalizeCredentials(old.sentinel)
  BY <1>2, ShownIsSame
<1>5. p = [kind |-> old.kind, redis |-> normalizeCredentials(Kept(Hidden(old.redis), old.redis)),
           sentinel |-> IF old.kind = "sentinel"
                        THEN normalizeCredentials(Kept(Hidden(old.sentinel), old.sentinel)) ELSE NoCredentials]
  <2> HIDE DEF s
  <2> QED BY <1>1 DEF prepareConnection, normalizeConnectionAuth
<1> HIDE DEF p
<1>6. p = Used(old)
  BY <1>3, <1>4, <1>5 DEF Used, normalizeConnectionAuth
<1>7. normalizeConnectionAuth(Used(old)) = Used(old)
  BY ConnectionTwice DEF Used
<1> QED BY <1>6, <1>7 DEF Tested, p

\* A mode without password has none.
LEMMA FreeHasNone ==
    ASSUME NEW c, NEW old, IsPair(c), c.mode \in {"none", "username"}
    PROVE  normalizeCredentials(Kept(c, old)).password = ""
<1>1. Kept(c, old).mode = c.mode
  BY KeptFacts
<1>2. inferAuthMode(Kept(c, old)) = c.mode
  BY <1>1, Inferred
<1> QED BY <1>2, NormalFacts

\* What a call that has returned was about.
AuthInv ==
    /\ input.call = "auth" => input.f \in Forms
    /\ Returned("auth") =>
           /\ input.call = "auth"
           /\ output.saved = Saved(input.f.form, input.f.old) /\ output.tested = Tested(input.f.form, input.f.old)
           /\ output.resaved = Tested(safe(input.f.old), input.f.old)

\* The inputs of the calls, and their results, stay what they are.
LEMMA AuthInit == ASSUME Init PROVE AuthInv
<1>1. ~ Returned("auth")
  BY DEF Init, Pending, Returned
<1>2. input.call = "auth" => input.f \in Forms
  BY DEF Init
<1> QED BY <1>1, <1>2 DEF AuthInv

\* Every call keeps it.
LEMMA AuthNext == ASSUME AuthInv, [Next]_vars PROVE AuthInv'
<1>1. CASE FindKeys \/ RouteKeys \/ FilterEntry \/ LoadAof \/ ReportLag
  <2>1. input' = input /\ output'.of # "auth"
    BY <1>1 DEF FindKeys, RouteKeys, FilterEntry, LoadAof, ReportLag, Call
  <2> QED BY <2>1 DEF AuthInv, Returned
<1>2. CASE SaveConnection
  <2>1. input' = input /\ input.call = "auth"
    BY <1>2 DEF SaveConnection, Call
  <2>2. /\ output'.saved = Saved(input.f.form, input.f.old) /\ output'.tested = Tested(input.f.form, input.f.old)
        /\ output'.resaved = Tested(safe(input.f.old), input.f.old)
    BY <1>2 DEF SaveConnection
  <2> QED BY <2>1, <2>2 DEF AuthInv, Returned
<1>3. CASE UNCHANGED vars
  BY <1>3 DEF vars, AuthInv, Returned
<1> QED BY <1>1, <1>2, <1>3 DEF Next

\* The result of a call is what the property asks for.
LEMMA AuthStable == ASSUME AuthInv PROVE CredentialsAreStable
<1> SUFFICES ASSUME Returned("auth") PROVE CredentialsAreStable
  BY DEF CredentialsAreStable
<1> DEFINE form == input.f.form
<1> DEFINE old == input.f.old
<1>1. /\ input.f \in Forms /\ output.saved = Saved(form, old) /\ output.tested = Tested(form, old)
      /\ output.resaved = Tested(safe(old), old)
  BY DEF AuthInv
<1>2. IsPair(form.redis) /\ IsPair(form.sentinel)
  BY <1>1, FormsAssumption DEF IsPair
<1> HIDE DEF form, old
<1>3. ~ IsRefused(output.tested) => Used(output.saved) = output.tested
  BY <1>1, TestedIsUsed
<1>4. ~ IsRefused(Used(old)) => output.resaved = Used(old)
  BY <1>1, SafeIsSaved
<1>5. ASSUME ~ IsRefused(output.tested)
      PROVE  /\ output.saved.redis = normalizeCredentials(Kept(form.redis, old.redis))
             /\ output.saved.sentinel = IF form.kind = "sentinel"
                                        THEN normalizeCredentials(Kept(form.sentinel, old.sentinel)) ELSE NoCredentials
  <2>1. output.saved = prepareConnection(form, old)
    BY <1>1, <1>5, TestedIsUsed
  <2> QED BY <2>1 DEF prepareConnection, normalizeConnectionAuth
<1>6. ASSUME ~ IsRefused(output.tested), form.redis.mode \in {"none", "username"}
      PROVE  output.saved.redis.password = ""
  <2>1. normalizeCredentials(Kept(form.redis, old.redis)).password = ""
    BY <1>2, <1>6, FreeHasNone
  <2>2. output.saved.redis = normalizeCredentials(Kept(form.redis, old.redis))
    BY <1>5, <1>6
  <2> QED BY <2>1, <2>2
<1>7. ASSUME ~ IsRefused(output.tested), form.sentinel.mode \in {"none", "username"}
      PROVE  output.saved.sentinel.password = ""
  <2>1. normalizeCredentials(Kept(form.sentinel, old.sentinel)).password = ""
    BY <1>2, <1>7, FreeHasNone
  <2>2. output.saved.sentinel \in {normalizeCredentials(Kept(form.sentinel, old.sentinel)), NoCredentials}
    BY <1>5, <1>7
  <2> QED BY <2>1, <2>2, NoneFacts
<1> QED BY <1>3, <1>4, <1>6, <1>7 DEF CredentialsAreStable, form, old

\* For any forms and rows: a connection that passed its test is saved and used with the credentials that were tested,
\* what the API shows can be saved again, and a mode without password removes the saved one
\* (connection_auth.go, api.go, store.go).
THEOREM CredentialsStayStable == Spec => []CredentialsAreStable
<1>1. Init => AuthInv
  BY AuthInit
<1>2. AuthInv /\ [Next]_vars => AuthInv'
  BY AuthNext
<1>3. AuthInv => CredentialsAreStable
  BY AuthStable
<1> QED BY <1>1, <1>2, <1>3, PTL DEF Spec

-----------------------------------------------------------------------------
(***************************************************************************)
(* The lag report.  ReadMasterPosition goes from node to node, which its   *)
(* model writes as a recursive function; that the function exists, and     *)
(* what it returns, is shown by induction on the nodes that are left to    *)
(* visit, with the numbers for which a claim holds as a set.               *)
(***************************************************************************)
\* Induction on a set of numbers.
LEMMA AllNumbers ==
    ASSUME NEW S, 0 \in S, \A n \in Nat : n \in S => n + 1 \in S
    PROVE  Nat \subseteq S
<1> SUFFICES ASSUME Nat \ S # {} PROVE FALSE
  OBVIOUS
<1> DEFINE T == Nat \ S
<1>1. \E x \in T : \A y \in T : ~ (<<y, x>> \in OpToRel(<, Nat))
  <2>1. T \subseteq Nat /\ T # {}
    OBVIOUS
  <2> HIDE DEF T
  <2> QED BY <2>1, NatLessThanWellFounded, WFMin
<1>2. PICK x \in T : \A y \in T : ~ (<<y, x>> \in OpToRel(<, Nat))
  BY <1>1
<1>3. x \in Nat /\ x # 0 /\ x - 1 \in Nat /\ x - 1 < x /\ (x - 1) + 1 = x
  OBVIOUS
<1>4. x - 1 \in T
  BY <1>3
<1>5. <<x - 1, x>> \in OpToRel(<, Nat)
  BY <1>3 DEF OpToRel
<1> QED BY <1>2, <1>4, <1>5

\* The equation of the recursive function, and the nodes it goes on from.
Hops(infos) == (0..MaxHops) \X DOMAIN infos
Solves(infos, f) == f = [at \in Hops(infos) |-> Visit(infos, f, at)]
Follows(info) == info.role \in {"slave", "replica"} /\ info.master # None
Closed(infos) == \A node \in DOMAIN infos : infos[node].master \in DOMAIN infos \cup {None}

\* The definition in these terms.
LEMMA PositionIs ==
    ASSUME NEW infos, NEW address
    PROVE  ReadMasterPosition(infos, address) = (CHOOSE f : Solves(infos, f))[<<0, address>>]
BY DEF ReadMasterPosition, Solves, Hops

\* Visit looks at f for one node at most.
LEMMA VisitLocal ==
    ASSUME NEW infos, NEW f, NEW g, NEW at,
           at[1] # MaxHops /\ Follows(infos[at[2]]) =>
               f[<<at[1] + 1, infos[at[2]].master>>] = g[<<at[1] + 1, infos[at[2]].master>>]
    PROVE  Visit(infos, f, at) = Visit(infos, g, at)
<1>1. CASE at[1] = MaxHops
  BY <1>1 DEF Visit
<1>2. CASE at[1] # MaxHops /\ ~ Follows(infos[at[2]])
  BY <1>2 DEF Visit, Follows
<1>3. CASE at[1] # MaxHops /\ Follows(infos[at[2]])
  <2>1. /\ Visit(infos, f, at) = f[<<at[1] + 1, infos[at[2]].master>>]
        /\ Visit(infos, g, at) = g[<<at[1] + 1, infos[at[2]].master>>]
    BY <1>3 DEF Visit, Follows
  <2> QED BY <1>3, <2>1
<1> QED BY <1>1, <1>2, <1>3

\* The cases of Visit.
LEMMA VisitCases ==
    ASSUME NEW infos, NEW f, NEW at
    PROVE  /\ at[1] = MaxHops => Visit(infos, f, at) = NoPosition("unstable")
           /\ at[1] # MaxHops /\ infos[at[2]].role = "master" => Visit(infos, f, at) = MasterPosition(infos[at[2]], at[2])
           /\ at[1] # MaxHops /\ Follows(infos[at[2]]) => Visit(infos, f, at) = f[<<at[1] + 1, infos[at[2]].master>>]
           /\ at[1] # MaxHops /\ infos[at[2]].role # "master" /\ ~ Follows(infos[at[2]]) =>
                  \E what : Visit(infos, f, at) = NoPosition(what)
<1>1. at[1] = MaxHops => Visit(infos, f, at) = NoPosition("unstable")
  BY DEF Visit
<1>2. at[1] # MaxHops /\ infos[at[2]].role = "master" => Visit(infos, f, at) = MasterPosition(infos[at[2]], at[2])
  BY DEF Visit
<1>3. at[1] # MaxHops /\ Follows(infos[at[2]]) => Visit(infos, f, at) = f[<<at[1] + 1, infos[at[2]].master>>]
  BY DEF Visit, Follows
<1>4. at[1] # MaxHops /\ infos[at[2]].role # "master" /\ ~ Follows(infos[at[2]]) =>
          Visit(infos, f, at) \in {NoPosition("unreachable"), NoPosition("masterless"), NoPosition("unknown")}
  BY DEF Visit, Follows
<1> QED BY <1>1, <1>2, <1>3, <1>4

\* The nodes that may be visited with n hops left, or fewer.
Left(infos, n) == ((MaxHops - n)..MaxHops) \X DOMAIN infos
Partly(infos, g, n) == \A at \in Left(infos, n) : g[at] = Visit(infos, g, at)

\* One hop more.
LEMMA OneHopMore ==
    ASSUME NEW infos, Closed(infos), NEW n \in Nat, n + 1 <= MaxHops, NEW g, Partly(infos, g, n)
    PROVE  \E h : Partly(infos, h, n + 1)
<1> DEFINE h == [at \in Left(infos, n + 1) |-> IF at \in Left(infos, n) THEN g[at] ELSE Visit(infos, g, at)]
<1>1. MaxHops \in Nat
  BY HopsAssumption
<1>2. Left(infos, n) \subseteq Left(infos, n + 1)
  <2>1. \A i \in (MaxHops - n)..MaxHops : i \in (MaxHops - (n + 1))..MaxHops
    BY <1>1
  <2> QED BY <2>1 DEF Left
<1>3. \A at \in Left(infos, n + 1) : h[at] = Visit(infos, g, at)
  BY <1>2 DEF Partly
<1>4. \A at \in Left(infos, n) : h[at] = g[at]
  BY <1>2
<1> HIDE DEF h
<1>5. ASSUME NEW at \in Left(infos, n + 1) PROVE h[at] = Visit(infos, h, at)
  <2>1. at[1] \in (MaxHops - (n + 1))..MaxHops /\ at[2] \in DOMAIN infos
    BY DEF Left
  <2>2. ASSUME at[1] # MaxHops, Follows(infos[at[2]])
        PROVE  h[<<at[1] + 1, infos[at[2]].master>>] = g[<<at[1] + 1, infos[at[2]].master>>]
    <3>1. infos[at[2]].master \in DOMAIN infos
      BY <2>1, <2>2 DEF Closed, Follows
    <3>2. at[1] + 1 \in (MaxHops - n)..MaxHops
      BY <1>1, <2>1, <2>2
    <3>3. <<at[1] + 1, infos[at[2]].master>> \in Left(infos, n)
      BY <3>1, <3>2 DEF Left
    <3> QED BY <1>4, <3>3
  <2>3. Visit(infos, h, at) = Visit(infos, g, at)
    BY <2>2, VisitLocal
  <2> QED BY <1>3, <2>3
<1>6. Partly(infos, h, n + 1)
  BY <1>5 DEF Partly
<1> QED BY <1>6

\* The recursive function exists, so it is what its definition says.
LEMMA PositionSolves ==
    ASSUME NEW infos, Closed(infos)
    PROVE  \E f : Solves(infos, f) /\ \A address : ReadMasterPosition(infos, address) = f[<<0, address>>]
<1> DEFINE S == {n \in Nat : n <= MaxHops => \E g : Partly(infos, g, n)}
<1>1. MaxHops \in Nat
  BY HopsAssumption
<1>2. 0 \in S
  <2> DEFINE g == [at \in Left(infos, 0) |-> NoPosition("unstable")]
  <2>1. ASSUME NEW at \in Left(infos, 0) PROVE g[at] = Visit(infos, g, at)
    <3>1. at[1] = MaxHops
      BY <1>1 DEF Left
    <3>2. g[at] = NoPosition("unstable")
      OBVIOUS
    <3> HIDE DEF g
    <3> QED BY <3>1, <3>2, VisitCases
  <2>2. Partly(infos, g, 0)
    BY <2>1 DEF Partly
  <2> QED BY <2>2
<1>3. ASSUME NEW n \in Nat, n \in S PROVE n + 1 \in S
  <2>1. SUFFICES ASSUME n + 1 <= MaxHops PROVE \E g : Partly(infos, g, n + 1)
    OBVIOUS
  <2>2. n <= MaxHops
    BY <1>1, <2>1
  <2>3. PICK g : Partly(infos, g, n)
    BY <1>3, <2>2
  <2> QED BY <2>1, <2>3, OneHopMore
<1>4. MaxHops \in S
  <2>1. Nat \subseteq S
    <3> HIDE DEF S
    <3> QED BY <1>2, <1>3, AllNumbers
  <2> QED BY <1>1, <2>1
<1>5. PICK g : Partly(infos, g, MaxHops)
  BY <1>1, <1>4
<1>6. Left(infos, MaxHops) = Hops(infos)
  BY <1>1 DEF Left, Hops
<1> DEFINE f == [at \in Hops(infos) |-> g[at]]
<1>7. \A at \in Hops(infos) : f[at] = g[at] /\ g[at] = Visit(infos, g, at)
  BY <1>5, <1>6 DEF Partly
<1>8. ASSUME NEW at \in Hops(infos) PROVE Visit(infos, f, at) = Visit(infos, g, at)
  <2>1. at[1] \in 0..MaxHops /\ at[2] \in DOMAIN infos
    BY DEF Hops
  <2>2. ASSUME at[1] # MaxHops, Follows(infos[at[2]])
        PROVE  f[<<at[1] + 1, infos[at[2]].master>>] = g[<<at[1] + 1, infos[at[2]].master>>]
    <3>1. infos[at[2]].master \in DOMAIN infos
      BY <2>1, <2>2 DEF Closed, Follows
    <3>2. at[1] + 1 \in 0..MaxHops
      BY <1>1, <2>1, <2>2
    <3>3. <<at[1] + 1, infos[at[2]].master>> \in Hops(infos)
      BY <3>1, <3>2 DEF Hops
    <3> QED BY <1>7, <3>3
  <2> HIDE DEF f
  <2> QED BY <2>2, VisitLocal
<1>9. Solves(infos, f)
  <2>1. f = [at \in Hops(infos) |-> f[at]]
    OBVIOUS
  <2>2. \A at \in Hops(infos) : f[at] = Visit(infos, f, at)
    BY <1>7, <1>8
  <2> HIDE DEF f
  <2> QED BY <2>1, <2>2 DEF Solves
<1> HIDE DEF f
<1> DEFINE c == CHOOSE q : Solves(infos, q)
<1>10. Solves(infos, c)
  BY <1>9
<1>11. \A address : ReadMasterPosition(infos, address) = c[<<0, address>>]
  BY PositionIs
<1> HIDE DEF c
<1> QED BY <1>10, <1>11

\* What a position that is no error looks like.
OfMaster(infos, p) == (\E what : p = NoPosition(what)) \/ p = MasterPosition(infos["m"], "m")

\* The position found is the one of the only master, or there is an error.
LEMMA PositionOfMaster ==
    ASSUME NEW l, Answered(l)
    PROVE  OfMaster(l.infos, ReadMasterPosition(l.infos, l.address))
<1> DEFINE infos == l.infos
<1>1. MaxHops \in Nat
  BY HopsAssumption
<1>2. /\ l.address \in DOMAIN infos /\ Closed(infos)
      /\ \A node \in DOMAIN infos : infos[node].role = "master" <=> node = "m"
  BY DEF Answered, Closed
<1> HIDE DEF infos
<1>3. PICK f : Solves(infos, f) /\ \A address : ReadMasterPosition(infos, address) = f[<<0, address>>]
  BY <1>2, PositionSolves
<1>4. \A at \in Hops(infos) : f[at] = Visit(infos, f, at)
  BY <1>3 DEF Solves
<1> DEFINE S == {n \in Nat : n <= MaxHops => \A node \in DOMAIN infos : OfMaster(infos, f[<<MaxHops - n, node>>])}
<1>5. ASSUME NEW n \in Nat, n <= MaxHops, NEW node \in DOMAIN infos
      PROVE  /\ <<MaxHops - n, node>> \in Hops(infos)
             /\ f[<<MaxHops - n, node>>] = Visit(infos, f, <<MaxHops - n, node>>)
  <2>1. MaxHops - n \in 0..MaxHops
    BY <1>1, <1>5
  <2>2. <<MaxHops - n, node>> \in Hops(infos)
    BY <2>1 DEF Hops
  <2> QED BY <1>4, <2>2
<1>6. 0 \in S
  <2>1. ASSUME NEW node \in DOMAIN infos PROVE OfMaster(infos, f[<<MaxHops - 0, node>>])
    <3>1. f[<<MaxHops - 0, node>>] = Visit(infos, f, <<MaxHops - 0, node>>)
      BY <1>1, <1>5
    <3> DEFINE at == <<MaxHops - 0, node>>
    <3>2. at[1] = MaxHops
      BY <1>1
    <3> HIDE DEF at
    <3>3. Visit(infos, f, at) = NoPosition("unstable")
      BY <3>2, VisitCases
    <3> QED BY <3>1, <3>3 DEF OfMaster, at
  <2> QED BY <2>1
<1>7. ASSUME NEW n \in Nat, n \in S PROVE n + 1 \in S
  <2>1. SUFFICES ASSUME n + 1 <= MaxHops, NEW node \in DOMAIN infos PROVE OfMaster(infos, f[<<MaxHops - (n + 1), node>>])
    OBVIOUS
  <2>2. n <= MaxHops /\ MaxHops - (n + 1) # MaxHops /\ (MaxHops - (n + 1)) + 1 = MaxHops - n /\ n + 1 \in Nat
    BY <1>1, <2>1
  <2> DEFINE at == <<MaxHops - (n + 1), node>>
  <2>3. f[at] = Visit(infos, f, at)
    BY <1>5, <2>1, <2>2
  <2>4. at[1] = MaxHops - (n + 1) /\ at[2] = node
    OBVIOUS
  <2>5. \A other \in DOMAIN infos : OfMaster(infos, f[<<MaxHops - n, other>>])
    BY <1>7, <2>2
  <2> HIDE DEF at
  <2>6. CASE infos[node].role = "master"
    <3>1. Visit(infos, f, at) = MasterPosition(infos[node], node)
      BY <2>2, <2>4, <2>6, VisitCases
    <3>2. node = "m"
      BY <1>2, <2>6
    <3> QED BY <2>3, <3>1, <3>2 DEF OfMaster, at
  <2>7. CASE Follows(infos[node])
    <3>1. Visit(infos, f, at) = f[<<MaxHops - n, infos[node].master>>]
      BY <2>2, <2>4, <2>7, VisitCases
    <3>2. infos[node].master \in DOMAIN infos
      BY <1>2, <2>7 DEF Closed, Follows
    <3>3. OfMaster(infos, f[<<MaxHops - n, infos[node].master>>])
      BY <2>5, <3>2
    <3> QED BY <2>3, <3>1, <3>3 DEF at
  <2>8. CASE infos[node].role # "master" /\ ~ Follows(infos[node])
    <3>1. \E what : Visit(infos, f, at) = NoPosition(what)
      BY <2>2, <2>4, <2>8, VisitCases
    <3>2. \E what : f[at] = NoPosition(what)
      BY <2>3, <3>1
    <3>3. OfMaster(infos, f[at])
      BY <3>2 DEF OfMaster
    <3> QED BY <3>3 DEF at
  <2> QED BY <2>6, <2>7, <2>8
<1>8. MaxHops \in S
  <2>1. Nat \subseteq S
    <3> HIDE DEF S
    <3> QED BY <1>6, <1>7, AllNumbers
  <2> QED BY <1>1, <2>1
<1>9. OfMaster(infos, f[<<MaxHops - MaxHops, l.address>>])
  BY <1>1, <1>2, <1>8
<1>10. MaxHops - MaxHops = 0
  BY <1>1
<1> QED BY <1>3, <1>9, <1>10 DEF infos

\* A chain that leads to the master within MaxHops nodes is followed to its end.
LEMMA PositionFound ==
    ASSUME NEW l, Answered(l), LedTo(l)
    PROVE  ReadMasterPosition(l.infos, l.address) = MasterPosition(l.infos["m"], "m")
<1> DEFINE infos == l.infos
<1>1. MaxHops \in Nat
  BY HopsAssumption
<1>2. /\ l.address \in DOMAIN infos /\ Closed(infos) /\ "m" \in DOMAIN infos /\ None \notin DOMAIN infos
      /\ \A node \in DOMAIN infos : infos[node].role = "master" <=> node = "m"
  BY DEF Answered, Closed
<1>31. PICK n \in 0..(MaxHops - 1) : \E path \in [0..n -> DOMAIN infos] :
          /\ path[0] = l.address /\ path[n] = "m"
          /\ \A i \in 0..(n - 1) : infos[path[i]].role \in {"slave", "replica"} /\ infos[path[i]].master = path[i + 1]
  BY DEF LedTo
<1>3. PICK path \in [0..n -> DOMAIN infos] :
          /\ path[0] = l.address /\ path[n] = "m"
          /\ \A i \in 0..(n - 1) : infos[path[i]].role \in {"slave", "replica"} /\ infos[path[i]].master = path[i + 1]
  BY <1>31
<1> HIDE DEF infos
<1>4. PICK f : Solves(infos, f) /\ \A address : ReadMasterPosition(infos, address) = f[<<0, address>>]
  BY <1>2, PositionSolves
<1>5. \A at \in Hops(infos) : f[at] = Visit(infos, f, at)
  BY <1>4 DEF Solves
<1>6. n \in Nat /\ n < MaxHops
  BY <1>1
<1>7. ASSUME NEW i \in 0..n PROVE path[i] \in DOMAIN infos /\ i # MaxHops /\ f[<<i, path[i]>>] = Visit(infos, f, <<i, path[i]>>)
  <2>1. path[i] \in DOMAIN infos
    BY <1>3
  <2>2. i # MaxHops /\ i \in 0..MaxHops
    BY <1>1, <1>6
  <2>3. <<i, path[i]>> \in Hops(infos)
    BY <2>1, <2>2 DEF Hops
  <2> QED BY <1>5, <2>1, <2>2, <2>3
<1> DEFINE mp == MasterPosition(infos["m"], "m")
<1> DEFINE S == {k \in Nat : k <= n => f[<<n - k, path[n - k]>>] = mp}
<1>8. 0 \in S
  <2>1. n \in 0..n /\ n - 0 = n
    BY <1>6
  <2>2. path[n] = "m" /\ infos["m"].role = "master"
    BY <1>2, <1>3
  <2>3. f[<<n, path[n]>>] = Visit(infos, f, <<n, path[n]>>) /\ n # MaxHops
    BY <1>7, <2>1
  <2>4. Visit(infos, f, <<n, "m">>) = MasterPosition(infos["m"], "m")
    <3> DEFINE at == <<n, "m">>
    <3>1. at[1] # MaxHops /\ at[2] = "m"
      BY <2>3
    <3> HIDE DEF at
    <3>2. Visit(infos, f, at) = MasterPosition(infos["m"], "m")
      BY <2>2, <3>1, VisitCases
    <3> QED BY <3>2 DEF at
  <2>5. f[<<n - 0, path[n - 0]>>] = mp
    BY <2>1, <2>2, <2>3, <2>4
  <2> QED BY <2>5
<1>9. ASSUME NEW k \in Nat, k \in S PROVE k + 1 \in S
  <2>1. SUFFICES ASSUME k + 1 <= n PROVE f[<<n - (k + 1), path[n - (k + 1)]>>] = mp
    OBVIOUS
  <2> DEFINE i == n - (k + 1)
  <2>2. i \in 0..n /\ i \in 0..(n - 1) /\ i + 1 = n - k /\ i + 1 \in 0..n /\ k <= n
    BY <1>6, <2>1
  <2> HIDE DEF i
  <2>3. f[<<i + 1, path[i + 1]>>] = mp
    BY <1>9, <2>2
  <2>4. infos[path[i]].role \in {"slave", "replica"} /\ infos[path[i]].master = path[i + 1]
    BY <1>3, <2>2
  <2>5. path[i] \in DOMAIN infos /\ i # MaxHops /\ f[<<i, path[i]>>] = Visit(infos, f, <<i, path[i]>>)
    BY <1>7, <2>2
  <2>6. infos[path[i]].master # None
    <3>1. path[i + 1] \in DOMAIN infos
      BY <1>7, <2>2
    <3> QED BY <1>2, <2>4, <3>1
  <2> DEFINE at == <<i, path[i]>>
  <2>7. at[1] = i /\ at[2] = path[i] /\ f[at] = Visit(infos, f, at)
    BY <2>5
  <2> HIDE DEF at
  <2>8. Follows(infos[at[2]]) /\ at[1] # MaxHops /\ infos[at[2]].master = path[i + 1] /\ at[1] + 1 = i + 1
    BY <2>4, <2>5, <2>6, <2>7 DEF Follows
  <2>9. Visit(infos, f, at) = f[<<at[1] + 1, infos[at[2]].master>>]
    BY <2>8, VisitCases
  <2> QED BY <2>3, <2>7, <2>8, <2>9 DEF i, at
<1>10. n \in S
  <2>1. Nat \subseteq S
    <3> HIDE DEF S
    <3> QED BY <1>8, <1>9, AllNumbers
  <2> QED BY <1>6, <2>1
<1>11. f[<<n - n, path[n - n]>>] = mp
  BY <1>6, <1>10
<1>12. n - n = 0
  BY <1>6
<1> QED BY <1>3, <1>4, <1>11, <1>12 DEF infos

\* What a master reports of itself, when its answer is whole.
Whole(info) == info.offset # None /\ info.replid # ""

\* The position of a master.
LEMMA MasterFacts ==
    ASSUME NEW info, NEW node
    PROVE  LET p == MasterPosition(info, node)
           IN  /\ ~ Whole(info) => HasError(p)
               /\ Whole(info) => /\ ~ HasError(p) /\ p.offset = info.offset
                                 /\ p.replid = info.replid /\ p.replid2 = info.replid2
                                 /\ info.second # None => p.second = info.second
<1> DEFINE r == [node |-> node, offset |-> info.offset, replid |-> info.replid, replid2 |-> info.replid2,
                 second |-> IF info.second = None THEN -1 ELSE info.second]
<1>1. Whole(info) => MasterPosition(info, node) = r
  BY DEF MasterPosition, Whole
<1>2. ~ Whole(info) => MasterPosition(info, node) = NoPosition("incomplete")
  BY DEF MasterPosition, Whole
<1>3. /\ ~ HasError(r) /\ r.offset = info.offset /\ r.replid = info.replid /\ r.replid2 = info.replid2
      /\ info.second # None => r.second = info.second
  BY DEF HasError
<1>4. HasError(NoPosition("incomplete"))
  BY DEF HasError, NoPosition
<1> HIDE DEF r
<1> QED BY <1>1, <1>2, <1>3, <1>4

\* When there is a lag, and which.
LEMMA ReportFacts ==
    ASSUME NEW consumed, NEW master
    PROVE  LET good == ~ HasError(master) /\ consumed.known /\ Compatible(consumed, master)
                       /\ ~ (consumed.offset < 0 \/ master.offset < consumed.offset)
           IN  /\ good => Report(consumed, master).lag = master.offset - consumed.offset
               /\ ~ good => Report(consumed, master).lag = None
<1> DEFINE late == consumed.offset < 0 \/ master.offset < consumed.offset
<1> DEFINE lag == master.offset - consumed.offset
<1> DEFINE blank == ""
<1>1. Report(consumed, master) =
        IF HasError(master) THEN [lag |-> None, error |-> master.error]
        ELSE IF ~ consumed.known THEN [lag |-> None, error |-> blank]
        ELSE IF ~ Compatible(consumed, master) THEN [lag |-> None, error |-> "changed"]
        ELSE IF late THEN [lag |-> None, error |-> "behind"]
        ELSE [lag |-> lag, error |-> blank]
  BY DEF Report
<1> HIDE DEF late, lag, blank
<1>2. /\ ~ HasError(master) /\ consumed.known /\ Compatible(consumed, master) /\ ~ late => Report(consumed, master).lag = lag
      /\ ~ (~ HasError(master) /\ consumed.known /\ Compatible(consumed, master) /\ ~ late) => Report(consumed, master).lag = None
  BY <1>1
<1> QED BY <1>2 DEF late, lag

\* A sequence is a prefix of another when it is as long at most and agrees with it.
LEMMA PrefixFacts ==
    ASSUME NEW S, NEW T, NEW s \in Seq(S), NEW t \in Seq(T)
    PROVE  IsPrefix(s, t) <=> Len(s) <= Len(t) /\ \A i \in 1..Len(s) : s[i] = t[i]
<1>1. Len(s) \in Nat /\ Len(t) \in Nat
  OBVIOUS
<1>2. SubSeq(s, 1, Len(s)) = s
  OBVIOUS
<1>3. ASSUME Len(s) <= Len(t)
      PROVE  SubSeq(t, 1, Len(s)) = [i \in 1..Len(s) |-> t[i]]
  BY <1>1, <1>3
<1>4. s = [i \in 1..Len(s) |-> s[i]]
  OBVIOUS
<1>5. Len(s) <= Len(t) => (s = SubSeq(t, 1, Len(s)) <=> \A i \in 1..Len(s) : s[i] = t[i])
  BY <1>3, <1>4
<1> QED BY <1>2, <1>5 DEF IsPrefix

\* All but the last element.
LEMMA FrontPrefix ==
    ASSUME NEW S, NEW T, NEW s \in Seq(S), NEW t \in Seq(T), Len(s) <= Len(t),
           \A i \in 1..(Len(s) - 1) : s[i] = t[i]
    PROVE  IsPrefix(Front(s), t)
<1>1. Len(s) \in Nat /\ Len(t) \in Nat /\ (s # <<>> => Len(s) > 0)
  OBVIOUS
<1>10. CASE s = <<>>
  <2>1. Front(s) = <<>>
    BY <1>10, SubSeqEmpty DEF Front
  <2>2. <<>> \in Seq(S) /\ Len(<<>>) = 0
    OBVIOUS
  <2>3. Front(s) \in Seq(S) /\ Len(Front(s)) <= Len(t) /\ \A i \in 1..Len(Front(s)) : Front(s)[i] = t[i]
    BY <1>1, <2>1, <2>2
  <2> QED BY <2>3, PrefixFacts
<1>11. SUFFICES ASSUME s # <<>> PROVE IsPrefix(Front(s), t)
  BY <1>10
<1>12. Len(s) > 0
  BY <1>1, <1>11
<1>2. Front(s) \in Seq(S) /\ Len(Front(s)) = Len(s) - 1 /\ \A i \in 1..(Len(s) - 1) : Front(s)[i] = s[i]
  <2>1. \A i \in 1..(Len(s) - 1) : s[i] \in S
    BY <1>1
  <2>2. 1 \in Int /\ Len(s) - 1 \in Int
    BY <1>1
  <2> DEFINE n == Len(s) - 1
  <2> HIDE DEF n
  <2>3. n \in Nat /\ n - 1 + 1 = n /\ (IF 1 <= n THEN n - 1 + 1 ELSE 0) = n
    <3>1. n \in Nat
      BY <1>1, <1>12 DEF n
    <3> QED BY <3>1
  <2>4. /\ SubSeq(s, 1, n) \in Seq(S) /\ Len(SubSeq(s, 1, n)) = IF 1 <= n THEN n - 1 + 1 ELSE 0
        /\ \A i \in 1..(n - 1 + 1) : SubSeq(s, 1, n)[i] = s[1 + i - 1]
    BY <2>1, <2>2, SubSeqProperties DEF n
  <2>5. \A i \in 1..n : 1 + i - 1 = i
    BY <2>3
  <2>6. /\ SubSeq(s, 1, n) \in Seq(S) /\ Len(SubSeq(s, 1, n)) = n
        /\ \A i \in 1..n : SubSeq(s, 1, n)[i] = s[i]
    BY <2>3, <2>4, <2>5
  <2> QED BY <2>6 DEF n, Front
<1>3. Len(Front(s)) <= Len(t) /\ \A i \in 1..Len(Front(s)) : Front(s)[i] = t[i]
  BY <1>1, <1>2
<1> QED BY <1>2, <1>3, PrefixFacts

\* Which histories are compatible, and what the two say of their bytes.
SameHistory(l) == \A i \in DOMAIN l.mine \cap DOMAIN l.theirs : l.mine[i] = l.theirs[i]
SecondHistory(l) ==
    /\ l.infos["m"].second \in Nat \ {0}
    /\ \A i \in DOMAIN l.mine : i < l.infos["m"].second => i \in DOMAIN l.theirs /\ l.mine[i] = l.theirs[i]
    /\ \A i \in DOMAIN l.mine \cap DOMAIN l.theirs : i >= l.infos["m"].second => l.mine[i] # l.theirs[i]

\* The master knows the history the task has consumed.
Named(l) == l.consumed.replID \in {l.infos["m"].replid, l.infos["m"].replid2} \ {""}

\* The two histories and their lengths.
LEMMA Histories ==
    ASSUME NEW l, Answered(l), OfOneSource(l)
    PROVE  /\ l.mine \in Seq(Range(l.mine)) /\ l.theirs \in Seq(Range(l.theirs))
           /\ Len(l.mine) \in Nat /\ Len(l.theirs) \in Nat
           /\ DOMAIN l.mine = 1..Len(l.mine) /\ DOMAIN l.theirs = 1..Len(l.theirs)
           /\ l.consumed.offset = Len(l.mine)
           /\ Whole(l.infos["m"]) => l.infos["m"].offset = Len(l.theirs)
<1>1. l.mine \in Seq(Range(l.mine)) /\ l.theirs \in Seq(Range(l.theirs))
  BY DEF OfOneSource
<1>2. l.infos["m"].offset \in {Len(l.theirs), None} /\ l.consumed.offset = Len(l.mine)
  BY DEF Answered
<1>3. Whole(l.infos["m"]) => l.infos["m"].offset # None
  BY DEF Whole
<1>4. /\ Len(l.mine) \in Nat /\ Len(l.theirs) \in Nat
      /\ DOMAIN l.mine = 1..Len(l.mine) /\ DOMAIN l.theirs = 1..Len(l.theirs)
  BY <1>1, LenProperties
<1> QED BY <1>1, <1>2, <1>3, <1>4

\* A compatible position is one of the master's history, or of the one before it.
LEMMA CompatibleFacts ==
    ASSUME NEW l, Answered(l), OfOneSource(l), Whole(l.infos["m"]), NEW p, p = MasterPosition(l.infos["m"], "m")
    PROVE  /\ Compatible(l.consumed, p) => SameHistory(l) \/ (SecondHistory(l) /\ l.consumed.offset <= l.infos["m"].second)
           /\ Named(l) =>
                  \/ SameHistory(l) /\ Compatible(l.consumed, p)
                  \/ SecondHistory(l) /\ (l.consumed.offset <= l.infos["m"].second => Compatible(l.consumed, p))
<1> DEFINE m == l.infos["m"]
<1> DEFINE blank == ""
<1>1. p.replid = m.replid /\ p.replid2 = m.replid2 /\ (m.second # None => p.second = m.second)
  BY MasterFacts
<1>2. l.consumed.replID = m.replid /\ m.replid # blank => SameHistory(l)
  BY DEF OfOneSource, SameHistory
<1>3. l.consumed.replID = m.replid2 /\ m.replid2 # blank => SecondHistory(l)
  BY DEF OfOneSource, SecondHistory
<1>4. Compatible(l.consumed, p) <=>
          /\ l.consumed.replID # blank
          /\ \/ l.consumed.replID = p.replid
             \/ l.consumed.replID = p.replid2 /\ l.consumed.offset <= p.second
  BY DEF Compatible
<1>5. SecondHistory(l) => m.second # None
  <2>1. SecondHistory(l) => m.second \in Nat
    BY DEF SecondHistory
  <2> HIDE DEF m
  <2> QED BY <2>1, NoneAssumption
<1>6. Named(l) <=> l.consumed.replID \in {m.replid, m.replid2} \ {blank}
  BY DEF Named
<1> HIDE DEF m, blank
<1>7. /\ Compatible(l.consumed, p) => SameHistory(l) \/ (SecondHistory(l) /\ l.consumed.offset <= m.second)
      /\ l.consumed.replID \in {m.replid, m.replid2} \ {blank} =>
             \/ SameHistory(l) /\ Compatible(l.consumed, p)
             \/ SecondHistory(l) /\ (l.consumed.offset <= m.second => Compatible(l.consumed, p))
  BY <1>1, <1>2, <1>3, <1>4, <1>5
<1> QED BY <1>6, <1>7 DEF m

\* A lag is the distance of two positions of one history.
Distance(l, lag) == lag = Len(l.theirs) - Len(l.mine) /\ lag >= 0 /\ IsPrefix(Front(l.mine), l.theirs)
LagOf(l) == Report(l.consumed, ReadMasterPosition(l.infos, l.address)).lag

\* A lag that is reported is one.
LEMMA LagIsDistance ==
    ASSUME NEW l, Answered(l), OfOneSource(l), LagOf(l) # None
    PROVE  Distance(l, LagOf(l))
<1> DEFINE lag == LagOf(l)
<1> DEFINE m == l.infos["m"]
<1> DEFINE q == ReadMasterPosition(l.infos, l.address)
<1> DEFINE p == MasterPosition(m, "m")
<1>1. OfMaster(l.infos, q)
  BY PositionOfMaster
<1> HIDE DEF q
<1>2. /\ ~ HasError(q) /\ Compatible(l.consumed, q) /\ ~ (l.consumed.offset < 0 \/ q.offset < l.consumed.offset)
      /\ lag = q.offset - l.consumed.offset
  BY ReportFacts DEF q, LagOf
<1>3. q = p
  <2>1. \A what : HasError(NoPosition(what))
    BY DEF HasError, NoPosition
  <2> QED BY <1>1, <1>2, <2>1 DEF OfMaster
<1> HIDE DEF p
<1>4. Whole(m)
  BY <1>2, <1>3, MasterFacts DEF p
<1>5. q.offset = Len(l.theirs)
  <2>1. q.offset = m.offset
    BY <1>3, <1>4, MasterFacts DEF p
  <2> QED BY <1>4, <2>1, Histories
<1>6. /\ Len(l.mine) \in Nat /\ Len(l.theirs) \in Nat /\ l.consumed.offset = Len(l.mine)
      /\ DOMAIN l.mine = 1..Len(l.mine) /\ DOMAIN l.theirs = 1..Len(l.theirs)
      /\ l.mine \in Seq(Range(l.mine)) /\ l.theirs \in Seq(Range(l.theirs))
  BY Histories
<1>7. Len(l.mine) <= Len(l.theirs) /\ lag = Len(l.theirs) - Len(l.mine) /\ lag >= 0
  BY <1>2, <1>5, <1>6
<1>8. SameHistory(l) \/ (SecondHistory(l) /\ Len(l.mine) <= m.second)
  <2>1. SameHistory(l) \/ (SecondHistory(l) /\ l.consumed.offset <= m.second)
    BY <1>2, <1>3, <1>4, CompatibleFacts DEF p
  <2> QED BY <1>6, <2>1
<1>9. \A i \in 1..(Len(l.mine) - 1) : l.mine[i] = l.theirs[i]
  <2>1. CASE SameHistory(l)
    BY <1>6, <1>7, <2>1 DEF SameHistory
  <2>2. CASE SecondHistory(l) /\ Len(l.mine) <= m.second
    <3>1. m.second \in Nat /\ \A i \in DOMAIN l.mine : i < m.second => l.mine[i] = l.theirs[i]
      BY <2>2 DEF SecondHistory
    <3> HIDE DEF m
    <3>2. \A i \in 1..(Len(l.mine) - 1) : i \in DOMAIN l.mine /\ i < m.second
      BY <1>6, <2>2, <3>1
    <3> QED BY <3>1, <3>2
  <2> QED BY <1>8, <2>1, <2>2
<1>10. IsPrefix(Front(l.mine), l.theirs)
  BY <1>6, <1>7, <1>9, FrontPrefix
<1> QED BY <1>7, <1>10 DEF Distance

\* A position the master continues has a lag.
LEMMA ContinuedHasLag ==
    ASSUME NEW l, Answered(l), OfOneSource(l), l.found, l.consumed.known, IsPrefix(l.mine, l.theirs), Named(l)
    PROVE  LagOf(l) # None
<1> DEFINE m == l.infos["m"]
<1> DEFINE p == MasterPosition(m, "m")
<1>1. LedTo(l) /\ Whole(m)
  BY DEF Answered, Whole
<1>2. ReadMasterPosition(l.infos, l.address) = p
  BY <1>1, PositionFound
<1>3. /\ Len(l.mine) \in Nat /\ Len(l.theirs) \in Nat /\ l.consumed.offset = Len(l.mine)
      /\ DOMAIN l.mine = 1..Len(l.mine) /\ DOMAIN l.theirs = 1..Len(l.theirs)
      /\ l.mine \in Seq(Range(l.mine)) /\ l.theirs \in Seq(Range(l.theirs)) /\ m.offset = Len(l.theirs)
  BY <1>1, Histories
<1>4. ~ HasError(p) /\ p.offset = Len(l.theirs)
  BY <1>1, <1>3, MasterFacts
<1>5. Len(l.mine) <= Len(l.theirs) /\ \A i \in 1..Len(l.mine) : l.mine[i] = l.theirs[i]
  BY <1>3, PrefixFacts
<1>6. \/ Compatible(l.consumed, p)
      \/ SecondHistory(l) /\ (l.consumed.offset <= m.second => Compatible(l.consumed, p))
  BY <1>1, CompatibleFacts
<1> HIDE DEF p
<1>7. Compatible(l.consumed, p)
  <2> SUFFICES ASSUME SecondHistory(l), ~ (Len(l.mine) <= m.second) PROVE FALSE
    BY <1>3, <1>6
  <2>1. m.second \in Nat \ {0} /\ \A i \in DOMAIN l.mine \cap DOMAIN l.theirs : i >= m.second => l.mine[i] # l.theirs[i]
    BY DEF SecondHistory
  <2> HIDE DEF m
  <2>2. m.second \in 1..Len(l.mine) /\ m.second \in 1..Len(l.theirs) /\ m.second >= m.second
    BY <1>3, <1>5, <2>1
  <2> QED BY <1>3, <1>5, <2>1, <2>2
<1>8. ~ (l.consumed.offset < 0 \/ p.offset < l.consumed.offset) /\ p.offset - l.consumed.offset \in Int
  BY <1>3, <1>4, <1>5
<1>9. Report(l.consumed, p).lag = p.offset - l.consumed.offset
  BY <1>4, <1>7, <1>8, ReportFacts
<1> QED BY <1>2, <1>8, <1>9, NoneAssumption DEF LagOf

\* What a lag report that has returned was about.
LagInv ==
    /\ input.call = "lag" => input.l \in Lags
    /\ Returned("lag") =>
           /\ input.call = "lag"
           /\ output.result = Report(input.l.consumed, ReadMasterPosition(input.l.infos, input.l.address))

\* It holds when nothing was called.
LEMMA LagInit == ASSUME Init PROVE LagInv
<1>1. ~ Returned("lag")
  BY DEF Init, Pending, Returned
<1>2. input.call = "lag" => input.l \in Lags
  BY DEF Init
<1> QED BY <1>1, <1>2 DEF LagInv

\* Every call keeps it.
LEMMA LagNext == ASSUME LagInv, [Next]_vars PROVE LagInv'
<1>1. CASE FindKeys \/ RouteKeys \/ FilterEntry \/ LoadAof \/ SaveConnection
  <2>1. input' = input /\ output'.of # "lag"
    BY <1>1 DEF FindKeys, RouteKeys, FilterEntry, LoadAof, SaveConnection, Call
  <2> QED BY <2>1 DEF LagInv, Returned
<1>2. CASE ReportLag
  <2>1. input' = input /\ input.call = "lag"
    BY <1>2 DEF ReportLag, Call
  <2>2. output'.result = Report(input.l.consumed, ReadMasterPosition(input.l.infos, input.l.address))
    BY <1>2 DEF ReportLag
  <2> QED BY <2>1, <2>2 DEF LagInv, Returned
<1>3. CASE UNCHANGED vars
  BY <1>3 DEF vars, LagInv, Returned
<1> QED BY <1>1, <1>2, <1>3 DEF Next

\* The report is what the property asks for.
LEMMA LagHolds == ASSUME LagInv PROVE LagOfOneHistory
<1> SUFFICES ASSUME Returned("lag") PROVE LagOfOneHistory
  BY DEF LagOfOneHistory
<1> DEFINE l == input.l
<1> DEFINE lag == output.result.lag
<1>1. Answered(l) /\ OfOneSource(l) /\ lag = LagOf(l)
  BY LagsAssumption DEF LagInv, LagOf
<1>2. lag # None => Distance(l, lag)
  <2> HIDE DEF l, lag
  <2> QED BY <1>1, LagIsDistance
<1>3. l.found /\ l.consumed.known /\ IsPrefix(l.mine, l.theirs)
        /\ Named(l) => lag # None
  <2> HIDE DEF l, lag
  <2> QED BY <1>1, ContinuedHasLag
<1> QED BY <1>2, <1>3 DEF LagOfOneHistory, Named, Distance

\* For any histories, chains of replicas and MaxHops: a lag that is reported is the distance of two positions
\* of one history, up to the last byte consumed, and a position the master continues has a lag
\* (internal/client/replication.go, internal/progress/report.go).
THEOREM LagsOfOneHistory == Spec => []LagOfOneHistory
<1>1. Init => LagInv
  BY LagInit
<1>2. LagInv /\ [Next]_vars => LagInv'
  BY LagNext
<1>3. LagInv => LagOfOneHistory
  BY LagHolds
<1> QED BY <1>1, <1>2, <1>3, PTL DEF Spec
=============================================================================
