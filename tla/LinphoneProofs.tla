--------------------------- MODULE LinphoneProofs ---------------------------
(***************************************************************************)
(* Theorems about Linphone, for any number of user names, requests and     *)
(* forms, and for every bound on failures, restarts and changes.           *)
(***************************************************************************)
EXTENDS Linphone, FiniteSetTheorems, TLAPS

-----------------------------------------------------------------------------
(* Keys                                                                    *)

LEMMA ImageBound ==
  ASSUME NEW S, IsFiniteSet(S), NEW f, DOMAIN f = S, f = [x \in S |-> f[x]]
  PROVE  IsFiniteSet({f[x] : x \in S}) /\ Cardinality({f[x] : x \in S}) <= Cardinality(S)
<1>1. PICK T : T = {f[x] : x \in S}
  OBVIOUS
<1>2. f \in Surjection(S, T)
  BY <1>1 DEF Surjection
<1>3. IsFiniteSet(T) /\ Cardinality(T) <= Cardinality(S)
  BY <1>2, FS_Surjection
<1> QED
  BY <1>1, <1>3

LEMMA UnionBound ==
  ASSUME NEW S, IsFiniteSet(S), NEW T, IsFiniteSet(T)
  PROVE  /\ IsFiniteSet(S \cup T)
         /\ Cardinality(S \cup T) <= Cardinality(S) + Cardinality(T)
<1>1. IsFiniteSet(S \cap T)
  BY FS_Intersection
<1>2. Cardinality(S \cap T) \in Nat /\ Cardinality(S) \in Nat /\ Cardinality(T) \in Nat
  BY <1>1, FS_CardinalityType
<1>3. /\ IsFiniteSet(S \cup T)
      /\ Cardinality(S \cup T) = Cardinality(S) + Cardinality(T) - Cardinality(S \cap T)
  BY FS_Union
<1>4. PICK n, m, k \in Nat : /\ n = Cardinality(S) /\ m = Cardinality(T)
                             /\ k = Cardinality(S \cap T)
  BY <1>2
<1>5. n + m - k <= n + m
  BY <1>4
<1> QED
  BY <1>3, <1>4, <1>5

\* Linphone always has a key that nobody knows: KeysAssumption counts the
\* places where one can be.
LEMMA FreeKey ==
  ASSUME DOMAIN linphone \subseteq Users
  PROVE  Issued \in Keys /\ Issued \notin KeysInUse
<1> DEFINE rows == [u \in DOMAIN linphone |-> linphone[u].apikey]
           accounts == [u \in Users |-> remote[u].key]
           jobs == [h \in Handlers |-> job[h].key]
           old == [u \in Users |-> check.apikey[u]]
<1>1. PICK A, B, C, D : /\ A = {linphone[u].apikey : u \in DOMAIN linphone}
                        /\ B = {remote[u].key : u \in Users}
                        /\ C = {job[h].key : h \in Handlers}
                        /\ D = {check.apikey[u] : u \in Users}
  OBVIOUS
<1>2. /\ IsFiniteSet(DOMAIN linphone)
      /\ Cardinality(DOMAIN linphone) <= Cardinality(Users)
  BY FS_Subset, KeysAssumption
<1>3. IsFiniteSet(A) /\ Cardinality(A) <= Cardinality(DOMAIN linphone)
  <2>1. IsFiniteSet({rows[u] : u \in DOMAIN linphone})
        /\ Cardinality({rows[u] : u \in DOMAIN linphone}) <= Cardinality(DOMAIN linphone)
    BY <1>2, ImageBound
  <2> QED
    BY <2>1, <1>1
<1>4. IsFiniteSet(B) /\ Cardinality(B) <= Cardinality(Users)
  <2>1. IsFiniteSet({accounts[u] : u \in Users})
        /\ Cardinality({accounts[u] : u \in Users}) <= Cardinality(Users)
    BY KeysAssumption, ImageBound
  <2> QED
    BY <2>1, <1>1
<1>5. IsFiniteSet(C) /\ Cardinality(C) <= Cardinality(Handlers)
  <2>1. IsFiniteSet({jobs[h] : h \in Handlers})
        /\ Cardinality({jobs[h] : h \in Handlers}) <= Cardinality(Handlers)
    BY KeysAssumption, ImageBound
  <2> QED
    BY <2>1, <1>1
<1>6. IsFiniteSet(D) /\ Cardinality(D) <= Cardinality(Users)
  <2>1. IsFiniteSet({old[u] : u \in Users})
        /\ Cardinality({old[u] : u \in Users}) <= Cardinality(Users)
    BY KeysAssumption, ImageBound
  <2> QED
    BY <2>1, <1>1
<1>7. IsFiniteSet({check.new}) /\ Cardinality({check.new}) = 1
  BY FS_Singleton
<1>8. /\ Cardinality(DOMAIN linphone) \in Nat /\ Cardinality(Users) \in Nat
      /\ Cardinality(Handlers) \in Nat /\ Cardinality(Keys) \in Nat
      /\ Cardinality(A) \in Nat /\ Cardinality(B) \in Nat /\ Cardinality(C) \in Nat
      /\ Cardinality(D) \in Nat
  BY <1>2, <1>3, <1>4, <1>5, <1>6, KeysAssumption, FS_CardinalityType
<1>9. PICK E : E = A \cup B
  OBVIOUS
<1>10. IsFiniteSet(E) /\ Cardinality(E) <= Cardinality(A) + Cardinality(B)
  BY <1>3, <1>4, <1>9, UnionBound
<1>11. PICK F : F = E \cup C
  OBVIOUS
<1>12. IsFiniteSet(F) /\ Cardinality(F) <= Cardinality(E) + Cardinality(C)
  BY <1>5, <1>10, <1>11, UnionBound
<1>13. PICK G : G = F \cup D
  OBVIOUS
<1>14. IsFiniteSet(G) /\ Cardinality(G) <= Cardinality(F) + Cardinality(D)
  BY <1>6, <1>12, <1>13, UnionBound
<1>15. PICK H : H = G \cup {check.new}
  OBVIOUS
<1>16. IsFiniteSet(H) /\ Cardinality(H) <= Cardinality(G) + Cardinality({check.new})
  BY <1>7, <1>14, <1>15, UnionBound
<1>17. /\ Cardinality(E) \in Nat /\ Cardinality(F) \in Nat
       /\ Cardinality(G) \in Nat /\ Cardinality(H) \in Nat
  BY <1>10, <1>12, <1>14, <1>16, FS_CardinalityType
<1>18. Cardinality(H) < Cardinality(Keys)
  BY <1>2, <1>3, <1>4, <1>5, <1>6, <1>7, <1>8, <1>10, <1>12, <1>14, <1>16, <1>17,
     KeysAssumption
<1>19. H = KeysInUse
  BY <1>1, <1>9, <1>11, <1>13, <1>15 DEF KeysInUse
<1>20. \E k \in Keys : k \notin H
  <2>1. ASSUME Keys \subseteq H PROVE FALSE
    <3>1. Cardinality(Keys) <= Cardinality(H)
      BY <2>1, <1>16, FS_Subset
    <3> QED
      BY <3>1, <1>8, <1>17, <1>18
  <2> QED
    BY <2>1
<1> QED
  BY <1>19, <1>20 DEF Issued

-----------------------------------------------------------------------------
(* The invariant                                                           *)

SolveSteps == {"solve token", "solve create", "solve update"}
PasswordSteps == {"password call", "password key", "password update"}
CodeSteps == {"code call", "code key", "code update", "code clear"}

\* What each kind of request has in its variables
JobFilled(h) ==
    /\ job[h].pc # "idle" => User(h) \in Users
    /\ job[h].pc \in {"add token", "add insert"} => job[h].password = job[h].request
    /\ job[h].pc \in SolveSteps => job[h].password # None /\ job[h].request # None
    /\ job[h].pc \in PasswordSteps => job[h].password # None

TableOK == DOMAIN linphone \subseteq Users /\ linphone \in [DOMAIN linphone -> Row]
JobsOK == job \in [Handlers -> Job] /\ \A h \in Handlers : JobFilled(h)
CheckOK == check \in Check /\ (check.pc \in {"key", "update"} => check.user \in Users)
RemoteOK == remote \in [Users -> Account]
CountsOK ==
    /\ tokens \in 0..MaxTokens /\ spent \subseteq Tokens
    /\ swapped \subseteq Users /\ changed \subseteq Users
    /\ forms \in [Users -> Nat]
    /\ faults \in Nat /\ expiries \in Nat /\ changes \in Nat /\ crashes \in Nat

Typed == TableOK /\ JobsOK /\ CheckOK /\ RemoteOK /\ CountsOK

-----------------------------------------------------------------------------
(* Type correctness                                                        *)

LEMMA TypedTypeOK == Typed => TypeOK
  BY DEF Typed, TypeOK, TableOK, JobsOK, CheckOK, RemoteOK, CountsOK

LEMMA NameFacts ==
  /\ None \notin Passwords /\ None \notin Tokens
  /\ Known \in Passwords /\ Other \in Passwords /\ Tokens \subseteq Passwords
  /\ NoKey \notin Keys
<1>1. MaxTokens \in Nat
  BY LimitsAssumption
<1>2. Tokens \subseteq Nat
  BY <1>1 DEF Tokens
<1>3. None \notin Nat /\ None # Known /\ None # Other
  BY NamesAssumption
<1> QED
  BY <1>2, <1>3, NamesAssumption DEF Passwords

LEMMA IdleType == Idle \in Job /\ Idle.pc = "idle"
  BY DEF Idle, Job

LEMMA AsleepType == Asleep \in Check /\ Asleep.pc = "sleep"
  BY DEF Asleep, Check

LEMMA JobFacts ==
  ASSUME JobsOK, NEW h \in Handlers
  PROVE  /\ job[h] \in Job /\ job[h].user \in Users \cup {None}
         /\ job[h].password \in Passwords \cup {None} /\ job[h].request \in Tokens \cup {None}
         /\ job[h].activated \in BOOLEAN /\ job[h].key \in Keys \cup {NoKey}
         /\ job[h].pc \in {"idle", "add token", "add insert",
                           "solve token", "solve create", "solve update",
                           "password call", "password key", "password update",
                           "email call", "email update",
                           "code call", "code key", "code update", "code clear"}
         /\ JobFilled(h)
<1>1. job[h] \in Job
  BY DEF JobsOK
<1>2. JobFilled(h)
  BY DEF JobsOK
<1> QED
  BY <1>1, <1>2 DEF Job

LEMMA JobStep ==
  ASSUME JobsOK, NEW h \in Handlers, NEW v \in Job,
         job' = [job EXCEPT ![h] = v],
         v.pc # "idle" => v.user \in Users,
         v.pc \in {"add token", "add insert"} => v.password = v.request,
         v.pc \in SolveSteps => v.password # None /\ v.request # None,
         v.pc \in PasswordSteps => v.password # None
  PROVE  JobsOK' /\ job'[h] = v /\ \A g \in Handlers \ {h} : job'[g] = job[g]
<1>1. job' \in [Handlers -> Job] /\ job'[h] = v /\ \A g \in Handlers \ {h} : job'[g] = job[g]
  BY DEF JobsOK
<1>2. JobFilled(h)'
  BY <1>1 DEF JobFilled, User
<1>3. ASSUME NEW g \in Handlers \ {h} PROVE JobFilled(g)'
  <2>1. JobFilled(g) /\ job'[g] = job[g]
    BY <1>1 DEF JobsOK
  <2> QED
    BY <2>1 DEF JobFilled, User
<1> QED
  BY <1>1, <1>2, <1>3 DEF JobsOK

LEMMA DoneStep ==
  ASSUME JobsOK, NEW h \in Handlers, Done(h)
  PROVE  JobsOK' /\ job'[h] = Idle /\ \A g \in Handlers \ {h} : job'[g] = job[g]
<1>1. Idle \in Job /\ Idle.pc = "idle"
  BY IdleType
<1>2. job' = [job EXCEPT ![h] = Idle]
  BY DEF Done
<1> QED
  BY <1>1, <1>2, JobStep DEF SolveSteps, PasswordSteps

LEMMA BeginStep ==
  ASSUME JobsOK, NEW h \in Handlers, NEW step, NEW u \in Users,
         NEW p \in Passwords \cup {None}, NEW r \in Tokens \cup {None},
         Begin(h, step, u, p, r),
         \/ step \in {"add token", "add insert"} /\ p = r
         \/ step = "solve token" /\ p # None /\ r # None
         \/ step = "password call" /\ p # None
         \/ step \in {"email call", "code call"}
  PROVE  /\ JobsOK' /\ \A g \in Handlers \ {h} : job'[g] = job[g]
         /\ job'[h].pc = step /\ job'[h].user = u /\ job'[h].password = p
         /\ job'[h].request = r
<1>1. PICK v : v = [Idle EXCEPT !.pc = step, !.user = u, !.password = p, !.request = r]
  OBVIOUS
<1>2. v \in Job /\ v.pc = step /\ v.user = u /\ v.password = p /\ v.request = r
  BY <1>1 DEF Idle, Job
<1>3. job' = [job EXCEPT ![h] = v]
  BY <1>1 DEF Begin
<1>4. /\ v.pc \in {"add token", "add insert"} => v.password = v.request
      /\ v.pc \in SolveSteps => v.password # None /\ v.request # None
      /\ v.pc \in PasswordSteps => v.password # None
  BY <1>2 DEF SolveSteps, PasswordSteps
<1>5. JobsOK' /\ job'[h] = v /\ \A g \in Handlers \ {h} : job'[g] = job[g]
  BY <1>2, <1>3, <1>4, JobStep
<1> QED
  BY <1>2, <1>5

\* A step of the handler that changes no more than where it is
LEMMA GotoStep ==
  ASSUME JobsOK, NEW h \in Handlers, NEW step, Goto(h, step),
         \/ At(h, "add token") /\ step = "add insert"
         \/ At(h, "solve token") /\ step = "solve create"
         \/ At(h, "solve create") /\ step = "solve update"
         \/ At(h, "password key") /\ step = "password update"
         \/ At(h, "email call") /\ step = "email update"
         \/ At(h, "code call") /\ step = "code clear"
         \/ At(h, "code key") /\ step = "code update"
  PROVE  /\ JobsOK' /\ \A g \in Handlers \ {h} : job'[g] = job[g]
         /\ job'[h] = [job[h] EXCEPT !.pc = step]
         /\ job'[h].pc = step /\ job'[h].user = job[h].user
         /\ job'[h].password = job[h].password /\ job'[h].request = job[h].request
<1>1. PICK v : v = [job[h] EXCEPT !.pc = step]
  OBVIOUS
<1>2. job[h] \in Job /\ JobFilled(h)
  BY JobFacts
<1>3. v \in Job /\ v.pc = step /\ v.user = job[h].user /\ v.password = job[h].password
      /\ v.request = job[h].request
  BY <1>1, <1>2 DEF Job, At
<1>4. job' = [job EXCEPT ![h] = v]
  BY <1>1 DEF Goto
<1>5. /\ v.pc # "idle" => v.user \in Users
      /\ v.pc \in {"add token", "add insert"} => v.password = v.request
      /\ v.pc \in SolveSteps => v.password # None /\ v.request # None
      /\ v.pc \in PasswordSteps => v.password # None
  BY <1>2, <1>3 DEF JobFilled, User, At, SolveSteps, PasswordSteps
<1>6. JobsOK' /\ job'[h] = v /\ \A g \in Handlers \ {h} : job'[g] = job[g]
  BY <1>3, <1>4, <1>5, JobStep
<1> QED
  BY <1>1, <1>3, <1>6

LEMMA SetStep ==
  ASSUME TableOK, NEW u, NEW row, Set(u, row), u \in DOMAIN linphone => row \in Row
  PROVE  /\ TableOK' /\ DOMAIN linphone' = DOMAIN linphone
         /\ \A v \in DOMAIN linphone : linphone'[v] = IF v = u THEN row ELSE linphone[v]
  BY DEF TableOK, Set

LEMMA FaultStep == CountsOK /\ Fault => faults' \in Nat
  BY DEF CountsOK, Fault

LEMMA FormStep ==
  ASSUME CountsOK, NEW h \in Handlers, NEW u \in Users, Form(h, u)
  PROVE  forms' \in [Users -> Nat]
  BY DEF CountsOK, Form

\* What Linphone accepts now it goes on accepting, but for a changed password.
AcceptsMore == \A u \in Users \ changed' : \A p : Accepts(u, p) => Accepts(u, p)'

LEMMA IssueStep ==
  ASSUME TableOK, RemoteOK, NEW u \in Users, Issue(u)
  PROVE  /\ RemoteOK' /\ Issued \in Keys /\ AcceptsMore
         /\ \A v \in Users : /\ remote'[v].state = remote[v].state
                             /\ remote'[v].password = remote[v].password
<1>1. Issued \in Keys
  BY FreeKey DEF TableOK
<1>2. PICK k \in Keys : k = Issued
  BY <1>1
<1>3. remote' = [remote EXCEPT ![u].key = k]
  BY <1>2 DEF Issue
<1>4. /\ RemoteOK'
      /\ \A v \in Users : /\ remote'[v].state = remote[v].state
                          /\ remote'[v].password = remote[v].password
  BY <1>3 DEF RemoteOK, Account
<1> QED
  BY <1>1, <1>4 DEF AcceptsMore, Accepts

LEMMA SameRemote == UNCHANGED remote => AcceptsMore
  BY DEF AcceptsMore, Accepts

LEMMA PostTyped ==
  ASSUME Typed, NEW h \in Handlers, Post(h)
  PROVE  Typed'
<1> USE DEF Typed
<1> PICK u \in Users : \/ Delete(h, u) \/ Add(h, u) \/ Solved(h, u) \/ SetEmail(h, u)
                       \/ EnterCode(h, u) \/ \E p \in {Known, Other} : SetPassword(h, u, p)
  BY DEF Post
<1>f. ASSUME Form(h, u), UNCHANGED <<tokens, spent, changed, faults, expiries, changes, crashes>>,
             swapped' \subseteq Users
      PROVE  CountsOK'
  <2>1. forms' \in [Users -> Nat]
    BY <1>f, FormStep
  <2> QED
    BY <1>f, <2>1 DEF CountsOK
<1>p. ASSUME HasPassword(u)
      PROVE  /\ linphone[u].password \in Passwords \cup {None} /\ linphone[u].password # None
             /\ linphone[u].request \in Tokens \cup {None}
  BY <1>p DEF HasPassword, TableOK, Row
<1>1. CASE Delete(h, u)
  <2>1. TableOK'
    BY <1>1 DEF TableOK, Delete
  <2>2. swapped' \subseteq Users
    BY <1>1 DEF CountsOK, Delete
  <2> QED
    BY <1>1, <1>f, <2>1, <2>2 DEF Delete, world, JobsOK, JobFilled, User, CheckOK, RemoteOK
<1>2. CASE Add(h, u)
  <2>1. \E step \in {"add token", "add insert"} : Begin(h, step, u, None, None)
    BY <1>2 DEF Add
  <2>2. JobsOK'
    BY <2>1, BeginStep
  <2> QED
    BY <1>2, <1>f, <2>2 DEF Add, world, TableOK, CheckOK, RemoteOK, CountsOK
<1>3. CASE Solved(h, u)
  <2>1. Begin(h, "solve token", u, linphone[u].password, linphone[u].request)
        /\ HasPassword(u) /\ linphone[u].request # None
    BY <1>3 DEF Solved
  <2>2. JobsOK'
    BY <1>p, <2>1, BeginStep
  <2> QED
    BY <1>3, <1>f, <2>2 DEF Solved, world, TableOK, CheckOK, RemoteOK, CountsOK
<1>4. CASE SetEmail(h, u)
  <2>1. Begin(h, "email call", u, linphone[u].password, None) /\ HasPassword(u)
    BY <1>4 DEF SetEmail
  <2>2. JobsOK'
    BY <1>p, <2>1, BeginStep
  <2> QED
    BY <1>4, <1>f, <2>2 DEF SetEmail, world, TableOK, CheckOK, RemoteOK, CountsOK
<1>5. CASE EnterCode(h, u)
  <2>1. Begin(h, "code call", u, linphone[u].password, None) /\ HasPassword(u)
    BY <1>5 DEF EnterCode
  <2>2. JobsOK'
    BY <1>p, <2>1, BeginStep
  <2> QED
    BY <1>5, <1>f, <2>2 DEF EnterCode, world, TableOK, CheckOK, RemoteOK, CountsOK
<1>6. ASSUME NEW p \in {Known, Other}, SetPassword(h, u, p) PROVE Typed'
  <2>1. Begin(h, "password call", u, p, None)
    BY <1>6 DEF SetPassword
  <2>2. p \in Passwords /\ p # None
    BY NameFacts
  <2>3. JobsOK'
    BY <2>1, <2>2, BeginStep
  <2> QED
    BY <1>6, <1>f, <2>3 DEF SetPassword, world, TableOK, CheckOK, RemoteOK, CountsOK
<1> QED
  BY <1>1, <1>2, <1>3, <1>4, <1>5, <1>6

LEMMA StepUser ==
  ASSUME JobsOK, NEW h \in Handlers, job[h].pc # "idle"
  PROVE  User(h) \in Users /\ job[h].user = User(h)
  BY DEF JobsOK, JobFilled, User

\* A step with an outcome that may be a failure
LEMMA FaultOrNot ==
  ASSUME CountsOK, Fault \/ UNCHANGED faults,
         UNCHANGED <<swapped, changed, tokens, spent, forms, expiries, changes, crashes>>
  PROVE  CountsOK'
  BY FaultStep DEF CountsOK

LEMMA ServeTyped ==
  ASSUME Typed, NEW h \in Handlers, Serve(h)
  PROVE  Typed'
<1> USE DEF Typed
<1>j. /\ job[h] \in Job /\ JobFilled(h)
      /\ job[h].password \in Passwords \cup {None} /\ job[h].request \in Tokens \cup {None}
      /\ job[h].activated \in BOOLEAN /\ job[h].key \in Keys \cup {NoKey}
  BY JobFacts
<1>1. CASE AddToken(h)
  <2>1. tokens' \in Tokens /\ tokens' \in 0..MaxTokens /\ User(h) \in Users
    <3>1. MaxTokens \in Nat
      BY LimitsAssumption
    <3>2. tokens' \in Tokens /\ tokens' \in 0..MaxTokens
      <4>1. tokens \in 0..MaxTokens /\ tokens < MaxTokens /\ tokens' = tokens + 1
        BY <1>1 DEF AddToken, CountsOK
      <4> QED
        BY <3>1, <4>1 DEF Tokens
    <3> QED
      BY <1>1, <3>2, StepUser DEF AddToken, At
  <2>2. PICK v : v = [job[h] EXCEPT !.pc = "add insert", !.password = tokens',
                                    !.request = tokens']
    OBVIOUS
  <2>3. v \in Job /\ v.pc = "add insert" /\ v.user = User(h) /\ v.password = v.request
    BY <1>j, <2>1, <2>2, NameFacts DEF Job, User
  <2>4. job' = [job EXCEPT ![h] = v]
    BY <1>1, <2>2 DEF AddToken
  <2>5. JobsOK'
    BY <2>1, <2>3, <2>4, JobStep DEF SolveSteps, PasswordSteps
  <2>6. CountsOK'
    BY <1>1, <2>1 DEF AddToken, CountsOK, limits
  <2> QED
    BY <1>1, <2>5, <2>6 DEF AddToken, TableOK, CheckOK, RemoteOK
<1>2. CASE AddTokenErr(h)
  BY <1>2, GotoStep, FaultOrNot DEF AddTokenErr, world, TableOK, CheckOK, RemoteOK
<1>3. CASE AddInsert(h)
  <2>1. User(h) \in Users /\ job[h].password = job[h].request
    BY <1>3, <1>j, StepUser DEF AddInsert, At, JobFilled
  <2>2. TableOK'
    <3>1. PICK row : row = [password |-> job[h].password, request |-> job[h].request,
                            creation |-> FALSE, email |-> FALSE,
                            activated |-> FALSE, apikey |-> NoKey]
      OBVIOUS
    <3>2. row \in Row
      BY <1>j, <3>1 DEF Row
    <3>3. linphone' = [u \in DOMAIN linphone \cup {User(h)} |->
                         IF u \in DOMAIN linphone THEN linphone[u] ELSE row]
      BY <1>3, <3>1 DEF AddInsert
    <3> QED
      BY <2>1, <3>2, <3>3 DEF TableOK
  <2> QED
    BY <1>3, <2>2, DoneStep DEF AddInsert, world, limits, CheckOK, RemoteOK, CountsOK
<1>4. CASE SolveToken(h)
  <2>1. job[h].request \in Tokens
    BY <1>4, <1>j DEF SolveToken, At, JobFilled, SolveSteps
  <2>2. CountsOK'
    BY <1>4, <2>1, FaultStep DEF SolveToken, CountsOK
  <2>3. JobsOK'
    BY <1>4, GotoStep, DoneStep DEF SolveToken
  <2> QED
    BY <1>4, <2>2, <2>3 DEF SolveToken, TableOK, CheckOK, RemoteOK
<1>5. CASE SolveRefused(h)
  BY <1>5, DoneStep DEF SolveRefused, world, limits, TableOK, CheckOK, RemoteOK, CountsOK
<1>6. CASE SolveCreate(h)
  <2>1. User(h) \in Users /\ job[h].password \in Passwords
    BY <1>6, <1>j, StepUser DEF SolveCreate, At, JobFilled, SolveSteps
  <2>2. RemoteOK'
    <3>1. PICK a : a = [state |-> "inactive", password |-> job[h].password, key |-> NoKey]
      OBVIOUS
    <3>2. a \in Account
      BY <2>1, <3>1 DEF Account
    <3>3. remote' = [remote EXCEPT ![User(h)] = a] \/ UNCHANGED remote
      BY <1>6, <3>1 DEF SolveCreate
    <3> QED
      BY <3>2, <3>3 DEF RemoteOK
  <2>3. JobsOK'
    BY <1>6, GotoStep, DoneStep DEF SolveCreate
  <2>4. CountsOK'
    BY <1>6, FaultOrNot DEF SolveCreate
  <2> QED
    BY <1>6, <2>2, <2>3, <2>4 DEF SolveCreate, TableOK, CheckOK
<1>7. CASE SolveUpdate(h)
  <2>1. User(h) \in DOMAIN linphone =>
          [linphone[User(h)] EXCEPT !.request = None, !.creation = TRUE] \in Row
    BY DEF TableOK, Row
  <2>2. TableOK'
    BY <1>7, <2>1, SetStep DEF SolveUpdate
  <2> QED
    BY <1>7, <2>2, DoneStep DEF SolveUpdate, world, limits, CheckOK, RemoteOK, CountsOK
<1>8. CASE PasswordCall(h)
  <2>1. CASE Accepts(User(h), job[h].password)
    <3>1. PICK active \in BOOLEAN : active = (remote[User(h)].state = "active")
      OBVIOUS
    <3>2. PICK v : v = [job[h] EXCEPT !.pc = IF active THEN "password key"
                                             ELSE "password update",
                                      !.activated = active]
      OBVIOUS
    <3>3. /\ v \in Job /\ v.pc \in {"password key", "password update"}
          /\ v.user = User(h) /\ v.password = job[h].password
      BY <1>j, <3>1, <3>2 DEF Job, User
    <3>4. User(h) \in Users /\ job[h].password # None
      BY <1>8, <1>j, StepUser DEF PasswordCall, At, JobFilled, PasswordSteps
    <3>5. job' = [job EXCEPT ![h] = v]
      BY <1>8, <2>1, <3>1, <3>2 DEF PasswordCall
    <3>6. JobsOK'
      BY <3>3, <3>4, <3>5, JobStep DEF SolveSteps, PasswordSteps
    <3> QED
      BY <1>8, <3>6 DEF PasswordCall, world, limits, TableOK, CheckOK, RemoteOK, CountsOK
  <2>2. CASE ~Accepts(User(h), job[h].password)
    BY <1>8, <2>2, DoneStep
    DEF PasswordCall, world, limits, TableOK, CheckOK, RemoteOK, CountsOK
  <2> QED
    BY <2>1, <2>2
<1>9. CASE PasswordUpdate(h)
  <2>1. job[h].password \in Passwords
    BY <1>9, <1>j DEF PasswordUpdate, At, JobFilled, PasswordSteps
  <2>2. PICK e \in BOOLEAN :
          Set(User(h), [linphone[User(h)] EXCEPT !.password = job[h].password,
                                                 !.email = e, !.creation = TRUE,
                                                 !.activated = job[h].activated,
                                                 !.apikey = job[h].key])
    BY <1>9 DEF PasswordUpdate
  <2>3. PICK row : row = [linphone[User(h)] EXCEPT !.password = job[h].password,
                                                 !.email = e, !.creation = TRUE,
                                                 !.activated = job[h].activated,
                                                 !.apikey = job[h].key]
    OBVIOUS
  <2>4. User(h) \in DOMAIN linphone => row \in Row
    BY <1>j, <2>1, <2>3 DEF TableOK, Row
  <2>5. TableOK'
    BY <2>2, <2>3, <2>4, SetStep
  <2> QED
    BY <1>9, <2>5, DoneStep DEF PasswordUpdate, world, limits, CheckOK, RemoteOK, CountsOK
<1>10. CASE EmailCall(h)
  BY <1>10, GotoStep, DoneStep
  DEF EmailCall, world, limits, TableOK, CheckOK, RemoteOK, CountsOK
<1>11. CASE EmailUpdate(h)
  <2>1. User(h) \in DOMAIN linphone =>
          [linphone[User(h)] EXCEPT !.creation = FALSE, !.email = TRUE] \in Row
    BY DEF TableOK, Row
  <2>2. TableOK'
    BY <1>11, <2>1, SetStep DEF EmailUpdate
  <2> QED
    BY <1>11, <2>2, DoneStep DEF EmailUpdate, world, limits, CheckOK, RemoteOK, CountsOK
<1>12. CASE CodeCall(h)
  <2>1. User(h) \in Users
    BY <1>12, StepUser DEF CodeCall, At
  <2>2. RemoteOK'
    BY <1>12, <2>1 DEF CodeCall, RemoteOK, Account
  <2>3. CountsOK'
    BY <1>12, FaultOrNot DEF CodeCall
  <2>4. JobsOK'
    <3>1. PICK v : v = [job[h] EXCEPT !.pc = "code key", !.activated = TRUE]
      OBVIOUS
    <3>2. v \in Job /\ v.pc = "code key" /\ v.user = User(h)
      BY <1>j, <3>1 DEF Job, User
    <3>3. job' = [job EXCEPT ![h] = v] => JobsOK'
      BY <2>1, <3>2, JobStep DEF SolveSteps, PasswordSteps
    <3>4. job' = [job EXCEPT ![h] = v] \/ Goto(h, "code clear")
      BY <1>12, <3>1 DEF CodeCall
    <3> QED
      BY <1>12, <3>3, <3>4, GotoStep DEF CodeCall
  <2> QED
    BY <1>12, <2>2, <2>3, <2>4 DEF CodeCall, TableOK, CheckOK
<1>13. CASE CodeRefused(h)
  BY <1>13, GotoStep DEF CodeRefused, world, limits, TableOK, CheckOK, RemoteOK, CountsOK
<1>14. CASE CodeUpdate(h)
  <2>1. User(h) \in DOMAIN linphone =>
          [linphone[User(h)] EXCEPT !.activated = job[h].activated,
                                    !.apikey = job[h].key] \in Row
    BY <1>j DEF TableOK, Row
  <2>2. TableOK'
    BY <1>14, <2>1, SetStep DEF CodeUpdate
  <2> QED
    BY <1>14, <2>2, DoneStep DEF CodeUpdate, world, limits, CheckOK, RemoteOK, CountsOK
<1>15. CASE CodeClear(h)
  <2>1. User(h) \in DOMAIN linphone =>
          [linphone[User(h)] EXCEPT !.email = FALSE, !.creation = TRUE] \in Row
    BY DEF TableOK, Row
  <2>2. TableOK'
    BY <1>15, <2>1, SetStep DEF CodeClear
  <2> QED
    BY <1>15, <2>2, DoneStep DEF CodeClear, world, limits, CheckOK, RemoteOK, CountsOK
<1>16. ASSUME NEW step, NEW next,
              \/ step = "password key" /\ next = "password update"
              \/ step = "code key" /\ next = "code update",
              NewKey(h, step, next) \/ NoNewKey(h, step, next)
       PROVE  Typed'
  <2>1. User(h) \in Users
    BY <1>16, StepUser DEF NewKey, NoNewKey, At
  <2>2. RemoteOK'
    BY <1>16, <2>1, IssueStep DEF NewKey, NoNewKey, world, RemoteOK
  <2>3. JobsOK'
    <3>1. CASE Goto(h, next)
      BY <1>16, <3>1, GotoStep DEF NewKey, NoNewKey, At
    <3>2. CASE Issue(User(h)) /\ job' = [job EXCEPT ![h].pc = next, ![h].key = Issued]
      <4>1. Issued \in Keys
        BY <2>1, <3>2, IssueStep
      <4>2. PICK v : v = [job[h] EXCEPT !.pc = next, !.key = Issued]
        OBVIOUS
      <4>3. v \in Job /\ v.pc = next /\ v.user = User(h) /\ v.password = job[h].password
        BY <1>16, <1>j, <4>1, <4>2 DEF Job, User
      <4>4. job[h].pc = "password key" => job[h].password # None
        BY <1>j DEF JobFilled, PasswordSteps
      <4>5. v.pc \in PasswordSteps => v.password # None
        BY <1>16, <4>3, <4>4 DEF NewKey, NoNewKey, At, PasswordSteps
      <4>6. job' = [job EXCEPT ![h] = v]
        BY <3>2, <4>2
      <4> QED
        BY <1>16, <2>1, <4>3, <4>5, <4>6, JobStep DEF SolveSteps
    <3> QED
      BY <1>16, <3>1, <3>2 DEF NewKey, NoNewKey
  <2>4. CountsOK'
    BY <1>16, FaultOrNot DEF NewKey, NoNewKey, world
  <2> QED
    BY <1>16, <2>2, <2>3, <2>4 DEF NewKey, NoNewKey, world, TableOK, CheckOK
<1>17. CASE Err(h)
  BY <1>17, DoneStep, FaultOrNot DEF Err, world, TableOK, CheckOK, RemoteOK
<1> QED
  BY <1>1, <1>2, <1>3, <1>4, <1>5, <1>6, <1>7, <1>8, <1>9, <1>10, <1>11, <1>12, <1>13,
     <1>14, <1>15, <1>16, <1>17 DEF Serve

LEMMA CheckFacts ==
  ASSUME CheckOK
  PROVE  /\ check \in Check /\ check.left \subseteq Users
         /\ check.password \in [Users -> Passwords \cup {None}]
         /\ check.apikey \in [Users -> Keys \cup {NoKey}]
         /\ check.new \in Keys \cup {NoKey}
         /\ check.pc \in {"key", "update"} => check.user \in Users
  BY DEF CheckOK, Check

LEMMA AfterType ==
  ASSUME CheckOK, NEW left \in SUBSET Users
  PROVE  /\ Slept(After(left)) \in Check
         /\ Slept(After(left)).pc \notin {"key", "update"}
<1>1. /\ After(left) \in Check
      /\ After(left).pc \in {"sleep", "me"}
  <2>1. check \in Check
    BY CheckFacts
  <2>2. After(left) \in Check
    BY <2>1 DEF After, Check
  <2>3. After(left).pc = IF left = {} THEN "sleep" ELSE "me"
    BY <2>1 DEF After, Check
  <2> QED
    BY <2>2, <2>3
<1> QED
  BY <1>1, AsleepType DEF Slept

LEMMA CheckStep ==
  ASSUME NEW c \in Check, check' = c, c.pc \in {"key", "update"} => c.user \in Users
  PROVE  CheckOK'
  BY DEF CheckOK

LEMMA RestartTyped ==
  ASSUME Restarted
  PROVE  JobsOK' /\ CheckOK' /\ \A h \in Handlers : job'[h] = Idle
<1>1. \A h \in Handlers : job'[h] = Idle
  BY DEF Restarted
<1>2. job' \in [Handlers -> Job]
  BY IdleType DEF Restarted
<1>3. ASSUME NEW h \in Handlers PROVE JobFilled(h)'
  BY <1>1, IdleType DEF JobFilled, SolveSteps, PasswordSteps
<1> QED
  BY <1>1, <1>2, <1>3, AsleepType DEF Restarted, JobsOK, CheckOK

LEMMA CheckingTyped ==
  ASSUME Typed, Checking
  PROVE  Typed'
<1> USE DEF Typed
<1>c. /\ check \in Check /\ check.left \subseteq Users
      /\ check.password \in [Users -> Passwords \cup {None}]
      /\ check.apikey \in [Users -> Keys \cup {NoKey}]
      /\ check.new \in Keys \cup {NoKey}
      /\ check.pc \in {"key", "update"} => check.user \in Users
  BY CheckFacts
<1>j. UNCHANGED job => JobsOK'
  BY DEF JobsOK, JobFilled, User
<1>1. CASE CheckStart
  <2>1. PICK passwords, keys :
          /\ passwords = [u \in Users |-> IF u \in Activated THEN linphone[u].password
                                          ELSE None]
          /\ keys = [u \in Users |-> IF u \in Activated THEN linphone[u].apikey ELSE NoKey]
    OBVIOUS
  <2>2. Activated \in SUBSET Users
    BY DEF Activated, TableOK
  <2>3. \A u \in Activated : linphone[u].password \in Passwords \cup {None}
                             /\ linphone[u].apikey \in Keys \cup {NoKey}
    BY DEF Activated, TableOK, Row
  <2>4. passwords \in [Users -> Passwords \cup {None}] /\ keys \in [Users -> Keys \cup {NoKey}]
    BY <2>1, <2>3
  <2>5. PICK c : c = [Asleep EXCEPT !.pc = "me", !.left = Activated,
                                    !.password = passwords, !.apikey = keys]
    OBVIOUS
  <2>6. c \in Check /\ c.pc = "me"
    BY <2>2, <2>4, <2>5 DEF Asleep, Check
  <2>7. check' = c
    BY <1>1, <2>1, <2>5 DEF CheckStart
  <2> QED
    BY <1>1, <1>j, <2>6, <2>7, CheckStep
    DEF CheckStart, world, limits, TableOK, RemoteOK, CountsOK
<1>2. CASE CheckPanics
  BY <1>2, RestartTyped DEF CheckPanics, world, TableOK, RemoteOK, CountsOK
<1>3. ASSUME NEW u \in Users, CheckMe(u) PROVE Typed'
  <2>1. [check EXCEPT !.pc = "key", !.user = u] \in Check
        /\ [check EXCEPT !.pc = "key", !.user = u].user = u
    BY <1>c DEF Check
  <2>2. CheckOK'
    <3>1. check.left \ {u} \in SUBSET Users
      BY <1>c
    <3>2. \/ check' = Slept(After(check.left \ {u}))
          \/ check' = [check EXCEPT !.pc = "key", !.user = u]
      BY <1>3 DEF CheckMe
    <3> QED
      BY <2>1, <3>1, <3>2, AfterType, CheckStep
  <2> QED
    BY <1>3, <1>j, <2>2 DEF CheckMe, world, limits, TableOK, RemoteOK, CountsOK
<1>4. ASSUME NEW u \in Users, CheckMeErr(u) PROVE Typed'
  <2>1. [check EXCEPT !.pc = "key", !.user = u] \in Check
        /\ [check EXCEPT !.pc = "key", !.user = u].user = u
    BY <1>c DEF Check
  <2>2. CheckOK'
    BY <1>4, <2>1, CheckStep DEF CheckMeErr
  <2> QED
    BY <1>4, <1>j, <2>2, FaultOrNot DEF CheckMeErr, world, TableOK, RemoteOK
<1>5. CASE CheckKey
  <2>1. check.user \in Users
    BY <1>5, <1>c DEF CheckKey
  <2>2. RemoteOK' /\ Issued \in Keys
    BY <1>5, <2>1, IssueStep DEF CheckKey
  <2>3. /\ [check EXCEPT !.pc = "update", !.new = Issued] \in Check
        /\ [check EXCEPT !.pc = "update"] \in Check
        /\ [check EXCEPT !.pc = "update", !.new = Issued].user = check.user
        /\ [check EXCEPT !.pc = "update"].user = check.user
    BY <1>c, <2>2 DEF Check
  <2>4. CheckOK'
    BY <1>5, <2>1, <2>3, CheckStep DEF CheckKey
  <2> QED
    BY <1>5, <1>j, <2>2, <2>4, FaultOrNot DEF CheckKey, TableOK
<1>6. CASE CheckNoKey
  <2>1. check.user \in Users
    BY <1>6, <1>c DEF CheckNoKey
  <2>2. /\ [check EXCEPT !.pc = "update"] \in Check
        /\ [check EXCEPT !.pc = "update"].user = check.user
    BY <1>c DEF Check
  <2>3. CheckOK'
    BY <1>6, <2>1, <2>2, CheckStep DEF CheckNoKey
  <2> QED
    BY <1>6, <1>j, <2>3, FaultOrNot DEF CheckNoKey, world, TableOK, RemoteOK
<1>7. CASE CheckUpdate
  <2>1. check.user \in DOMAIN linphone =>
          [linphone[check.user] EXCEPT !.apikey = check.new] \in Row
    BY <1>c DEF TableOK, Row
  <2>2. TableOK'
    BY <1>7, <2>1, SetStep DEF CheckUpdate, TableOK
  <2>3. check.left \ {check.user} \in SUBSET Users
    BY <1>c
  <2>4. CheckOK'
    BY <1>7, <2>3, AfterType, CheckStep DEF CheckUpdate, NextRow
  <2> QED
    BY <1>7, <1>j, <2>2, <2>4 DEF CheckUpdate, world, limits, RemoteOK, CountsOK
<1>8. CASE CheckUpdateErr
  BY <1>8, <1>j, AsleepType, CheckStep, FaultOrNot
  DEF CheckUpdateErr, world, TableOK, RemoteOK
<1> QED
  BY <1>1, <1>2, <1>3, <1>4, <1>5, <1>6, <1>7, <1>8 DEF Checking

LEMMA OutsideTyped ==
  ASSUME Typed, Outside
  PROVE  Typed'
<1> USE DEF Typed
<1>j. UNCHANGED job => JobsOK'
  BY DEF JobsOK, JobFilled, User
<1>1. CASE Restart
  BY <1>1, RestartTyped DEF Restart, world, TableOK, RemoteOK, CountsOK
<1>2. ASSUME NEW u \in Users, KeyExpires(u) PROVE Typed'
  <2>1. RemoteOK'
    BY <1>2 DEF KeyExpires, RemoteOK, Account
  <2> QED
    BY <1>2, <1>j, <2>1 DEF KeyExpires, TableOK, CheckOK, CountsOK
<1>3. ASSUME NEW u \in Users, ChangePassword(u) PROVE Typed'
  <2>1. RemoteOK'
    BY <1>3, NameFacts DEF ChangePassword, RemoteOK, Account
  <2> QED
    BY <1>3, <1>j, <2>1 DEF ChangePassword, TableOK, CheckOK, CountsOK
<1> QED
  BY <1>1, <1>2, <1>3 DEF Outside

LEMMA InitTyped == Init => Typed
<1> SUFFICES ASSUME Init PROVE Typed
  OBVIOUS
<1>1. TableOK
  BY DEF Init, TableOK
<1>2. JobsOK
  BY IdleType DEF Init, JobsOK, JobFilled, SolveSteps, PasswordSteps
<1>3. CheckOK
  BY AsleepType DEF Init, CheckOK
<1>4. RemoteOK
  BY NameFacts DEF Init, RemoteOK, Account
<1>5. MaxTokens \in Nat
  BY LimitsAssumption
<1>6. CountsOK
  BY <1>5 DEF Init, CountsOK
<1> QED
  BY <1>1, <1>2, <1>3, <1>4, <1>6 DEF Typed

LEMMA NextTyped == Typed /\ [Next]_vars => Typed'
<1> SUFFICES ASSUME Typed, [Next]_vars PROVE Typed'
  OBVIOUS
<1>1. CASE UNCHANGED vars
  BY <1>1 DEF vars, world, limits, Typed, TableOK, JobsOK, JobFilled, User, CheckOK,
              RemoteOK, CountsOK
<1> QED
  BY <1>1, PostTyped, ServeTyped, CheckingTyped, OutsideTyped DEF Next

-----------------------------------------------------------------------------
(* Passwords                                                               *)

\* A row has no password yet, or the one made with its token, or one that works.
RowInv == \A u \in DOMAIN linphone \ (swapped \cup changed) :
    linphone[u].password \in {None, linphone[u].request} \/ Accepts(u, linphone[u].password)

\* What a request knows of its row and of its account: nobody replaces a row, or
\* its token, without deleting it first.
CodeInv(h) ==
    job[h].pc \in CodeSteps /\ User(h) \notin swapped => HasPassword(User(h))

TokenInv(h) ==
    job[h].pc \in SolveSteps /\ User(h) \notin swapped =>
        User(h) \in DOMAIN linphone /\ linphone[User(h)].request \in {job[h].request, None}

SolveInv(h) ==
    job[h].pc \in SolveSteps /\ User(h) \notin swapped \cup changed =>
        /\ job[h].password = job[h].request \/ Accepts(User(h), job[h].password)
        /\ job[h].pc = "solve update" => Accepts(User(h), job[h].request)

EnteredInv(h) ==
    job[h].pc \in {"password key", "password update"} /\ User(h) \notin changed =>
        Accepts(User(h), job[h].password)

JobInv(h) == CodeInv(h) /\ TokenInv(h) /\ SolveInv(h) /\ EnteredInv(h)

IInv == Typed /\ ActivatedHasPassword /\ RowInv /\ \A h \in Handlers : JobInv(h)

\* Rows that stay, with their token, their password once they have one
RowsStay ==
    \A u \in DOMAIN linphone \ swapped' :
        /\ u \in DOMAIN linphone'
        /\ linphone'[u].request \in {linphone[u].request, None}
        /\ linphone[u].password # None => linphone'[u].password # None

LEMMA SameRows == UNCHANGED linphone => RowsStay
  BY DEF RowsStay

\* A request that does not move
LEMMA OtherJob ==
  ASSUME Typed, NEW g \in Handlers, JobInv(g), job'[g] = job[g],
         AcceptsMore, swapped \subseteq swapped', changed \subseteq changed',
         RowsStay
  PROVE  JobInv(g)'
<1>1. /\ User(g)' = User(g) /\ (job[g].pc # "idle" => User(g) \in Users)
  BY DEF User, Typed, JobsOK, JobFilled
<1>2. CodeInv(g)'
  BY <1>1 DEF JobInv, CodeInv, CodeSteps, HasPassword, RowsStay
<1>3. TokenInv(g)'
  BY <1>1 DEF JobInv, TokenInv, RowsStay
<1>4. SolveInv(g)'
  BY <1>1 DEF JobInv, SolveInv, SolveSteps, AcceptsMore
<1>5. EnteredInv(g)'
  BY <1>1 DEF JobInv, EnteredInv, AcceptsMore
<1> QED
  BY <1>2, <1>3, <1>4, <1>5 DEF JobInv

LEMMA SameTable ==
  ASSUME Typed, ActivatedHasPassword, RowInv, AcceptsMore, UNCHANGED linphone,
         swapped \subseteq swapped', changed \subseteq changed'
  PROVE  ActivatedHasPassword' /\ RowInv'
<1>1. ActivatedHasPassword'
  BY DEF ActivatedHasPassword, NoPassword, Activated
<1>2. RowInv'
  BY DEF RowInv, AcceptsMore, Typed, TableOK
<1> QED
  BY <1>1, <1>2

LEMMA IdleInv ==
  ASSUME NEW h \in Handlers, job'[h] = Idle
  PROVE  JobInv(h)'
<1>1. job'[h].pc = "idle"
  BY IdleType
<1> QED
  BY <1>1 DEF JobInv, CodeInv, TokenInv, SolveInv, EnteredInv, CodeSteps, SolveSteps

\* A step of one request that leaves the table alone
LEMMA JobOnly ==
  ASSUME IInv, NEW h \in Handlers, \A g \in Handlers \ {h} : job'[g] = job[g],
         JobInv(h)', AcceptsMore, UNCHANGED <<linphone, swapped, changed>>
  PROVE  ActivatedHasPassword' /\ RowInv' /\ \A g \in Handlers : JobInv(g)'
<1>1. RowsStay
  BY SameRows
<1>2. \A g \in Handlers \ {h} : JobInv(g)'
  BY <1>1, OtherJob DEF IInv
<1> QED
  BY <1>2, SameTable DEF IInv

\* A step of one request that writes a row
LEMMA RowWritten ==
  ASSUME IInv, NEW h \in Handlers, \A g \in Handlers \ {h} : job'[g] = job[g],
         job'[h] = Idle, UNCHANGED <<remote, swapped, changed>>, RowsStay,
         NEW u \in Users, \A v \in DOMAIN linphone' \ {u} :
                             v \in DOMAIN linphone /\ linphone'[v] = linphone[v],
         u \in DOMAIN linphone' \ swapped =>
             /\ linphone'[u].activated => linphone'[u].password # None
             /\ u \notin changed =>
                  \/ linphone'[u].password \in {None, linphone'[u].request}
                  \/ Accepts(u, linphone'[u].password)
  PROVE  ActivatedHasPassword' /\ RowInv' /\ \A g \in Handlers : JobInv(g)'
<1>1. AcceptsMore
  BY SameRemote
<1>2. \A g \in Handlers \ {h} : JobInv(g)'
  BY <1>1, OtherJob DEF IInv
<1>3. JobInv(h)'
  BY IdleInv
<1>4. ActivatedHasPassword'
  BY DEF IInv, ActivatedHasPassword, NoPassword, Activated
<1>5. RowInv'
  <2> SUFFICES ASSUME NEW v \in DOMAIN linphone' \ (swapped' \cup changed')
               PROVE  (\/ linphone[v].password \in {None, linphone[v].request}
                       \/ Accepts(v, linphone[v].password))'
    BY DEF RowInv
  <2>1. CASE v = u
    BY <2>1 DEF Accepts
  <2>2. CASE v # u
    <3>1. v \in DOMAIN linphone /\ linphone'[v] = linphone[v] /\ v \in Users
      BY <2>2 DEF IInv, Typed, TableOK
    <3>2. \/ linphone[v].password \in {None, linphone[v].request}
          \/ Accepts(v, linphone[v].password)
      BY <3>1 DEF IInv, RowInv
    <3> QED
      BY <3>1, <3>2 DEF Accepts
  <2> QED
    BY <2>1, <2>2
<1> QED
  BY <1>2, <1>3, <1>4, <1>5

\* A row is written whose password and token remain
LEMMA RowKept ==
  ASSUME IInv, UNCHANGED <<remote, swapped, changed>>, NEW u, NEW row,
         Set(u, row),
         u \in DOMAIN linphone =>
             /\ row \in Row /\ row.password = linphone[u].password
             /\ row.request = linphone[u].request
             /\ u \notin swapped => (row.activated => row.password # None)
  PROVE  /\ ActivatedHasPassword' /\ RowInv'
         /\ \A g \in Handlers : job'[g] = job[g] => JobInv(g)'
<1>1. /\ DOMAIN linphone' = DOMAIN linphone
      /\ \A v \in DOMAIN linphone : linphone'[v] = IF v = u THEN row ELSE linphone[v]
  BY SetStep DEF IInv, Typed
<1>2. \A v \in DOMAIN linphone : /\ linphone'[v].password = linphone[v].password
                                /\ linphone'[v].request = linphone[v].request
  BY <1>1
<1>3. RowsStay
  BY <1>1, <1>2 DEF RowsStay
<1>4. ActivatedHasPassword'
  BY <1>1, <1>2 DEF IInv, ActivatedHasPassword, NoPassword, Activated
<1>5. RowInv'
  BY <1>1, <1>2 DEF IInv, RowInv, Accepts
<1>6. \A g \in Handlers : job'[g] = job[g] => JobInv(g)'
  BY <1>3, SameRemote, OtherJob DEF IInv
<1> QED
  BY <1>4, <1>5, <1>6

LEMMA PostInv ==
  ASSUME IInv, NEW h \in Handlers, Post(h)
  PROVE  ActivatedHasPassword' /\ RowInv' /\ \A g \in Handlers : JobInv(g)'
<1> USE DEF IInv, Typed
<1> PICK u \in Users : \/ Delete(h, u) \/ Add(h, u) \/ Solved(h, u) \/ SetEmail(h, u)
                       \/ EnterCode(h, u) \/ \E p \in {Known, Other} : SetPassword(h, u, p)
  BY DEF Post
<1>p. ASSUME HasPassword(u)
      PROVE  /\ linphone[u].password \in Passwords \cup {None} /\ linphone[u].password # None
             /\ linphone[u].request \in Tokens \cup {None}
  BY <1>p DEF HasPassword, TableOK, Row
<1>1. CASE Delete(h, u)
  <2>1. AcceptsMore
    BY <1>1, SameRemote DEF Delete, world
  <2>2. /\ linphone' = [v \in DOMAIN linphone \ {u} |-> linphone[v]]
        /\ swapped \subseteq swapped' /\ UNCHANGED <<job, remote, changed>>
        /\ (\E g \in Handlers : User(g) = u) => u \in swapped'
    BY <1>1 DEF Delete, world
  <2>3. ActivatedHasPassword'
    BY <2>2 DEF ActivatedHasPassword, NoPassword, Activated
  <2>4. RowInv'
    BY <2>1, <2>2 DEF RowInv, AcceptsMore, TableOK
  <2>5. ASSUME NEW g \in Handlers PROVE JobInv(g)'
    <3>1. JobInv(g) /\ User(g)' = User(g) /\ job'[g] = job[g]
          /\ (job[g].pc # "idle" => User(g) \in Users)
      BY <2>2 DEF JobsOK, JobFilled, User
    <3>2. CodeInv(g)'
      BY <2>2, <3>1 DEF JobInv, CodeInv, HasPassword
    <3>3. TokenInv(g)'
      BY <2>2, <3>1 DEF JobInv, TokenInv
    <3>4. SolveInv(g)'
      BY <2>1, <2>2, <3>1 DEF JobInv, SolveInv, SolveSteps, AcceptsMore
    <3>5. EnteredInv(g)'
      BY <2>1, <2>2, <3>1 DEF JobInv, EnteredInv, AcceptsMore
    <3> QED
      BY <3>2, <3>3, <3>4, <3>5 DEF JobInv
  <2> QED
    BY <2>3, <2>4, <2>5
<1>2. CASE Add(h, u)
  <2>1. PICK step \in {"add token", "add insert"} : Begin(h, step, u, None, None)
    BY <1>2 DEF Add
  <2>2. job'[h].pc = step /\ \A g \in Handlers \ {h} : job'[g] = job[g]
    BY <2>1, BeginStep
  <2>3. JobInv(h)'
    BY <2>2 DEF JobInv, CodeInv, TokenInv, SolveInv, EnteredInv, CodeSteps, SolveSteps
  <2> QED
    BY <1>2, <2>2, <2>3, SameRemote, JobOnly DEF Add, world
<1>3. CASE Solved(h, u)
  <2>1. Begin(h, "solve token", u, linphone[u].password, linphone[u].request)
        /\ HasPassword(u) /\ linphone[u].request # None
    BY <1>3 DEF Solved
  <2>2. PICK p \in Passwords, r \in Tokens : p = linphone[u].password /\ r = linphone[u].request
    BY <1>p, <2>1
  <2>3. /\ \A g \in Handlers \ {h} : job'[g] = job[g]
        /\ job'[h].pc = "solve token" /\ job'[h].user = u /\ job'[h].password = p
        /\ job'[h].request = r
    <3>1. Begin(h, "solve token", u, p, r) /\ p # None /\ r # None
      BY <2>1, <2>2, NameFacts
    <3> QED
      BY <3>1, BeginStep
  <2>4. UNCHANGED <<linphone, remote, swapped, changed>> /\ u \in DOMAIN linphone
    BY <1>3, <2>1 DEF Solved, world, HasPassword
  <2>5. u \notin swapped \cup changed => p = r \/ Accepts(u, p)
    BY <2>2, <2>4, NameFacts DEF RowInv
  <2>6. (Accepts(u, p) => Accepts(u, p)')
    BY <2>4 DEF Accepts
  <2>7. TokenInv(h)'
    BY <2>2, <2>3, <2>4 DEF TokenInv, User
  <2>8. SolveInv(h)'
    BY <2>3, <2>4, <2>5, <2>6 DEF SolveInv, User
  <2>9. JobInv(h)'
    BY <2>3, <2>7, <2>8 DEF JobInv, CodeInv, EnteredInv, CodeSteps
  <2> QED
    BY <2>3, <2>4, <2>9, SameRemote, JobOnly
<1>4. CASE SetEmail(h, u)
  <2>1. Begin(h, "email call", u, linphone[u].password, None) /\ HasPassword(u)
    BY <1>4 DEF SetEmail
  <2>2. job'[h].pc = "email call" /\ \A g \in Handlers \ {h} : job'[g] = job[g]
    BY <1>p, <2>1, BeginStep
  <2>3. JobInv(h)'
    BY <2>2 DEF JobInv, CodeInv, TokenInv, SolveInv, EnteredInv, CodeSteps, SolveSteps
  <2> QED
    BY <1>4, <2>2, <2>3, SameRemote, JobOnly DEF SetEmail, world
<1>5. CASE EnterCode(h, u)
  <2>1. Begin(h, "code call", u, linphone[u].password, None) /\ HasPassword(u)
    BY <1>5 DEF EnterCode
  <2>2. job'[h].pc = "code call" /\ job'[h].user = u
        /\ \A g \in Handlers \ {h} : job'[g] = job[g]
    <3>1. PICK p \in Passwords : p = linphone[u].password
      BY <1>p, <2>1
    <3>2. Begin(h, "code call", u, p, None)
      BY <2>1, <3>1
    <3> QED
      BY <3>2, BeginStep
  <2>3. UNCHANGED <<linphone, remote, swapped, changed>>
    BY <1>5 DEF EnterCode, world
  <2>4. JobInv(h)'
    BY <2>1, <2>2, <2>3
    DEF JobInv, CodeInv, TokenInv, SolveInv, EnteredInv, SolveSteps, User, HasPassword
  <2> QED
    BY <2>2, <2>3, <2>4, SameRemote, JobOnly
<1>6. ASSUME NEW p \in {Known, Other}, SetPassword(h, u, p)
      PROVE  ActivatedHasPassword' /\ RowInv' /\ \A g \in Handlers : JobInv(g)'
  <2>1. Begin(h, "password call", u, p, None)
    BY <1>6 DEF SetPassword
  <2>2. p \in Passwords /\ p # None
    BY NameFacts
  <2>3. job'[h].pc = "password call" /\ \A g \in Handlers \ {h} : job'[g] = job[g]
    BY <2>1, <2>2, BeginStep
  <2>4. JobInv(h)'
    BY <2>3 DEF JobInv, CodeInv, TokenInv, SolveInv, EnteredInv, CodeSteps, SolveSteps
  <2> QED
    BY <1>6, <2>3, <2>4, SameRemote, JobOnly DEF SetPassword, world
<1> QED
  BY <1>1, <1>2, <1>3, <1>4, <1>5, <1>6

LEMMA ServeInv ==
  ASSUME IInv, NEW h \in Handlers, Serve(h)
  PROVE  ActivatedHasPassword' /\ RowInv' /\ \A g \in Handlers : JobInv(g)'
<1> USE DEF IInv, Typed
<1>j. /\ job[h] \in Job /\ JobFilled(h) /\ JobInv(h)
      /\ job[h].password \in Passwords \cup {None} /\ job[h].request \in Tokens \cup {None}
  BY JobFacts
<1>r. \A u \in DOMAIN linphone : u \in Users /\ linphone[u] \in Row
  BY DEF TableOK
<1>1. CASE AddToken(h)
  <2>1. job'[h].pc = "add insert" /\ \A g \in Handlers \ {h} : job'[g] = job[g]
    BY <1>1, <1>j DEF AddToken, JobsOK, Job
  <2>2. JobInv(h)'
    BY <2>1 DEF JobInv, CodeInv, TokenInv, SolveInv, EnteredInv, CodeSteps, SolveSteps
  <2> QED
    BY <1>1, <2>1, <2>2, SameRemote, JobOnly DEF AddToken
<1>2. CASE AddTokenErr(h)
  <2>1. job'[h].pc = "add insert" /\ \A g \in Handlers \ {h} : job'[g] = job[g]
    BY <1>2, GotoStep DEF AddTokenErr
  <2>2. JobInv(h)'
    BY <2>1 DEF JobInv, CodeInv, TokenInv, SolveInv, EnteredInv, CodeSteps, SolveSteps
  <2> QED
    BY <1>2, <2>1, <2>2, SameRemote, JobOnly DEF AddTokenErr, world
<1>3. CASE AddInsert(h)
  <2>1. User(h) \in Users /\ job[h].password = job[h].request
    BY <1>3, <1>j, StepUser DEF AddInsert, At, JobFilled
  <2>2. /\ job'[h] = Idle /\ \A g \in Handlers \ {h} : job'[g] = job[g]
        /\ UNCHANGED <<remote, swapped, changed>>
    BY <1>3, DoneStep DEF AddInsert, world
  <2>3. PICK row : row = [password |-> job[h].password, request |-> job[h].request,
                          creation |-> FALSE, email |-> FALSE,
                          activated |-> FALSE, apikey |-> NoKey]
    OBVIOUS
  <2>4. /\ row.password = row.request /\ ~row.activated
        /\ linphone' = [u \in DOMAIN linphone \cup {User(h)} |->
                          IF u \in DOMAIN linphone THEN linphone[u] ELSE row]
    BY <1>3, <2>1, <2>3 DEF AddInsert
  <2>5. RowsStay
    BY <2>4 DEF RowsStay
  <2>6. \A v \in DOMAIN linphone' \ {User(h)} :
           v \in DOMAIN linphone /\ linphone'[v] = linphone[v]
    BY <2>4
  <2>7. CASE User(h) \in DOMAIN linphone
    <3>1. linphone'[User(h)] = linphone[User(h)]
      BY <2>4, <2>7
    <3>2. User(h) \notin swapped =>
             /\ linphone'[User(h)].activated => linphone'[User(h)].password # None
             /\ User(h) \notin changed =>
                  \/ linphone'[User(h)].password \in {None, linphone'[User(h)].request}
                  \/ Accepts(User(h), linphone'[User(h)].password)
      BY <2>7, <3>1 DEF ActivatedHasPassword, NoPassword, Activated, RowInv
    <3> QED
      BY <2>1, <2>2, <2>5, <2>6, <3>2, RowWritten
  <2>8. CASE User(h) \notin DOMAIN linphone
    <3>1. linphone'[User(h)] = row
      BY <2>4, <2>8
    <3> QED
      BY <2>1, <2>2, <2>4, <2>5, <2>6, <3>1, RowWritten
  <2> QED
    BY <2>7, <2>8
<1>4. CASE SolveToken(h)
  <2>1. UNCHANGED <<linphone, remote, swapped, changed>> /\ At(h, "solve token")
    BY <1>4 DEF SolveToken
  <2>2. CASE Goto(h, "solve create")
    <3>1. /\ \A g \in Handlers \ {h} : job'[g] = job[g]
          /\ job'[h].pc = "solve create" /\ job'[h].user = job[h].user
          /\ job'[h].password = job[h].password /\ job'[h].request = job[h].request
      BY <2>1, <2>2, GotoStep
    <3>2. TokenInv(h)'
      BY <1>j, <2>1, <3>1 DEF JobInv, TokenInv, User, At, SolveSteps
    <3>3. SolveInv(h)'
      BY <1>j, <2>1, <3>1 DEF JobInv, SolveInv, User, At, SolveSteps, Accepts
    <3>4. JobInv(h)'
      BY <3>1, <3>2, <3>3 DEF JobInv, CodeInv, EnteredInv, CodeSteps
    <3> QED
      BY <2>1, <3>1, <3>4, SameRemote, JobOnly
  <2>3. CASE Done(h)
    BY <2>1, <2>3, DoneStep, IdleInv, SameRemote, JobOnly
  <2> QED
    BY <1>4, <2>2, <2>3 DEF SolveToken
<1>5. CASE SolveRefused(h)
  BY <1>5, DoneStep, IdleInv, SameRemote, JobOnly DEF SolveRefused, world
<1>6. CASE SolveCreate(h)
  <2>1. /\ UNCHANGED <<linphone, swapped, changed>> /\ At(h, "solve create")
        /\ User(h) \in Users /\ job[h].user = User(h)
    BY <1>6, StepUser DEF SolveCreate, At
  <2>2. CASE remote[User(h)].state # "none"
    BY <1>6, <2>1, <2>2, DoneStep, IdleInv, SameRemote, JobOnly DEF SolveCreate
  <2>3. CASE remote[User(h)].state = "none"
    <3>1. PICK a : a = [state |-> "inactive", password |-> job[h].password, key |-> NoKey]
      OBVIOUS
    <3>2. remote' = [remote EXCEPT ![User(h)] = a]
      BY <1>6, <2>3, <3>1 DEF SolveCreate
    <3>3. remote'[User(h)] = a /\ \A u \in Users \ {User(h)} : remote'[u] = remote[u]
      BY <2>1, <3>2 DEF RemoteOK
    <3>4. AcceptsMore
      BY <2>3, <3>3 DEF AcceptsMore, Accepts
    <3>5. a.state = "inactive" /\ a.password = job[h].password
      BY <3>1
    <3>6. CASE Done(h)
      BY <2>1, <3>4, <3>6, DoneStep, IdleInv, JobOnly
    <3>7. CASE Goto(h, "solve update")
      <4>1. /\ \A g \in Handlers \ {h} : job'[g] = job[g]
            /\ job'[h].pc = "solve update" /\ job'[h].user = job[h].user
            /\ job'[h].password = job[h].password /\ job'[h].request = job[h].request
        BY <2>1, <3>7, GotoStep
      <4>2. TokenInv(h)'
        BY <1>j, <2>1, <4>1 DEF JobInv, TokenInv, User, At, SolveSteps
      <4>3. SolveInv(h)'
        <5>1. User(h) \notin swapped \cup changed => job[h].password = job[h].request
          BY <1>j, <2>1, <2>3 DEF JobInv, SolveInv, At, SolveSteps, Accepts
        <5> QED
          BY <2>1, <3>3, <3>5, <4>1, <5>1 DEF SolveInv, User, Accepts
      <4>4. JobInv(h)'
        BY <4>1, <4>2, <4>3 DEF JobInv, CodeInv, EnteredInv, CodeSteps
      <4> QED
        BY <2>1, <3>4, <4>1, <4>4, JobOnly
    <3> QED
      BY <1>6, <2>3, <3>6, <3>7 DEF SolveCreate
  <2> QED
    BY <2>2, <2>3
<1>7. CASE SolveUpdate(h)
  <2>1. /\ job'[h] = Idle /\ \A g \in Handlers \ {h} : job'[g] = job[g]
        /\ UNCHANGED <<remote, swapped, changed>> /\ User(h) \in Users
        /\ At(h, "solve update")
    BY <1>7, DoneStep, StepUser DEF SolveUpdate, world, At
  <2>2. PICK row : row = [linphone[User(h)] EXCEPT !.request = None, !.creation = TRUE]
    OBVIOUS
  <2>3. User(h) \in DOMAIN linphone =>
          /\ row \in Row /\ row.request = None /\ row.password = linphone[User(h)].password
          /\ row.activated = linphone[User(h)].activated
    BY <1>r, <2>2 DEF Row
  <2>4. /\ DOMAIN linphone' = DOMAIN linphone
        /\ \A v \in DOMAIN linphone : linphone'[v] = IF v = User(h) THEN row ELSE linphone[v]
    BY <1>7, <2>2, <2>3, SetStep DEF SolveUpdate
  <2>5. RowsStay
    BY <2>3, <2>4 DEF RowsStay
  <2>6. ASSUME User(h) \in DOMAIN linphone' \ swapped
        PROVE  /\ linphone'[User(h)].activated => linphone'[User(h)].password # None
               /\ User(h) \notin changed =>
                    \/ linphone'[User(h)].password \in {None, linphone'[User(h)].request}
                    \/ Accepts(User(h), linphone'[User(h)].password)
    <3>1. User(h) \in DOMAIN linphone /\ linphone'[User(h)] = row
      BY <2>4, <2>6
    <3>2. linphone[User(h)].activated => linphone[User(h)].password # None
      BY <2>6, <3>1 DEF ActivatedHasPassword, NoPassword, Activated
    <3>3. ASSUME User(h) \notin changed
          PROVE  \/ linphone[User(h)].password = None
                 \/ Accepts(User(h), linphone[User(h)].password)
      <4>1. \/ linphone[User(h)].password \in {None, linphone[User(h)].request}
            \/ Accepts(User(h), linphone[User(h)].password)
        BY <2>6, <3>1, <3>3 DEF RowInv
      <4>2. linphone[User(h)].request \in {job[h].request, None}
        BY <1>j, <2>1, <2>6 DEF JobInv, TokenInv, At, SolveSteps
      <4>3. Accepts(User(h), job[h].request)
        BY <1>j, <2>1, <2>6, <3>3 DEF JobInv, SolveInv, At, SolveSteps
      <4> QED
        BY <4>1, <4>2, <4>3
    <3> QED
      BY <2>3, <3>1, <3>2, <3>3
  <2>7. \A v \in DOMAIN linphone' \ {User(h)} :
           v \in DOMAIN linphone /\ linphone'[v] = linphone[v]
    BY <2>4
  <2> QED
    BY <2>1, <2>5, <2>6, <2>7, RowWritten
<1>8. CASE PasswordCall(h)
  <2>1. UNCHANGED <<linphone, remote, swapped, changed>> /\ At(h, "password call")
    BY <1>8 DEF PasswordCall, world
  <2>2. CASE Accepts(User(h), job[h].password)
    <3>1. /\ job'[h].pc \in {"password key", "password update"}
          /\ job'[h].user = job[h].user /\ job'[h].password = job[h].password
          /\ \A g \in Handlers \ {h} : job'[g] = job[g]
      <4>1. PICK active : active = (remote[User(h)].state = "active")
        OBVIOUS
      <4>2. PICK v : v = [job[h] EXCEPT !.pc = IF active THEN "password key"
                                               ELSE "password update",
                                        !.activated = active]
        OBVIOUS
      <4>3. /\ v.pc \in {"password key", "password update"}
            /\ v.user = job[h].user /\ v.password = job[h].password
        BY <1>j, <4>2 DEF Job
      <4>4. job' = [job EXCEPT ![h] = v]
        BY <1>8, <2>2, <4>1, <4>2 DEF PasswordCall
      <4> QED
        BY <4>3, <4>4 DEF JobsOK
    <3>2. JobInv(h)'
      BY <2>1, <2>2, <3>1
      DEF JobInv, CodeInv, TokenInv, SolveInv, EnteredInv, CodeSteps, SolveSteps,
          User, Accepts
    <3> QED
      BY <2>1, <3>1, <3>2, SameRemote, JobOnly
  <2>3. CASE ~Accepts(User(h), job[h].password)
    BY <1>8, <2>1, <2>3, DoneStep, IdleInv, SameRemote, JobOnly DEF PasswordCall
  <2> QED
    BY <2>2, <2>3
<1>9. CASE PasswordUpdate(h)
  <2>1. /\ job'[h] = Idle /\ \A g \in Handlers \ {h} : job'[g] = job[g]
        /\ UNCHANGED <<remote, swapped, changed>> /\ User(h) \in Users
        /\ At(h, "password update")
    BY <1>9, DoneStep, StepUser DEF PasswordUpdate, world, At
  <2>2. job[h].password \in Passwords /\ job[h].password # None
    BY <1>j, <2>1 DEF At, JobFilled, PasswordSteps
  <2>3. PICK e \in BOOLEAN :
          Set(User(h), [linphone[User(h)] EXCEPT !.password = job[h].password,
                                                 !.email = e, !.creation = TRUE,
                                                 !.activated = job[h].activated,
                                                 !.apikey = job[h].key])
    BY <1>9 DEF PasswordUpdate
  <2>4. PICK row : row = [linphone[User(h)] EXCEPT !.password = job[h].password,
                                                 !.email = e, !.creation = TRUE,
                                                 !.activated = job[h].activated,
                                                 !.apikey = job[h].key]
    OBVIOUS
  <2>5. User(h) \in DOMAIN linphone =>
          /\ row \in Row /\ row.request = linphone[User(h)].request
          /\ row.password = job[h].password
    <3>1. job[h].activated \in BOOLEAN /\ job[h].key \in Keys \cup {NoKey}
      BY JobFacts
    <3> QED
      BY <1>r, <2>2, <2>4, <3>1 DEF Row
  <2>6. /\ DOMAIN linphone' = DOMAIN linphone
        /\ \A v \in DOMAIN linphone : linphone'[v] = IF v = User(h) THEN row ELSE linphone[v]
    BY <2>3, <2>4, <2>5, SetStep
  <2>7. RowsStay
    BY <2>2, <2>5, <2>6 DEF RowsStay
  <2>8. User(h) \notin changed => Accepts(User(h), job[h].password)
    BY <1>j, <2>1 DEF JobInv, EnteredInv, At
  <2>9. User(h) \in DOMAIN linphone' \ swapped =>
             /\ linphone'[User(h)].activated => linphone'[User(h)].password # None
             /\ User(h) \notin changed =>
                  \/ linphone'[User(h)].password \in {None, linphone'[User(h)].request}
                  \/ Accepts(User(h), linphone'[User(h)].password)
    BY <2>2, <2>5, <2>6, <2>8
  <2>10. \A v \in DOMAIN linphone' \ {User(h)} :
            v \in DOMAIN linphone /\ linphone'[v] = linphone[v]
    BY <2>6
  <2> QED
    BY <2>1, <2>7, <2>9, <2>10, RowWritten
<1>10. CASE EmailCall(h)
  <2>1. UNCHANGED <<linphone, remote, swapped, changed>> /\ At(h, "email call")
    BY <1>10 DEF EmailCall, world
  <2>2. CASE Goto(h, "email update")
    <3>1. job'[h].pc = "email update" /\ \A g \in Handlers \ {h} : job'[g] = job[g]
      BY <2>1, <2>2, GotoStep
    <3>2. JobInv(h)'
      BY <3>1 DEF JobInv, CodeInv, TokenInv, SolveInv, EnteredInv, CodeSteps, SolveSteps
    <3> QED
      BY <2>1, <3>1, <3>2, SameRemote, JobOnly
  <2>3. CASE Done(h)
    BY <2>1, <2>3, DoneStep, IdleInv, SameRemote, JobOnly
  <2> QED
    BY <1>10, <2>2, <2>3 DEF EmailCall
<1>11. CASE EmailUpdate(h)
  <2>1. PICK row : row = [linphone[User(h)] EXCEPT !.creation = FALSE, !.email = TRUE]
    OBVIOUS
  <2>2. User(h) \in DOMAIN linphone =>
          /\ row \in Row /\ row.password = linphone[User(h)].password
          /\ row.request = linphone[User(h)].request
          /\ row.activated = linphone[User(h)].activated
    BY <1>r, <2>1 DEF Row
  <2>3. User(h) \in DOMAIN linphone \ swapped => (row.activated => row.password # None)
    BY <2>2 DEF ActivatedHasPassword, NoPassword, Activated
  <2>4. Set(User(h), row) /\ UNCHANGED <<remote, swapped, changed>> /\ Done(h)
    BY <1>11, <2>1 DEF EmailUpdate, world
  <2>5. ActivatedHasPassword' /\ RowInv' /\ \A g \in Handlers : job'[g] = job[g] => JobInv(g)'
    BY <2>2, <2>3, <2>4, RowKept
  <2> QED
    BY <2>4, <2>5, DoneStep, IdleInv
<1>12. CASE CodeCall(h)
  <2>1. /\ UNCHANGED <<linphone, swapped, changed>> /\ At(h, "code call")
        /\ User(h) \in Users
        /\ remote' = [remote EXCEPT ![User(h)].state = "active"]
    BY <1>12, StepUser DEF CodeCall, At
  <2>2. AcceptsMore
    BY <2>1 DEF AcceptsMore, Accepts, RemoteOK, Account
  <2>3. /\ job'[h].pc \in {"code key", "code clear"} /\ job'[h].user = job[h].user
        /\ \A g \in Handlers \ {h} : job'[g] = job[g]
    <3>1. CASE Goto(h, "code clear")
      BY <2>1, <3>1, GotoStep
    <3>2. CASE job' = [job EXCEPT ![h].pc = "code key", ![h].activated = TRUE]
      BY <1>j, <3>2 DEF JobsOK, Job
    <3> QED
      BY <1>12, <3>1, <3>2 DEF CodeCall
  <2>4. CodeInv(h)'
    BY <1>j, <2>1, <2>3 DEF JobInv, CodeInv, CodeSteps, HasPassword, User, At
  <2>5. JobInv(h)'
    BY <2>3, <2>4 DEF JobInv, TokenInv, SolveInv, EnteredInv, SolveSteps
  <2> QED
    BY <2>1, <2>2, <2>3, <2>5, JobOnly
<1>13. CASE CodeRefused(h)
  <2>1. /\ UNCHANGED <<linphone, remote, swapped, changed>> /\ At(h, "code call")
        /\ Goto(h, "code clear")
    BY <1>13 DEF CodeRefused, world
  <2>2. /\ job'[h].pc = "code clear" /\ job'[h].user = job[h].user
        /\ \A g \in Handlers \ {h} : job'[g] = job[g]
    BY <2>1, GotoStep
  <2>3. CodeInv(h)'
    BY <1>j, <2>1, <2>2 DEF JobInv, CodeInv, CodeSteps, HasPassword, User, At
  <2>4. JobInv(h)'
    BY <2>2, <2>3 DEF JobInv, TokenInv, SolveInv, EnteredInv, SolveSteps
  <2> QED
    BY <2>1, <2>2, <2>4, SameRemote, JobOnly
<1>14. CASE CodeUpdate(h)
  <2>1. PICK row : row = [linphone[User(h)] EXCEPT !.activated = job[h].activated,
                                                  !.apikey = job[h].key]
    OBVIOUS
  <2>2. User(h) \in DOMAIN linphone =>
          /\ row \in Row /\ row.password = linphone[User(h)].password
          /\ row.request = linphone[User(h)].request
    <3>1. job[h].activated \in BOOLEAN /\ job[h].key \in Keys \cup {NoKey}
      BY JobFacts
    <3> QED
      BY <1>r, <2>1, <3>1 DEF Row
  <2>3. User(h) \in DOMAIN linphone \ swapped => row.password # None
    BY <1>14, <1>j, <2>2 DEF CodeUpdate, At, JobInv, CodeInv, CodeSteps, HasPassword
  <2>4. Set(User(h), row) /\ UNCHANGED <<remote, swapped, changed>> /\ Done(h)
    BY <1>14, <2>1 DEF CodeUpdate, world
  <2>5. ActivatedHasPassword' /\ RowInv' /\ \A g \in Handlers : job'[g] = job[g] => JobInv(g)'
    BY <2>2, <2>3, <2>4, RowKept
  <2> QED
    BY <2>4, <2>5, DoneStep, IdleInv
<1>15. CASE CodeClear(h)
  <2>1. PICK row : row = [linphone[User(h)] EXCEPT !.email = FALSE, !.creation = TRUE]
    OBVIOUS
  <2>2. User(h) \in DOMAIN linphone =>
          /\ row \in Row /\ row.password = linphone[User(h)].password
          /\ row.request = linphone[User(h)].request
          /\ row.activated = linphone[User(h)].activated
    BY <1>r, <2>1 DEF Row
  <2>3. User(h) \in DOMAIN linphone \ swapped => (row.activated => row.password # None)
    BY <2>2 DEF ActivatedHasPassword, NoPassword, Activated
  <2>4. Set(User(h), row) /\ UNCHANGED <<remote, swapped, changed>> /\ Done(h)
    BY <1>15, <2>1 DEF CodeClear, world
  <2>5. ActivatedHasPassword' /\ RowInv' /\ \A g \in Handlers : job'[g] = job[g] => JobInv(g)'
    BY <2>2, <2>3, <2>4, RowKept
  <2> QED
    BY <2>4, <2>5, DoneStep, IdleInv
<1>16. ASSUME NEW step, NEW next,
              \/ step = "password key" /\ next = "password update"
              \/ step = "code key" /\ next = "code update",
              NewKey(h, step, next) \/ NoNewKey(h, step, next)
       PROVE  ActivatedHasPassword' /\ RowInv' /\ \A g \in Handlers : JobInv(g)'
  <2>1. UNCHANGED <<linphone, swapped, changed>> /\ At(h, step) /\ User(h) \in Users
    BY <1>16, StepUser DEF NewKey, NoNewKey, world, At
  <2>2. AcceptsMore
    BY <1>16, <2>1, IssueStep, SameRemote DEF NewKey, NoNewKey, world
  <2>3. /\ job'[h].pc = next /\ job'[h].user = job[h].user
        /\ job'[h].password = job[h].password
        /\ \A g \in Handlers \ {h} : job'[g] = job[g]
    <3>1. CASE Goto(h, next)
      BY <1>16, <2>1, <3>1, GotoStep
    <3>2. CASE job' = [job EXCEPT ![h].pc = next, ![h].key = Issued]
      BY <1>j, <3>2 DEF JobsOK, Job
    <3> QED
      BY <1>16, <3>1, <3>2 DEF NewKey, NoNewKey
  <2>4. CodeInv(h)'
    BY <1>16, <1>j, <2>1, <2>3 DEF JobInv, CodeInv, CodeSteps, HasPassword, User, At
  <2>5. EnteredInv(h)'
    BY <1>16, <1>j, <2>1, <2>2, <2>3 DEF JobInv, EnteredInv, AcceptsMore, User, At
  <2>6. JobInv(h)'
    BY <1>16, <2>3, <2>4, <2>5 DEF JobInv, TokenInv, SolveInv, SolveSteps
  <2> QED
    BY <2>1, <2>2, <2>3, <2>6, JobOnly
<1>17. CASE Err(h)
  BY <1>17, DoneStep, IdleInv, SameRemote, JobOnly DEF Err, world
<1> QED
  BY <1>1, <1>2, <1>3, <1>4, <1>5, <1>6, <1>7, <1>8, <1>9, <1>10, <1>11, <1>12, <1>13,
     <1>14, <1>15, <1>16, <1>17 DEF Serve

\* The check writes no more than keys, and Linphone goes on accepting passwords.
LEMMA CheckingInv ==
  ASSUME IInv, Checking
  PROVE  ActivatedHasPassword' /\ RowInv' /\ \A g \in Handlers : JobInv(g)'
<1> USE DEF IInv, Typed
<1>1. CASE /\ UNCHANGED <<linphone, swapped, changed>> /\ AcceptsMore
           /\ \A g \in Handlers : job'[g] = job[g] \/ job'[g] = Idle
  <2>1. ASSUME NEW g \in Handlers PROVE JobInv(g)'
    BY <1>1, SameRows, OtherJob, IdleInv
  <2> QED
    BY <1>1, <2>1, SameTable
<1>2. CASE CheckUpdate /\ check.new # check.apikey[check.user]
  <2>1. PICK row : row = [linphone[check.user] EXCEPT !.apikey = check.new]
    OBVIOUS
  <2>2. check.user \in DOMAIN linphone =>
          /\ row \in Row /\ row.password = linphone[check.user].password
          /\ row.request = linphone[check.user].request
          /\ row.activated = linphone[check.user].activated
    BY <2>1, CheckFacts DEF TableOK, Row
  <2>3. check.user \in DOMAIN linphone \ swapped => (row.activated => row.password # None)
    BY <2>2 DEF ActivatedHasPassword, NoPassword, Activated
  <2>4. Set(check.user, row) /\ UNCHANGED <<remote, swapped, changed, job>>
    BY <1>2, <2>1 DEF CheckUpdate, world
  <2> QED
    BY <2>2, <2>3, <2>4, RowKept
<1>3. CASE CheckUpdate /\ check.new = check.apikey[check.user]
  BY <1>1, <1>3, SameRemote DEF CheckUpdate, world
<1>4. CASE CheckPanics
  BY <1>1, <1>4, SameRemote, RestartTyped DEF CheckPanics, world
<1>5. CASE CheckKey
  <2>1. AcceptsMore
    BY <1>5, CheckFacts, IssueStep DEF CheckKey
  <2> QED
    BY <1>1, <1>5, <2>1 DEF CheckKey
<1>6. CASE CheckStart \/ CheckNoKey \/ CheckUpdateErr
  BY <1>1, <1>6, SameRemote DEF CheckStart, CheckNoKey, CheckUpdateErr, world
<1>7. ASSUME NEW u \in Users, CheckMe(u) \/ CheckMeErr(u)
      PROVE  ActivatedHasPassword' /\ RowInv' /\ \A g \in Handlers : JobInv(g)'
  BY <1>1, <1>7, SameRemote DEF CheckMe, CheckMeErr, world
<1> QED
  BY <1>2, <1>3, <1>4, <1>5, <1>6, <1>7 DEF Checking

LEMMA OutsideInv ==
  ASSUME IInv, Outside
  PROVE  ActivatedHasPassword' /\ RowInv' /\ \A g \in Handlers : JobInv(g)'
<1> USE DEF IInv, Typed
<1>1. CASE /\ UNCHANGED <<linphone, swapped>> /\ changed \subseteq changed' /\ AcceptsMore
           /\ \A g \in Handlers : job'[g] = job[g] \/ job'[g] = Idle
  <2>1. ASSUME NEW g \in Handlers PROVE JobInv(g)'
    BY <1>1, SameRows, OtherJob, IdleInv
  <2> QED
    BY <1>1, <2>1, SameTable
<1>2. CASE Restart
  BY <1>1, <1>2, SameRemote, RestartTyped DEF Restart, world
<1>3. ASSUME NEW u \in Users, KeyExpires(u)
      PROVE  ActivatedHasPassword' /\ RowInv' /\ \A g \in Handlers : JobInv(g)'
  <2>1. AcceptsMore
    BY <1>3 DEF KeyExpires, AcceptsMore, Accepts, RemoteOK, Account
  <2> QED
    BY <1>1, <1>3, <2>1 DEF KeyExpires
<1>4. ASSUME NEW u \in Users, ChangePassword(u)
      PROVE  ActivatedHasPassword' /\ RowInv' /\ \A g \in Handlers : JobInv(g)'
  <2>1. AcceptsMore
    BY <1>4 DEF ChangePassword, AcceptsMore, Accepts, RemoteOK, Account
  <2> QED
    BY <1>1, <1>4, <2>1 DEF ChangePassword
<1> QED
  BY <1>2, <1>3, <1>4 DEF Outside

LEMMA InvCorrect == Spec => []IInv
<1>1. Init => IInv
  <2> SUFFICES ASSUME Init PROVE IInv
    OBVIOUS
  <2>1. DOMAIN linphone = {}
    BY DEF Init
  <2>2. ActivatedHasPassword /\ RowInv
    BY <2>1 DEF ActivatedHasPassword, NoPassword, Activated, RowInv
  <2>3. \A h \in Handlers : job[h].pc = "idle"
    BY IdleType DEF Init
  <2>4. \A h \in Handlers : JobInv(h)
    BY <2>3 DEF JobInv, CodeInv, TokenInv, SolveInv, EnteredInv, CodeSteps, SolveSteps
  <2> QED
    BY <2>2, <2>4, InitTyped DEF IInv
<1>2. IInv /\ [Next]_vars => IInv'
  <2> SUFFICES ASSUME IInv, [Next]_vars PROVE IInv'
    OBVIOUS
  <2>1. Typed'
    BY NextTyped DEF IInv
  <2>2. CASE UNCHANGED vars
    <3>1. ActivatedHasPassword' /\ RowInv'
      BY <2>2, SameRemote, SameTable DEF vars, world, IInv
    <3>2. \A h \in Handlers : JobInv(h)'
      BY <2>2, SameRemote, SameRows, OtherJob DEF vars, world, IInv
    <3> QED
      BY <2>1, <3>1, <3>2 DEF IInv
  <2> QED
    BY <2>1, <2>2, PostInv, ServeInv, CheckingInv, OutsideInv DEF Next, IInv
<1> QED
  BY <1>1, <1>2, PTL DEF Spec

-----------------------------------------------------------------------------
(* The theorems                                                            *)

\* Every row, request and account keeps its type; Linphone always has a key to
\* issue that nobody has.
THEOREM TypeCorrect == Spec => []TypeOK
<1>1. IInv => TypeOK
  BY TypedTypeOK DEF IInv
<1> QED
  BY <1>1, InvCorrect, PTL

\* apikeychecks meets no activated row without a password, except under a name
\* that was deleted while a request worked on it: it would end the process.
THEOREM ActivatedCorrect == Spec => []ActivatedHasPassword
<1>1. IInv => ActivatedHasPassword
  BY DEF IInv
<1> QED
  BY <1>1, InvCorrect, PTL

\* A row whose CAPTCHA was solved, or whose password was entered, has the password
\* that Linphone has, however many requests are made for it and fail.
THEOREM PasswordCorrect == Spec => []PasswordWorks
<1>1. IInv => PasswordWorks
  BY DEF IInv, RowInv, PasswordWorks
<1> QED
  BY <1>1, InvCorrect, PTL
=============================================================================
