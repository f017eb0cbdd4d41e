--------------------------- MODULE AccountsProofs ---------------------------
(***************************************************************************)
(* Proofs about Accounts, for any sets of users, sessions, tokens,         *)
(* replicas and handlers.                                                  *)
(***************************************************************************)
EXTENDS Accounts, FiniteSetTheorems, TLAPS

(* A dead credential is still dead when it is looked up: ids are never     *)
(* given out again, so nothing brings a session or a token back, and no    *)
(* password is chosen twice.                                               *)
StillDead ==
    \A r \in Handlers : req[r] # None /\ req[r].dead =>
        /\ req[r].pc = "session" => ~ Live(req[r].cred)
        /\ req[r].pc = "authorize" => ~ Allows(token[req[r].cred], req[r].op)
        /\ req[r].pc = "lookup" => \/ req[r].user \notin Admins
                                  \/ req[r].cred # password[req[r].user]

(* Unless deletes crossed, a delete that has counted leaves somebody.      *)
Survivor ==
    ~ crossed =>
        \A r \in Handlers : At(r, "deleteUser", "delete") =>
            \E u \in Admins : u # req[r].target

(* Rows have ids that were given out. *)
Ids ==
    /\ Admins \subseteq issued
    /\ \A t \in Tokens : token[t] # None => t \in issued
    /\ \A s \in Sessions : session[s] # None => s \in issued

IInv ==
    /\ TypeOK
    /\ Ids
    /\ StillDead
    /\ DeadCredentialsStayOut
    /\ SessionsHaveUsers
    /\ Survivor
    /\ SomebodyCanLogIn

(* A set of more than one element has one that is not x. *)
LEMMA Another ==
    ASSUME NEW S, NEW x, Cardinality(S) > 1
    PROVE  \E u \in S : u # x
<1>1. SUFFICES ASSUME \A u \in S : u = x
               PROVE  FALSE
  OBVIOUS
<1>2. S = {} \/ S = {x}
  BY <1>1
<1>3. Cardinality({}) = 0 /\ Cardinality({x}) = 1
  BY FS_EmptySet, FS_Singleton
<1>. QED
  BY <1>2, <1>3

(* The initial states satisfy the invariant. *)
LEMMA InitInv == Init => IInv
<1>. SUFFICES ASSUME Init PROVE IInv
  OBVIOUS
<1>1. 0 \in 0 .. MaxChanges
  BY ChangesAssumption
<1>2. Admins = {}
  BY DEF Init, Admins
<1>3. TypeOK
  BY <1>1 DEF Init, TypeOK
<1>4. Ids /\ SessionsHaveUsers
  BY <1>2 DEF Init, Ids, SessionsHaveUsers
<1>5. StillDead /\ DeadCredentialsStayOut /\ Survivor
  BY DEF Init, StillDead, DeadCredentialsStayOut, Survivor, At
<1>6. SomebodyCanLogIn
  BY DEF Init, SomebodyCanLogIn
<1>. QED
  BY <1>3, <1>4, <1>5, <1>6 DEF IInv

(* What a replica does at its start and at its end keeps the invariant. *)
LEMMA BootCountKeeps ==
    ASSUME IInv, NEW p \in Replicas, BootCount(p)
    PROVE  IInv'
<1>1. TypeOK'
  BY DEF IInv, BootCount, TypeOK, Shape
<1>2. Ids' /\ SessionsHaveUsers'
  BY DEF IInv, BootCount, SessionsHaveUsers, Admins, Ids
<1>3. StillDead' /\ DeadCredentialsStayOut'
  BY DEF IInv, BootCount, StillDead, DeadCredentialsStayOut, Admins, Live
<1>4. Survivor' /\ SomebodyCanLogIn'
  BY DEF IInv, BootCount, SomebodyCanLogIn, Survivor, Admins, At
<1>. QED
  BY <1>1, <1>2, <1>3, <1>4 DEF IInv

LEMMA BootInsertKeeps ==
    ASSUME IInv, NEW p \in Replicas, BootInsert(p)
    PROVE  IInv'
<1>1. TypeOK'
  BY DEF IInv, BootInsert, Insert, TypeOK, Shape
<1>2. Ids' /\ SessionsHaveUsers'
  BY DEF IInv, BootInsert, Insert, TypeOK, SessionsHaveUsers, Admins, Ids
<1>3. StillDead' /\ DeadCredentialsStayOut'
  BY DEF IInv, BootInsert, Insert, TypeOK, Shape, StillDead, DeadCredentialsStayOut, Admins, Live
<1>4. Survivor' /\ SomebodyCanLogIn'
  BY IdsAssumption DEF IInv, BootInsert, Insert, TypeOK, SomebodyCanLogIn, Survivor,
     Admins, At
<1>. QED
  BY <1>1, <1>2, <1>3, <1>4 DEF IInv

LEMMA CrashKeeps ==
    ASSUME IInv, NEW p \in Replicas, Crash(p)
    PROVE  IInv'
<1>1. TypeOK'
  BY DEF IInv, Crash, TypeOK, Shape
<1>2. Ids' /\ SessionsHaveUsers'
  BY DEF IInv, Crash, SessionsHaveUsers, Admins, Ids
<1>3. StillDead' /\ DeadCredentialsStayOut'
  BY DEF IInv, Crash, StillDead, DeadCredentialsStayOut, Admins, Live
<1>4. Survivor' /\ SomebodyCanLogIn'
  BY DEF IInv, Crash, SomebodyCanLogIn, Survivor, Admins, At
<1>. QED
  BY <1>1, <1>2, <1>3, <1>4 DEF IInv

LEMMA ExpireKeeps ==
    ASSUME IInv, NEW s \in Sessions, Expire(s)
    PROVE  IInv'
<1>1. TypeOK'
  BY DEF IInv, Expire, TypeOK, Shape
<1>2. Ids' /\ SessionsHaveUsers'
  BY DEF IInv, Expire, SessionsHaveUsers, Admins, Ids
<1>3. StillDead' /\ DeadCredentialsStayOut'
  BY DEF IInv, Expire, StillDead, DeadCredentialsStayOut, Admins, Live
<1>4. Survivor' /\ SomebodyCanLogIn'
  BY DEF IInv, Expire, SomebodyCanLogIn, Survivor, Admins, At
<1>. QED
  BY <1>1, <1>2, <1>3, <1>4 DEF IInv

(* Requests that begin, or end early, keep it. *)
LEMMA BeginAdminKeeps ==
    ASSUME IInv, NEW r \in Handlers, NEW op \in AdminOps, NEW s \in Sessions, BeginAdmin(r, op, s)
    PROVE  IInv'
<1>1. TypeOK'
  BY DEF IInv, BeginAdmin, Begin, TypeOK, Request, Shape, AdminOps, CacheOps
<1>2. Ids' /\ SessionsHaveUsers'
  BY DEF IInv, BeginAdmin, Begin, SessionsHaveUsers, Admins, Ids
<1>3. StillDead' /\ DeadCredentialsStayOut'
  BY DEF IInv, BeginAdmin, Begin, TypeOK, StillDead, DeadCredentialsStayOut, Admins, Live
<1>4. Survivor' /\ SomebodyCanLogIn'
  BY DEF IInv, BeginAdmin, Begin, SomebodyCanLogIn, Survivor, Admins, At
<1>. QED
  BY <1>1, <1>2, <1>3, <1>4 DEF IInv

LEMMA BeginCacheKeeps ==
    ASSUME IInv, NEW r \in Handlers, NEW op \in CacheOps, NEW t \in Tokens, BeginCache(r, op, t)
    PROVE  IInv'
<1>1. TypeOK'
  BY DEF IInv, BeginCache, Begin, TypeOK, Request, Shape, AdminOps, CacheOps
<1>2. Ids' /\ SessionsHaveUsers'
  BY DEF IInv, BeginCache, Begin, SessionsHaveUsers, Admins, Ids
<1>3. StillDead' /\ DeadCredentialsStayOut'
  BY DEF IInv, BeginCache, Begin, TypeOK, StillDead, DeadCredentialsStayOut, Admins, Live
<1>4. Survivor' /\ SomebodyCanLogIn'
  BY DEF IInv, BeginCache, Begin, SomebodyCanLogIn, Survivor, Admins, At
<1>. QED
  BY <1>1, <1>2, <1>3, <1>4 DEF IInv

LEMMA BeginLoginKeeps ==
    ASSUME IInv, NEW r \in Handlers, NEW u \in Users, NEW v \in 0 .. MaxChanges,
           BeginLogin(r, u, v)
    PROVE  IInv'
<1>1. TypeOK'
  BY DEF IInv, BeginLogin, Begin, TypeOK, Request, Shape, AdminOps, CacheOps
<1>2. Ids' /\ SessionsHaveUsers'
  BY DEF IInv, BeginLogin, Begin, SessionsHaveUsers, Admins, Ids
<1>3. StillDead' /\ DeadCredentialsStayOut'
  BY DEF IInv, BeginLogin, Begin, TypeOK, StillDead, DeadCredentialsStayOut, Admins, Live
<1>4. Survivor' /\ SomebodyCanLogIn'
  BY DEF IInv, BeginLogin, Begin, SomebodyCanLogIn, Survivor, Admins, At
<1>. QED
  BY <1>1, <1>2, <1>3, <1>4 DEF IInv

LEMMA AnswerKeeps ==
    ASSUME IInv, NEW r \in Handlers, Answer(r)
    PROVE  IInv'
<1>1. TypeOK'
  BY DEF IInv, Answer, Done, TypeOK, Shape
<1>2. Ids' /\ SessionsHaveUsers'
  BY DEF IInv, Answer, SessionsHaveUsers, Admins, Ids
<1>3. StillDead' /\ DeadCredentialsStayOut'
  BY DEF IInv, Answer, Done, StillDead, DeadCredentialsStayOut, Admins, Live
<1>4. Survivor' /\ SomebodyCanLogIn'
  BY DEF IInv, Answer, Done, SomebodyCanLogIn, Survivor, Admins, At
<1>. QED
  BY <1>1, <1>2, <1>3, <1>4 DEF IInv

(* The lookups keep it: what was dead at the beginning is found dead. *)
LEMMA GetSessionKeeps ==
    ASSUME IInv, NEW r \in Handlers, GetSession(r)
    PROVE  IInv'
<1>1. TypeOK'
  BY DEF IInv, GetSession, Done, TypeOK, Request, Shape, Live
<1>2. Ids' /\ SessionsHaveUsers'
  BY DEF IInv, GetSession, SessionsHaveUsers, Admins, Ids
<1>3. StillDead' /\ DeadCredentialsStayOut'
  BY DEF IInv, GetSession, Done, TypeOK, StillDead, DeadCredentialsStayOut, Admins, Live, Request
<1>4. Survivor' /\ SomebodyCanLogIn'
  BY DEF IInv, GetSession, Done, TypeOK, SomebodyCanLogIn, Survivor, Admins, At, Request
<1>. QED
  BY <1>1, <1>2, <1>3, <1>4 DEF IInv

LEMMA GetUserByIDKeeps ==
    ASSUME IInv, NEW r \in Handlers, GetUserByID(r)
    PROVE  IInv'
<1>1. TypeOK'
  BY DEF IInv, GetUserByID, Done, Goto, TypeOK, Request, Shape
<1>2. Ids' /\ SessionsHaveUsers'
  BY DEF IInv, GetUserByID, SessionsHaveUsers, Admins, Ids
<1>3. StillDead' /\ DeadCredentialsStayOut'
  BY DEF IInv, GetUserByID, Done, Goto, TypeOK, StillDead, DeadCredentialsStayOut, Admins,
     Live, Request
<1>4. Survivor' /\ SomebodyCanLogIn'
  BY DEF IInv, GetUserByID, Done, Goto, TypeOK, SomebodyCanLogIn, Survivor, Admins, At,
     Request
<1>. QED
  BY <1>1, <1>2, <1>3, <1>4 DEF IInv

LEMMA AuthenticateKeeps ==
    ASSUME IInv, NEW r \in Handlers, Authenticate(r)
    PROVE  IInv'
<1>1. TypeOK'
  BY DEF IInv, Authenticate, Done, Goto, TypeOK, Request, Shape, At
<1>2. Ids' /\ SessionsHaveUsers'
  BY DEF IInv, Authenticate, SessionsHaveUsers, Admins, Ids
<1>3. StillDead' /\ DeadCredentialsStayOut'
  BY DEF IInv, Authenticate, Done, Goto, TypeOK, StillDead, DeadCredentialsStayOut, Admins,
     Live, Request, At
<1>4. Survivor' /\ SomebodyCanLogIn'
  BY DEF IInv, Authenticate, Done, Goto, TypeOK, SomebodyCanLogIn, Survivor, Admins,
     At, Request
<1>. QED
  BY <1>1, <1>2, <1>3, <1>4 DEF IInv

(* The statements of login keep it. *)
LEMMA LoginLookupKeeps ==
    ASSUME IInv, NEW r \in Handlers, LoginLookup(r)
    PROVE  IInv'
<1>1. TypeOK'
  BY DEF IInv, LoginLookup, Done, Goto, TypeOK, Request, Shape, At, AdminOps
<1>2. Ids' /\ SessionsHaveUsers'
  BY DEF IInv, LoginLookup, SessionsHaveUsers, Admins, Ids
<1>3. StillDead' /\ DeadCredentialsStayOut'
  BY DEF IInv, LoginLookup, Done, Goto, TypeOK, StillDead, DeadCredentialsStayOut, Admins,
     Live, Request, At
<1>4. Survivor' /\ SomebodyCanLogIn'
  BY DEF IInv, LoginLookup, Done, Goto, TypeOK, SomebodyCanLogIn, Survivor, Admins, At,
     Request
<1>. QED
  BY <1>1, <1>2, <1>3, <1>4 DEF IInv

LEMMA CreateSessionKeeps ==
    ASSUME IInv, NEW r \in Handlers, CreateSession(r)
    PROVE  IInv'
<1>1. TypeOK'
  BY DEF IInv, CreateSession, Done, TypeOK, Shape, Admins
<1>2. Ids' /\ SessionsHaveUsers'
  BY DEF IInv, CreateSession, SessionsHaveUsers, Admins, Ids
<1>3. StillDead' /\ DeadCredentialsStayOut'
  BY DEF IInv, CreateSession, Done, TypeOK, StillDead, DeadCredentialsStayOut, Admins, Live, Shape
<1>4. Survivor' /\ SomebodyCanLogIn'
  BY DEF IInv, CreateSession, Done, SomebodyCanLogIn, Survivor, Admins, At
<1>. QED
  BY <1>1, <1>2, <1>3, <1>4 DEF IInv

(* So do the handlers that change accounts.  This one only adds. *)
LEMMA CreateUserKeeps ==
    ASSUME IInv, NEW r \in Handlers, CreateUser(r)
    PROVE  IInv'
<1>1. TypeOK'
  BY DEF IInv, CreateUser, Done, Insert, TypeOK, Shape
<1>2. Ids' /\ SessionsHaveUsers'
  BY DEF IInv, CreateUser, Insert, SessionsHaveUsers, Admins, Ids
<1>3. StillDead' /\ DeadCredentialsStayOut'
  BY DEF IInv, CreateUser, Done, Insert, TypeOK, Shape, StillDead, DeadCredentialsStayOut, Admins, Live
<1>4. Survivor' /\ SomebodyCanLogIn'
  BY IdsAssumption DEF IInv, CreateUser, Done, Insert, TypeOK, SomebodyCanLogIn,
     Survivor, Admins, At
<1>. QED
  BY <1>1, <1>2, <1>3, <1>4 DEF IInv

(* Who has counted two accounts leaves one beside the target. *)
LEMMA CountUsersKeeps ==
    ASSUME IInv, NEW r \in Handlers, CountUsers(r)
    PROVE  IInv'
<1>0. PICK u \in Users \ {req[r].user} : req' = [req EXCEPT ![r].pc = "delete", ![r].target = u]
  BY DEF CountUsers
<1>1. TypeOK'
  <2>1. req[r] \in Request /\ u \in Users
    BY DEF IInv, TypeOK, CountUsers, At
  <2>2. req'[r] = [req[r] EXCEPT !.pc = "delete", !.target = u]
    BY <1>0 DEF IInv, TypeOK
  <2>3. req'[r] \in Request
    BY <2>1, <2>2 DEF Request
  <2>4. Shape(req[r])'
    BY DEF IInv, TypeOK, Shape, CountUsers, At
  <2>. QED
    BY <2>3, <2>4 DEF IInv, TypeOK, Shape, CountUsers
<1>2. Ids' /\ SessionsHaveUsers'
  BY DEF IInv, CountUsers, SessionsHaveUsers, Admins, Ids
<1>3. StillDead' /\ DeadCredentialsStayOut'
  BY DEF IInv, CountUsers, TypeOK, StillDead, DeadCredentialsStayOut, Admins, Live, At
<1>4. Survivor' /\ SomebodyCanLogIn'
  <2>1. \E w \in Admins : w # u
    BY Another DEF CountUsers
  <2>2. req'[r].target = u /\ \A q \in Handlers \ {r} : req'[q] = req[q]
    BY <1>0 DEF IInv, TypeOK, Request
  <2>3. Survivor'
    BY <2>1, <2>2 DEF IInv, CountUsers, Survivor, Admins, At
  <2>. QED
    BY <2>3 DEF IInv, CountUsers, SomebodyCanLogIn, Admins
<1>. QED
  BY <1>1, <1>2, <1>3, <1>4 DEF IInv

(* With no other delete on its way, the survivor is still there. *)
LEMMA DeleteUserKeeps ==
    ASSUME IInv, NEW r \in Handlers, DeleteUser(r)
    PROVE  IInv'
<1>1. TypeOK'
  BY DEF IInv, DeleteUser, Done, TypeOK, Shape
<1>2. Ids' /\ SessionsHaveUsers'
  BY DEF IInv, DeleteUser, SessionsHaveUsers, Admins, Ids
<1>3. StillDead' /\ DeadCredentialsStayOut'
  BY DEF IInv, DeleteUser, Done, TypeOK, StillDead, DeadCredentialsStayOut, Admins, Live, Shape
<1>4. Survivor' /\ SomebodyCanLogIn'
  BY DEF IInv, DeleteUser, Done, TypeOK, SomebodyCanLogIn, Survivor, Admins, At
<1>. QED
  BY <1>1, <1>2, <1>3, <1>4 DEF IInv

(* Ids are not given out again after a logout, a creation or a revocation. *)
LEMMA DeleteSessionKeeps ==
    ASSUME IInv, NEW r \in Handlers, DeleteSession(r)
    PROVE  IInv'
<1>1. TypeOK'
  BY DEF IInv, DeleteSession, Done, TypeOK, Shape
<1>2. Ids' /\ SessionsHaveUsers'
  BY DEF IInv, DeleteSession, SessionsHaveUsers, Admins, Ids
<1>3. StillDead' /\ DeadCredentialsStayOut'
  BY DEF IInv, DeleteSession, Done, StillDead, DeadCredentialsStayOut, Admins, Live
<1>4. Survivor' /\ SomebodyCanLogIn'
  BY DEF IInv, DeleteSession, Done, SomebodyCanLogIn, Survivor, Admins, At
<1>. QED
  BY <1>1, <1>2, <1>3, <1>4 DEF IInv

LEMMA ChangePasswordKeeps ==
    ASSUME IInv, NEW r \in Handlers, ChangePassword(r)
    PROVE  IInv'
<1>0. PICK u \in Users : /\ password[u] < MaxChanges
                         /\ password' = [password EXCEPT ![u] = password[u] + 1]
  BY DEF ChangePassword, Admins
<1>a. password \in [Users -> 0 .. MaxChanges] /\ req \in [Handlers -> Request \cup {None}]
  BY DEF IInv, TypeOK
<1>b. password' \in [Users -> 0 .. MaxChanges] /\ \A w \in Users : password[w] <= password'[w]
  BY <1>0, <1>a, ChangesAssumption
<1>c. req' = [req EXCEPT ![r] = None]
  BY DEF ChangePassword, Done
<1>1. TypeOK'
  <2>1. ASSUME NEW q \in Handlers, req'[q] # None
        PROVE  Shape(req[q])'
    <3>1. req'[q] = req[q] /\ req[q] # None /\ Shape(req[q])
      BY <1>a, <1>c, <2>1 DEF IInv, TypeOK
    <3>2. req[q].pc = "lookup" => req[q].cred <= password'[req[q].user]
      BY <1>a, <1>b, <3>1, ChangesAssumption DEF Shape
    <3>. QED
      BY <3>1, <3>2 DEF Shape, ChangePassword
  <2>. QED
    BY <1>a, <1>b, <1>c, <2>1 DEF IInv, TypeOK, ChangePassword
<1>2. Ids' /\ SessionsHaveUsers'
  BY DEF IInv, ChangePassword, SessionsHaveUsers, Admins, Ids
<1>3. StillDead' /\ DeadCredentialsStayOut'
  <2>1. ASSUME NEW q \in Handlers, req[q] # None, req[q].pc = "lookup", req[q].user \in Users,
               req[q].cred # password[req[q].user]
        PROVE  req[q].cred # password'[req[q].user]
    <3>1. req[q].cred \in 0 .. MaxChanges /\ req[q].cred <= password[req[q].user]
      BY <2>1 DEF IInv, TypeOK, Shape
    <3>. QED
      BY <1>0, <1>a, <2>1, <3>1, ChangesAssumption
  <2>. QED
    BY <1>a, <1>c, <2>1 DEF IInv, ChangePassword, TypeOK, StillDead, DeadCredentialsStayOut,
       Admins, Live, Shape
<1>4. Survivor' /\ SomebodyCanLogIn'
  BY DEF IInv, ChangePassword, Done, SomebodyCanLogIn, Survivor, Admins, At
<1>. QED
  BY <1>1, <1>2, <1>3, <1>4 DEF IInv

LEMMA CreateTokenKeeps ==
    ASSUME IInv, NEW r \in Handlers, CreateToken(r)
    PROVE  IInv'
<1>1. TypeOK'
  BY DEF IInv, CreateToken, Done, TypeOK, Shape, Scopes
<1>2. Ids' /\ SessionsHaveUsers'
  BY DEF IInv, CreateToken, SessionsHaveUsers, Admins, Ids
<1>3. StillDead' /\ DeadCredentialsStayOut'
  BY DEF IInv, CreateToken, Done, TypeOK, StillDead, DeadCredentialsStayOut, Admins, Live, Shape
<1>4. Survivor' /\ SomebodyCanLogIn'
  BY DEF IInv, CreateToken, Done, SomebodyCanLogIn, Survivor, Admins, At
<1>. QED
  BY <1>1, <1>2, <1>3, <1>4 DEF IInv

LEMMA RevokeTokenKeeps ==
    ASSUME IInv, NEW r \in Handlers, RevokeToken(r)
    PROVE  IInv'
<1>0. PICK t \in Tokens : token' = [token EXCEPT ![t] = None]
  BY DEF RevokeToken
<1>1. TypeOK'
  BY DEF IInv, RevokeToken, Done, TypeOK, Shape, Scopes
<1>2. Ids' /\ SessionsHaveUsers'
  BY DEF IInv, RevokeToken, SessionsHaveUsers, Admins, Ids
<1>3. StillDead' /\ DeadCredentialsStayOut'
  <2>1. req \in [Handlers -> Request \cup {None}] /\ token \in [Tokens -> Scopes \cup {None}]
    BY DEF IInv, TypeOK
  <2>2. ASSUME NEW q \in Handlers, req[q] # None, req[q].pc = "authorize",
               ~ Allows(token[req[q].cred], req[q].op)
        PROVE  ~ Allows(token'[req[q].cred], req[q].op)
    <3>1. req[q].cred \in Tokens
      BY <2>1, <2>2 DEF IInv, TypeOK, Shape
    <3>2. token'[req[q].cred] \in {token[req[q].cred], None}
      BY <1>0, <2>1, <3>1
    <3>. QED
      BY <2>2, <3>2, IdsAssumption DEF Allows, Scopes
  <2>3. \A q \in Handlers : req'[q] # None => req'[q] = req[q] /\ req[q] # None
    BY <2>1 DEF RevokeToken, Done
  <2>. QED
    BY <2>2, <2>3 DEF IInv, RevokeToken, StillDead, DeadCredentialsStayOut, Admins, Live
<1>4. Survivor' /\ SomebodyCanLogIn'
  BY DEF IInv, RevokeToken, Done, SomebodyCanLogIn, Survivor, Admins, At
<1>. QED
  BY <1>1, <1>2, <1>3, <1>4 DEF IInv

(* Every step keeps the invariant. *)
LEMMA InductionStep ==
    ASSUME IInv, [Next]_vars
    PROVE  IInv'
<1>1. CASE UNCHANGED vars
  BY <1>1 DEF vars, IInv, TypeOK, Shape, Ids, StillDead,
     DeadCredentialsStayOut, SessionsHaveUsers, Survivor, SomebodyCanLogIn, Admins,
     Live, At
<1>2. CASE \E p \in Replicas : BootCount(p) \/ BootInsert(p) \/ Crash(p)
  BY <1>2, BootCountKeeps, BootInsertKeeps, CrashKeeps
<1>3. CASE \E s \in Sessions : Expire(s)
  BY <1>3, ExpireKeeps
<1>4. CASE \E r \in Handlers, op \in AdminOps, s \in Sessions : BeginAdmin(r, op, s)
  BY <1>4, BeginAdminKeeps
<1>5. CASE \E r \in Handlers : \/ \E op \in CacheOps, t \in Tokens : BeginCache(r, op, t)
                               \/ \E u \in Users, v \in 0 .. MaxChanges : BeginLogin(r, u, v)
                               \/ Answer(r)
  BY <1>5, BeginCacheKeeps, BeginLoginKeeps, AnswerKeeps
<1>6. CASE \E r \in Handlers : Serve(r)
  BY <1>6, GetSessionKeeps, GetUserByIDKeeps, AuthenticateKeeps,
     LoginLookupKeeps, CreateSessionKeeps, CreateUserKeeps, CountUsersKeeps,
     DeleteUserKeeps, ChangePasswordKeeps, DeleteSessionKeeps, CreateTokenKeeps,
     RevokeTokenKeeps
     DEF Serve
<1>. QED
  BY <1>1, <1>2, <1>3, <1>4, <1>5, <1>6 DEF Next

(* The invariant is inductive. *)
THEOREM Inductive == Spec => []IInv
<1>1. IInv /\ [Next]_vars => IInv'
  BY InductionStep
<1>. QED
  BY InitInv, <1>1, PTL DEF Spec

(* Every variable has its type, every request what its stage relies on.    *)
THEOREM TypesCorrect == Spec => []TypeOK
<1>1. IInv => TypeOK
  BY DEF IInv
<1>. QED
  BY <1>1, Inductive, PTL

(* An ended session, a revoked or read-only token and a former password    *)
(* open nothing they should not, on any number of replicas.                *)
THEOREM NoDeadCredential == Spec => []DeadCredentialsStayOut
<1>1. IInv => DeadCredentialsStayOut
  BY DEF IInv
<1>. QED
  BY <1>1, Inductive, PTL

(* No session outlives its user, whatever login is on its way.             *)
THEOREM NoOrphanSession == Spec => []SessionsHaveUsers
<1>1. IInv => SessionsHaveUsers
  BY DEF IInv
<1>. QED
  BY <1>1, Inductive, PTL

(* Unless two deletes of users crossed, there is somebody to log in.       *)
THEOREM Safety == Spec => []SomebodyCanLogIn
<1>1. IInv => SomebodyCanLogIn
  BY DEF IInv
<1>. QED
  BY <1>1, Inductive, PTL

----------------------------------------------------------------------------
(* A request keeps its caller.                                             *)

(* The session of a request is that of the user it acts for, or of nobody  *)
(* any more; and who deletes an account is not its user.                   *)
OneCaller ==
    \A r \in Handlers : req[r] # None =>
        /\ req[r].op \in AdminOps /\ req[r].pc # "session" =>
              session[req[r].cred] \in {req[r].user, None}
        /\ req[r].pc = "delete" => req[r].target # req[r].user

(* No session comes to belong to another user: CreateSession takes a new   *)
(* id, and a request has one that was given out.                           *)
LEMMA SessionsStay ==
    ASSUME IInv, [Next]_vars, NEW s \in Sessions \cap issued
    PROVE  session'[s] \in {session[s], None}
<1>1. CASE session' = session
  BY <1>1
<1>2. ASSUME NEW r \in Handlers, CreateSession(r) PROVE session'[s] = session[s]
  BY <1>2 DEF IInv, TypeOK, CreateSession
<1>3. ASSUME NEW r \in Handlers, DeleteUser(r) PROVE session'[s] \in {session[s], None}
  BY <1>3 DEF DeleteUser
<1>4. ASSUME NEW r \in Handlers, DeleteSession(r) PROVE session'[s] \in {session[s], None}
  BY <1>4 DEF IInv, TypeOK, DeleteSession
<1>. QED
  BY <1>1, <1>2, <1>3, <1>4 DEF Next, Serve, vars, BootCount, BootInsert, Crash, Expire,
     BeginAdmin, BeginCache, BeginLogin, Begin, Answer, GetSession, GetUserByID,
     Authenticate, LoginLookup, CreateUser, CountUsers, ChangePassword, CreateToken,
     RevokeToken

(* What a step makes of the request of a handler. *)
LEMMA RequestSteps ==
    ASSUME IInv, [Next]_vars, NEW r \in Handlers, req'[r] # None, req'[r] # req[r]
    PROVE  \/ req'[r].pc \in {"session", "authorize", "lookup"}
           \/ GetSession(r) \/ GetUserByID(r) \/ Authenticate(r) \/ LoginLookup(r) \/ CountUsers(r)
<1>0. req \in [Handlers -> Request \cup {None}]
  BY DEF IInv, TypeOK
<1>1. ASSUME NEW q \in Handlers, NEW op \in AdminOps, NEW s \in Sessions, BeginAdmin(q, op, s)
      PROVE  req'[r].pc = "session"
  BY <1>0, <1>1 DEF BeginAdmin, Begin
<1>2. ASSUME NEW q \in Handlers, NEW op \in CacheOps, NEW t \in Tokens, BeginCache(q, op, t)
      PROVE  req'[r].pc = "authorize"
  BY <1>0, <1>2 DEF BeginCache, Begin
<1>3. ASSUME NEW q \in Handlers, NEW u \in Users, NEW v \in 0 .. MaxChanges, BeginLogin(q, u, v)
      PROVE  req'[r].pc = "lookup"
  BY <1>0, <1>3 DEF BeginLogin, Begin
<1>4. ASSUME NEW q \in Handlers, Done(q) PROVE FALSE
  BY <1>0, <1>4 DEF Done
<1>5. ASSUME NEW q \in Handlers,
             GetSession(q) \/ GetUserByID(q) \/ Authenticate(q) \/ LoginLookup(q) \/ CountUsers(q)
      PROVE  q = r
  BY <1>0, <1>5 DEF GetSession, GetUserByID, Authenticate, LoginLookup, CountUsers, Goto, Done
<1>6. \A p \in Replicas : ~ BootCount(p) /\ ~ BootInsert(p) /\ ~ Crash(p)
  BY <1>0 DEF BootCount, BootInsert, Crash
<1>7. ~ UNCHANGED vars /\ \A s \in Sessions : ~ Expire(s)
  BY DEF vars, Expire
<1>8. \A q \in Handlers :
        /\ ~ Answer(q) /\ ~ CreateSession(q) /\ ~ CreateUser(q) /\ ~ DeleteUser(q)
        /\ ~ ChangePassword(q) /\ ~ DeleteSession(q) /\ ~ CreateToken(q) /\ ~ RevokeToken(q)
  BY <1>4 DEF Answer, CreateSession, CreateUser, DeleteUser, ChangePassword, DeleteSession,
     CreateToken, RevokeToken
<1>. QED
  BY <1>1, <1>2, <1>3, <1>5, <1>6, <1>7, <1>8 DEF Next, Serve

(* The two lookups of a request agree, and so do its later statements. *)
LEMMA OneCallerKept == IInv /\ OneCaller /\ [Next]_vars => OneCaller'
<1>. SUFFICES ASSUME IInv, OneCaller, [Next]_vars, NEW r \in Handlers, req'[r] # None
              PROVE  /\ req'[r].op \in AdminOps /\ req'[r].pc # "session" =>
                           session'[req'[r].cred] \in {req'[r].user, None}
                     /\ req'[r].pc = "delete" => req'[r].target # req'[r].user
  BY DEF OneCaller
<1>1. req \in [Handlers -> Request \cup {None}] /\ (req[r] # None => Shape(req[r]))
  BY DEF IInv, TypeOK
<1>2. req'[r].op \in AdminOps => req'[r].cred \in Sessions /\ req'[r].cred \in issued'
  <2>1. IInv'
    BY InductionStep
  <2>. QED
    BY <2>1 DEF IInv, TypeOK, Shape
<1>3. CASE req'[r] = req[r]
  <2>1. req[r] # None /\ (req[r].op \in AdminOps => req[r].cred \in Sessions \cap issued)
    BY <1>1, <1>3 DEF Shape
  <2>. QED
    BY <1>3, <2>1, SessionsStay DEF OneCaller
<1>4. CASE req'[r].pc \in {"session", "authorize", "lookup"}
  <2>1. IInv'
    BY InductionStep
  <2>2. Shape(req[r])' /\ AdminOps \cap CacheOps = {} /\ "login" \notin AdminOps
    BY <2>1 DEF IInv, TypeOK, AdminOps, CacheOps
  <2>3. req'[r].op \in AdminOps => req'[r].pc = "session"
    BY <1>4, <2>2 DEF Shape
  <2>. QED
    BY <1>4, <2>3
<1>5. CASE GetSession(r)
  <2>1. /\ req[r] \in Request
        /\ req' = [req EXCEPT ![r].pc = "user", ![r].user = session[req[r].cred]]
        /\ session' = session
    BY <1>1, <1>5 DEF GetSession, Done
  <2>2. req'[r].pc = "user" /\ req'[r].user = session'[req'[r].cred]
    BY <1>1, <2>1 DEF Request
  <2>. QED
    BY <2>2
<1>6. CASE GetUserByID(r) \/ Authenticate(r) \/ LoginLookup(r)
  <2>1. /\ req[r] # None /\ req[r] \in Request /\ session' = session
        /\ req[r].pc \in {"user", "authorize", "lookup"}
    BY <1>1, <1>6 DEF GetUserByID, Authenticate, LoginLookup, At
  <2>2. \E l \in {"act", "serve", "insert"} : req' = [req EXCEPT ![r].pc = l]
    BY <1>1, <1>6 DEF GetUserByID, Authenticate, LoginLookup, Goto, Done
  <2>3. /\ req'[r].op = req[r].op /\ req'[r].cred = req[r].cred /\ req'[r].user = req[r].user
        /\ req'[r].pc # "delete"
    BY <1>1, <2>1, <2>2 DEF Request
  <2>. QED
    BY <2>1, <2>3 DEF OneCaller
<1>7. CASE CountUsers(r)
  <2>1. PICK u \in Users \ {req[r].user} :
          req' = [req EXCEPT ![r].pc = "delete", ![r].target = u]
    BY <1>7 DEF CountUsers
  <2>2. req[r] # None /\ req[r] \in Request /\ req[r].pc = "act" /\ session' = session
    BY <1>1, <1>7 DEF CountUsers, At
  <2>3. /\ req'[r].op = req[r].op /\ req'[r].cred = req[r].cred /\ req'[r].user = req[r].user
        /\ req'[r].target = u
    BY <1>1, <2>1, <2>2 DEF Request
  <2>. QED
    BY <2>2, <2>3 DEF OneCaller
<1>. QED
  BY <1>3, <1>4, <1>5, <1>6, <1>7, RequestSteps

(* Every reachable request has one caller. *)
LEMMA OneCallerHolds == Spec => [](IInv /\ OneCaller)
<1>1. Init => OneCaller
  BY DEF Init, OneCaller
<1>2. IInv /\ OneCaller /\ [Next]_vars => OneCaller'
  BY OneCallerKept
<1>. QED
  BY <1>1, <1>2, Inductive, PTL DEF Spec

(* What a handler does last, it does for the caller it has found. *)
LEMMA LastStatement ==
    ASSUME IInv, OneCaller, NEW r \in Handlers, Done(r), req[r] # None,
           req[r].pc \in {"act", "delete", "insert"}
    PROVE  /\ req[r].user \in Users /\ Caller(r, req[r].user, req[r].op)
           /\ req[r].pc = "delete" => req[r].target # req[r].user
<1>1. req \in [Handlers -> Request \cup {None}] /\ Shape(req[r])
  BY DEF IInv, TypeOK
<1>2. req'[r] = None
  BY <1>1 DEF Done
<1>3. ~ req[r].dead /\ req[r].user \in Users
  BY <1>1 DEF IInv, DeadCredentialsStayOut, Shape
<1>. QED
  BY <1>2, <1>3 DEF Caller, OneCaller

(* The steps that change the tables of accounts are few. *)
LEMMA Changes ==
    ASSUME [Next]_vars, <<email, session, password, token>>' # <<email, session, password, token>>
    PROVE  \/ \E p \in Replicas : BootInsert(p)
           \/ \E r \in Handlers :
                \/ CreateSession(r) \/ CreateUser(r) \/ DeleteUser(r) \/ ChangePassword(r)
                \/ DeleteSession(r) \/ CreateToken(r) \/ RevokeToken(r)
BY DEF Next, Serve, vars, BootCount, Crash, Expire, BeginAdmin, BeginCache, BeginLogin, Begin,
   Answer, GetSession, GetUserByID, Authenticate, LoginLookup, CountUsers

(* An INSERT INTO users removes nobody. *)
LEMMA InsertAdds ==
    ASSUME TypeOK, NEW u \in Users, NEW e, Insert(u, e)
    PROVE  Admins \subseteq Admins'
BY IdsAssumption DEF TypeOK, Insert, Admins

(* Nothing is changed for anyone whose credential was not in force at an   *)
(* instant of the request, or who is not its caller any more: what falls   *)
(* between the two lookups and the statement that relies on them can take  *)
(* the caller's session away and never give it to another.                 *)
THEOREM OnlyCallersChange == Spec => ChangesHaveCallers
<1>. DEFINE Passwords == \A u \in Users : password'[u] # password[u] =>
                           \E r \in Handlers : Caller(r, u, "changePassword")
            Deletions == \A u \in Admins \ Admins' : \E r \in Handlers, c \in Users \ {u} :
                           Caller(r, c, "deleteUser") /\ req[r].target = u
            Creations == ~ (Admins' \subseteq Admins) =>
                           \/ \E p \in Replicas : proc[p] = "insert" /\ proc'[p] = "up"
                           \/ \E r \in Handlers, c \in Users : Caller(r, c, "createUser")
            Logins == \A s \in Sessions : session'[s] # session[s] =>
                           \/ \E r \in Handlers : Caller(r, session'[s], "login")
                           \/ session'[s] = None /\ session[s] \in Admins \ Admins'
                           \/ session'[s] = None /\ \E r \in Handlers :
                                Caller(r, session[s], "logout") /\ req[r].cred = s
            Issues == token' # token => \E r \in Handlers, c \in Users :
                           Caller(r, c, "createToken") \/ Caller(r, c, "revokeToken")
            AllHaveCallers == Passwords /\ Deletions /\ Creations /\ Logins /\ Issues
<1>1. ASSUME IInv, OneCaller, [Next]_vars PROVE AllHaveCallers
  <2>0. /\ email \in [Users -> Emails \cup {None}] /\ password \in [Users -> 0 .. MaxChanges]
        /\ session \in [Sessions -> Users \cup {None}]
        /\ proc \in [Replicas -> {"down", "insert", "up"}]
    BY <1>1 DEF IInv, TypeOK
  <2>1. CASE <<email, session, password, token>>' = <<email, session, password, token>>
    BY <2>1 DEF Admins
  <2>2. ASSUME NEW p \in Replicas, BootInsert(p) PROVE AllHaveCallers
    <3>1. CASE proc' = [proc EXCEPT ![p] = "up"] /\ \E u \in Users : Insert(u, BootEmail)
      <4>1. Admins \subseteq Admins'
        BY <1>1, <3>1, InsertAdds DEF IInv
      <4>2. proc[p] = "insert" /\ proc'[p] = "up"
        BY <2>0, <2>2, <3>1 DEF BootInsert
      <4>. QED
        BY <2>2, <4>1, <4>2 DEF BootInsert
    <3>2. CASE email' = email
      BY <2>2, <3>2 DEF BootInsert, Admins
    <3>. QED
      BY <2>2, <3>1, <3>2 DEF BootInsert
  <2>3. ASSUME NEW r \in Handlers, CreateSession(r) PROVE AllHaveCallers
    <3>1. Caller(r, req[r].user, "login")
      BY <1>1, <2>3, LastStatement DEF CreateSession, At
    <3>2. \A s \in Sessions : session'[s] # session[s] => session'[s] = req[r].user
      BY <2>0, <2>3 DEF CreateSession
    <3>. QED
      BY <2>3, <3>1, <3>2 DEF CreateSession, Admins
  <2>4. ASSUME NEW r \in Handlers, CreateUser(r) PROVE AllHaveCallers
    <3>1. req[r].user \in Users /\ Caller(r, req[r].user, "createUser")
      BY <1>1, <2>4, LastStatement DEF CreateUser, At
    <3>2. Admins \subseteq Admins'
      BY <1>1, <2>4, InsertAdds DEF IInv, CreateUser
    <3>. QED
      BY <2>4, <3>1, <3>2 DEF CreateUser
  <2>5. ASSUME NEW r \in Handlers, DeleteUser(r) PROVE AllHaveCallers
    <3>1. /\ req[r].user \in Users /\ Caller(r, req[r].user, "deleteUser")
          /\ req[r].target # req[r].user
      BY <1>1, <2>5, LastStatement DEF DeleteUser, At
    <3>2. /\ req[r].target \in Admins \ Admins' /\ Admins \ Admins' \subseteq {req[r].target}
          /\ Admins' \subseteq Admins
      BY <2>0, <2>5 DEF DeleteUser, Admins
    <3>3. \A s \in Sessions : session'[s] # session[s] =>
            session'[s] = None /\ session[s] = req[r].target
      BY <2>0, <2>5 DEF DeleteUser
    <3>. QED
      BY <2>5, <3>1, <3>2, <3>3 DEF DeleteUser
  <2>6. ASSUME NEW r \in Handlers, ChangePassword(r) PROVE AllHaveCallers
    <3>1. Caller(r, req[r].user, "changePassword")
      BY <1>1, <2>6, LastStatement DEF ChangePassword, At
    <3>2. \A u \in Users : password'[u] # password[u] => u = req[r].user
      BY <2>0, <2>6 DEF ChangePassword
    <3>. QED
      BY <2>6, <3>1, <3>2 DEF ChangePassword, Admins
  <2>7. ASSUME NEW r \in Handlers, DeleteSession(r) PROVE AllHaveCallers
    <3>1. Caller(r, req[r].user, "logout")
      BY <1>1, <2>7, LastStatement DEF DeleteSession, At
    <3>2. \A s \in Sessions : session'[s] # session[s] =>
            s = req[r].cred /\ session'[s] = None /\ session[s] # None
      BY <2>0, <2>7 DEF DeleteSession
    <3>3. session[req[r].cred] \in {req[r].user, None}
      BY <3>1 DEF Caller, AdminOps
    <3>. QED
      BY <2>7, <3>1, <3>2, <3>3 DEF DeleteSession, Admins
  <2>8. ASSUME NEW r \in Handlers, CreateToken(r) \/ RevokeToken(r) PROVE AllHaveCallers
    <3>1. req[r].user \in Users /\ (Caller(r, req[r].user, "createToken")
                                    \/ Caller(r, req[r].user, "revokeToken"))
      BY <1>1, <2>8, LastStatement DEF CreateToken, RevokeToken, At
    <3>. QED
      BY <2>8, <3>1 DEF CreateToken, RevokeToken, Admins
  <2>. QED
    BY <1>1, <2>1, <2>2, <2>3, <2>4, <2>5, <2>6, <2>7, <2>8, Changes
<1>2. IInv /\ OneCaller /\ [Next]_vars => [AllHaveCallers]_vars
  BY <1>1
<1>. QED
  BY <1>2, OneCallerHolds, PTL DEF Spec, ChangesHaveCallers
=============================================================================
