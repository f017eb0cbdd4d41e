------------------------------ MODULE Accounts ------------------------------
(***************************************************************************)
(* Who may do what: the users, sessions and tokens tables of Postgres      *)
(* (internal/store), the admin API's handlers that change them             *)
(* (internal/adminapi, internal/session), the bootstrap of the first admin *)
(* (cmd/server) and the authorization of cache requests (internal/auth).   *)
(*                                                                         *)
(* One action per statement sent to Postgres, which is atomic; a handler   *)
(* keeps what it has read and acts on it later.  Several replicas of the   *)
(* server share the database.  Ids come from a sequence or from a random   *)
(* generator and are never given out twice.  Any statement may fail, which *)
(* ends the request.  A password is known by whose it is and how many were *)
(* chosen before it; names and the cookie itself play no role.             *)
(***************************************************************************)
EXTENDS Integers, FiniteSets

CONSTANTS
    Users,      \* ids of the users table
    Emails,     \* the email addresses accounts are created for
    Sessions,   \* session ids
    Tokens,     \* token ids
    Replicas,   \* processes of the server
    Handlers,   \* goroutines that serve a request
    Replica,    \* Replica[r] is the process handler r runs in
    BootEmail,  \* ADMIN_BOOTSTRAP_EMAIL, None when it is not set
    MaxChanges, \* bound on the changes of each password
    None

Scopes == {"read", "write"}

ASSUME ReplicaAssumption == Replica \in [Handlers -> Replicas]
ASSUME BootAssumption == BootEmail \in Emails \cup {None}
ASSUME ChangesAssumption == MaxChanges \in Nat
ASSUME IdsAssumption ==
    /\ Users \cap Sessions = {} /\ Users \cap Tokens = {} /\ Sessions \cap Tokens = {}
    /\ None \notin Users \cup Emails \cup Sessions \cup Tokens \cup Scopes

VARIABLES
    email,      \* email[u] of the users there are, None for other ids
    session,    \* session[s] is the user of session s, None when it has no row
    password,   \* password[u]: the password user u logs in with
    token,      \* the scope of the tokens that are not revoked, None for other ids
    issued,     \* history: every id given out so far
    expired,    \* the sessions whose expires_at has passed
    proc,       \* proc[p]: what replica p is doing
    req,        \* the request each handler serves
    crossed     \* history: a user was deleted while another delete had counted

vars == <<email, session, password, token, issued, expired, proc, req, crossed>>

AdminOps == {"createUser", "deleteUser", "changePassword", "createToken", "revokeToken",
             "logout"}

CacheOps == {"get", "put"}

(* A request, and what its handler has read so far.  `dead` is history: its *)
(* credential was not good for it when it began.                           *)
Request == [op : AdminOps \cup CacheOps \cup {"login"},
            pc : {"session", "user", "act", "delete", "lookup", "insert", "authorize", "serve"},
            cred : Sessions \cup Tokens \cup (0 .. MaxChanges),
            user : Users \cup {None},
            target : Users \cup {None},
            dead : BOOLEAN]

(* What each stage of a request relies on having read. *)
Shape(q) ==
    /\ q.pc \in {"user", "act", "delete", "lookup", "insert"} => q.user \in Users
    /\ q.pc = "delete" => q.target \in Users
    /\ q.op \in AdminOps => q.cred \in Sessions \cap issued
    /\ q.op \in CacheOps => q.cred \in Tokens \cap issued
    /\ q.op = "login" => q.cred \in 0 .. MaxChanges
    /\ q.pc = "session" => q.op \in AdminOps
    /\ q.pc = "authorize" => q.op \in CacheOps
    /\ q.pc = "lookup" => q.op = "login" /\ q.user \in issued /\ q.cred <= password[q.user]

TypeOK ==
    /\ email \in [Users -> Emails \cup {None}]
    /\ session \in [Sessions -> Users \cup {None}]
    /\ password \in [Users -> 0 .. MaxChanges]
    /\ token \in [Tokens -> Scopes \cup {None}]
    /\ issued \in SUBSET (Users \cup Sessions \cup Tokens)
    /\ expired \in SUBSET Sessions
    /\ proc \in [Replicas -> {"down", "insert", "up"}]
    /\ req \in [Handlers -> Request \cup {None}]
    /\ \A r \in Handlers : req[r] # None => Shape(req[r])
    /\ crossed \in BOOLEAN

Init ==
    /\ email = [u \in Users |-> None]
    /\ session = [s \in Sessions |-> None]
    /\ password = [u \in Users |-> 0]
    /\ token = [t \in Tokens |-> None]
    /\ issued = {}
    /\ expired = {}
    /\ proc = [p \in Replicas |-> "down"]
    /\ req = [r \in Handlers |-> None]
    /\ crossed = FALSE

----------------------------------------------------------------------------
Admins == {u \in Users : email[u] # None}

Taken == {email[u] : u \in Admins}

Live(s) == session[s] # None /\ s \notin expired

(* What a token of scope s may be used for: "a write token may also read". *)
Allows(s, op) == s = "write" \/ (s = "read" /\ op = "get")

(* Handler r is at pc l of a request for operation op. *)
At(r, op, l) == req[r] # None /\ req[r].op = op /\ req[r].pc = l

Goto(r, l) == req' = [req EXCEPT ![r].pc = l]

Done(r) == req' = [req EXCEPT ![r] = None]

(* INSERT INTO users: the id is new, the email must be. *)
Insert(u, e) ==
    /\ u \in Users \ issued
    /\ e \in Emails \ Taken
    /\ email' = [email EXCEPT ![u] = e]
    /\ issued' = issued \cup {u}

----------------------------------------------------------------------------
(* Processes. *)

(* bootstrapAdmin counts the users; with no email set it does nothing. *)
BootCount(p) ==
    /\ proc[p] = "down"
    /\ proc' = [proc EXCEPT ![p] =
                  IF BootEmail # None /\ Admins = {} THEN "insert" ELSE "up"]
    /\ UNCHANGED <<email, session, password, token, issued, expired, req, crossed>>

(* ... and creates the account; if that fails, the process exits. *)
BootInsert(p) ==
    /\ proc[p] = "insert"
    /\ \/ /\ \E u \in Users : Insert(u, BootEmail)
          /\ proc' = [proc EXCEPT ![p] = "up"]
       \/ /\ proc' = [proc EXCEPT ![p] = "down"]
          /\ UNCHANGED <<email, issued>>
    /\ UNCHANGED <<session, password, token, expired, req, crossed>>

Crash(p) ==
    /\ proc[p] # "down"
    /\ proc' = [proc EXCEPT ![p] = "down"]
    /\ req' = [r \in Handlers |-> IF Replica[r] = p THEN None ELSE req[r]]
    /\ UNCHANGED <<email, session, password, token, issued, expired, crossed>>

(* A session's expires_at passes. *)
Expire(s) ==
    /\ s \in issued \ expired
    /\ expired' = expired \cup {s}
    /\ UNCHANGED <<email, session, password, token, issued, proc, req, crossed>>

----------------------------------------------------------------------------
(* Requests and their authentication. *)

Begin(r, op, l, cred, user, dead) ==
    /\ req[r] = None
    /\ proc[Replica[r]] = "up"
    /\ req' = [req EXCEPT ![r] = [op |-> op, pc |-> l, cred |-> cred, user |-> user,
                                  target |-> None, dead |-> dead]]
    /\ UNCHANGED <<email, session, password, token, issued, expired, proc, crossed>>

BeginAdmin(r, op, s) == s \in issued /\ Begin(r, op, "session", s, None, ~ Live(s))

BeginCache(r, op, t) ==
    t \in issued /\ Begin(r, op, "authorize", t, None, ~ Allows(token[t], op))

(* Somebody enters a password that is or was that of user u. *)
BeginLogin(r, u, v) ==
    /\ u \in issued /\ v <= password[u]
    /\ Begin(r, "login", "lookup", v, u, u \notin Admins \/ v # password[u])

(* The handler answers without changing anything more: it refuses, there is *)
(* nothing to change, or a statement failed.  (A logout that failed answers *)
(* 200 all the same; the session lives on without its cookie.)              *)
Answer(r) ==
    /\ req[r] # None
    /\ Done(r)
    /\ UNCHANGED <<email, session, password, token, issued, expired, proc, crossed>>

(* Variant: expires_at is not looked at. *)
GetSession_IgnoresExpiry(r) ==
    /\ req[r] # None /\ req[r].pc = "session"
    /\ session[req[r].cred] # None
    /\ req' = [req EXCEPT ![r].pc = "user", ![r].user = session[req[r].cred]]
    /\ UNCHANGED <<email, session, password, token, issued, expired, proc, crossed>>

(* CurrentUser finds the session, if it is live; otherwise 401. *)
GetSession(r) ==
    /\ req[r] # None /\ req[r].pc = "session"
    /\ IF Live(req[r].cred)
          THEN req' = [req EXCEPT ![r].pc = "user", ![r].user = session[req[r].cred]]
          ELSE Done(r)
    /\ UNCHANGED <<email, session, password, token, issued, expired, proc, crossed>>

(* ... and then its user; the handler goes on with what it was given. *)
GetUserByID(r) ==
    /\ req[r] # None /\ req[r].pc = "user"
    /\ IF req[r].user \in Admins THEN Goto(r, "act") ELSE Done(r)
    /\ UNCHANGED <<email, session, password, token, issued, expired, proc, crossed>>

(* The lookup of a cache request's token and its scope: 401, 403 or on. *)
Authenticate(r) ==
    /\ req[r] # None /\ req[r].pc = "authorize"
    /\ IF Allows(token[req[r].cred], req[r].op) THEN Goto(r, "serve") ELSE Done(r)
    /\ UNCHANGED <<email, session, password, token, issued, expired, proc, crossed>>

----------------------------------------------------------------------------
(* Handlers. *)

(* Variant: that no user has this email is not noticed. *)
LoginLookup_NoRow(r) ==
    /\ At(r, "login", "lookup")
    /\ IF req[r].user \in Admins
          THEN Goto(r, "insert")
          ELSE req' = [req EXCEPT ![r].pc = "insert", ![r].user = None]
    /\ UNCHANGED <<email, session, password, token, issued, expired, proc, crossed>>

(* Login finds the user and compares the password. *)
LoginLookup(r) ==
    /\ At(r, "login", "lookup")
    /\ IF req[r].user \in Admins /\ req[r].cred = password[req[r].user]
          THEN Goto(r, "insert") ELSE Done(r)
    /\ UNCHANGED <<email, session, password, token, issued, expired, proc, crossed>>

(* Variant: sessions.user_id does not reference users. *)
CreateSession_NoReference(r) ==
    /\ At(r, "login", "insert")
    /\ \E s \in Sessions \ issued :
         /\ session' = [session EXCEPT ![s] = req[r].user]
         /\ issued' = issued \cup {s}
    /\ Done(r)
    /\ UNCHANGED <<email, password, token, expired, proc, crossed>>

(* Variant: the id of a session that has ended is given out again. *)
CreateSession_ReusesIds(r) ==
    /\ At(r, "login", "insert")
    /\ req[r].user \in Admins
    /\ \E s \in Sessions :
         /\ session[s] = None
         /\ session' = [session EXCEPT ![s] = req[r].user]
         /\ issued' = issued \cup {s}
    /\ Done(r)
    /\ UNCHANGED <<email, password, token, expired, proc, crossed>>

(* The INSERT fails when the user is gone by now. *)
CreateSession(r) ==
    /\ At(r, "login", "insert")
    /\ req[r].user \in Admins
    /\ \E s \in Sessions \ issued :
         /\ session' = [session EXCEPT ![s] = req[r].user]
         /\ issued' = issued \cup {s}
    /\ Done(r)
    /\ UNCHANGED <<email, password, token, expired, proc, crossed>>

CreateUser(r) ==
    /\ At(r, "createUser", "act")
    /\ \E u \in Users, e \in Emails : Insert(u, e)
    /\ Done(r)
    /\ UNCHANGED <<session, password, token, expired, proc, crossed>>

(* Variant: the last account may be deleted. *)
CountUsers_Unguarded(r) ==
    /\ At(r, "deleteUser", "act")
    /\ \E u \in Users \ {req[r].user} :
         req' = [req EXCEPT ![r].pc = "delete", ![r].target = u]
    /\ UNCHANGED <<email, session, password, token, issued, expired, proc, crossed>>

(* handleDeleteUser refuses the caller's own account and the last one. *)
CountUsers(r) ==
    /\ At(r, "deleteUser", "act")
    /\ Cardinality(Admins) > 1
    /\ \E u \in Users \ {req[r].user} :
         req' = [req EXCEPT ![r].pc = "delete", ![r].target = u]
    /\ UNCHANGED <<email, session, password, token, issued, expired, proc, crossed>>

(* DELETE FROM users, which takes the user's sessions along. *)
DeleteUser(r) ==
    /\ At(r, "deleteUser", "delete")
    /\ req[r].target \in Admins
    /\ email' = [email EXCEPT ![req[r].target] = None]
    /\ session' = [s \in Sessions |-> IF session[s] = req[r].target THEN None ELSE session[s]]
    /\ crossed' = (crossed \/ \E q \in Handlers \ {r} : At(q, "deleteUser", "delete"))
    /\ Done(r)
    /\ UNCHANGED <<password, token, issued, expired, proc>>

(* The caller knows the password its authentication has read; another one  *)
(* may be in force by now.                                                 *)
ChangePassword(r) ==
    /\ At(r, "changePassword", "act")
    /\ req[r].user \in Admins
    /\ password[req[r].user] < MaxChanges
    /\ password' = [password EXCEPT ![req[r].user] = @ + 1]
    /\ Done(r)
    /\ UNCHANGED <<email, session, token, issued, expired, proc, crossed>>

DeleteSession(r) ==
    /\ At(r, "logout", "act")
    /\ session' = [session EXCEPT ![req[r].cred] = None]
    /\ Done(r)
    /\ UNCHANGED <<email, password, token, issued, expired, proc, crossed>>

(* created_by references users: the INSERT fails when the creator is gone. *)
CreateToken(r) ==
    /\ At(r, "createToken", "act")
    /\ req[r].user \in Admins
    /\ \E t \in Tokens \ issued, s \in Scopes :
         token' = [token EXCEPT ![t] = s] /\ issued' = issued \cup {t}
    /\ Done(r)
    /\ UNCHANGED <<email, session, password, expired, proc, crossed>>

RevokeToken(r) ==
    /\ At(r, "revokeToken", "act")
    /\ \E t \in Tokens : token[t] # None /\ token' = [token EXCEPT ![t] = None]
    /\ Done(r)
    /\ UNCHANGED <<email, session, password, issued, expired, proc, crossed>>

Serve(r) ==
    \/ GetSession(r) \/ GetUserByID(r) \/ Authenticate(r)
    \/ LoginLookup(r) \/ CreateSession(r)
    \/ CreateUser(r) \/ CountUsers(r) \/ DeleteUser(r)
    \/ ChangePassword(r) \/ DeleteSession(r) \/ CreateToken(r) \/ RevokeToken(r)

Next ==
    \/ \E p \in Replicas : BootCount(p) \/ BootInsert(p) \/ Crash(p)
    \/ \E s \in Sessions : Expire(s)
    \/ \E r \in Handlers :
         \/ \E op \in AdminOps, s \in Sessions : BeginAdmin(r, op, s)
         \/ \E op \in CacheOps, t \in Tokens : BeginCache(r, op, t)
         \/ \E u \in Users, v \in 0 .. MaxChanges : BeginLogin(r, u, v)
         \/ Answer(r)
         \/ Serve(r)

Spec == Init /\ [][Next]_vars

----------------------------------------------------------------------------
(* A session that was logged out, has expired or whose user was deleted, a *)
(* token that was revoked, and a password that was changed or whose user   *)
(* was deleted, open nothing to a request that begins afterwards, on       *)
(* whichever replica and whatever is in flight there; and a token that may *)
(* only read never uploads.                                                *)
DeadCredentialsStayOut ==
    \A r \in Handlers :
        req[r] # None /\ req[r].pc \in {"user", "act", "delete", "insert", "serve"} => ~ req[r].dead

(* A request acts for one caller from its first lookup to its last         *)
(* statement, whatever is logged out, expires, is deleted or changed in    *)
(* between.  What a handler has read may be out of date by then, and a     *)
(* request that was let in is finished; but nothing is ever changed for    *)
(* anyone whose credential was not in force at an instant of that very     *)
(* request, or whose session has become somebody else's, and no password   *)
(* or session but the caller's own, save when an account is deleted by     *)
(* another.  Only the bootstrap needs no caller.                           *)
Caller(r, u, op) ==
    /\ req[r] # None /\ req'[r] = None
    /\ req[r].op = op /\ req[r].user = u /\ ~ req[r].dead
    /\ op \in AdminOps => session[req[r].cred] \in {u, None}

ChangesHaveCallers ==
    [][/\ \A u \in Users : password'[u] # password[u] =>
            \E r \in Handlers : Caller(r, u, "changePassword")
       /\ \A u \in Admins \ Admins' : \E r \in Handlers, c \in Users \ {u} :
            Caller(r, c, "deleteUser") /\ req[r].target = u
       /\ ~ (Admins' \subseteq Admins) =>
            \/ \E p \in Replicas : proc[p] = "insert" /\ proc'[p] = "up"
            \/ \E r \in Handlers, c \in Users : Caller(r, c, "createUser")
       /\ \A s \in Sessions : session'[s] # session[s] =>
            \/ \E r \in Handlers : Caller(r, session'[s], "login")
            \/ session'[s] = None /\ session[s] \in Admins \ Admins'
            \/ session'[s] = None /\ \E r \in Handlers :
                    Caller(r, session[s], "logout") /\ req[r].cred = s
       /\ token' # token => \E r \in Handlers, c \in Users :
            Caller(r, c, "createToken") \/ Caller(r, c, "revokeToken")]_vars

(* A login that read its user before the account was deleted does not      *)
(* leave a session behind.                                                 *)
SessionsHaveUsers == \A s \in Sessions : session[s] # None => session[s] \in Admins

(* Once a deployment has had an account and unless two deletes of users    *)
(* crossed, somebody can log in; with a bootstrap account configured, no   *)
(* replica serves before that.                                             *)
SomebodyCanLogIn ==
    ~ crossed =>
        /\ issued \cap Users # {} => Admins # {}
        /\ BootEmail # None => \A p \in Replicas : proc[p] = "up" => Admins # {}

(* handleDeleteUser: "cannot delete the last remaining admin".  It fails   *)
(* when two admins delete each other and both have counted before.         *)
AlwaysAnAdmin == issued \cap Users # {} => Admins # {}
=============================================================================
