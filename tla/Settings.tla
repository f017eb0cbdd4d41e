------------------------------ MODULE Settings ------------------------------
(***************************************************************************)
(* The runtime configuration: the row of app_settings in Postgres, the     *)
(* copy each replica of the server works with, and the ways from one to    *)
(* the other: Load at startup and Apply on behalf of an admin              *)
(* (internal/settings, internal/store/settings.go), with the life of a     *)
(* replica around them (cmd/server).                                       *)
(*                                                                         *)
(* One action per statement, per call to a storage backend and per         *)
(* assignment that another goroutine may see.                              *)
(***************************************************************************)
EXTENDS Configurations

CONSTANTS
    Keys,       \* values of SETTINGS_ENCRYPTION_KEY
    MaxAttempts,    \* of waitForDB: 15 in the code
    MaxFaults   \* bound on failed calls and crashes

(* Ciphertext: which key sealed it, and what it holds. *)
Row == [target : Targets, secret : [Fields -> (Keys \X Secrets) \cup {Empty}],
        ttl : Ttls, size : Sizes]

(* A request to the settings handlers: what an admin entered, and what      *)
(* Apply is about to put in force for it.                                   *)
Request == [op : {"get", "put"},
            pc : {"wait", "probe", "update", "swap", "ttl", "size", "current"},
            in : Inputs \cup {None},
            next : Config \cup {None}]

ASSUME NumbersAssumption == MaxAttempts \in Nat \ {0} /\ MaxFaults \in Nat
ASSUME DistinctAssumption ==
    /\ Empty \notin Keys \X Secrets
    /\ None \notin Row \cup Request \cup [op : {"get", "put"}, in : Inputs \cup {None}]

VARIABLES
    row,        \* the row of app_settings, its secrets sealed
    key,        \* the key the deployment is configured with
    stage,      \* how far each replica has come
    tries,      \* failed attempts of its waitForDB
    used,       \* the key it was started with
    boot,       \* the row its Load has read
    force,      \* what is in force: Dynamic's backend, the TTL and size in the atomics
    current,    \* Manager.current
    lock,       \* the request that holds Manager.mu
    req,        \* the request each handler serves
    drifted,    \* history: row and replica may differ, see Update
    faults

vars == <<row, key, stage, tries, used, boot, force, current, lock, req, drifted, faults>>

Stages == {"down", "migrate", "load", "build", "up", "drain"}

TypeOK ==
    /\ row \in Row
    /\ key \in Keys
    /\ stage \in [Replicas -> Stages]
    /\ tries \in [Replicas -> 0 .. MaxAttempts - 1]
    /\ used \in [Replicas -> Keys]
    /\ boot \in [Replicas -> Row \cup {None}]
    /\ force \in [Replicas -> Config \cup {None}]
    /\ current \in [Replicas -> Config \cup {None}]
    /\ lock \in [Replicas -> Handlers \cup {None}]
    /\ req \in [Handlers -> Request \cup {None}]
    /\ drifted \in [Replicas -> BOOLEAN]
    /\ faults \in 0 .. MaxFaults

----------------------------------------------------------------------------
(* encryptForStorage: an empty secret is stored as NULL. *)
Seal(c, k) ==
    [c EXCEPT !.secret = [f \in Fields |-> IF c.secret[f] = Empty THEN Empty
                                           ELSE <<k, c.secret[f]>>]]

(* decrypt works with the key that sealed every secret of the row. *)
Opens(k, rw) == \A f \in Fields : rw.secret[f] # Empty => rw.secret[f][1] = k

(* What the row says to whoever holds its keys. *)
Open(rw) ==
    [rw EXCEPT !.secret = [f \in Fields |-> IF rw.secret[f] = Empty THEN Empty
                                            ELSE rw.secret[f][2]]]

Init ==
    /\ key \in Keys
    /\ row = Seal(Seed, key)
    /\ stage = [p \in Replicas |-> "down"]
    /\ tries = [p \in Replicas |-> 0]
    /\ used = [p \in Replicas |-> key]
    /\ boot = [p \in Replicas |-> None]
    /\ force = [p \in Replicas |-> None]
    /\ current = [p \in Replicas |-> None]
    /\ lock = [p \in Replicas |-> None]
    /\ req = [r \in Handlers |-> None]
    /\ drifted = [p \in Replicas |-> FALSE]
    /\ faults = 0

(* A call to Postgres or to a storage backend fails, a process dies. *)
Fault ==
    /\ faults < MaxFaults
    /\ faults' = faults + 1

(* The operator configures another key, for the replicas started from now on. *)
ChangeKey(k) ==
    /\ k # key
    /\ key' = k
    /\ UNCHANGED <<row, stage, tries, used, boot, force, current, lock, req, drifted, faults>>

----------------------------------------------------------------------------
(* The life of a replica. *)

(* It is gone, with every request it was serving and all it had in memory. *)
Exit(p) ==
    /\ stage' = [stage EXCEPT ![p] = "down"]
    /\ tries' = [tries EXCEPT ![p] = 0]
    /\ boot' = [boot EXCEPT ![p] = None]
    /\ force' = [force EXCEPT ![p] = None]
    /\ current' = [current EXCEPT ![p] = None]
    /\ lock' = [lock EXCEPT ![p] = None]
    /\ req' = [r \in Handlers |-> IF Replica[r] = p THEN None ELSE req[r]]
    /\ drifted' = [drifted EXCEPT ![p] = FALSE]

Start(p) ==
    /\ stage[p] = "down"
    /\ stage' = [stage EXCEPT ![p] = "migrate"]
    /\ used' = [used EXCEPT ![p] = key]
    /\ UNCHANGED <<row, key, tries, boot, force, current, lock, req, drifted, faults>>

(* Variant: waitForDB allows for one attempt more than it should. *)
WaitForDB_OffByOne(p) ==
    /\ stage[p] = "migrate"
    /\ \/ stage' = [stage EXCEPT ![p] = "load"]
          /\ UNCHANGED <<tries, boot, force, current, lock, req, drifted, faults>>
       \/ Fault /\ tries[p] < MaxAttempts
          /\ tries' = [tries EXCEPT ![p] = @ + 1]
          /\ UNCHANGED <<stage, boot, force, current, lock, req, drifted>>
       \/ Fault /\ tries[p] = MaxAttempts /\ Exit(p)
    /\ UNCHANGED <<row, key, used>>

(* Variant: waitForDB falls silent after its last attempt. *)
WaitForDB_Hangs(p) ==
    /\ stage[p] = "migrate"
    /\ tries[p] < MaxAttempts - 1
    /\ \/ stage' = [stage EXCEPT ![p] = "load"] /\ UNCHANGED <<tries, faults>>
       \/ Fault /\ tries' = [tries EXCEPT ![p] = @ + 1] /\ UNCHANGED stage
    /\ UNCHANGED <<row, key, used, boot, force, current, lock, req, drifted>>

(* waitForDB migrates, again and again up to MaxAttempts times; then the   *)
(* process exits.                                                          *)
WaitForDB(p) ==
    /\ stage[p] = "migrate"
    /\ \/ /\ stage' = [stage EXCEPT ![p] = "load"]
          /\ UNCHANGED <<tries, boot, force, current, lock, req, drifted, faults>>
       \/ /\ Fault
          /\ tries[p] < MaxAttempts - 1
          /\ tries' = [tries EXCEPT ![p] = @ + 1]
          /\ UNCHANGED <<stage, boot, force, current, lock, req, drifted>>
       \/ Fault /\ tries[p] = MaxAttempts - 1 /\ Exit(p)
    /\ UNCHANGED <<row, key, used>>

(* The rest of the startup up to the first half of Load: GetSettings. *)
LoadRow(p) ==
    /\ stage[p] = "load"
    /\ \/ /\ boot' = [boot EXCEPT ![p] = row]
          /\ stage' = [stage EXCEPT ![p] = "build"]
          /\ tries' = [tries EXCEPT ![p] = 0]
          /\ UNCHANGED <<force, current, lock, req, drifted, faults>>
       \/ Fault /\ Exit(p)
    /\ UNCHANGED <<row, key, used>>

(* The second half of Load: what was read is decrypted, its backend is     *)
(* built, and all of it is put in force before the first request; if any   *)
(* of that fails, the process exits.                                       *)
LoadApply(p) ==
    /\ stage[p] = "build"
    /\ \/ /\ Opens(used[p], boot[p])
          /\ stage' = [stage EXCEPT ![p] = "up"]
          /\ force' = [force EXCEPT ![p] = Open(boot[p])]
          /\ current' = [current EXCEPT ![p] = Open(boot[p])]
          /\ boot' = [boot EXCEPT ![p] = None]
          /\ UNCHANGED <<tries, lock, req, drifted, faults>>
       \/ ~ Opens(used[p], boot[p]) /\ Exit(p) /\ UNCHANGED faults
       \/ Fault /\ Exit(p)
    /\ UNCHANGED <<row, key, used>>

(* SIGTERM: no new requests. *)
Terminate(p) ==
    /\ stage[p] = "up"
    /\ stage' = [stage EXCEPT ![p] = "drain"]
    /\ UNCHANGED <<row, key, tries, used, boot, force, current, lock, req, drifted, faults>>

(* Shutdown waits for the requests in flight, or until its grace is over. *)
Shutdown(p) ==
    /\ stage[p] = "drain"
    /\ Exit(p)
    /\ UNCHANGED <<row, key, used, faults>>

Crash(p) ==
    /\ stage[p] # "down"
    /\ Fault
    /\ Exit(p)
    /\ UNCHANGED <<row, key, used>>

----------------------------------------------------------------------------
(* Requests of admins to a replica. *)

At(r, l) == req[r] # None /\ req[r].pc = l

Goto(r, l) == req' = [req EXCEPT ![r].pc = l]

Begin(r, request) ==
    /\ req[r] = None
    /\ stage[Replica[r]] = "up"
    /\ req' = [req EXCEPT ![r] = request]
    /\ UNCHANGED <<row, key, stage, tries, used, boot, force, current, lock, drifted, faults>>

(* GET: Current waits for a reader's lock and answers from `current`. *)
GetSettings(r) == Begin(r, [op |-> "get", pc |-> "wait", in |-> None, next |-> None])

Current(r) ==
    /\ At(r, "wait") /\ req[r].op = "get"
    /\ lock[Replica[r]] = None
    /\ req' = [req EXCEPT ![r] = None]
    /\ UNCHANGED <<row, key, stage, tries, used, boot, force, current, lock, drifted, faults>>

PutSettings(r, in) == Begin(r, [op |-> "put", pc |-> "wait", in |-> in, next |-> None])

(* Apply ends, and its deferred Unlock runs. *)
Finish(r) ==
    /\ req' = [req EXCEPT ![r] = None]
    /\ lock' = [lock EXCEPT ![Replica[r]] = None]

(* Variant: a refused change leaves without unlocking. *)
Apply_KeepsLock(r) ==
    /\ At(r, "wait") /\ req[r].op = "put"
    /\ lock[Replica[r]] = None
    /\ LET next == Merge(current[Replica[r]], req[r].in)
       IN  IF Valid(next)
              THEN req' = [req EXCEPT ![r].pc = "probe", ![r].next = next]
              ELSE req' = [req EXCEPT ![r] = None]
    /\ lock' = [lock EXCEPT ![Replica[r]] = r]
    /\ UNCHANGED <<row, key, stage, tries, used, boot, force, current, drifted, faults>>

(* Variant: Apply takes the lock as a reader does. *)
Apply_Shared(r) ==
    /\ At(r, "wait") /\ req[r].op = "put"
    /\ LET next == Merge(current[Replica[r]], req[r].in)
       IN  IF Valid(next)
              THEN /\ lock' = [lock EXCEPT ![Replica[r]] = r]
                   /\ req' = [req EXCEPT ![r].pc = "probe", ![r].next = next]
              ELSE Finish(r)
    /\ UNCHANGED <<row, key, stage, tries, used, boot, force, current, drifted, faults>>

(* Apply takes the lock, works out what it is asked for and validates it. *)
Apply(r) ==
    /\ At(r, "wait") /\ req[r].op = "put"
    /\ lock[Replica[r]] = None
    /\ LET next == Merge(current[Replica[r]], req[r].in)
       IN  IF Valid(next)
              THEN /\ lock' = [lock EXCEPT ![Replica[r]] = r]
                   /\ req' = [req EXCEPT ![r].pc = "probe", ![r].next = next]
              ELSE Finish(r)
    /\ UNCHANGED <<row, key, stage, tries, used, boot, force, current, drifted, faults>>

(* Variant: the new backend is built but not asked to list anything. *)
Probe_BuildOnly(r) ==
    /\ At(r, "probe")
    /\ \/ Goto(r, "update") /\ UNCHANGED <<lock, faults>>
       \/ Fault /\ Finish(r)
    /\ UNCHANGED <<row, key, stage, tries, used, boot, force, current, drifted>>

(* The new backend is built and lists a page; otherwise 400. *)
Probe(r) ==
    /\ At(r, "probe")
    /\ \/ Works(req[r].next) /\ Goto(r, "update") /\ UNCHANGED <<lock, faults>>
       \/ ~ Works(req[r].next) /\ Finish(r) /\ UNCHANGED faults
       \/ Fault /\ Finish(r)
    /\ UNCHANGED <<row, key, stage, tries, used, boot, force, current, drifted>>

(* The UPDATE is applied.  Every other replica that has read the row keeps *)
(* what it has; so does this one if the answer is lost.                    *)
Stored(r, answered) ==
    /\ row' = Seal(req[r].next, used[Replica[r]])
    /\ drifted' = [p \in Replicas |->
         \/ drifted[p]
         \/ stage[p] \in {"build", "up", "drain"} /\ (p # Replica[r] \/ ~ answered)]

(* Variant: an error of UpdateSettings is logged and the change goes live. *)
UpdateSettings_ErrorIgnored(r) ==
    /\ At(r, "update")
    /\ \/ Stored(r, TRUE) /\ UNCHANGED faults
       \/ Fault /\ UNCHANGED <<row, drifted>>
    /\ Goto(r, "swap")
    /\ UNCHANGED <<key, stage, tries, used, boot, force, current, lock>>

(* UpdateSettings: one statement, which may fail without being applied, or *)
(* be applied without its answer (a lost connection, a cancelled request). *)
UpdateSettings(r) ==
    /\ At(r, "update")
    /\ \/ Stored(r, TRUE) /\ Goto(r, "swap") /\ UNCHANGED <<lock, faults>>
       \/ Fault /\ Finish(r) /\ UNCHANGED <<row, drifted>>
       \/ Fault /\ Finish(r) /\ Stored(r, FALSE)
    /\ UNCHANGED <<key, stage, tries, used, boot, force, current>>

(* Dynamic.Swap, SetTTL and SetMaxEntryBytes, which requests see one by one. *)
Swap(r) ==
    /\ At(r, "swap")
    /\ force' = [force EXCEPT ![Replica[r]].target = req[r].next.target,
                              ![Replica[r]].secret = req[r].next.secret]
    /\ Goto(r, "ttl")
    /\ UNCHANGED <<row, key, stage, tries, used, boot, current, lock, drifted, faults>>

(* Variant: the session manager is not told. *)
SetTTL_Forgotten(r) ==
    /\ At(r, "ttl")
    /\ Goto(r, "size")
    /\ UNCHANGED <<row, key, stage, tries, used, boot, force, current, lock, drifted, faults>>

SetTTL(r) ==
    /\ At(r, "ttl")
    /\ force' = [force EXCEPT ![Replica[r]].ttl = req[r].next.ttl]
    /\ Goto(r, "size")
    /\ UNCHANGED <<row, key, stage, tries, used, boot, current, lock, drifted, faults>>

SetMaxEntryBytes(r) ==
    /\ At(r, "size")
    /\ force' = [force EXCEPT ![Replica[r]].size = req[r].next.size]
    /\ Goto(r, "current")
    /\ UNCHANGED <<row, key, stage, tries, used, boot, current, lock, drifted, faults>>

SetCurrent(r) ==
    /\ At(r, "current")
    /\ current' = [current EXCEPT ![Replica[r]] = req[r].next]
    /\ Finish(r)
    /\ UNCHANGED <<row, key, stage, tries, used, boot, force, drifted, faults>>

(* What a request that has the lock does next. *)
Proceed(r) ==
    \/ Probe(r) \/ UpdateSettings(r)
    \/ Swap(r) \/ SetTTL(r) \/ SetMaxEntryBytes(r) \/ SetCurrent(r)

(* What a start does next. *)
Boot(p) == Start(p) \/ WaitForDB(p) \/ LoadRow(p) \/ LoadApply(p)

Next ==
    \/ \E k \in Keys : ChangeKey(k)
    \/ \E p \in Replicas : Boot(p) \/ Terminate(p) \/ Shutdown(p) \/ Crash(p)
    \/ \E r \in Handlers :
         \/ GetSettings(r) \/ Current(r)
         \/ \E in \in Inputs : PutSettings(r, in)
         \/ Apply(r) \/ Proceed(r)

Spec == Init /\ [][Next]_vars

(* Whoever runs the server starts it again when it has exited; calls to    *)
(* Postgres and to the backend being tested return; the grace of a         *)
(* shutdown ends; and a sync.RWMutex lets everyone who waits have its turn. *)
FairSpec ==
    /\ Spec
    /\ \A p \in Replicas : WF_vars(Boot(p)) /\ WF_vars(Shutdown(p))
    /\ \A r \in Handlers : WF_vars(Proceed(r)) /\ SF_vars(Apply(r) \/ Current(r))

----------------------------------------------------------------------------
(* Apply "only then persists" what it has validated and tested: whatever   *)
(* is changed on whichever replica, and at whatever point one of them      *)
(* dies, the row always describes a backend that was built and listed with *)
(* the very credentials stored beside it, and one key opens all of them.   *)
StoredWorks ==
    /\ Valid(Open(row)) /\ Works(Open(row))
    /\ \E k \in Keys : Opens(k, row)

(* What Current reports is what the replica works with: the backend, the   *)
(* session lifetime and the size limit are in step again by the time       *)
(* anyone can ask.                                                         *)
ReportedIsInForce ==
    \A p \in Replicas : lock[p] = None => current[p] = force[p]

(* Stored and live settings part company in two ways only: another replica *)
(* stored a change, or the answer to this one's own UPDATE was lost.  A    *)
(* crash between the UPDATE and the swap is not among them.                *)
LiveIsStored ==
    \A p \in Replicas :
        stage[p] \in {"up", "drain"} /\ lock[p] = None /\ ~ drifted[p]
            => current[p] = Open(row)

(* The lock of the manager is held across the connectivity test; every     *)
(* request for the settings and every change is answered all the same, or  *)
(* its replica is gone.                                                    *)
RequestsAnswered == \A r \in Handlers : req[r] # None ~> req[r] = None

(* A replica serves again whatever ended it: failed migrations, a failed   *)
(* Load, crashes, a shutdown.  With secrets sealed under another key it    *)
(* does not start, however often it is tried; but none of those starts     *)
(* does harm: once the operator is back to a key that opens the row, the   *)
(* replica is, with nothing to repair.                                     *)
ComesBack ==
    \A p \in Replicas : <>[] Opens(key, row) => []<>(stage[p] = "up")

(* updateSettingsRequest: "nil = unchanged".  It fails when the replica    *)
(* that applies the request has not seen what another replica stored.      *)
OmittedSecretsKept ==
    [][\A r \in Handlers : At(r, "update") /\ req'[r] # req[r] /\ row' # row =>
         \A f \in Fields :
             req[r].in.secret[f] = Nil => Open(row').secret[f] = Open(row).secret[f]]_vars

(* How far that does hold: short of such a change by another replica, and  *)
(* of a lost answer to an earlier one of its own, a replica never          *)
(* overwrites a credential that its admin left out, however many fields    *)
(* are set, kept and cleared in whatever order.                            *)
UndriftedSecretsKept ==
    [][\A r \in Handlers :
         At(r, "update") /\ req'[r] # req[r] /\ row' # row /\ ~ drifted[Replica[r]] =>
             \A f \in Fields :
                 req[r].in.secret[f] = Nil => Open(row').secret[f] = Open(row).secret[f]]_vars

----------------------------------------------------------------------------
(* A change takes effect at its UPDATE.  Nobody can ask for the settings   *)
(* between that and the moment they are all in force, so that to an admin  *)
(* they change at once; and a start has what is stored when it reads it.   *)
Putting(r) == req[r] # None /\ req[r].pc \in {"swap", "ttl", "size", "current"}

Reported ==
    [p \in Replicas |->
        IF lock[p] # None /\ Putting(lock[p]) THEN req[lock[p]].next
        ELSE IF stage[p] = "build" /\ Opens(used[p], boot[p]) THEN Open(boot[p])
        ELSE current[p]]

Asked == [r \in Handlers |-> IF req[r] = None THEN None
                             ELSE [op |-> req[r].op, in |-> req[r].in]]

Register == INSTANCE SettingsRegister
                WITH stored <- Open(row), reported <- Reported, asked <- Asked,
                     taken <- {r \in Handlers : Putting(r)}

(* Changes are atomic: whatever other changes, starts, crashes and lost    *)
(* answers fall between the statements of Apply, no change is applied in   *)
(* part, none is laid over what its replica no longer reports, none that   *)
(* was refused leaves a trace, and none is stored that does not work.      *)
ImplementsRegister == Register!Spec
=============================================================================
