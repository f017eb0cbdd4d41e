--------------------------- MODULE SettingsProofs ---------------------------
(***************************************************************************)
(* Proofs about Settings, for any sets of replicas, requests, backends,    *)
(* credentials and keys.                                                   *)
(***************************************************************************)
EXTENDS Settings, TLAPS

(* The mutex: exactly a request past "wait" holds its replica's lock, and  *)
(* a replica that is not serving has no requests.                          *)
Locked ==
    /\ \A r \in Handlers : req[r] # None => stage[Replica[r]] \in {"up", "drain"}
    /\ \A r \in Handlers : req[r] # None /\ req[r].pc # "wait" => lock[Replica[r]] = r
    /\ \A p \in Replicas : lock[p] # None =>
         /\ Replica[lock[p]] = p
         /\ req[lock[p]] # None /\ req[lock[p]].pc # "wait"

(* What Apply carries: a request that is a change has its input, one past  *)
(* the validation a valid `next`, one past the probe a `next` that works.  *)
Carried ==
    \A r \in Handlers : req[r] # None =>
        /\ req[r].op = "put" => req[r].in \in Inputs
        /\ req[r].pc # "wait" => req[r].next \in Config /\ Valid(req[r].next)
        /\ req[r].pc \notin {"wait", "probe"} => Works(req[r].next)

(* What a replica has at each stage of its life. *)
Loaded ==
    \A p \in Replicas :
        /\ stage[p] = "build" => boot[p] \in Row
        /\ IF stage[p] \in {"up", "drain"} THEN force[p] \in Config /\ current[p] \in Config
                                          ELSE force[p] = None /\ current[p] = None

(* How far Apply has put `next` in force. *)
InStep ==
    \A r \in Handlers : req[r] # None =>
        LET f == force[Replica[r]]
            n == req[r].next
        IN  /\ req[r].pc \in {"probe", "update"} => f = current[Replica[r]]
            /\ req[r].pc \in {"ttl", "size", "current"} => f.target = n.target /\ f.secret = n.secret
            /\ req[r].pc \in {"size", "current"} => f.ttl = n.ttl
            /\ req[r].pc = "current" => f.size = n.size

(* Unless they have drifted apart, a replica has read, works with or is    *)
(* about to work with what the row says.                                   *)
Fresh ==
    /\ \A p \in Replicas : stage[p] = "build" /\ ~ drifted[p] => boot[p] = row
    /\ \A r \in Handlers : req[r] # None /\ ~ drifted[Replica[r]] =>
         /\ req[r].pc \in {"probe", "update"} => current[Replica[r]] = Open(row)
         /\ req[r].pc \in {"swap", "ttl", "size", "current"} => req[r].next = Open(row)

IInv ==
    /\ TypeOK
    /\ Locked
    /\ Carried
    /\ Loaded
    /\ InStep
    /\ Fresh
    /\ StoredWorks
    /\ ReportedIsInForce
    /\ LiveIsStored

----------------------------------------------------------------------------
(* Sealing a configuration and opening it again gives it back, and the key *)
(* it was sealed with opens it.                                            *)
LEMMA SealOpens ==
    ASSUME NEW c \in Config, NEW k \in Keys
    PROVE  /\ Seal(c, k) \in Row
           /\ Open(Seal(c, k)) = c
           /\ Opens(k, Seal(c, k))
<1>1. Seal(c, k) \in Row
  BY DEF Seal, Row, Config
<1>2. \A f \in Fields : Seal(c, k).secret[f] =
        IF c.secret[f] = Empty THEN Empty ELSE <<k, c.secret[f]>>
  BY DEF Seal, Config
<1>3. \A f \in Fields : c.secret[f] # Empty => <<k, c.secret[f]>> # Empty
  BY DistinctAssumption DEF Config
<1>4. Opens(k, Seal(c, k))
  <2>1. SUFFICES ASSUME NEW f \in Fields, Seal(c, k).secret[f] # Empty
                 PROVE  Seal(c, k).secret[f][1] = k
    BY DEF Opens
  <2>2. Seal(c, k).secret[f] = <<k, c.secret[f]>>
    BY <1>2, <2>1
  <2>. QED
    BY <2>2
<1>5. Open(Seal(c, k)).secret = c.secret
  <2>1. Open(Seal(c, k)).secret =
          [f \in Fields |-> IF Seal(c, k).secret[f] = Empty THEN Empty
                            ELSE Seal(c, k).secret[f][2]]
    BY <1>1 DEF Open, Row
  <2>2. \A f \in Fields : Open(Seal(c, k)).secret[f] = c.secret[f]
    <3>1. SUFFICES ASSUME NEW f \in Fields
                   PROVE  Open(Seal(c, k)).secret[f] = c.secret[f]
      OBVIOUS
    <3>2. CASE c.secret[f] = Empty
      BY <2>1, <1>2, <3>2
    <3>3. CASE c.secret[f] # Empty
      <4>1. Seal(c, k).secret[f] = <<k, c.secret[f]>> /\ Seal(c, k).secret[f] # Empty
        BY <1>2, <1>3, <3>3
      <4>2. Open(Seal(c, k)).secret[f] = Seal(c, k).secret[f][2]
        BY <2>1, <4>1
      <4>. QED
        BY <4>1, <4>2
    <3>. QED
      BY <3>2, <3>3
  <2>. QED
    BY <2>1, <2>2 DEF Config
<1>6. Open(Seal(c, k)) = c
  BY <1>1, <1>5 DEF Open, Seal, Config, Row
<1>. QED
  BY <1>1, <1>4, <1>6

(* What a row says is a configuration. *)
LEMMA OpenType ==
    ASSUME NEW rw \in Row
    PROVE  Open(rw) \in Config
<1>1. \A f \in Fields : rw.secret[f] # Empty => rw.secret[f][2] \in Secrets
  BY DEF Row
<1>. QED
  BY <1>1 DEF Open, Row, Config

(* So is what is asked for, laid over what is in force. *)
LEMMA MergeType ==
    ASSUME NEW c \in Config, NEW in \in Inputs
    PROVE  Merge(c, in) \in Config
BY InputsAssumption DEF Merge, Config, ApplyInput

(* The initial states satisfy the invariant. *)
LEMMA InitInv == Init => IInv
<1>. SUFFICES ASSUME Init PROVE IInv
  OBVIOUS
<1>1. row \in Row /\ Open(row) = Seed /\ Opens(key, row)
  BY SealOpens, SeedAssumption DEF Init
<1>2. TypeOK
  BY <1>1, NumbersAssumption, ReplicaAssumption DEF Init, TypeOK, Stages
<1>3. StoredWorks
  BY <1>1, SeedAssumption DEF Init, StoredWorks
<1>4. Locked /\ Carried /\ Loaded /\ InStep /\ Fresh
  BY DEF Init, Locked, Carried, Loaded, InStep, Fresh
<1>5. ReportedIsInForce /\ LiveIsStored
  BY DEF Init, ReportedIsInForce, LiveIsStored
<1>. QED
  BY <1>2, <1>3, <1>4, <1>5 DEF IInv

----------------------------------------------------------------------------
(* A replica that exits takes nothing along but its own requests.          *)
LEMMA ExitKeeps ==
    ASSUME IInv, NEW p \in Replicas, Exit(p),
           faults' \in 0 .. MaxFaults, UNCHANGED <<row, key, used>>
    PROVE  IInv'
<1>1. TypeOK'
  BY NumbersAssumption DEF IInv, Exit, TypeOK, Stages
<1>2. Locked' /\ Carried'
  BY ReplicaAssumption DEF IInv, Exit, TypeOK, Locked, Carried
<1>3. Loaded' /\ StoredWorks'
  BY DEF IInv, Exit, TypeOK, Loaded, StoredWorks
<1>4. InStep'
  BY ReplicaAssumption DEF IInv, Exit, TypeOK, InStep
<1>5. Fresh'
  BY ReplicaAssumption DEF IInv, Exit, TypeOK, Fresh
<1>6. ReportedIsInForce' /\ LiveIsStored'
  BY DEF IInv, Exit, TypeOK, ReportedIsInForce, LiveIsStored
<1>. QED
  BY <1>1, <1>2, <1>3, <1>4, <1>5, <1>6 DEF IInv

(* The operator and the life of a replica keep the invariant. *)
LEMMA ChangeKeyKeeps ==
    ASSUME IInv, NEW k \in Keys, ChangeKey(k)
    PROVE  IInv'
<1>1. TypeOK'
  BY DEF IInv, ChangeKey, TypeOK
<1>2. Locked' /\ Carried' /\ Loaded' /\ InStep' /\ Fresh'
  BY DEF IInv, ChangeKey, Locked, Carried, Loaded, InStep, Fresh
<1>3. StoredWorks' /\ ReportedIsInForce' /\ LiveIsStored'
  BY DEF IInv, ChangeKey, StoredWorks, ReportedIsInForce, LiveIsStored
<1>. QED
  BY <1>1, <1>2, <1>3 DEF IInv

LEMMA StartKeeps ==
    ASSUME IInv, NEW p \in Replicas, Start(p)
    PROVE  IInv'
<1>1. TypeOK'
  BY DEF IInv, Start, TypeOK, Stages
<1>2. Locked' /\ Carried' /\ InStep'
  BY ReplicaAssumption DEF IInv, Start, TypeOK, Locked, Carried, InStep
<1>3. Loaded' /\ Fresh'
  BY DEF IInv, Start, TypeOK, Loaded, Fresh
<1>4. StoredWorks' /\ ReportedIsInForce' /\ LiveIsStored'
  BY DEF IInv, Start, TypeOK, StoredWorks, ReportedIsInForce, LiveIsStored
<1>. QED
  BY <1>1, <1>2, <1>3, <1>4 DEF IInv

LEMMA WaitForDBKeeps ==
    ASSUME IInv, NEW p \in Replicas, WaitForDB(p)
    PROVE  IInv'
<1>1. CASE Exit(p)
  BY <1>1, ExitKeeps, NumbersAssumption DEF WaitForDB, Fault, IInv, TypeOK
<1>2. CASE /\ UNCHANGED <<row, key, used, boot, force, current, lock, req, drifted>>
           /\ stage[p] = "migrate"
           /\ stage' \in {stage, [stage EXCEPT ![p] = "load"]}
           /\ \/ tries' = tries
              \/ tries' = [tries EXCEPT ![p] = @ + 1] /\ tries[p] < MaxAttempts - 1
           /\ faults' \in 0 .. MaxFaults
  <2>1. TypeOK'
    BY <1>2, NumbersAssumption DEF IInv, TypeOK, Stages
  <2>2. Locked' /\ Carried' /\ InStep'
    BY <1>2, ReplicaAssumption DEF IInv, TypeOK, Locked, Carried, InStep
  <2>3. Loaded' /\ Fresh'
    BY <1>2 DEF IInv, TypeOK, Loaded, Fresh
  <2>4. StoredWorks' /\ ReportedIsInForce' /\ LiveIsStored'
    BY <1>2 DEF IInv, TypeOK, StoredWorks, ReportedIsInForce, LiveIsStored
  <2>. QED
    BY <2>1, <2>2, <2>3, <2>4 DEF IInv
<1>. QED
  BY <1>1, <1>2, NumbersAssumption DEF WaitForDB, Fault, IInv, TypeOK

LEMMA LoadRowKeeps ==
    ASSUME IInv, NEW p \in Replicas, LoadRow(p)
    PROVE  IInv'
<1>1. CASE Exit(p)
  BY <1>1, ExitKeeps, NumbersAssumption DEF LoadRow, Fault, IInv, TypeOK
<1>2. CASE /\ stage[p] = "load"
           /\ boot' = [boot EXCEPT ![p] = row]
           /\ stage' = [stage EXCEPT ![p] = "build"]
           /\ tries' = [tries EXCEPT ![p] = 0]
           /\ UNCHANGED <<row, key, used, force, current, lock, req, drifted, faults>>
  <2>1. TypeOK'
    BY <1>2, NumbersAssumption DEF IInv, TypeOK, Stages
  <2>2. Locked' /\ Carried' /\ InStep'
    BY <1>2, ReplicaAssumption DEF IInv, TypeOK, Locked, Carried, InStep
  <2>3. Loaded' /\ Fresh'
    BY <1>2 DEF IInv, TypeOK, Loaded, Fresh
  <2>4. StoredWorks' /\ ReportedIsInForce' /\ LiveIsStored'
    BY <1>2 DEF IInv, TypeOK, StoredWorks, ReportedIsInForce, LiveIsStored
  <2>. QED
    BY <2>1, <2>2, <2>3, <2>4 DEF IInv
<1>. QED
  BY <1>1, <1>2 DEF LoadRow

LEMMA LoadApplyKeeps ==
    ASSUME IInv, NEW p \in Replicas, LoadApply(p)
    PROVE  IInv'
<1>1. CASE Exit(p)
  BY <1>1, ExitKeeps, NumbersAssumption DEF LoadApply, Fault, IInv, TypeOK
<1>2. CASE /\ stage[p] = "build"
           /\ stage' = [stage EXCEPT ![p] = "up"]
           /\ force' = [force EXCEPT ![p] = Open(boot[p])]
           /\ current' = [current EXCEPT ![p] = Open(boot[p])]
           /\ boot' = [boot EXCEPT ![p] = None]
           /\ UNCHANGED <<row, key, used, tries, lock, req, drifted, faults>>
  <2>1. Open(boot[p]) \in Config
    BY <1>2, OpenType DEF IInv, Loaded
  <2>2. TypeOK'
    BY <1>2, <2>1 DEF IInv, TypeOK, Stages
  <2>3. \A r \in Handlers : Replica[r] = p => req[r] = None
    BY <1>2 DEF IInv, Locked
  <2>4. Locked' /\ Carried'
    BY <1>2, ReplicaAssumption DEF IInv, TypeOK, Locked, Carried
  <2>5. InStep'
    BY <1>2, <2>3, ReplicaAssumption DEF IInv, TypeOK, InStep
  <2>6. Loaded'
    BY <1>2, <2>1 DEF IInv, TypeOK, Loaded
  <2>7. Fresh'
    BY <1>2, <2>3, ReplicaAssumption DEF IInv, TypeOK, Fresh
  <2>8. StoredWorks' /\ ReportedIsInForce'
    BY <1>2 DEF IInv, TypeOK, StoredWorks, ReportedIsInForce
  <2>9. LiveIsStored'
    BY <1>2 DEF IInv, TypeOK, Fresh, LiveIsStored
  <2>. QED
    BY <2>2, <2>4, <2>5, <2>6, <2>7, <2>8, <2>9 DEF IInv
<1>. QED
  BY <1>1, <1>2 DEF LoadApply

LEMMA TerminateKeeps ==
    ASSUME IInv, NEW p \in Replicas, Terminate(p)
    PROVE  IInv'
<1>1. TypeOK'
  BY DEF IInv, Terminate, TypeOK, Stages
<1>2. Locked' /\ Carried' /\ InStep'
  BY ReplicaAssumption DEF IInv, Terminate, TypeOK, Locked, Carried, InStep
<1>3. Loaded' /\ Fresh'
  BY DEF IInv, Terminate, TypeOK, Loaded, Fresh
<1>4. StoredWorks' /\ ReportedIsInForce' /\ LiveIsStored'
  BY DEF IInv, Terminate, TypeOK, StoredWorks, ReportedIsInForce, LiveIsStored
<1>. QED
  BY <1>1, <1>2, <1>3, <1>4 DEF IInv

LEMMA ShutdownKeeps ==
    ASSUME IInv, NEW p \in Replicas, Shutdown(p)
    PROVE  IInv'
BY ExitKeeps DEF Shutdown, IInv, TypeOK

LEMMA CrashKeeps ==
    ASSUME IInv, NEW p \in Replicas, Crash(p)
    PROVE  IInv'
BY ExitKeeps, NumbersAssumption DEF Crash, Fault, IInv, TypeOK

----------------------------------------------------------------------------
(* A request that begins. *)
LEMMA BeginKeeps ==
    ASSUME IInv, NEW r \in Handlers, NEW q \in Request, Begin(r, q),
           q.pc = "wait", q.op = "put" => q.in \in Inputs
    PROVE  IInv'
<1>1. TypeOK'
  BY DEF IInv, Begin, TypeOK
<1>2. q # None
  BY DistinctAssumption
<1>3. Locked'
  BY <1>2, DistinctAssumption DEF IInv, Begin, TypeOK, Locked
<1>4. Carried' /\ InStep' /\ Fresh'
  BY DEF IInv, Begin, TypeOK, Carried, InStep, Fresh
<1>5. Loaded' /\ StoredWorks' /\ ReportedIsInForce' /\ LiveIsStored'
  BY DEF IInv, Begin, Loaded, StoredWorks, ReportedIsInForce, LiveIsStored
<1>. QED
  BY <1>1, <1>3, <1>4, <1>5 DEF IInv

LEMMA GetSettingsKeeps ==
    ASSUME IInv, NEW r \in Handlers, GetSettings(r)
    PROVE  IInv'
<1>. DEFINE q == [op |-> "get", pc |-> "wait", in |-> None, next |-> None]
<1>1. q \in Request
  BY DEF Request
<1>. QED
  BY <1>1, BeginKeeps DEF GetSettings

LEMMA PutSettingsKeeps ==
    ASSUME IInv, NEW r \in Handlers, NEW in \in Inputs, PutSettings(r, in)
    PROVE  IInv'
<1>. DEFINE q == [op |-> "put", pc |-> "wait", in |-> in, next |-> None]
<1>1. q \in Request
  BY DEF Request
<1>. QED
  BY <1>1, BeginKeeps DEF PutSettings

LEMMA CurrentKeeps ==
    ASSUME IInv, NEW r \in Handlers, Current(r)
    PROVE  IInv'
<1>1. TypeOK'
  BY DEF IInv, Current, TypeOK
<1>2. Locked' /\ Carried' /\ InStep' /\ Fresh'
  BY DEF IInv, Current, At, TypeOK, Locked, Carried, InStep, Fresh
<1>3. Loaded' /\ StoredWorks' /\ ReportedIsInForce' /\ LiveIsStored'
  BY DEF IInv, Current, Loaded, StoredWorks, ReportedIsInForce, LiveIsStored
<1>. QED
  BY <1>1, <1>2, <1>3 DEF IInv

(* A change that ends before it is stored. *)
LEMMA FinishKeeps ==
    ASSUME IInv, NEW r \in Handlers, Finish(r),
           \/ At(r, "wait") /\ lock[Replica[r]] = None
           \/ At(r, "probe")
           \/ At(r, "update"),
           faults' \in 0 .. MaxFaults,
           UNCHANGED <<row, key, stage, tries, used, boot, force, current, drifted>>
    PROVE  IInv'
<1>1. TypeOK'
  BY DEF IInv, Finish, TypeOK
<1>2. Locked'
  BY ReplicaAssumption DEF IInv, Finish, At, TypeOK, Locked
<1>3. Carried' /\ InStep' /\ Fresh'
  BY DEF IInv, Finish, TypeOK, Carried, InStep, Fresh
<1>4. Loaded' /\ StoredWorks'
  BY DEF IInv, Loaded, StoredWorks
<1>5. ReportedIsInForce'
  BY DEF IInv, Finish, At, TypeOK, Locked, InStep, ReportedIsInForce
<1>6. LiveIsStored'
  BY DEF IInv, Finish, At, TypeOK, Locked, Fresh, LiveIsStored
<1>. QED
  BY <1>1, <1>2, <1>3, <1>4, <1>5, <1>6 DEF IInv

LEMMA ApplyKeeps ==
    ASSUME IInv, NEW r \in Handlers, Apply(r)
    PROVE  IInv'
<1>. DEFINE p == Replica[r]
            n == Merge(current[p], req[r].in)
<1>1. CASE ~ Valid(n)
  BY <1>1, FinishKeeps DEF Apply, IInv, TypeOK
<1>2. CASE Valid(n)
  <2>. USE <1>2
  <2>1. p \in Replicas /\ stage[p] \in {"up", "drain"} /\ req[r] \in Request
    BY ReplicaAssumption DEF IInv, Apply, At, Locked, TypeOK
  <2>2. n \in Config
    BY <2>1, MergeType DEF IInv, Apply, At, Carried, Loaded
  <2>3. /\ lock' = [lock EXCEPT ![p] = r]
        /\ req' = [req EXCEPT ![r].pc = "probe", ![r].next = n]
        /\ req[r] # None /\ req[r].pc = "wait" /\ req[r].op = "put" /\ lock[p] = None
        /\ UNCHANGED <<row, key, stage, tries, used, boot, force, current, drifted, faults>>
    BY DEF Apply, At
  <2>4. req'[r] \in Request /\ req'[r] # None
    <3>1. [req[r] EXCEPT !.pc = "probe", !.next = n] \in Request
      BY <2>1, <2>2 DEF Request
    <3>2. req'[r] = [req[r] EXCEPT !.pc = "probe", !.next = n]
      BY <2>3 DEF IInv, TypeOK
    <3>. QED
      BY <3>1, <3>2, DistinctAssumption
  <2>5. TypeOK'
    BY <2>1, <2>3, <2>4 DEF IInv, TypeOK
  <2>6. Locked'
    BY <2>1, <2>3, <2>4, DistinctAssumption, MarkersAssumption, ReplicaAssumption DEF IInv, TypeOK, Locked, Request
  <2>7. Carried'
    BY <2>1, <2>2, <2>3, <2>4 DEF IInv, TypeOK, Carried, Request
  <2>8. InStep' /\ Fresh'
    BY <2>1, <2>3, <2>4 DEF IInv, TypeOK, InStep, Fresh, Request,
       ReportedIsInForce, LiveIsStored
  <2>9. Loaded' /\ StoredWorks' /\ ReportedIsInForce' /\ LiveIsStored'
    BY <2>1, <2>3, DistinctAssumption DEF IInv, TypeOK, Loaded, StoredWorks, ReportedIsInForce, LiveIsStored
  <2>. QED
    BY <2>5, <2>6, <2>7, <2>8, <2>9 DEF IInv
<1>. QED
  BY <1>1, <1>2

(* A request that has the lock and moves on with it. *)
LEMMA GotoLocked ==
    ASSUME IInv, NEW r \in Handlers, req[r] # None, req[r].pc # "wait",
           NEW l \in {"update", "swap", "ttl", "size", "current"}, Goto(r, l),
           UNCHANGED <<stage, lock>>
    PROVE  /\ req' \in [Handlers -> Request \cup {None}]
           /\ \A q \in Handlers : q # r => req'[q] = req[q]
           /\ req'[r] # None
           /\ req'[r] = [req[r] EXCEPT !.pc = l]
           /\ Replica[r] \in Replicas
           /\ \A q \in Handlers : q # r /\ req[q] # None /\ Replica[q] = Replica[r] => req[q].pc = "wait"
           /\ Locked'
<1>1. req[r] \in Request /\ Replica[r] \in Replicas
  BY ReplicaAssumption DEF IInv, TypeOK
<1>2. [req[r] EXCEPT !.pc = l] \in Request
  BY <1>1 DEF Request
<1>3. req' = [req EXCEPT ![r] = [req[r] EXCEPT !.pc = l]]
  BY DEF Goto
<1>4. [req[r] EXCEPT !.pc = l] # None
  BY <1>2, DistinctAssumption
<1>5. \A q \in Handlers : q # r /\ req[q] # None /\ Replica[q] = Replica[r] => req[q].pc = "wait"
  BY <1>1 DEF IInv, Locked
<1>6. Locked'
  BY <1>1, <1>2, <1>3, <1>4 DEF IInv, TypeOK, Locked, Request
<1>. QED
  BY <1>1, <1>2, <1>3, <1>4, <1>5, <1>6 DEF IInv, TypeOK

LEMMA ProbeKeeps ==
    ASSUME IInv, NEW r \in Handlers, Probe(r)
    PROVE  IInv'
<1>1. CASE Finish(r)
  BY <1>1, FinishKeeps, NumbersAssumption DEF Probe, Fault, IInv, TypeOK
<1>2. CASE /\ At(r, "probe") /\ Works(req[r].next) /\ Goto(r, "update")
           /\ UNCHANGED <<row, key, stage, tries, used, boot, force, current, lock, drifted, faults>>
  <2>1. /\ req' \in [Handlers -> Request \cup {None}]
        /\ \A q \in Handlers : q # r => req'[q] = req[q]
        /\ req'[r] # None
        /\ req'[r] = [req[r] EXCEPT !.pc = "update"]
        /\ req[r] \in Request
        /\ Locked'
    BY <1>2, GotoLocked DEF At, IInv, TypeOK
  <2>2. TypeOK'
    BY <1>2, <2>1 DEF IInv, TypeOK
  <2>3. Carried' /\ InStep' /\ Fresh'
    BY <1>2, <2>1 DEF IInv, At, Request, Carried, InStep, Fresh
  <2>4. Loaded' /\ StoredWorks' /\ ReportedIsInForce' /\ LiveIsStored'
    BY <1>2 DEF IInv, Loaded, StoredWorks, ReportedIsInForce, LiveIsStored
  <2>. QED
    BY <2>1, <2>2, <2>3, <2>4 DEF IInv
<1>. QED
  BY <1>1, <1>2 DEF Probe

(* The UPDATE, whether its answer arrives or not. *)
LEMMA StoredFacts ==
    ASSUME IInv, NEW r \in Handlers, NEW a \in BOOLEAN, At(r, "update"), Stored(r, a)
    PROVE  /\ row' \in Row
           /\ Open(row') = req[r].next
           /\ Valid(Open(row')) /\ Works(Open(row'))
           /\ Opens(used[Replica[r]], row') /\ used[Replica[r]] \in Keys
           /\ drifted' \in [Replicas -> BOOLEAN]
           /\ \A p \in Replicas :
                ~ drifted'[p] => \/ stage[p] \notin {"build", "up", "drain"}
                                 \/ p = Replica[r] /\ a
<1>1. req[r].next \in Config /\ Valid(req[r].next) /\ Works(req[r].next)
  BY DEF IInv, Carried, At
<1>2. used[Replica[r]] \in Keys
  BY ReplicaAssumption DEF IInv, TypeOK
<1>3. row' = Seal(req[r].next, used[Replica[r]])
  BY DEF Stored
<1>4. row' \in Row /\ Open(row') = req[r].next /\ Opens(used[Replica[r]], row')
  BY <1>1, <1>2, <1>3, SealOpens
<1>5. /\ drifted' \in [Replicas -> BOOLEAN]
      /\ \A p \in Replicas :
           drifted'[p] = \/ drifted[p]
                         \/ stage[p] \in {"build", "up", "drain"} /\ (p # Replica[r] \/ ~ a)
  BY Zenon DEF Stored, IInv, TypeOK
<1>6. \A p \in Replicas :
        ~ drifted'[p] => \/ stage[p] \notin {"build", "up", "drain"}
                         \/ p = Replica[r] /\ a
  <2>1. SUFFICES ASSUME NEW p \in Replicas, ~ drifted'[p]
                 PROVE  \/ stage[p] \notin {"build", "up", "drain"}
                        \/ p = Replica[r] /\ a
    OBVIOUS
  <2>2. ~ (stage[p] \in {"build", "up", "drain"} /\ (p # Replica[r] \/ ~ a))
    BY <1>5, <2>1, Zenon
  <2>. QED
    BY <2>2, Zenon
<1>. QED
  BY <1>1, <1>2, <1>4, <1>5, <1>6

LEMMA UpdateSettingsKeeps ==
    ASSUME IInv, NEW r \in Handlers, UpdateSettings(r)
    PROVE  IInv'
<1>. DEFINE p == Replica[r]
<1>0. /\ At(r, "update") /\ req[r] # None /\ req[r].pc = "update"
      /\ p \in Replicas /\ stage[p] \in {"up", "drain"} /\ lock[p] = r
      /\ UNCHANGED <<key, stage, tries, used, boot, force, current>>
  BY ReplicaAssumption DEF UpdateSettings, At, IInv, Locked
<1>1. CASE Fault /\ Finish(r) /\ UNCHANGED <<row, drifted>>
  BY <1>0, <1>1, FinishKeeps, NumbersAssumption DEF Fault, IInv, TypeOK
<1>2. CASE Stored(r, TRUE) /\ Goto(r, "swap") /\ UNCHANGED <<lock, faults>>
  <2>1. /\ req' \in [Handlers -> Request \cup {None}]
        /\ \A q \in Handlers : q # r => req'[q] = req[q]
        /\ req'[r] # None
        /\ req'[r] = [req[r] EXCEPT !.pc = "swap"]
        /\ req[r] \in Request
        /\ \A q \in Handlers : q # r /\ req[q] # None /\ Replica[q] = p => req[q].pc = "wait"
        /\ Locked'
    BY <1>0, <1>2, GotoLocked DEF IInv, TypeOK
  <2>2. /\ row' \in Row /\ Open(row') = req[r].next
        /\ Valid(Open(row')) /\ Works(Open(row'))
        /\ Opens(used[p], row') /\ used[p] \in Keys
        /\ drifted' \in [Replicas -> BOOLEAN]
        /\ \A o \in Replicas :
             ~ drifted'[o] => stage[o] \notin {"build", "up", "drain"} \/ o = p
    BY <1>0, <1>2, StoredFacts
  <2>3. TypeOK' /\ StoredWorks'
    BY <1>0, <1>2, <2>1, <2>2 DEF IInv, TypeOK, StoredWorks
  <2>4. Carried' /\ InStep'
    BY <1>0, <1>2, <2>1 DEF IInv, Request, Carried, InStep
  <2>5. Fresh'
    <3>1. \A o \in Replicas : stage'[o] = "build" /\ ~ drifted'[o] => boot'[o] = row'
      BY <1>0, <2>2
    <3>2. ASSUME NEW q \in Handlers, req'[q] # None, ~ drifted'[Replica[q]]
          PROVE  /\ req'[q].pc \in {"probe", "update"} => current'[Replica[q]] = Open(row')
                 /\ req'[q].pc \in {"swap", "ttl", "size", "current"} => req'[q].next = Open(row')
      <4>1. CASE q = r
        BY <1>0, <2>1, <2>2, <4>1 DEF Request
      <4>2. CASE q # r
        <5>1. req[q] # None /\ stage[Replica[q]] \in {"up", "drain"} /\ Replica[q] \in Replicas
          BY <2>1, <3>2, <4>2, ReplicaAssumption DEF IInv, Locked
        <5>2. Replica[q] = p
          BY <2>2, <3>2, <5>1
        <5>. QED
          BY <2>1, <4>2, <5>1, <5>2
      <4>. QED
        BY <4>1, <4>2
    <3>. QED
      BY <3>1, <3>2 DEF Fresh
  <2>6. Loaded' /\ ReportedIsInForce'
    BY <1>0, <1>2 DEF IInv, Loaded, ReportedIsInForce
  <2>7. LiveIsStored'
    BY <1>0, <1>2, <2>2, MarkersAssumption DEF LiveIsStored
  <2>. QED
    BY <2>1, <2>3, <2>4, <2>5, <2>6, <2>7 DEF IInv
<1>3. CASE Fault /\ Finish(r) /\ Stored(r, FALSE)
  <2>1. /\ req' = [req EXCEPT ![r] = None]
        /\ lock' = [lock EXCEPT ![p] = None]
        /\ faults' \in 0 .. MaxFaults
    BY <1>3, NumbersAssumption DEF Finish, Fault, IInv, TypeOK
  <2>2. /\ row' \in Row
        /\ Valid(Open(row')) /\ Works(Open(row'))
        /\ Opens(used[p], row') /\ used[p] \in Keys
        /\ drifted' \in [Replicas -> BOOLEAN]
        /\ \A o \in Replicas : ~ drifted'[o] => stage[o] \notin {"build", "up", "drain"}
    BY <1>0, <1>3, StoredFacts
  <2>3. TypeOK' /\ StoredWorks'
    BY <1>0, <2>1, <2>2 DEF IInv, TypeOK, StoredWorks
  <2>4. Locked'
    BY <1>0, <2>1, ReplicaAssumption DEF IInv, TypeOK, Locked
  <2>5. Carried' /\ InStep'
    BY <1>0, <2>1 DEF IInv, TypeOK, Carried, InStep
  <2>6. Fresh'
    <3>1. \A o \in Replicas : stage'[o] = "build" /\ ~ drifted'[o] => boot'[o] = row'
      BY <1>0, <2>2
    <3>2. \A q \in Handlers : req'[q] # None => stage[Replica[q]] \in {"up", "drain"}
      BY <2>1 DEF IInv, TypeOK, Locked
    <3>3. \A q \in Handlers : req'[q] # None => drifted'[Replica[q]]
      BY <2>2, <3>2, ReplicaAssumption
    <3>. QED
      BY <3>1, <3>3 DEF Fresh
  <2>7. Loaded' /\ ReportedIsInForce'
    BY <1>0, <2>1 DEF IInv, TypeOK, Loaded, InStep, ReportedIsInForce
  <2>8. LiveIsStored'
    BY <1>0, <2>2 DEF LiveIsStored
  <2>. QED
    BY <2>3, <2>4, <2>5, <2>6, <2>7, <2>8 DEF IInv
<1>. QED
  BY <1>1, <1>2, <1>3 DEF UpdateSettings

(* What Apply puts in force, one field after the other. *)
LEMMA SwapKeeps ==
    ASSUME IInv, NEW r \in Handlers, Swap(r)
    PROVE  IInv'
<1>. DEFINE p == Replica[r]
            n == req[r].next
<1>1. /\ req[r] # None /\ req[r].pc = "swap" /\ req[r] \in Request /\ n \in Config
      /\ p \in Replicas /\ stage[p] \in {"up", "drain"} /\ lock[p] = r
      /\ force[p] \in Config
  BY ReplicaAssumption DEF Swap, At, IInv, TypeOK, Locked, Carried, Loaded
<1>2. /\ force' = [force EXCEPT ![p].target = n.target, ![p].secret = n.secret]
      /\ Goto(r, "ttl")
      /\ UNCHANGED <<row, key, stage, tries, used, boot, current, lock, drifted, faults>>
  BY DEF Swap
<1>3. /\ req' \in [Handlers -> Request \cup {None}]
      /\ \A q \in Handlers : q # r => req'[q] = req[q]
      /\ req'[r] # None
      /\ req'[r] = [req[r] EXCEPT !.pc = "ttl"]
      /\ \A q \in Handlers : q # r /\ req[q] # None /\ Replica[q] = p => req[q].pc = "wait"
      /\ Locked'
  BY <1>1, <1>2, GotoLocked
<1>4. force'[p] \in Config /\ \A o \in Replicas : o # p => force'[o] = force[o]
  BY <1>1, <1>2 DEF IInv, TypeOK, Config
<1>5. TypeOK'
  BY <1>1, <1>2, <1>3, <1>4 DEF IInv, TypeOK
<1>6. Carried' /\ Fresh'
  BY <1>1, <1>2, <1>3 DEF IInv, Request, Carried, Fresh
<1>7. InStep'
  BY <1>1, <1>2, <1>3, <1>4, ReplicaAssumption DEF IInv, TypeOK, Request, Config, InStep
<1>8. Loaded'
  BY <1>1, <1>2, <1>4 DEF IInv, Loaded
<1>9. StoredWorks' /\ ReportedIsInForce' /\ LiveIsStored'
  BY <1>1, <1>2, <1>4, MarkersAssumption
     DEF IInv, StoredWorks, ReportedIsInForce, LiveIsStored
<1>. QED
  BY <1>3, <1>5, <1>6, <1>7, <1>8, <1>9 DEF IInv

LEMMA SetTTLKeeps ==
    ASSUME IInv, NEW r \in Handlers, SetTTL(r)
    PROVE  IInv'
<1>. DEFINE p == Replica[r]
            n == req[r].next
<1>1. /\ req[r] # None /\ req[r].pc = "ttl" /\ req[r] \in Request /\ n \in Config
      /\ p \in Replicas /\ stage[p] \in {"up", "drain"} /\ lock[p] = r
      /\ force[p] \in Config
  BY ReplicaAssumption DEF SetTTL, At, IInv, TypeOK, Locked, Carried, Loaded
<1>2. /\ force' = [force EXCEPT ![p].ttl = n.ttl]
      /\ Goto(r, "size")
      /\ UNCHANGED <<row, key, stage, tries, used, boot, current, lock, drifted, faults>>
  BY DEF SetTTL
<1>3. /\ req' \in [Handlers -> Request \cup {None}]
      /\ \A q \in Handlers : q # r => req'[q] = req[q]
      /\ req'[r] # None
      /\ req'[r] = [req[r] EXCEPT !.pc = "size"]
      /\ \A q \in Handlers : q # r /\ req[q] # None /\ Replica[q] = p => req[q].pc = "wait"
      /\ Locked'
  BY <1>1, <1>2, GotoLocked
<1>4. force'[p] \in Config /\ \A o \in Replicas : o # p => force'[o] = force[o]
  BY <1>1, <1>2 DEF IInv, TypeOK, Config
<1>5. TypeOK'
  BY <1>1, <1>2, <1>3, <1>4 DEF IInv, TypeOK
<1>6. Carried' /\ Fresh'
  BY <1>1, <1>2, <1>3 DEF IInv, Request, Carried, Fresh
<1>7. InStep'
  BY <1>1, <1>2, <1>3, <1>4, ReplicaAssumption DEF IInv, TypeOK, Request, Config, InStep
<1>8. Loaded'
  BY <1>1, <1>2, <1>4 DEF IInv, Loaded
<1>9. StoredWorks' /\ ReportedIsInForce' /\ LiveIsStored'
  BY <1>1, <1>2, <1>4, MarkersAssumption
     DEF IInv, StoredWorks, ReportedIsInForce, LiveIsStored
<1>. QED
  BY <1>3, <1>5, <1>6, <1>7, <1>8, <1>9 DEF IInv

LEMMA SetMaxEntryBytesKeeps ==
    ASSUME IInv, NEW r \in Handlers, SetMaxEntryBytes(r)
    PROVE  IInv'
<1>. DEFINE p == Replica[r]
            n == req[r].next
<1>1. /\ req[r] # None /\ req[r].pc = "size" /\ req[r] \in Request /\ n \in Config
      /\ p \in Replicas /\ stage[p] \in {"up", "drain"} /\ lock[p] = r
      /\ force[p] \in Config
  BY ReplicaAssumption DEF SetMaxEntryBytes, At, IInv, TypeOK, Locked, Carried, Loaded
<1>2. /\ force' = [force EXCEPT ![p].size = n.size]
      /\ Goto(r, "current")
      /\ UNCHANGED <<row, key, stage, tries, used, boot, current, lock, drifted, faults>>
  BY DEF SetMaxEntryBytes
<1>3. /\ req' \in [Handlers -> Request \cup {None}]
      /\ \A q \in Handlers : q # r => req'[q] = req[q]
      /\ req'[r] # None
      /\ req'[r] = [req[r] EXCEPT !.pc = "current"]
      /\ \A q \in Handlers : q # r /\ req[q] # None /\ Replica[q] = p => req[q].pc = "wait"
      /\ Locked'
  BY <1>1, <1>2, GotoLocked
<1>4. force'[p] \in Config /\ \A o \in Replicas : o # p => force'[o] = force[o]
  BY <1>1, <1>2 DEF IInv, TypeOK, Config
<1>5. TypeOK'
  BY <1>1, <1>2, <1>3, <1>4 DEF IInv, TypeOK
<1>6. Carried' /\ Fresh'
  BY <1>1, <1>2, <1>3 DEF IInv, Request, Carried, Fresh
<1>7. InStep'
  BY <1>1, <1>2, <1>3, <1>4, ReplicaAssumption DEF IInv, TypeOK, Request, Config, InStep
<1>8. Loaded'
  BY <1>1, <1>2, <1>4 DEF IInv, Loaded
<1>9. StoredWorks' /\ ReportedIsInForce' /\ LiveIsStored'
  BY <1>1, <1>2, <1>4, MarkersAssumption
     DEF IInv, StoredWorks, ReportedIsInForce, LiveIsStored
<1>. QED
  BY <1>3, <1>5, <1>6, <1>7, <1>8, <1>9 DEF IInv

(* ... and when it is done, what is in force is what is reported.          *)
LEMMA SetCurrentKeeps ==
    ASSUME IInv, NEW r \in Handlers, SetCurrent(r)
    PROVE  IInv'
<1>. DEFINE p == Replica[r]
            n == req[r].next
<1>1. /\ req[r] # None /\ req[r].pc = "current" /\ req[r] \in Request /\ n \in Config
      /\ p \in Replicas /\ stage[p] \in {"up", "drain"} /\ lock[p] = r
      /\ force[p] \in Config
  BY ReplicaAssumption DEF SetCurrent, At, IInv, TypeOK, Locked, Carried, Loaded
<1>2. /\ current' = [current EXCEPT ![p] = n]
      /\ req' = [req EXCEPT ![r] = None]
      /\ lock' = [lock EXCEPT ![p] = None]
      /\ UNCHANGED <<row, key, stage, tries, used, boot, force, drifted, faults>>
  BY DEF SetCurrent, Finish
<1>3. \A q \in Handlers : q # r /\ req[q] # None /\ Replica[q] = p => req[q].pc = "wait"
  BY <1>1 DEF IInv, Locked
<1>4. force[p] = n
  BY <1>1 DEF IInv, InStep, Config
<1>5. TypeOK'
  BY <1>1, <1>2 DEF IInv, TypeOK
<1>6. Locked' /\ Carried'
  BY <1>1, <1>2, <1>3, ReplicaAssumption DEF IInv, TypeOK, Locked, Carried
<1>7. InStep' /\ Fresh'
  BY <1>1, <1>2, <1>3, ReplicaAssumption DEF IInv, TypeOK, InStep, Fresh
<1>8. Loaded' /\ StoredWorks'
  BY <1>1, <1>2 DEF IInv, TypeOK, Loaded, StoredWorks
<1>9. ReportedIsInForce'
  BY <1>1, <1>2, <1>4 DEF IInv, TypeOK, ReportedIsInForce
<1>10. LiveIsStored'
  BY <1>1, <1>2 DEF IInv, TypeOK, Fresh, LiveIsStored
<1>. QED
  BY <1>5, <1>6, <1>7, <1>8, <1>9, <1>10 DEF IInv

----------------------------------------------------------------------------
(* Every step keeps the invariant. *)
LEMMA NextKeeps == IInv /\ [Next]_vars => IInv'
<1>. SUFFICES ASSUME IInv, [Next]_vars PROVE IInv'
  OBVIOUS
<1>1. CASE UNCHANGED vars
  <2>1. TypeOK' /\ Locked' /\ Carried' /\ Loaded' /\ InStep' /\ Fresh'
    BY <1>1 DEF IInv, vars, TypeOK, Locked, Carried, Loaded, InStep, Fresh
  <2>2. StoredWorks' /\ ReportedIsInForce' /\ LiveIsStored'
    BY <1>1 DEF IInv, vars, StoredWorks, ReportedIsInForce, LiveIsStored
  <2>. QED
    BY <2>1, <2>2 DEF IInv
<1>2. CASE \E k \in Keys : ChangeKey(k)
  BY <1>2, ChangeKeyKeeps
<1>3. CASE \E p \in Replicas : Boot(p) \/ Terminate(p) \/ Shutdown(p) \/ Crash(p)
  BY <1>3, StartKeeps, WaitForDBKeeps, LoadRowKeeps, LoadApplyKeeps, TerminateKeeps,
     ShutdownKeeps, CrashKeeps DEF Boot
<1>4. CASE \E r \in Handlers : GetSettings(r) \/ Current(r) \/ Apply(r) \/ Proceed(r)
  BY <1>4, GetSettingsKeeps, CurrentKeeps, ApplyKeeps, ProbeKeeps, UpdateSettingsKeeps,
     SwapKeeps, SetTTLKeeps, SetMaxEntryBytesKeeps, SetCurrentKeeps DEF Proceed
<1>5. CASE \E r \in Handlers, in \in Inputs : PutSettings(r, in)
  BY <1>5, PutSettingsKeeps
<1>. QED
  BY <1>1, <1>2, <1>3, <1>4, <1>5 DEF Next

(* The inductive invariant of the settings: what Apply holds while it has  *)
(* the lock, and how the row, what is in force and what is reported relate *)
(* to it at each of its statements.                                        *)
THEOREM Inductive == Spec => []IInv
<1>. QED
  BY InitInv, NextKeeps, PTL DEF Spec

(* Every variable has its type.                                            *)
THEOREM TypesCorrect == Spec => []TypeOK
<1>1. IInv => TypeOK
  BY DEF IInv
<1>. QED
  BY <1>1, Inductive, PTL

(* The row always describes a backend that was listed with the credentials *)
(* stored beside it, all of them under one key.                            *)
THEOREM StoredSettingsWork == Spec => []StoredWorks
<1>1. IInv => StoredWorks
  BY DEF IInv
<1>. QED
  BY <1>1, Inductive, PTL

(* Whenever Current can answer, it answers with what is in force.          *)
THEOREM ReportsAreTrue == Spec => []ReportedIsInForce
<1>1. IInv => ReportedIsInForce
  BY DEF IInv
<1>. QED
  BY <1>1, Inductive, PTL

(* Unless another replica stored a change, or the answer to the UPDATE of  *)
(* this one was lost, a replica works with what is stored.                 *)
THEOREM LiveSettingsAreStored == Spec => []LiveIsStored
<1>1. IInv => LiveIsStored
  BY DEF IInv
<1>. QED
  BY <1>1, Inductive, PTL
=============================================================================
