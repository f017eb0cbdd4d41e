------------------------- MODULE SettingsRefinement -------------------------
(***************************************************************************)
(* Settings implements SettingsRegister: proof of the refinement, for any  *)
(* sets of replicas, requests, backends, credentials and keys, one lemma   *)
(* per action that names the step of the register, or the stutter, that    *)
(* the action is.                                                          *)
(***************************************************************************)
EXTENDS SettingsProofs

(* Past its validation and up to its UPDATE, a change is still what its    *)
(* request asks for, laid over what its replica reports.                   *)
Laid ==
    \A r \in Handlers : req[r] # None /\ req[r].pc \in {"probe", "update"} =>
        /\ req[r].op = "put"
        /\ req[r].next = Merge(current[Replica[r]], req[r].in)

(* Only the request that holds the lock changes what is reported, and only *)
(* a replica without requests starts or exits.                             *)
LEMMA LaidKept == IInv /\ Laid /\ [Next]_vars => Laid'
<1>. SUFFICES ASSUME IInv, Laid, [Next]_vars,
                     NEW r \in Handlers, req'[r] # None, req'[r].pc \in {"probe", "update"}
              PROVE  /\ req'[r].op = "put"
                     /\ req'[r].next = Merge(current'[Replica[r]], req'[r].in)
  BY DEF Laid
<1>. USE DEF IInv, TypeOK
<1>1. CASE UNCHANGED vars
  BY <1>1 DEF vars, Laid
<1>2. CASE \E k \in Keys : ChangeKey(k)
  BY <1>2 DEF ChangeKey, Laid
<1>3. ASSUME NEW p \in Replicas, Exit(p)
      PROVE  /\ req'[r].op = "put"
             /\ req'[r].next = Merge(current'[Replica[r]], req'[r].in)
  BY <1>3, ReplicaAssumption DEF Exit, Laid
<1>4. ASSUME NEW p \in Replicas, Start(p) \/ WaitForDB(p) \/ LoadRow(p) \/ Terminate(p), ~ Exit(p)
      PROVE  /\ req'[r].op = "put"
             /\ req'[r].next = Merge(current'[Replica[r]], req'[r].in)
  BY <1>4 DEF Start, WaitForDB, LoadRow, Terminate, Laid
<1>5. ASSUME NEW p \in Replicas, LoadApply(p), ~ Exit(p)
      PROVE  /\ req'[r].op = "put"
             /\ req'[r].next = Merge(current'[Replica[r]], req'[r].in)
  BY <1>5, ReplicaAssumption DEF LoadApply, Laid, Locked
<1>6. ASSUME NEW q \in Handlers, NEW x \in Request, Begin(q, x), x.pc = "wait"
      PROVE  /\ req'[r].op = "put"
             /\ req'[r].next = Merge(current'[Replica[r]], req'[r].in)
  BY <1>6 DEF Begin, Laid
<1>7. ASSUME NEW q \in Handlers, Current(q)
      PROVE  /\ req'[r].op = "put"
             /\ req'[r].next = Merge(current'[Replica[r]], req'[r].in)
  BY <1>7 DEF Current, Laid
<1>8. ASSUME NEW q \in Handlers, Apply(q)
      PROVE  /\ req'[r].op = "put"
             /\ req'[r].next = Merge(current'[Replica[r]], req'[r].in)
  <2>1. CASE q = r
    <3>1. Valid(Merge(current[Replica[r]], req[r].in))
      BY <1>8, <2>1 DEF Apply, Finish
    <3>2. /\ req[r] \in Request /\ req[r].op = "put"
          /\ req' = [req EXCEPT ![r].pc = "probe", ![r].next = Merge(current[Replica[r]], req[r].in)]
          /\ current' = current
      BY <1>8, <2>1, <3>1 DEF Apply, At
    <3>3. req'[r] = [req[r] EXCEPT !.pc = "probe", !.next = Merge(current[Replica[r]], req[r].in)]
      BY <3>2
    <3>. QED
      BY <3>2, <3>3 DEF Request
  <2>2. CASE q # r
    BY <1>8, <2>2 DEF Apply, Finish, Laid
  <2>. QED
    BY <2>1, <2>2
<1>9. ASSUME NEW q \in Handlers, Probe(q) \/ UpdateSettings(q)
      PROVE  /\ req'[r].op = "put"
             /\ req'[r].next = Merge(current'[Replica[r]], req'[r].in)
  <2>1. CASE q = r
    <3>1. /\ req[r] \in Request /\ req[r].pc \in {"probe", "update"} /\ req[r] # None
          /\ current' = current /\ ~ Finish(r)
      BY <1>9, <2>1 DEF Probe, UpdateSettings, At, Finish
    <3>2. PICK l \in {"update", "swap"} : req' = [req EXCEPT ![r].pc = l]
      BY <1>9, <2>1, <3>1 DEF Probe, UpdateSettings, Goto
    <3>3. req'[r] = [req[r] EXCEPT !.pc = l]
      BY <3>1, <3>2
    <3>. QED
      BY <3>1, <3>3 DEF Request, Laid
  <2>2. CASE q # r
    BY <1>9, <2>2 DEF Probe, UpdateSettings, Goto, Finish, Laid
  <2>. QED
    BY <2>1, <2>2
<1>10. ASSUME NEW q \in Handlers, Swap(q) \/ SetTTL(q) \/ SetMaxEntryBytes(q)
       PROVE  /\ req'[r].op = "put"
              /\ req'[r].next = Merge(current'[Replica[r]], req'[r].in)
  <2>1. q # r
    BY <1>10 DEF Swap, SetTTL, SetMaxEntryBytes, At, Goto, Request
  <2>. QED
    BY <1>10, <2>1 DEF Swap, SetTTL, SetMaxEntryBytes, Goto, Laid
<1>11. ASSUME NEW q \in Handlers, SetCurrent(q)
       PROVE  /\ req'[r].op = "put"
              /\ req'[r].next = Merge(current'[Replica[r]], req'[r].in)
  <2>1. q # r /\ req'[r] = req[r]
    BY <1>11 DEF SetCurrent, Finish
  <2>2. Replica[q] # Replica[r]
    BY <1>11, <2>1 DEF SetCurrent, At, Locked
  <2>. QED
    BY <1>11, <2>1, <2>2, ReplicaAssumption DEF SetCurrent, Laid
<1>12. \A q \in Handlers : GetSettings(q) =>
         Begin(q, [op |-> "get", pc |-> "wait", in |-> None, next |-> None])
  BY DEF GetSettings
<1>13. [op |-> "get", pc |-> "wait", in |-> None, next |-> None] \in Request
  BY DEF Request
<1>14. \A in \in Inputs : [op |-> "put", pc |-> "wait", in |-> in, next |-> None] \in Request
  BY DEF Request
<1>15. CASE \E q \in Handlers : GetSettings(q) \/ \E in \in Inputs : PutSettings(q, in)
  BY <1>6, <1>12, <1>13, <1>14, <1>15 DEF PutSettings
<1>16. CASE \E p \in Replicas : Boot(p) \/ Terminate(p) \/ Shutdown(p) \/ Crash(p)
  BY <1>3, <1>4, <1>5, <1>16 DEF Boot, Shutdown, Crash
<1>17. CASE \E q \in Handlers : Current(q) \/ Apply(q) \/ Proceed(q)
  BY <1>7, <1>8, <1>9, <1>10, <1>11, <1>17 DEF Proceed
<1>. QED
  BY <1>1, <1>2, <1>15, <1>16, <1>17 DEF Next

(* From its validation to its UPDATE, a change is what its request asks    *)
(* for, laid over the settings its replica still reports: nothing else     *)
(* changes them in between.                                                *)
THEOREM LaidHolds == Spec => [](IInv /\ Laid)
<1>1. Init => Laid
  BY DEF Init, Laid
<1>2. IInv /\ Laid /\ [Next]_vars => Laid'
  BY LaidKept
<1>. QED
  BY <1>1, <1>2, Inductive, PTL DEF Spec

(* The row changes under a request only by the UPDATE of that request.     *)
LEMMA UpdateChangesRow ==
    ASSUME IInv, Next, NEW r \in Handlers, At(r, "update"), req'[r] # req[r], row' # row
    PROVE  UpdateSettings(r)
<1>1. \A p \in Replicas : Boot(p) \/ Terminate(p) \/ Shutdown(p) \/ Crash(p) => row' = row
  BY DEF Boot, Start, WaitForDB, LoadRow, LoadApply, Terminate, Shutdown, Crash
<1>2. \A k \in Keys : ChangeKey(k) => row' = row
  BY DEF ChangeKey
<1>3. ASSUME NEW q \in Handlers,
             \/ GetSettings(q) \/ Current(q) \/ \E in \in Inputs : PutSettings(q, in)
             \/ Apply(q) \/ Proceed(q)
      PROVE  UpdateSettings(q)
  BY <1>3 DEF GetSettings, PutSettings, Begin, Current, Apply, Proceed, Probe, Swap, SetTTL,
              SetMaxEntryBytes, SetCurrent
<1>4. PICK q \in Handlers : UpdateSettings(q)
  BY <1>1, <1>2, <1>3 DEF Next
<1>5. q = r
  BY <1>4 DEF UpdateSettings, Goto, Finish, IInv, TypeOK
<1>. QED
  BY <1>4, <1>5

(* What is stored over a row the replica knows is laid over that row.      *)
LEMMA LaidOverStored ==
    ASSUME IInv, Laid, NEW r \in Handlers, UpdateSettings(r), row' # row, ~ drifted[Replica[r]]
    PROVE  Open(row') = Merge(Open(row), req[r].in)
<1>1. /\ At(r, "update") /\ req[r] # None /\ req[r].pc = "update"
      /\ \E answered \in BOOLEAN : Stored(r, answered)
  BY DEF UpdateSettings, At
<1>2. current[Replica[r]] = Open(row)
  BY <1>1 DEF IInv, Fresh
<1>3. req[r].next = Merge(current[Replica[r]], req[r].in)
  BY <1>1 DEF Laid
<1>4. Open(row') = req[r].next
  BY <1>1, StoredFacts DEF IInv, Carried, At
<1>. QED
  BY <1>2, <1>3, <1>4

(* A replica that knows what is stored never overwrites a credential its   *)
(* admin left out: the lost secret takes a change by another replica, or a *)
(* lost answer.                                                            *)
THEOREM SecretsKept == Spec => UndriftedSecretsKept
<1>1. IInv /\ Laid /\ [Next]_vars =>
        [\A r \in Handlers :
           At(r, "update") /\ req'[r] # req[r] /\ row' # row /\ ~ drifted[Replica[r]] =>
             \A f \in Fields :
                 req[r].in.secret[f] = Nil => Open(row').secret[f] = Open(row).secret[f]]_vars
  <2>1. SUFFICES ASSUME IInv, Laid, Next, NEW r \in Handlers, NEW f \in Fields,
                        At(r, "update"), req'[r] # req[r], row' # row, ~ drifted[Replica[r]],
                        req[r].in.secret[f] = Nil
                 PROVE  Open(row').secret[f] = Open(row).secret[f]
    OBVIOUS
  <2>2. Open(row') = Merge(Open(row), req[r].in)
    BY <2>1, UpdateChangesRow, LaidOverStored
  <2>3. req[r].in \in ApplyInput
    BY <2>1, InputsAssumption DEF IInv, Carried, Laid, At
  <2>4. Merge(Open(row), req[r].in).secret[f] = Open(row).secret[f]
    BY <2>1, <2>3 DEF Merge, ApplyInput
  <2>. QED
    BY <2>2, <2>4
<1>. QED
  BY <1>1, LaidHolds, PTL DEF Spec, UndriftedSecretsKept

----------------------------------------------------------------------------
(* What a replica reports, from the state of its lock and its stage.       *)
LEMMA PuttingHolds ==
    ASSUME IInv, NEW r \in Handlers, Putting(r)
    PROVE  /\ lock[Replica[r]] = r /\ lock[Replica[r]] # None
           /\ Replica[r] \in Replicas /\ stage[Replica[r]] \in {"up", "drain"}
           /\ Reported[Replica[r]] = req[r].next
BY ReplicaAssumption, MarkersAssumption DEF IInv, Locked, Putting, Reported

(* Replica p is putting a change in force. *)
Changing(p) == lock[p] # None /\ Putting(lock[p])

(* A step that leaves alone what a start has read, what Current reads and  *)
(* which change is being put in force leaves alone what is reported.       *)
LEMMA SameReported ==
    ASSUME UNCHANGED <<used, boot, current>>,
           \A p \in Replicas : stage'[p] = "build" <=> stage[p] = "build",
           \A p \in Replicas : Changing(p)' <=> Changing(p),
           \A p \in Replicas : Changing(p) =>
               lock'[p] = lock[p] /\ req'[lock[p]].next = req[lock[p]].next
    PROVE  Reported' = Reported
<1>1. ASSUME NEW p \in Replicas
      PROVE  Reported'[p] = Reported[p]
  <2>1. CASE Changing(p)
    BY <2>1 DEF Reported, Changing, Putting
  <2>2. CASE ~ Changing(p)
    BY <2>2 DEF Reported, Changing, Putting, Opens, Open
  <2>. QED
    BY <2>1, <2>2
<1>. QED
  BY <1>1 DEF Reported

(* The first state: the seed is stored, and nobody has started. *)
LEMMA InitRefines ==
    ASSUME Init
    PROVE  Register!Init
<1>1. Open(row) = Seed
  BY SealOpens, SeedAssumption DEF Init
<1>2. Reported = [p \in Replicas |-> None]
  BY DEF Init, Reported
<1>. QED
  BY <1>1, <1>2 DEF Init, Register!Init, Asked, Putting

(* The key is none of the register's business. *)
LEMMA ChangeKeyRefines ==
    ASSUME IInv, NEW k \in Keys, ChangeKey(k)
    PROVE  UNCHANGED Register!vars
BY DEF ChangeKey, Register!vars, Reported, Asked, Putting, Open, Opens

(* However a replica exits, it stops. *)
LEMMA ExitRefines ==
    ASSUME IInv, NEW p \in Replicas, Exit(p), UNCHANGED <<row, used>>
    PROVE  Register!Stop(p)
<1>. USE DEF IInv, TypeOK
<1>1. Reported' = [Reported EXCEPT ![p] = None]
  <2>1. Reported'[p] = None
    BY DEF Exit, Reported
  <2>2. ASSUME NEW o \in Replicas \ {p}
        PROVE  Reported'[o] = Reported[o]
    <3>1. /\ lock'[o] = lock[o] /\ stage'[o] = stage[o] /\ boot'[o] = boot[o]
          /\ current'[o] = current[o] /\ used'[o] = used[o]
      BY DEF Exit
    <3>2. lock[o] # None => req'[lock[o]] = req[lock[o]]
      BY DEF Exit, Locked
    <3>. QED
      BY <3>1, <3>2 DEF Reported, Putting, Opens, Open
  <2>. QED
    BY <2>1, <2>2 DEF Reported
<1>2. Asked' = [r \in Handlers |-> IF Replica[r] = p THEN None ELSE Asked[r]]
  BY DEF Exit, Asked
<1>3. {r \in Handlers : Putting(r)}' = {r \in {q \in Handlers : Putting(q)} : Replica[r] # p}
  BY DEF Exit, Putting
<1>. QED
  BY <1>1, <1>2, <1>3 DEF Register!Stop, Open

(* A start, up to the read of the row, is nothing to the register ... *)
LEMMA StartRefines ==
    ASSUME IInv, NEW p \in Replicas, Start(p)
    PROVE  UNCHANGED Register!vars
<1>. USE DEF IInv, TypeOK
<1>1. Reported' = Reported
  <2>1. ASSUME NEW o \in Replicas PROVE Reported'[o] = Reported[o]
    BY DEF Start, Reported, Putting, Opens, Open
  <2>. QED
    BY <2>1 DEF Reported
<1>. QED
  BY <1>1 DEF Start, Register!vars, Asked, Putting, Open

LEMMA WaitForDBRefines ==
    ASSUME IInv, NEW p \in Replicas, WaitForDB(p)
    PROVE  Register!Stop(p) \/ UNCHANGED Register!vars
<1>. USE DEF IInv, TypeOK
<1>1. CASE Exit(p)
  BY <1>1, ExitRefines DEF WaitForDB
<1>2. CASE ~ Exit(p)
  <2>1. /\ UNCHANGED <<row, used, boot, current, lock, req>>
        /\ \A o \in Replicas : stage'[o] = "build" <=> stage[o] = "build"
    BY <1>2 DEF WaitForDB
  <2>2. Reported' = Reported
    BY <2>1, SameReported DEF Changing, Putting
  <2>. QED
    BY <2>1, <2>2 DEF Register!vars, Asked, Putting, Open
<1>. QED
  BY <1>1, <1>2

(* ... which is when it takes on what is stored, if it can open it. *)
LEMMA LoadRowRefines ==
    ASSUME IInv, NEW p \in Replicas, LoadRow(p)
    PROVE  Register!Stop(p) \/ Register!Load(p) \/ UNCHANGED Register!vars
<1>. USE DEF IInv, TypeOK
<1>1. CASE Exit(p)
  BY <1>1, ExitRefines DEF LoadRow
<1>2. CASE ~ Exit(p)
  <2>1. /\ stage[p] = "load" /\ stage' = [stage EXCEPT ![p] = "build"]
        /\ boot' = [boot EXCEPT ![p] = row]
        /\ UNCHANGED <<row, used, current, lock, req>>
    BY <1>2 DEF LoadRow
  <2>2. lock[p] = None /\ current[p] = None
    BY <2>1 DEF Locked, Loaded
  <2>3. Reported[p] = None
    BY <2>1, <2>2 DEF Reported
  <2>4. Reported'[p] = IF Opens(used[p], row) THEN Open(row) ELSE None
    BY <2>1, <2>2 DEF Reported, Opens, Open
  <2>5. ASSUME NEW o \in Replicas \ {p} PROVE Reported'[o] = Reported[o]
    BY <2>1 DEF Reported, Putting, Opens, Open
  <2>6. UNCHANGED <<Open(row), Asked, {r \in Handlers : Putting(r)}>>
    BY <2>1 DEF Asked, Putting, Open
  <2>7. CASE Opens(used[p], row)
    <3>1. Reported' = [Reported EXCEPT ![p] = Open(row)]
      BY <2>4, <2>5, <2>7 DEF Reported
    <3>. QED
      BY <2>3, <2>6, <3>1 DEF Register!Load
  <2>8. CASE ~ Opens(used[p], row)
    <3>1. Reported' = Reported
      BY <2>3, <2>4, <2>5, <2>8 DEF Reported
    <3>. QED
      BY <2>6, <3>1 DEF Register!vars
  <2>. QED
    BY <2>7, <2>8
<1>. QED
  BY <1>1, <1>2

(* Putting it in force changes nothing more. *)
LEMMA LoadApplyRefines ==
    ASSUME IInv, NEW p \in Replicas, LoadApply(p)
    PROVE  Register!Stop(p) \/ UNCHANGED Register!vars
<1>. USE DEF IInv, TypeOK
<1>1. CASE Exit(p)
  BY <1>1, ExitRefines DEF LoadApply
<1>2. CASE ~ Exit(p)
  <2>1. /\ stage[p] = "build" /\ stage' = [stage EXCEPT ![p] = "up"]
        /\ Opens(used[p], boot[p])
        /\ current' = [current EXCEPT ![p] = Open(boot[p])]
        /\ boot' = [boot EXCEPT ![p] = None]
        /\ UNCHANGED <<row, used, lock, req>>
    BY <1>2 DEF LoadApply
  <2>2. lock[p] = None
    BY <2>1 DEF Locked
  <2>3. Reported[p] = Open(boot[p]) /\ Reported'[p] = Open(boot[p])
    BY <2>1, <2>2 DEF Reported
  <2>4. ASSUME NEW o \in Replicas \ {p} PROVE Reported'[o] = Reported[o]
    BY <2>1 DEF Reported, Putting, Opens, Open
  <2>5. Reported' = Reported
    BY <2>3, <2>4 DEF Reported
  <2>. QED
    BY <2>1, <2>5 DEF Register!vars, Asked, Putting, Open
<1>. QED
  BY <1>1, <1>2

LEMMA TerminateRefines ==
    ASSUME IInv, NEW p \in Replicas, Terminate(p)
    PROVE  UNCHANGED Register!vars
<1>. USE DEF IInv, TypeOK
<1>1. Reported' = Reported
  BY SameReported DEF Terminate, Changing, Putting
<1>. QED
  BY <1>1 DEF Terminate, Register!vars, Asked, Putting, Open

----------------------------------------------------------------------------
(* Only a replica that reports something is asked. *)
LEMMA BeginRefines ==
    ASSUME IInv, NEW r \in Handlers, NEW q \in Request, Begin(r, q), q.pc = "wait",
           [op |-> q.op, in |-> q.in] \in Register!Asked
    PROVE  Register!Ask(r)
<1>. USE DEF IInv, TypeOK
<1>. DEFINE p == Replica[r]
<1>1. p \in Replicas /\ stage[p] = "up" /\ q # None
  BY ReplicaAssumption, DistinctAssumption DEF Begin
<1>2. Reported[p] # None
  <2>1. CASE Changing(p)
    BY <1>1, <2>1, MarkersAssumption DEF Changing, Reported, Carried, Locked
  <2>2. CASE ~ Changing(p)
    BY <1>1, <2>2, MarkersAssumption DEF Changing, Reported, Loaded
  <2>. QED
    BY <2>1, <2>2
<1>3. \A o \in Replicas : lock[o] # None => req'[lock[o]] = req[lock[o]]
  BY <1>1 DEF Begin, Locked
<1>4. Reported' = Reported
  BY <1>3, SameReported DEF Begin, Changing, Putting
<1>5. Asked' = [Asked EXCEPT ![r] = [op |-> q.op, in |-> q.in]]
  BY <1>1 DEF Begin, Asked
<1>6. {x \in Handlers : Putting(x)}' = {x \in Handlers : Putting(x)}
  BY <1>1 DEF Begin, Putting
<1>. QED
  BY <1>2, <1>4, <1>5, <1>6 DEF Begin, Register!Ask, Asked, Open

LEMMA AsksRefine ==
    ASSUME IInv, NEW r \in Handlers, GetSettings(r) \/ \E in \in Inputs : PutSettings(r, in)
    PROVE  Register!Ask(r)
<1>1. CASE GetSettings(r)
  <2>. DEFINE q == [op |-> "get", pc |-> "wait", in |-> None, next |-> None]
  <2>1. q \in Request /\ [op |-> q.op, in |-> q.in] \in Register!Asked
    BY DEF Request, Register!Asked
  <2>2. Begin(r, q)
    BY <1>1 DEF GetSettings
  <2>. QED
    BY <2>1, <2>2, BeginRefines
<1>2. ASSUME NEW in \in Inputs, PutSettings(r, in)
      PROVE  Register!Ask(r)
  <2>. DEFINE q == [op |-> "put", pc |-> "wait", in |-> in, next |-> None]
  <2>1. q \in Request /\ [op |-> q.op, in |-> q.in] \in Register!Asked
    BY DEF Request, Register!Asked
  <2>2. Begin(r, q)
    BY <1>2 DEF PutSettings
  <2>. QED
    BY <2>1, <2>2, BeginRefines
<1>. QED
  BY <1>1, <1>2

(* An answer that changes nothing, with or without the lock. *)
LEMMA AnswerRefines ==
    ASSUME IInv, NEW r \in Handlers, req[r] # None, ~ Putting(r),
           req' = [req EXCEPT ![r] = None],
           lock' \in {lock, [lock EXCEPT ![Replica[r]] = None]},
           lock[Replica[r]] \in {r, None},
           UNCHANGED <<row, stage, used, boot, current>>
    PROVE  Register!Answer(r)
<1>. USE DEF IInv, TypeOK
<1>1. Replica[r] \in Replicas
  BY ReplicaAssumption
<1>2. ASSUME NEW o \in Replicas
      PROVE  /\ Changing(o)' <=> Changing(o)
             /\ Changing(o) => lock'[o] = lock[o] /\ req'[lock[o]].next = req[lock[o]].next
  <2>1. CASE lock[o] = r
    BY <1>1, <2>1 DEF Changing, Putting, Locked
  <2>2. CASE lock[o] # r
    BY <1>1, <2>2 DEF Changing, Putting, Locked
  <2>. QED
    BY <2>1, <2>2
<1>3. Reported' = Reported
  BY <1>2, SameReported
<1>4. Asked' = [Asked EXCEPT ![r] = None] /\ Asked[r] # None
  <2>1. [op |-> req[r].op, in |-> req[r].in] # None
    BY DistinctAssumption DEF Request
  <2>. QED
    BY <2>1 DEF Asked
<1>5. {x \in Handlers : Putting(x)}' = {x \in Handlers : Putting(x)} \ {r}
  BY DEF Putting
<1>. QED
  BY <1>3, <1>4, <1>5 DEF Register!Answer, Open

(* GET. *)
LEMMA CurrentRefines ==
    ASSUME IInv, NEW r \in Handlers, Current(r)
    PROVE  Register!Answer(r)
<1>1. req[r] # None /\ ~ Putting(r) /\ lock[Replica[r]] = None
  BY DEF Current, At, Putting
<1>. QED
  BY <1>1, AnswerRefines DEF Current

(* Up to its UPDATE a change is refused, or of no consequence. *)
LEMMA FinishRefines ==
    ASSUME IInv, NEW r \in Handlers, Finish(r),
           \/ At(r, "wait") /\ lock[Replica[r]] = None
           \/ At(r, "probe")
           \/ At(r, "update"),
           UNCHANGED <<row, stage, used, boot, current>>
    PROVE  Register!Answer(r)
<1>1. req[r] # None /\ ~ Putting(r) /\ lock[Replica[r]] \in {r, None}
  BY DEF At, Putting, IInv, Locked
<1>. QED
  BY <1>1, AnswerRefines DEF Finish

LEMMA ApplyRefines ==
    ASSUME IInv, NEW r \in Handlers, Apply(r)
    PROVE  Register!Answer(r) \/ UNCHANGED Register!vars
<1>. DEFINE n == Merge(current[Replica[r]], req[r].in)
<1>1. CASE ~ Valid(n)
  BY <1>1, FinishRefines DEF Apply
<1>2. CASE Valid(n)
  <2>. USE DEF IInv, TypeOK
  <2>1. /\ req[r] # None /\ req[r].pc = "wait" /\ lock[Replica[r]] = None
        /\ Replica[r] \in Replicas /\ req[r] \in Request
        /\ lock' = [lock EXCEPT ![Replica[r]] = r]
        /\ req' = [req EXCEPT ![r].pc = "probe", ![r].next = n]
        /\ UNCHANGED <<row, stage, used, boot, current>>
    BY <1>2, ReplicaAssumption DEF Apply, At
  <2>2. /\ req'[r] = [req[r] EXCEPT !.pc = "probe", !.next = n]
        /\ req'[r] # None /\ req'[r].pc = "probe"
        /\ req'[r].op = req[r].op /\ req'[r].in = req[r].in
        /\ \A q \in Handlers : q # r => req'[q] = req[q]
    <3>1. req'[r] = [req[r] EXCEPT !.pc = "probe", !.next = n]
      BY <2>1
    <3>2. n \in Config
      BY <2>1, MergeType DEF Apply, At, Carried, Loaded, Locked
    <3>3. req'[r] \in Request
      BY <2>1, <3>1, <3>2 DEF Request
    <3>. QED
      BY <2>1, <3>1, <3>3, DistinctAssumption DEF Request
  <2>3. \A o \in Replicas :
          /\ Changing(o)' <=> Changing(o)
          /\ Changing(o) => lock'[o] = lock[o] /\ req'[lock[o]].next = req[lock[o]].next
    <3>1. ASSUME NEW o \in Replicas
          PROVE  /\ Changing(o)' <=> Changing(o)
                 /\ Changing(o) => lock'[o] = lock[o] /\ req'[lock[o]].next = req[lock[o]].next
      <4>1. CASE o = Replica[r]
        BY <2>1, <2>2, <4>1 DEF Changing, Putting
      <4>2. CASE o # Replica[r]
        BY <2>1, <2>2, <4>2 DEF Changing, Putting, Locked
      <4>. QED
        BY <4>1, <4>2
    <3>. QED
      BY <3>1
  <2>4. Reported' = Reported
    BY <2>1, <2>3, SameReported
  <2>5. Asked' = Asked
    BY <2>1, <2>2 DEF Asked
  <2>6. {x \in Handlers : Putting(x)}' = {x \in Handlers : Putting(x)}
    BY <2>1, <2>2 DEF Putting
  <2>. QED
    BY <2>1, <2>4, <2>5, <2>6 DEF Register!vars, Open
<1>. QED
  BY <1>1, <1>2

(* A change moves on from one statement of Apply to the next. *)
LEMMA GotoFacts ==
    ASSUME IInv, NEW r \in Handlers, req[r] # None,
           NEW l \in {"update", "swap", "ttl", "size", "current"}, Goto(r, l)
    PROVE  /\ Asked' = Asked
           /\ req'[r] # None /\ req'[r].pc = l /\ req'[r].next = req[r].next
           /\ \A q \in Handlers : q # r => req'[q] = req[q]
<1>1. req[r] \in Request
  BY DEF IInv, TypeOK
<1>2. /\ req'[r] = [req[r] EXCEPT !.pc = l]
      /\ \A q \in Handlers : q # r => req'[q] = req[q]
  BY DEF Goto, IInv, TypeOK
<1>3. req'[r] \in Request /\ req'[r] # None
  BY <1>1, <1>2, DistinctAssumption DEF Request
<1>4. /\ req'[r].pc = l /\ req'[r].next = req[r].next
      /\ req'[r].op = req[r].op /\ req'[r].in = req[r].in
  BY <1>1, <1>2 DEF Request
<1>. QED
  BY <1>2, <1>3, <1>4 DEF Asked

(* Short of the UPDATE, or past it, that does not show. *)
LEMMA GotoRefines ==
    ASSUME IInv, NEW r \in Handlers, req[r] # None,
           NEW l \in {"update", "swap", "ttl", "size", "current"}, Goto(r, l),
           Putting(r) <=> l # "update",
           UNCHANGED <<row, stage, used, boot, current, lock>>
    PROVE  UNCHANGED Register!vars
<1>1. /\ Asked' = Asked
      /\ req'[r] # None /\ req'[r].pc = l /\ req'[r].next = req[r].next
      /\ \A q \in Handlers : q # r => req'[q] = req[q]
  BY GotoFacts
<1>2. \A q \in Handlers : Putting(q)' <=> Putting(q)
  BY <1>1 DEF Putting
<1>3. \A o \in Replicas : lock[o] # None => lock[o] \in Handlers
  BY DEF IInv, TypeOK
<1>4. \A o \in Replicas : Changing(o)' <=> Changing(o)
  BY <1>1, <1>3 DEF Changing, Putting
<1>5. \A o \in Replicas : Changing(o) => req'[lock[o]].next = req[lock[o]].next
  BY <1>1, <1>3 DEF Changing
<1>6. Reported' = Reported
  BY <1>4, <1>5, SameReported
<1>. QED
  BY <1>1, <1>2, <1>6 DEF Register!vars, Open

LEMMA ProbeRefines ==
    ASSUME IInv, NEW r \in Handlers, Probe(r)
    PROVE  Register!Answer(r) \/ UNCHANGED Register!vars
<1>1. At(r, "probe") /\ req[r] # None /\ ~ Putting(r)
  BY DEF Probe, At, Putting
<1>2. CASE Finish(r)
  BY <1>1, <1>2, FinishRefines DEF Probe
<1>3. CASE Goto(r, "update") /\ lock' = lock
  BY <1>1, <1>3, GotoRefines DEF Probe
<1>. QED
  BY <1>2, <1>3 DEF Probe

LEMMA SwapsRefine ==
    ASSUME IInv, NEW r \in Handlers, Swap(r) \/ SetTTL(r) \/ SetMaxEntryBytes(r)
    PROVE  UNCHANGED Register!vars
<1>1. req[r] # None /\ Putting(r)
  BY DEF Swap, SetTTL, SetMaxEntryBytes, At, Putting
<1>2. PICK l \in {"ttl", "size", "current"} : Goto(r, l)
  BY DEF Swap, SetTTL, SetMaxEntryBytes
<1>3. UNCHANGED <<row, stage, used, boot, current, lock>>
  BY DEF Swap, SetTTL, SetMaxEntryBytes
<1>. QED
  BY <1>1, <1>2, <1>3, GotoRefines

(* The UPDATE is where the change takes effect: what is stored, and what   *)
(* is reported from then on, is the request laid over what was reported;   *)
(* or the request fails without a trace; or it is stored, and fails.       *)
LEMMA UpdateSettingsRefines ==
    ASSUME IInv, Laid, NEW r \in Handlers, UpdateSettings(r)
    PROVE  Register!Change(r) \/ Register!Lose(r) \/ Register!Answer(r)
<1>. DEFINE p == Replica[r]
            n == req[r].next
<1>1. /\ At(r, "update") /\ req[r] # None /\ req[r].pc = "update" /\ req[r].op = "put"
      /\ p \in Replicas /\ lock[p] = r /\ lock[p] # None /\ stage[p] \in {"up", "drain"}
      /\ n = Merge(current[p], req[r].in) /\ Valid(n) /\ Works(n)
      /\ UNCHANGED <<stage, used, boot, current>>
  BY ReplicaAssumption, MarkersAssumption
     DEF UpdateSettings, At, IInv, Locked, Carried, Laid
<1>2. Reported[p] = current[p]
  BY <1>1 DEF Reported, Putting
<1>3. Register!Wanted(r) = n /\ Asked[r] = [op |-> "put", in |-> req[r].in] /\ Asked[r] # None
  <2>1. Asked[r] = [op |-> "put", in |-> req[r].in]
    BY <1>1 DEF Asked
  <2>2. req[r].in \in Inputs
    BY <1>1 DEF IInv, Carried
  <2>3. Asked[r] # None
    BY <2>1, <2>2, DistinctAssumption
  <2>4. Register!Wanted(r) = Merge(Reported[p], Asked[r].in)
    BY DEF Register!Wanted, Register!Merge, Merge
  <2>. QED
    BY <1>1, <1>2, <2>1, <2>3, <2>4
<1>4. ~ Putting(r)
  BY <1>1 DEF Putting
<1>5. CASE Finish(r) /\ UNCHANGED row
  BY <1>1, <1>5, FinishRefines
<1>6. ASSUME NEW a \in BOOLEAN, Stored(r, a)
      PROVE  Register!Store(r)
  <2>1. Open(row)' = n
    <3>1. Open(row') = n
      BY <1>1, <1>6, StoredFacts
    <3>. QED
      BY <3>1 DEF Open
  <2>2. Asked[r].op = "put" /\ r \notin {x \in Handlers : Putting(x)}
    BY <1>3, <1>4
  <2>3. /\ Register!Valid(Register!Wanted(r)) /\ Register!Works(Register!Wanted(r))
        /\ Open(row)' = Register!Wanted(r)
    BY <1>1, <1>3, <2>1 DEF Valid, Works, Register!Valid, Register!Works
  <2>. QED
    BY <1>3, <2>2, <2>3, Zenon DEF Register!Store
<1>7. CASE Stored(r, FALSE) /\ Finish(r)
  <2>1. Reported' = Reported
    <3>1. ASSUME NEW o \in Replicas PROVE Reported'[o] = Reported[o]
      <4>1. CASE o = p
        BY <1>1, <1>2, <1>7, <4>1 DEF Finish, Reported, IInv, TypeOK
      <4>2. CASE o # p
        BY <1>1, <1>7, <4>2 DEF Finish, Reported, Putting, Opens, Open, IInv, TypeOK, Locked
      <4>. QED
        BY <4>1, <4>2
    <3>. QED
      BY <3>1 DEF Reported
  <2>2. Asked' = [Asked EXCEPT ![r] = None]
    BY <1>7 DEF Finish, Asked, IInv, TypeOK
  <2>3. {x \in Handlers : Putting(x)}' = {x \in Handlers : Putting(x)}
    BY <1>4, <1>7 DEF Finish, Putting, IInv, TypeOK
  <2>4. Register!Store(r)
    BY <1>6, <1>7
  <2>. QED
    BY <2>1, <2>2, <2>3, <2>4 DEF Register!Lose
<1>8. CASE Stored(r, TRUE) /\ Goto(r, "swap") /\ UNCHANGED lock
  <2>1. /\ Asked' = Asked
        /\ req'[r] # None /\ req'[r].pc = "swap" /\ req'[r].next = n
        /\ \A q \in Handlers : q # r => req'[q] = req[q]
    BY <1>1, <1>8, GotoFacts
  <2>2. Reported' = [Reported EXCEPT ![p] = n]
    <3>1. Reported'[p] = n
      BY <1>1, <1>8, <2>1 DEF Reported, Putting
    <3>2. ASSUME NEW o \in Replicas \ {p} PROVE Reported'[o] = Reported[o]
      BY <1>1, <1>8, <2>1 DEF Reported, Putting, Opens, Open, IInv, TypeOK, Locked
    <3>. QED
      BY <3>1, <3>2 DEF Reported
  <2>3. {x \in Handlers : Putting(x)}' = {x \in Handlers : Putting(x)} \cup {r}
    BY <2>1 DEF Putting
  <2>4. Register!Store(r)
    BY <1>6, <1>8
  <2>. QED
    BY <1>3, <2>1, <2>2, <2>3, <2>4 DEF Register!Change
<1>. QED
  BY <1>5, <1>7, <1>8 DEF UpdateSettings

(* When a change has been put in force, Current is told what was reported  *)
(* all along, and the request is answered.                                 *)
LEMMA SetCurrentRefines ==
    ASSUME IInv, NEW r \in Handlers, SetCurrent(r)
    PROVE  Register!Answer(r)
<1>. DEFINE p == Replica[r]
<1>1. /\ req[r] # None /\ req[r] \in Request /\ Putting(r) /\ p \in Replicas
      /\ lock[p] = r /\ stage[p] \in {"up", "drain"}
      /\ current' = [current EXCEPT ![p] = req[r].next]
      /\ req' = [req EXCEPT ![r] = None] /\ lock' = [lock EXCEPT ![p] = None]
      /\ UNCHANGED <<row, stage, used, boot>>
  BY ReplicaAssumption DEF SetCurrent, Finish, At, Putting, IInv, TypeOK, Locked
<1>2. Reported' = Reported
  <2>1. Reported[p] = req[r].next /\ Reported'[p] = req[r].next
    BY <1>1, PuttingHolds DEF Reported, IInv, TypeOK
  <2>2. ASSUME NEW o \in Replicas \ {p} PROVE Reported'[o] = Reported[o]
    BY <1>1 DEF Reported, Putting, Opens, Open, IInv, TypeOK, Locked
  <2>. QED
    BY <2>1, <2>2 DEF Reported
<1>3. Asked' = [Asked EXCEPT ![r] = None] /\ Asked[r] # None
  <2>1. [op |-> req[r].op, in |-> req[r].in] # None
    BY <1>1, DistinctAssumption DEF Request
  <2>. QED
    BY <1>1, <2>1 DEF Asked, IInv, TypeOK
<1>4. {x \in Handlers : Putting(x)}' = {x \in Handlers : Putting(x)} \ {r}
  BY <1>1 DEF Putting, IInv, TypeOK
<1>. QED
  BY <1>1, <1>2, <1>3, <1>4 DEF Register!Answer, Open

----------------------------------------------------------------------------
(* Every step is a step of the register, or none. *)
LEMMA NextRefines == IInv /\ Laid /\ [Next]_vars => [Register!Next]_(Register!vars)
<1>. SUFFICES ASSUME IInv, Laid, [Next]_vars
              PROVE  Register!Next \/ UNCHANGED Register!vars
  BY Zenon
<1>1. CASE UNCHANGED vars
  BY <1>1 DEF vars, Register!vars, Reported, Asked, Putting, Open, Opens
<1>2. CASE \E k \in Keys : ChangeKey(k)
  BY <1>2, ChangeKeyRefines
<1>3. ASSUME NEW p \in Replicas, Boot(p) \/ Terminate(p) \/ Shutdown(p) \/ Crash(p)
      PROVE  Register!Load(p) \/ Register!Stop(p) \/ UNCHANGED Register!vars
  <2>1. CASE Boot(p)
    BY <2>1, StartRefines, WaitForDBRefines, LoadRowRefines, LoadApplyRefines DEF Boot
  <2>2. CASE Terminate(p)
    BY <2>2, TerminateRefines
  <2>3. CASE Shutdown(p) \/ Crash(p)
    BY <2>3, ExitRefines DEF Shutdown, Crash
  <2>. QED
    BY <1>3, <2>1, <2>2, <2>3
<1>4. ASSUME NEW r \in Handlers,
             \/ GetSettings(r) \/ Current(r) \/ \E in \in Inputs : PutSettings(r, in)
             \/ Apply(r) \/ Proceed(r)
      PROVE  \/ Register!Ask(r) \/ Register!Change(r) \/ Register!Lose(r) \/ Register!Answer(r)
             \/ UNCHANGED Register!vars
  <2>1. CASE GetSettings(r) \/ \E in \in Inputs : PutSettings(r, in)
    BY <2>1, AsksRefine
  <2>2. CASE Current(r) \/ Apply(r)
    BY <2>2, CurrentRefines, ApplyRefines
  <2>3. CASE Proceed(r)
    BY <2>3, ProbeRefines, UpdateSettingsRefines, SwapsRefine, SetCurrentRefines DEF Proceed
  <2>. QED
    BY <1>4, <2>1, <2>2, <2>3
<1>5. CASE \E p \in Replicas : Boot(p) \/ Terminate(p) \/ Shutdown(p) \/ Crash(p)
  BY <1>3, <1>5 DEF Register!Next
<1>6. CASE \E r \in Handlers :
             \/ GetSettings(r) \/ Current(r) \/ \E in \in Inputs : PutSettings(r, in)
             \/ Apply(r) \/ Proceed(r)
  BY <1>4, <1>6 DEF Register!Next
<1>. QED
  BY <1>1, <1>2, <1>5, <1>6 DEF Next

(* The runtime settings are changed in one step: to the admins, and to     *)
(* whoever starts a replica, Apply and Load behave as the register does,   *)
(* whatever falls between their statements.                                *)
THEOREM Refinement == Spec => ImplementsRegister
<1>1. Init => Register!Init
  BY InitRefines
<1>2. IInv /\ Laid /\ [Next]_vars => [Register!Next]_(Register!vars)
  BY NextRefines
<1>. QED
  BY <1>1, <1>2, LaidHolds, PTL DEF Spec, ImplementsRegister, Register!Spec
=============================================================================
