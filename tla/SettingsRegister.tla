-------------------------- MODULE SettingsRegister --------------------------
(***************************************************************************)
(* What internal/settings promises the admins: settings that change in one *)
(* step.  A change either is refused and changes nothing, or takes effect  *)
(* at one instant between its request and its answer: it is laid over what *)
(* its replica reports at that instant, must be valid and work, is stored, *)
(* and is what that replica reports from then on.                          *)
(*                                                                         *)
(* Two things are weaker than a register.  A change may be stored and its  *)
(* request fail, when the answer of the database is lost: the replica then *)
(* goes on with what it had.  And a replica reads what is stored only when *)
(* it starts: what another one stores later does not reach it.             *)
(***************************************************************************)
EXTENDS Configurations

VARIABLES
    stored,     \* the settings in the database
    reported,   \* the settings of each replica, None while it has none
    asked,      \* the request each handler serves
    taken       \* the requests that have taken effect

vars == <<stored, reported, asked, taken>>

Asked == [op : {"get"}, in : {None}] \cup [op : {"put"}, in : Inputs]

TypeOK ==
    /\ stored \in Config
    /\ reported \in [Replicas -> Config \cup {None}]
    /\ asked \in [Handlers -> Asked \cup {None}]
    /\ taken \in SUBSET Handlers

Init ==
    /\ stored = Seed
    /\ reported = [p \in Replicas |-> None]
    /\ asked = [r \in Handlers |-> None]
    /\ taken = {}

(* A replica takes on what is stored ... *)
Load(p) ==
    /\ reported[p] = None
    /\ reported' = [reported EXCEPT ![p] = stored]
    /\ UNCHANGED <<stored, asked, taken>>

(* ... and is gone, with the requests it was serving.  What was stored stays. *)
Stop(p) ==
    /\ reported' = [reported EXCEPT ![p] = None]
    /\ asked' = [r \in Handlers |-> IF Replica[r] = p THEN None ELSE asked[r]]
    /\ taken' = {r \in taken : Replica[r] # p}
    /\ UNCHANGED stored

(* Only a replica that has its settings is asked for anything. *)
Ask(r) ==
    /\ asked[r] = None
    /\ reported[Replica[r]] # None
    /\ \E a \in Asked : asked' = [asked EXCEPT ![r] = a]
    /\ UNCHANGED <<stored, reported, taken>>

(* What the request of handler r would make of the settings. *)
Wanted(r) == Merge(reported[Replica[r]], asked[r].in)

(* The request is a change that is valid and works, and is stored now. *)
Store(r) ==
    /\ asked[r] # None /\ asked[r].op = "put"
    /\ r \notin taken
    /\ Valid(Wanted(r)) /\ Works(Wanted(r))
    /\ stored' = Wanted(r)

Change(r) ==
    /\ Store(r)
    /\ reported' = [reported EXCEPT ![Replica[r]] = Wanted(r)]
    /\ taken' = taken \cup {r}
    /\ UNCHANGED asked

(* Stored, and answered with an error. *)
Lose(r) ==
    /\ Store(r)
    /\ asked' = [asked EXCEPT ![r] = None]
    /\ UNCHANGED <<reported, taken>>

(* The request is answered: a read, a change made, or a change refused. *)
Answer(r) ==
    /\ asked[r] # None
    /\ asked' = [asked EXCEPT ![r] = None]
    /\ taken' = taken \ {r}
    /\ UNCHANGED <<stored, reported>>

Next ==
    \/ \E p \in Replicas : Load(p) \/ Stop(p)
    \/ \E r \in Handlers : Ask(r) \/ Change(r) \/ Lose(r) \/ Answer(r)

Spec == Init /\ [][Next]_vars
=============================================================================
