--------------------------- MODULE ArtifactStore ---------------------------
(***************************************************************************)
(* What storage.Backend promises its callers, as one atomic step per call. *)
(*                                                                         *)
(* A call is invoked, is decided once, at one instant between its          *)
(* invocation and its return, and returns.  A Put decided at an instant at *)
(* which its hash is absent stores the whole body; at an instant at which  *)
(* the hash is present it is refused with ErrAlreadyExists.  Any call may  *)
(* end in another error, before or after it has taken effect.              *)
(*                                                                         *)
(* Step({}) is that contract.  The object-store drivers keep only part of  *)
(* it; Step(lapses) is the contract with the named promises given up:      *)
(*   "overwrite"   a Put may replace an artifact already stored            *)
(*   "truncate"    a Put may store part of its body and report an error    *)
(*   "selfdenial"  a Put that stored its body may report ErrAlreadyExists  *)
(*   "repeat"      a Put that stored its body may store it again after a   *)
(*                 Delete                                                  *)
(*   "late"        a copy of a Put or a Delete may take effect at any time, *)
(*                 also after its call was over, with or without success   *)
(*   "blindness"   a Delete may report success without having removed      *)
(*                 anything                                                *)
(***************************************************************************)
EXTENDS Artifacts

VARIABLES
    stored,     \* what the backend holds under each hash
    call,       \* the request each caller has in flight
    fate,       \* how that request was decided, None until it is
    answer,     \* what the caller was last told
    read,       \* the artifact a Get found, and handed out once it returned
    late        \* what may still become of requests that are on their way

vars == <<stored, call, fate, answer, read, late>>

TypeOK ==
    /\ stored \in [Hashes -> Artifact \cup {None}]
    /\ call \in [Callers -> Requests \cup {None}]
    /\ fate \in [Callers -> Verdicts \cup {None}]
    /\ answer \in [Callers -> Verdicts \cup {None}]
    /\ read \in [Callers -> Artifact \cup {None}]
    /\ late \in SUBSET Effects

Init ==
    /\ stored = [h \in Hashes |-> None]
    /\ call = [c \in Callers |-> None]
    /\ fate = [c \in Callers |-> None]
    /\ answer = [c \in Callers |-> None]
    /\ read = [c \in Callers |-> None]
    /\ late = {}

Invoke(c) ==
    /\ call[c] = None
    /\ \E r \in Requests : call' = [call EXCEPT ![c] = r]
    /\ answer' = [answer EXCEPT ![c] = None]
    /\ read' = [read EXCEPT ![c] = None]
    /\ UNCHANGED <<stored, fate, late>>

(* Caller c has a request for operation op that is not decided yet. *)
Undecided(c, op) ==
    /\ call[c] # None
    /\ call[c].op = op
    /\ fate[c] = None

Decide(c, f) ==
    /\ fate' = [fate EXCEPT ![c] = f]
    /\ UNCHANGED <<call, answer, late>>

TakePut(c, lapses) ==
    /\ Undecided(c, "put")
    /\ stored[call[c].hash] = None \/ "overwrite" \in lapses
    /\ stored' = [stored EXCEPT ![call[c].hash] = WholeOf(call[c].body)]
    /\ Decide(c, "ok")
    /\ UNCHANGED read

TruncatePut(c, lapses) ==
    /\ Undecided(c, "put")
    /\ "truncate" \in lapses
    /\ stored[call[c].hash] = None
    /\ \E n \in 0 .. Length[call[c].body] - 1 :
         stored' = [stored EXCEPT ![call[c].hash] = [body |-> call[c].body, len |-> n]]
    /\ Decide(c, "error")
    /\ UNCHANGED read

(* The lapse "repeat": the call has taken effect and does so once more. *)
RepeatPut(c, lapses) ==
    /\ "repeat" \in lapses
    /\ fate[c] = "ok"
    /\ call[c].op = "put"
    /\ stored[call[c].hash] = None
    /\ stored' = [stored EXCEPT ![call[c].hash] = WholeOf(call[c].body)]
    /\ UNCHANGED <<call, fate, answer, read, late>>

(* What a request may still do to the store while it is on its way. *)
Effect(r, lapses) ==
    CASE r.op = "put" -> {[hash |-> r.hash, object |-> [body |-> r.body, len |-> n]] :
                          n \in IF "truncate" \in lapses THEN 0 .. Length[r.body]
                                                        ELSE {Length[r.body]}}
      [] r.op = "delete" -> {[hash |-> r.hash, object |-> None]}
      [] OTHER -> {}

(* The lapse "late": a copy of the request stays on its way ... *)
Delay(c, lapses) ==
    /\ "late" \in lapses
    /\ call[c] # None
    /\ \E e \in Effect(call[c], lapses) : late' = late \cup {e}
    /\ UNCHANGED <<stored, call, fate, answer, read>>

(* ... and takes effect in the end, or comes to nothing. *)
Arrive(lapses) ==
    /\ \E e \in late :
         /\ late' = late \ {e}
         /\ \/ /\ e.object = None \/ stored[e.hash] = None \/ "overwrite" \in lapses
               /\ stored' = [stored EXCEPT ![e.hash] = e.object]
            \/ UNCHANGED stored
    /\ UNCHANGED <<call, fate, answer, read>>

RefusePut(c) ==
    /\ Undecided(c, "put")
    /\ stored[call[c].hash] # None
    /\ Decide(c, "exists")
    /\ UNCHANGED <<stored, read>>

TakeDelete(c, lapses) ==
    /\ Undecided(c, "delete")
    /\ stored[call[c].hash] # None \/ "blindness" \in lapses
    /\ stored' = [stored EXCEPT ![call[c].hash] = None]
    /\ Decide(c, "ok")
    /\ UNCHANGED read

Read(c) ==
    /\ Undecided(c, "get")
    /\ stored[call[c].hash] # None
    /\ read' = [read EXCEPT ![c] = stored[call[c].hash]]
    /\ Decide(c, "ok")
    /\ UNCHANGED stored

Miss(c) ==
    /\ Undecided(c, "get") \/ Undecided(c, "delete")
    /\ stored[call[c].hash] = None
    /\ Decide(c, "notfound")
    /\ UNCHANGED <<stored, read>>

(* Whatever it was asked, a call may fail without having done anything. *)
Fail(c) ==
    /\ call[c] # None
    /\ fate[c] = None
    /\ Decide(c, "error")
    /\ UNCHANGED <<stored, read>>

(* What a decided call may tell its caller: its fate, or an error when the *)
(* answer is lost on the way.                                              *)
Reportable(c, lapses) ==
    {fate[c], "error"}
        \cup {v \in {"exists"} :
                fate[c] = "ok" /\ call[c].op = "put" /\ "selfdenial" \in lapses}

Return(c, lapses) ==
    /\ call[c] # None
    /\ fate[c] # None
    /\ \E a \in Reportable(c, lapses) :
         /\ answer' = [answer EXCEPT ![c] = a]
         /\ read' = IF a = "ok" THEN read ELSE [read EXCEPT ![c] = None]
    /\ call' = [call EXCEPT ![c] = None]
    /\ fate' = [fate EXCEPT ![c] = None]
    /\ UNCHANGED <<stored, late>>

(* The process dies: what is stored survives, every call in flight is cut. *)
Crash ==
    /\ answer' = [c \in Callers |-> IF call[c] # None THEN "error" ELSE answer[c]]
    /\ read' = [c \in Callers |-> IF call[c] # None THEN None ELSE read[c]]
    /\ call' = [c \in Callers |-> None]
    /\ fate' = [c \in Callers |-> None]
    /\ UNCHANGED <<stored, late>>

Step(lapses) ==
    \/ \E c \in Callers :
         \/ Invoke(c)
         \/ TakePut(c, lapses)
         \/ TruncatePut(c, lapses)
         \/ RepeatPut(c, lapses)
         \/ Delay(c, lapses)
         \/ RefusePut(c)
         \/ TakeDelete(c, lapses)
         \/ Read(c)
         \/ Miss(c)
         \/ Fail(c)
         \/ Return(c, lapses)
    \/ Arrive(lapses)
    \/ Crash

Next == Step({})

Spec == Init /\ [][Next]_vars
=============================================================================
