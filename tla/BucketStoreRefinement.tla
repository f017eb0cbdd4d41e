----------------------- MODULE BucketStoreRefinement -----------------------
(***************************************************************************)
(* BucketStore implements ArtifactStore with the lapses of its driver:     *)
(* proof of the refinement, one lemma per kind of request, that names the  *)
(* step of the contract, or the stutter, that each action is.              *)
(***************************************************************************)
EXTENDS BucketStoreProofs

(* An empty bucket is an empty store. *)
LEMMA InitRefines == Init => Contract!Init
BY DEF Init, Contract!Init

(* The bodies and lengths of both modules are the same. *)
LEMMA SameWhole == \A b \in Bodies : Contract!WholeOf(b) = [body |-> b, len |-> Length[b]]
BY DEF Contract!WholeOf

(* A request made of the driver is a request made of the contract. *)
LEMMA InvokeRefines ==
    ASSUME IInv, NEW c \in Callers, Invoke(c)
    PROVE  Contract!Invoke(c)
<1>1. Contract!Requests = Requests
  BY DEF Requests, PutRequests, HashRequests,
         Contract!Requests, Contract!PutRequests, Contract!HashRequests
<1>. QED
  BY <1>1 DEF IInv, Shape, Invoke, Contract!Invoke

(* A call that is not decided may fail. *)
LEMMA RequestFailsRefines ==
    ASSUME IInv, NEW c \in Callers, RequestFails(c)
    PROVE  Contract!Fail(c)
BY DEF IInv, Shape, RequestFails, Settle, Contract!Fail, Contract!Decide

(* What is on its way is one of the effects its request may have. *)
LEMMA DelayRefines ==
    ASSUME IInv, NEW c \in Callers, Delay(c)
    PROVE  Contract!Delay(c, Lapses)
<1>. DEFINE n == IF pc[c] = "upload" THEN Length[call[c].body] ELSE sent[c]
<1>1. /\ call[c] # None /\ "late" \in Lapses /\ pc[c] # "idle"
      /\ pc[c] \in {"upload", "close", "again", "abandon", "delete"}
  BY DEF IInv, Shape, Delay, Lapses
<1>2. CASE pc[c] = "delete"
  <2>1. call[c].op = "delete" /\ late' = late \cup {[hash |-> call[c].hash, object |-> None]}
    BY <1>2 DEF IInv, Shape, Delay, Hash
  <2>. QED
    BY <1>1, <2>1 DEF Delay, Contract!Delay, Contract!Effect
<1>3. CASE pc[c] # "delete"
  <2>1. /\ call[c] \in PutRequests /\ call[c].op = "put" /\ call[c].body \in Bodies
        /\ Length[call[c].body] \in Nat /\ sent[c] \in Nat /\ sent[c] <= Length[call[c].body]
    BY <1>1, <1>3, Asked DEF IInv, TypeOK, Shape
  <2>2. n \in 0 .. Length[call[c].body]
    BY <2>1
  <2>3. "truncate" \notin Lapses => n = Length[call[c].body]
    BY <1>1, <1>3 DEF IInv, Shape, Lapses
  <2>4. late' = late \cup {[hash |-> call[c].hash,
                            object |-> [body |-> call[c].body, len |-> n]]}
    BY <1>3 DEF Delay, Hash, WholeOf
  <2>5. [hash |-> call[c].hash, object |-> [body |-> call[c].body, len |-> n]]
          \in Contract!Effect(call[c], Lapses)
    <3>. HIDE DEF n
    <3>. QED
      BY <2>1, <2>2, <2>3 DEF Contract!Effect
  <2>. QED
    BY <1>1, <2>4, <2>5 DEF Delay, Contract!Delay
<1>. QED
  BY <1>2, <1>3

(* S3 replaces with what arrives late, GCS does not. *)
LEMMA ArriveRefines ==
    ASSUME IInv, NEW e \in late, Arrive(e)
    PROVE  Contract!Arrive(Lapses)
BY DriversAssumption DEF IInv, TypeOK, Arrive, Lapses, Contract!Arrive

(* The requests of the S3 driver. *)
LEMMA S3ExistsRefines ==
    ASSUME IInv, NEW c \in Callers, S3Exists(c)
    PROVE  Contract!RefusePut(c) \/ Contract!Miss(c) \/ UNCHANGED Contract!vars
<1>1. call[c] # None /\ ret[c] = None
  BY DEF IInv, Shape, S3Exists
<1>. QED
  BY <1>1 DEF S3Exists, Settle, Goto, Present, Hash, Contract!RefusePut, Contract!Miss,
     Contract!Undecided, Contract!Decide, Contract!vars

LEMMA S3PutObjectRefines ==
    ASSUME IInv, NEW c \in Callers, S3PutObject(c)
    PROVE  Contract!TakePut(c, Lapses)
<1>1. /\ call[c] # None /\ ret[c] = None /\ driver = "s3" /\ call[c].op = "put"
      /\ call[c].body \in Bodies
  BY Asked DEF IInv, Shape, S3PutObject
<1>. QED
  BY <1>1, SameWhole DEF S3PutObject, Settle, Store, Hash, Lapses, Contract!TakePut,
     Contract!Undecided, Contract!Decide

LEMMA S3DeleteObjectRefines ==
    ASSUME IInv, NEW c \in Callers, S3DeleteObject(c)
    PROVE  Contract!TakeDelete(c, Lapses)
<1>1. call[c] # None /\ ret[c] = None /\ call[c].op = "delete"
  BY DEF IInv, Shape, S3DeleteObject
<1>. QED
  BY <1>1 DEF S3DeleteObject, Settle, Hash, Lapses, Contract!TakeDelete,
     Contract!Undecided, Contract!Decide

(* The requests of the GCS driver. *)
LEMMA GcsCloseRefines ==
    ASSUME IInv, NEW c \in Callers, GcsClose(c)
    PROVE  Contract!TakePut(c, Lapses) \/ Contract!RefusePut(c)
<1>1. /\ call[c] # None /\ ret[c] = None /\ call[c].op = "put" /\ call[c].body \in Bodies
      /\ sent[c] = Length[call[c].body]
  BY Asked DEF IInv, Shape, GcsClose
<1>. QED
  BY <1>1, SameWhole DEF GcsClose, Settle, Store, Present, Hash, Contract!TakePut,
     Contract!RefusePut, Contract!Undecided, Contract!Decide

LEMMA GcsCloseAgainRefines ==
    ASSUME IInv, NEW c \in Callers, GcsCloseAgain(c)
    PROVE  Contract!RepeatPut(c, Lapses) \/ UNCHANGED Contract!vars
<1>1. /\ ret[c] = "ok" /\ driver = "gcs" /\ call[c].op = "put" /\ call[c].body \in Bodies
      /\ call[c] # None /\ sent[c] = Length[call[c].body]
  BY Asked DEF IInv, Shape, GcsCloseAgain
<1>. QED
  BY <1>1, SameWhole DEF GcsCloseAgain, Store, Present, Hash, Lapses, Contract!RepeatPut,
     Contract!vars

LEMMA GcsAbandonRefines ==
    ASSUME IInv, NEW c \in Callers, GcsAbandon(c)
    PROVE  Contract!TruncatePut(c, Lapses) \/ Contract!Fail(c)
<1>1. /\ call[c] # None /\ ret[c] = None /\ driver = "gcs" /\ call[c].op = "put"
      /\ Length[call[c].body] \in Nat
  BY Asked DEF IInv, Shape, GcsAbandon
<1>2. sent[c] \in 0 .. Length[call[c].body] - 1
  BY <1>1 DEF IInv, TypeOK, Shape, GcsAbandon
<1>3. CASE ~ Present(c) /\ Store(c, sent[c])
  BY <1>1, <1>2, <1>3 DEF GcsAbandon, Settle, Store, Present, Hash, Lapses,
     Contract!TruncatePut, Contract!Undecided, Contract!Decide
<1>4. CASE UNCHANGED bucket
  BY <1>1, <1>4 DEF GcsAbandon, Settle, Contract!Fail, Contract!Decide
<1>. QED
  BY <1>3, <1>4 DEF GcsAbandon

LEMMA GcsDeleteRefines ==
    ASSUME IInv, NEW c \in Callers, GcsDelete(c)
    PROVE  Contract!TakeDelete(c, Lapses) \/ Contract!Miss(c)
<1>1. call[c] # None /\ ret[c] = None /\ call[c].op = "delete" /\ Hash(c) \in Hashes
  BY Asked DEF IInv, Shape, GcsDelete
<1>2. CASE Present(c)
  BY <1>1, <1>2 DEF GcsDelete, Settle, Present, Hash, Contract!TakeDelete,
     Contract!Undecided, Contract!Decide
<1>3. CASE ~ Present(c)
  <2>1. bucket' = bucket
    BY <1>1, <1>3 DEF GcsDelete, Present, IInv, TypeOK
  <2>. QED
    BY <1>1, <1>3, <2>1 DEF GcsDelete, Settle, Present, Hash, Contract!Miss,
       Contract!Undecided, Contract!Decide
<1>. QED
  BY <1>2, <1>3

(* What a Get streams is what it found. *)
LEMMA GetRefines ==
    ASSUME IInv, NEW c \in Callers, Get(c)
    PROVE  Contract!Read(c) \/ Contract!Miss(c)
<1>1. call[c] # None /\ ret[c] = None /\ call[c].op = "get"
  BY DEF IInv, Shape, Get
<1>. QED
  BY <1>1 DEF Get, Settle, Present, Hash, Contract!Read, Contract!Miss,
     Contract!Undecided, Contract!Decide

(* A caller is told what was decided, an error, or, of an upload that was  *)
(* sent twice, that the object exists.                                     *)
LEMMA ReturnRefines ==
    ASSUME IInv, NEW c \in Callers, Return(c)
    PROVE  Contract!Return(c, Lapses)
<1>1. Reported(c) \subseteq Contract!Reportable(c, Lapses)
  BY Asked DEF IInv, Shape, Reported, Lapses, Contract!Reportable
<1>2. call[c] # None /\ ret[c] # None
  BY NoneAssumption DEF IInv, Shape, Return, Reported, Verdicts
<1>. QED
  BY <1>1, <1>2 DEF Return, Contract!Return

LEMMA CrashRefines ==
    ASSUME Crash
    PROVE  Contract!Crash
BY DEF Crash, Contract!Crash

(* Every step of a driver is a step of the contract with its lapses. *)
LEMMA NextRefines ==
    ASSUME IInv, [Next]_vars
    PROVE  [Contract!Step(Lapses)]_(Contract!vars)
<1>. USE DEF Contract!Step
<1>1. ASSUME NEW c \in Callers,
             Invoke(c) \/ RequestFails(c) \/ Delay(c) \/ Get(c) \/ Return(c)
      PROVE  Contract!Step(Lapses)
  BY <1>1, InvokeRefines, RequestFailsRefines, DelayRefines, GetRefines, ReturnRefines
<1>2. ASSUME NEW c \in Callers, S3Exists(c) \/ S3PutObject(c) \/ S3DeleteObject(c)
      PROVE  Contract!Step(Lapses) \/ UNCHANGED Contract!vars
  BY <1>2, S3ExistsRefines, S3PutObjectRefines, S3DeleteObjectRefines
<1>3. ASSUME NEW c \in Callers, GcsCopy(c) \/ GcsCopied(c)
      PROVE  UNCHANGED Contract!vars
  BY <1>3 DEF GcsCopy, GcsCopied, Contract!vars
<1>4. ASSUME NEW c \in Callers,
             GcsClose(c) \/ GcsCloseAgain(c) \/ GcsAbandon(c) \/ GcsDelete(c)
      PROVE  Contract!Step(Lapses) \/ UNCHANGED Contract!vars
  BY <1>4, GcsCloseRefines, GcsCloseAgainRefines, GcsAbandonRefines, GcsDeleteRefines
<1>5. ASSUME NEW e \in late, Arrive(e) PROVE Contract!Step(Lapses)
  BY <1>5, ArriveRefines
<1>6. CASE Crash
  BY <1>6, CrashRefines
<1>7. CASE UNCHANGED vars
  BY <1>7 DEF vars, Contract!vars
<1>. QED
  BY <1>1, <1>2, <1>3, <1>4, <1>5, <1>6, <1>7 DEF Next

(* Whatever requests and crashes fall between the steps of a call and      *)
(* whatever arrives late, S3 and GCS give up the promises named in Lapses  *)
(* and no other.                                                           *)
THEOREM Refinement == Spec => KeepsRestOfContract
<1>1. Init => Contract!Init
  BY InitRefines
<1>2. IInv /\ [Next]_vars => [Contract!Step(Lapses)]_(Contract!vars)
  BY NextRefines
<1>. QED
  BY <1>1, <1>2, Inductive, PTL DEF Spec, KeepsRestOfContract
=============================================================================
