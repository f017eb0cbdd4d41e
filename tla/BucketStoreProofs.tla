------------------------- MODULE BucketStoreProofs -------------------------
(***************************************************************************)
(* Proofs about BucketStore: for any number of callers, hashes, bodies and *)
(* delayed requests, both object-store drivers keep the contract of        *)
(* storage.Backend but for the lapses they are declared to have.           *)
(***************************************************************************)
EXTENDS BucketStore, TLAPS

(* What each stage of a call relies on: whose request it is, which driver  *)
(* has this stage, what is decided, and how much of the body was sent.     *)
Shape(c) ==
    /\ pc[c] = "idle" <=> call[c] = None
    /\ pc[c] \in {"upload", "copy", "close", "again", "abandon", "denied"} =>
         call[c] \in PutRequests
    /\ pc[c] \in {"head", "upload"} => driver = "s3"
    /\ pc[c] \in {"copy", "close", "again", "abandon", "denied"} => driver = "gcs"
    /\ pc[c] = "open" => call[c].op = "get"
    /\ pc[c] = "delete" => call[c].op = "delete"
    /\ pc[c] = "head" => call[c].op \in {"put", "delete"}
    /\ pc[c] \in {"again", "denied"} => ret[c] = "ok"
    /\ pc[c] = "return" => ret[c] # None
    /\ pc[c] \notin {"again", "denied", "return"} => ret[c] = None
    /\ pc[c] \in {"close", "again", "denied"} => sent[c] = Length[call[c].body]
    /\ pc[c] = "abandon" => sent[c] < Length[call[c].body]
    /\ pc[c] = "idle" => sent[c] = 0

(* S3 never stores a part of a body, however late. *)
LateWhole == driver = "s3" => \A e \in late : e.object # None => Whole(e.object)

IInv ==
    /\ TypeOK
    /\ \A c \in Callers : Shape(c)
    /\ LateWhole

(* Every request has a hash, a put a body and a length. *)
LEMMA Asked ==
    ASSUME IInv, NEW c \in Callers, call[c] # None
    PROVE  /\ call[c] \in Requests /\ Hash(c) \in Hashes
           /\ call[c].op = "put" => call[c] \in PutRequests
           /\ call[c] \in PutRequests => /\ call[c].op = "put" /\ call[c].body \in Bodies
                                         /\ Length[call[c].body] \in Nat \ {0}
<1>1. call[c] \in Requests
  BY DEF IInv, TypeOK
<1>. QED
  BY <1>1, LengthAssumption DEF Requests, PutRequests, HashRequests, Hash

(* What a put stores is an artifact. *)
LEMMA StoresArtifact ==
    ASSUME NEW b \in Bodies, NEW n \in Nat, n <= Length[b]
    PROVE  [body |-> b, len |-> n] \in Artifact
BY DEF Artifact

(* The invariant holds at the start. *)
LEMMA InitInv == Init => IInv
<1>. SUFFICES ASSUME Init PROVE IInv
  OBVIOUS
<1>1. TypeOK
  BY NoneAssumption DEF Init, TypeOK, Labels, Requests, PutRequests
<1>2. \A c \in Callers : Shape(c)
  BY DEF Init, Shape
<1>3. LateWhole
  BY DEF Init, LateWhole
<1>. QED
  BY <1>1, <1>2, <1>3 DEF IInv
(* Calls begin at the stage their driver gives them. *)
LEMMA InvokeKeeps ==
    ASSUME IInv, NEW c \in Callers, Invoke(c)
    PROVE  IInv'
<1>. USE DEF IInv, TypeOK
<1>1. PICK r \in Requests : call' = [call EXCEPT ![c] = r] /\ Goto(c, Entry(r))
  BY DEF Invoke
<1>2. /\ Entry(r) \in Labels \ {"idle"} /\ r # None
      /\ Entry(r) = "copy" => r \in PutRequests /\ driver = "gcs"
      /\ Entry(r) = "head" => r.op \in {"put", "delete"} /\ driver = "s3"
      /\ Entry(r) = "open" => r.op = "get"
      /\ Entry(r) = "delete" => r.op = "delete"
      /\ Entry(r) \in {"copy", "head", "open", "delete"}
  BY NoneAssumption, DriversAssumption
     DEF Entry, Labels, Requests, PutRequests, HashRequests
<1>3. sent[c] = 0 /\ ret[c] = None
  BY DEF Invoke, Shape
<1>4. r \in PutRequests => Length[r.body] \in Nat \ {0}
  BY LengthAssumption DEF PutRequests
<1>5. TypeOK'
  BY <1>1, <1>2, <1>3, <1>4 DEF Invoke, Goto
<1>6. ASSUME NEW d \in Callers PROVE Shape(d)'
  BY <1>1, <1>2, <1>3 DEF Invoke, Goto, Shape
<1>7. LateWhole'
  BY DEF LateWhole, Invoke
<1>. QED
  BY <1>5, <1>6, <1>7

(* A request that fails decides its call. *)
LEMMA RequestFailsKeeps ==
    ASSUME IInv, NEW c \in Callers, RequestFails(c)
    PROVE  IInv'
<1>. USE DEF IInv, TypeOK, RequestFails
<1>1. TypeOK'
  BY Asked, NoneAssumption DEF Settle, Goto, Labels, Verdicts, Shape
<1>2. ASSUME NEW d \in Callers PROVE Shape(d)'
  BY Asked, NoneAssumption DEF Settle, Goto, Shape, Verdicts
<1>3. LateWhole'
  BY DEF LateWhole
<1>. QED
  BY <1>1, <1>2, <1>3

(* What is delayed is what would have been applied. *)
LEMMA DelayKeeps ==
    ASSUME IInv, NEW c \in Callers, Delay(c)
    PROVE  IInv'
<1>. USE DEF IInv, TypeOK
<1>. DEFINE o == CASE pc[c] = "delete" -> None
                   [] pc[c] = "upload" -> WholeOf(call[c].body)
                   [] OTHER -> [body |-> call[c].body, len |-> sent[c]]
<1>1. call[c] # None /\ Hash(c) \in Hashes
  BY Asked DEF Delay, Shape
<1>2. pc[c] # "delete" => /\ call[c] \in PutRequests /\ call[c].body \in Bodies
                          /\ Length[call[c].body] \in Nat /\ sent[c] <= Length[call[c].body]
  BY <1>1, Asked DEF Delay, Shape
<1>3. o \in Artifact \cup {None} /\ (driver = "s3" /\ o # None => Whole(o))
  <2>1. CASE pc[c] = "delete"
    BY <2>1
  <2>2. CASE pc[c] = "upload"
    BY <1>2, <2>2, StoresArtifact DEF WholeOf, Whole
  <2>3. CASE pc[c] \notin {"delete", "upload"}
    BY <1>2, <2>3, StoresArtifact DEF Delay, Shape
  <2>. QED
    BY <2>1, <2>2, <2>3
<1>4. late' = late \cup {[hash |-> Hash(c), object |-> o]}
  BY DEF Delay
<1>5. [hash |-> Hash(c), object |-> o] \in Effects
  BY <1>1, <1>3 DEF Effects
<1>. HIDE DEF o
<1>6. TypeOK'
  BY <1>4, <1>5 DEF Delay, Goto, Labels
<1>7. ASSUME NEW d \in Callers PROVE Shape(d)'
  BY DEF Delay, Retried, Goto, Shape
<1>8. LateWhole'
  BY <1>3, <1>4 DEF LateWhole, Delay
<1>. QED
  BY <1>6, <1>7, <1>8

(* The requests of the S3 driver. *)
LEMMA S3ExistsKeeps ==
    ASSUME IInv, NEW c \in Callers, S3Exists(c)
    PROVE  IInv'
<1>. USE DEF IInv, TypeOK, S3Exists
<1>1. TypeOK'
  BY Asked, NoneAssumption DEF Settle, Goto, Labels, Verdicts, Shape, Present, Hash
<1>2. ASSUME NEW d \in Callers PROVE Shape(d)'
  BY Asked, NoneAssumption DEF Settle, Goto, Shape, Verdicts, Present, Hash
<1>3. LateWhole'
  BY DEF LateWhole
<1>. QED
  BY <1>1, <1>2, <1>3

LEMMA S3PutObjectKeeps ==
    ASSUME IInv, NEW c \in Callers, S3PutObject(c)
    PROVE  IInv'
<1>. USE DEF IInv, TypeOK, S3PutObject
<1>1. /\ call[c] \in PutRequests /\ Hash(c) \in Hashes /\ call[c].body \in Bodies
      /\ Length[call[c].body] \in Nat /\ sent[c] <= Length[call[c].body]
  BY Asked DEF Shape
<1>2. /\ [body |-> call[c].body, len |-> sent[c]] \in Artifact
      /\ [body |-> call[c].body, len |-> Length[call[c].body]] \in Artifact
  BY <1>1, StoresArtifact
<1>3. bucket' \in [Hashes -> Artifact \cup {None}]
  BY <1>1, <1>2 DEF Store
<1>4. TypeOK'
  BY <1>3 DEF Settle, Goto, Labels, Verdicts
<1>5. ASSUME NEW d \in Callers PROVE Shape(d)'
  BY NoneAssumption DEF Settle, Goto, Shape, Verdicts
<1>6. LateWhole'
  BY DEF LateWhole
<1>. QED
  BY <1>4, <1>5, <1>6

LEMMA S3DeleteObjectKeeps ==
    ASSUME IInv, NEW c \in Callers, S3DeleteObject(c)
    PROVE  IInv'
<1>. USE DEF IInv, TypeOK, S3DeleteObject
<1>1. TypeOK'
  BY Asked, NoneAssumption DEF Settle, Goto, Labels, Verdicts, Shape, Hash
<1>2. ASSUME NEW d \in Callers PROVE Shape(d)'
  BY Asked, NoneAssumption DEF Settle, Goto, Shape, Verdicts, Hash
<1>3. LateWhole'
  BY DEF LateWhole
<1>. QED
  BY <1>1, <1>2, <1>3

(* The requests of the GCS driver. *)
LEMMA GcsCopyKeeps ==
    ASSUME IInv, NEW c \in Callers, GcsCopy(c)
    PROVE  IInv'
<1>. USE DEF IInv, TypeOK, GcsCopy
<1>1. TypeOK'
  BY Asked, NoneAssumption DEF Settle, Goto, Labels, Verdicts, Shape
<1>2. ASSUME NEW d \in Callers PROVE Shape(d)'
  BY Asked, NoneAssumption DEF Settle, Goto, Shape, Verdicts
<1>3. LateWhole'
  BY DEF LateWhole
<1>. QED
  BY <1>1, <1>2, <1>3

LEMMA GcsCopiedKeeps ==
    ASSUME IInv, NEW c \in Callers, GcsCopied(c)
    PROVE  IInv'
<1>. USE DEF IInv, TypeOK, GcsCopied
<1>1. TypeOK'
  BY Asked, NoneAssumption DEF Settle, Goto, Labels, Verdicts, Shape
<1>2. ASSUME NEW d \in Callers PROVE Shape(d)'
  BY Asked, NoneAssumption DEF Settle, Goto, Shape, Verdicts
<1>3. LateWhole'
  BY DEF LateWhole
<1>. QED
  BY <1>1, <1>2, <1>3

LEMMA GcsCloseKeeps ==
    ASSUME IInv, NEW c \in Callers, GcsClose(c)
    PROVE  IInv'
<1>. USE DEF IInv, TypeOK, GcsClose
<1>1. /\ call[c] \in PutRequests /\ Hash(c) \in Hashes /\ call[c].body \in Bodies
      /\ Length[call[c].body] \in Nat /\ sent[c] <= Length[call[c].body]
  BY Asked DEF Shape
<1>2. /\ [body |-> call[c].body, len |-> sent[c]] \in Artifact
      /\ [body |-> call[c].body, len |-> Length[call[c].body]] \in Artifact
  BY <1>1, StoresArtifact
<1>3. bucket' \in [Hashes -> Artifact \cup {None}]
  BY <1>1, <1>2 DEF Store
<1>4. TypeOK'
  BY <1>3 DEF Settle, Goto, Labels, Verdicts
<1>5. ASSUME NEW d \in Callers PROVE Shape(d)'
  BY NoneAssumption DEF Settle, Goto, Shape, Verdicts
<1>6. LateWhole'
  BY DEF LateWhole
<1>. QED
  BY <1>4, <1>5, <1>6

LEMMA GcsCloseAgainKeeps ==
    ASSUME IInv, NEW c \in Callers, GcsCloseAgain(c)
    PROVE  IInv'
<1>. USE DEF IInv, TypeOK, GcsCloseAgain
<1>1. /\ call[c] \in PutRequests /\ Hash(c) \in Hashes /\ call[c].body \in Bodies
      /\ Length[call[c].body] \in Nat /\ sent[c] <= Length[call[c].body]
  BY Asked DEF Shape
<1>2. /\ [body |-> call[c].body, len |-> sent[c]] \in Artifact
      /\ [body |-> call[c].body, len |-> Length[call[c].body]] \in Artifact
  BY <1>1, StoresArtifact
<1>3. bucket' \in [Hashes -> Artifact \cup {None}]
  BY <1>1, <1>2 DEF Store
<1>4. TypeOK'
  BY <1>3 DEF Settle, Goto, Labels, Verdicts
<1>5. ASSUME NEW d \in Callers PROVE Shape(d)'
  BY NoneAssumption DEF Settle, Goto, Shape, Verdicts
<1>6. LateWhole'
  BY DEF LateWhole
<1>. QED
  BY <1>4, <1>5, <1>6

LEMMA GcsAbandonKeeps ==
    ASSUME IInv, NEW c \in Callers, GcsAbandon(c)
    PROVE  IInv'
<1>. USE DEF IInv, TypeOK, GcsAbandon
<1>1. /\ call[c] \in PutRequests /\ Hash(c) \in Hashes /\ call[c].body \in Bodies
      /\ Length[call[c].body] \in Nat /\ sent[c] <= Length[call[c].body]
  BY Asked DEF Shape
<1>2. /\ [body |-> call[c].body, len |-> sent[c]] \in Artifact
      /\ [body |-> call[c].body, len |-> Length[call[c].body]] \in Artifact
  BY <1>1, StoresArtifact
<1>3. bucket' \in [Hashes -> Artifact \cup {None}]
  BY <1>1, <1>2 DEF Store
<1>4. TypeOK'
  BY <1>3 DEF Settle, Goto, Labels, Verdicts
<1>5. ASSUME NEW d \in Callers PROVE Shape(d)'
  BY NoneAssumption DEF Settle, Goto, Shape, Verdicts
<1>6. LateWhole'
  BY DEF LateWhole
<1>. QED
  BY <1>4, <1>5, <1>6

LEMMA GcsDeleteKeeps ==
    ASSUME IInv, NEW c \in Callers, GcsDelete(c)
    PROVE  IInv'
<1>. USE DEF IInv, TypeOK, GcsDelete
<1>1. TypeOK'
  BY Asked, NoneAssumption DEF Settle, Goto, Labels, Verdicts, Shape, Present, Hash
<1>2. ASSUME NEW d \in Callers PROVE Shape(d)'
  BY Asked, NoneAssumption DEF Settle, Goto, Shape, Verdicts, Present, Hash
<1>3. LateWhole'
  BY DEF LateWhole
<1>. QED
  BY <1>1, <1>2, <1>3

(* Reading and returning. *)
LEMMA GetKeeps ==
    ASSUME IInv, NEW c \in Callers, Get(c)
    PROVE  IInv'
<1>. USE DEF IInv, TypeOK, Get
<1>1. TypeOK'
  BY Asked, NoneAssumption DEF Settle, Goto, Labels, Verdicts, Shape, Present, Hash
<1>2. ASSUME NEW d \in Callers PROVE Shape(d)'
  BY Asked, NoneAssumption DEF Settle, Goto, Shape, Verdicts, Present, Hash
<1>3. LateWhole'
  BY DEF LateWhole
<1>. QED
  BY <1>1, <1>2, <1>3

LEMMA ReturnKeeps ==
    ASSUME IInv, NEW c \in Callers, Return(c)
    PROVE  IInv'
<1>. USE DEF IInv, TypeOK
<1>1. Reported(c) \subseteq Verdicts
  BY DEF Reported, Shape, Verdicts
<1>2. PICK a \in Verdicts : /\ answer' = [answer EXCEPT ![c] = a]
                            /\ read' = IF a = "ok" THEN read ELSE [read EXCEPT ![c] = None]
  BY <1>1 DEF Return
<1>3. TypeOK'
  BY <1>2, NoneAssumption DEF Return, Goto, Labels, Requests
<1>4. ASSUME NEW d \in Callers PROVE Shape(d)'
  BY DEF Return, Goto, Shape
<1>5. LateWhole'
  BY DEF LateWhole, Return
<1>. QED
  BY <1>3, <1>4, <1>5

LEMMA ArriveKeeps ==
    ASSUME IInv, NEW e \in late, Arrive(e)
    PROVE  IInv'
<1>. USE DEF IInv, TypeOK, Arrive
<1>1. TypeOK'
  BY DEF Effects
<1>2. ASSUME NEW d \in Callers PROVE Shape(d)'
  BY DEF Shape
<1>3. LateWhole'
  BY DEF LateWhole
<1>. QED
  BY <1>1, <1>2, <1>3

LEMMA CrashKeeps ==
    ASSUME IInv, Crash
    PROVE  IInv'
<1>. USE DEF IInv, TypeOK, Crash
<1>1. TypeOK'
  BY NoneAssumption DEF Labels, Verdicts, Requests
<1>2. ASSUME NEW d \in Callers PROVE Shape(d)'
  BY DEF Shape
<1>3. LateWhole'
  BY DEF LateWhole
<1>. QED
  BY <1>1, <1>2, <1>3

(* The invariant is inductive: one lemma per action. *)
LEMMA NextKeeps ==
    ASSUME IInv, [Next]_vars
    PROVE  IInv'
<1>1. ASSUME NEW c \in Callers,
             Invoke(c) \/ RequestFails(c) \/ Delay(c) \/ S3Exists(c) \/ S3PutObject(c)
               \/ S3DeleteObject(c) \/ Get(c) \/ Return(c)
      PROVE  IInv'
  BY <1>1, InvokeKeeps, RequestFailsKeeps, DelayKeeps, S3ExistsKeeps, S3PutObjectKeeps,
     S3DeleteObjectKeeps, GetKeeps, ReturnKeeps
<1>2. ASSUME NEW c \in Callers,
             GcsCopy(c) \/ GcsCopied(c) \/ GcsClose(c) \/ GcsCloseAgain(c)
               \/ GcsAbandon(c) \/ GcsDelete(c)
      PROVE  IInv'
  BY <1>2, GcsCopyKeeps, GcsCopiedKeeps, GcsCloseKeeps, GcsCloseAgainKeeps,
     GcsAbandonKeeps, GcsDeleteKeeps
<1>3. ASSUME NEW e \in late, Arrive(e) PROVE IInv'
  BY <1>3, ArriveKeeps
<1>4. CASE Crash
  BY <1>4, CrashKeeps
<1>5. CASE UNCHANGED vars
  BY <1>5 DEF vars, IInv, TypeOK, Shape, LateWhole
<1>. QED
  BY <1>1, <1>2, <1>3, <1>4, <1>5 DEF Next

(* So it holds in every reachable state. *)
THEOREM Inductive == Spec => []IInv
<1>1. Init => IInv
  BY InitInv
<1>2. IInv /\ [Next]_vars => IInv'
  BY NextKeeps
<1>. QED
  BY <1>1, <1>2, PTL DEF Spec

(* Every variable has its type, whatever fails or arrives late. *)
THEOREM TypesCorrect == Spec => []TypeOK
<1>1. IInv => TypeOK
  BY DEF IInv
<1>. QED
  BY <1>1, Inductive, PTL

----------------------------------------------------------------------------
(* The driver in use, which stays the one the process was started with. *)
OnS3 == driver = "s3"
OnGcs == driver = "gcs"

LEMMA SameDriver == [Next]_vars => OnS3' = OnS3 /\ OnGcs' = OnGcs
BY DEF OnS3, OnGcs, Next, vars, Invoke, RequestFails, Delay, S3Exists, S3PutObject,
       S3DeleteObject, GcsCopy, GcsCopied, GcsClose, GcsCloseAgain, GcsAbandon, GcsDelete,
       Get, Return, Arrive, Crash

(* What a step may put into the bucket: an upload of the driver in use, or *)
(* one that arrives late.                                                  *)
LEMMA BucketChanges ==
    ASSUME IInv, [Next]_vars, NEW h \in Hashes, bucket'[h] # bucket[h]
    PROVE  \/ bucket'[h] = None
           \/ /\ driver = "s3"
              /\ \/ \E b \in Bodies : bucket'[h] = WholeOf(b)
                 \/ \E e \in late : e.hash = h /\ bucket'[h] = e.object
           \/ driver = "gcs" /\ bucket[h] = None
<1>. USE DEF IInv, TypeOK
<1>1. ASSUME NEW c \in Callers, S3PutObject(c)
      PROVE  driver = "s3" /\ \E b \in Bodies : bucket'[h] = WholeOf(b)
  <2>1. driver = "s3" /\ call[c] \in PutRequests
    BY <1>1 DEF S3PutObject, Shape
  <2>2. call[c].body \in Bodies /\ bucket'[h] = WholeOf(call[c].body)
    BY <1>1, <2>1, Asked DEF S3PutObject, Store, WholeOf, Shape
  <2>. QED
    BY <2>1, <2>2
<1>2. ASSUME NEW c \in Callers, GcsClose(c) \/ GcsCloseAgain(c) \/ GcsAbandon(c)
      PROVE  driver = "gcs" /\ bucket[h] = None
  <2>1. driver = "gcs"
    BY <1>2 DEF GcsClose, GcsCloseAgain, GcsAbandon, Shape
  <2>2. ~ Present(c) /\ \E n : Store(c, n)
    BY <1>2 DEF GcsClose, GcsCloseAgain, GcsAbandon
  <2>. QED
    BY <2>1, <2>2 DEF Present, Store
<1>3. ASSUME NEW c \in Callers, S3DeleteObject(c) \/ GcsDelete(c)
      PROVE  bucket'[h] = None
  BY <1>3 DEF S3DeleteObject, GcsDelete
<1>4. ASSUME NEW e \in late, Arrive(e)
      PROVE  \/ e.hash = h /\ bucket'[h] = e.object /\ driver = "s3"
             \/ bucket'[h] = None
             \/ driver = "gcs" /\ bucket[h] = None
  <2>1. e.hash = h /\ bucket'[h] = e.object
    BY <1>4 DEF Arrive, Effects
  <2>2. driver \in {"s3", "gcs"}
    BY DriversAssumption
  <2>. QED
    BY <1>4, <2>1, <2>2 DEF Arrive
<1>5. \/ \E c \in Callers : S3PutObject(c)
      \/ \E c \in Callers : GcsClose(c) \/ GcsCloseAgain(c) \/ GcsAbandon(c)
      \/ \E c \in Callers : S3DeleteObject(c) \/ GcsDelete(c)
      \/ \E e \in late : Arrive(e)
  BY DEF Next, vars, Invoke, RequestFails, Delay, S3Exists, GcsCopy, GcsCopied, Get, Return, Crash
<1>. QED
  BY <1>1, <1>2, <1>3, <1>4, <1>5

(* What each driver promises beside the other's lapse: S3, which may       *)
(* overwrite, never stores part of an artifact, even of an upload that was *)
(* cut short, sent again or arrives when its client is long gone.          *)
THEOREM S3StoresWhole == Spec /\ OnS3 => []WholeArtifacts
<1>1. Init => WholeArtifacts
  BY DEF Init, WholeArtifacts
<1>2. IInv /\ OnS3 /\ WholeArtifacts /\ [Next]_vars => OnS3' /\ WholeArtifacts'
  <2>1. SUFFICES ASSUME IInv, OnS3, WholeArtifacts, [Next]_vars
                 PROVE  WholeArtifacts'
    BY SameDriver
  <2>2. ASSUME NEW h \in Hashes, bucket'[h] # None PROVE Whole(bucket'[h])
    <3>1. CASE bucket'[h] = bucket[h]
      BY <2>1, <2>2, <3>1 DEF WholeArtifacts
    <3>2. CASE \E b \in Bodies : bucket'[h] = WholeOf(b)
      BY <3>2 DEF WholeOf, Whole
    <3>3. CASE \E e \in late : bucket'[h] = e.object
      BY <2>1, <2>2, <3>3 DEF IInv, LateWhole, OnS3
    <3>. QED
      BY <2>1, <2>2, <3>1, <3>2, <3>3, BucketChanges DEF OnS3
  <2>. QED
    BY <2>2 DEF WholeArtifacts, Whole
<1>. QED
  BY <1>1, <1>2, Inductive, PTL DEF Spec

(* GCS, which may store part of one, never replaces what is stored,        *)
(* however often the SDK sends an upload and however late it arrives.      *)
THEOREM GcsWritesOnce == Spec /\ OnGcs => WriteOnce
<1>1. OnGcs /\ [Next]_vars => OnGcs'
  BY SameDriver
<1>2. IInv /\ OnGcs /\ [Next]_vars =>
        [\A h \in Hashes : bucket[h] # None => bucket'[h] \in {bucket[h], None}]_vars
  BY BucketChanges DEF OnGcs
<1>. QED
  BY <1>1, <1>2, Inductive, PTL DEF Spec, WriteOnce
=============================================================================
