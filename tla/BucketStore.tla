---------------------------- MODULE BucketStore ----------------------------
(***************************************************************************)
(* The two object-store drivers, internal/storage/s3.go and gcs.go, one    *)
(* action per request to the bucket.  The process runs one of them.        *)
(*                                                                         *)
(* The bucket and the SDK are not part of the repository and are modelled  *)
(* from how the drivers use them: a request is applied atomically, and     *)
(* every read sees the latest write; a request may fail before it is       *)
(* applied, and its answer may be lost after.  An upload of a declared     *)
(* length (S3) is applied only if all of it was sent; a GCS Writer stores  *)
(* on Close whatever was written to it; a GCS upload with a precondition   *)
(* is idempotent to the SDK, which sends it again when its answer is lost. *)
(* A request whose answer nobody waits for any more, or that was sent      *)
(* again, may still be on its way and be applied later.                    *)
(***************************************************************************)
EXTENDS Artifacts, FiniteSets

CONSTANTS
    Drivers,    \* the drivers the process may be configured with
    MaxLate     \* bound on the delayed requests at a time

ASSUME DriversAssumption == Drivers \subseteq {"s3", "gcs"}
ASSUME LateAssumption == MaxLate \in Nat

VARIABLES
    driver,     \* the driver in use
    bucket,     \* the object stored under each hash
    call,       \* the request each caller runs
    pc,         \* the next request to the bucket
    sent,       \* how much of the body a GCS upload has been given
    ret,        \* what the Go code is about to return, None until decided
    answer,     \* what the caller was last told
    read,       \* the artifact a Get opened, and handed out once it returned
    late        \* delayed requests, as what each will do to the bucket

vars == <<driver, bucket, call, pc, sent, ret, answer, read, late>>

Labels == {"idle", "head", "upload", "copy", "close", "again", "abandon",
           "denied", "open", "delete", "givenup", "return"}

TypeOK ==
    /\ driver \in Drivers
    /\ bucket \in [Hashes -> Artifact \cup {None}]
    /\ call \in [Callers -> Requests \cup {None}]
    /\ pc \in [Callers -> Labels]
    /\ sent \in [Callers -> Nat]
    /\ \A c \in Callers : call[c] \in PutRequests => sent[c] <= Length[call[c].body]
    /\ ret \in [Callers -> Verdicts \cup {None}]
    /\ answer \in [Callers -> Verdicts \cup {None}]
    /\ read \in [Callers -> Artifact \cup {None}]
    /\ late \in SUBSET Effects

Init ==
    /\ driver \in Drivers
    /\ bucket = [h \in Hashes |-> None]
    /\ call = [c \in Callers |-> None]
    /\ pc = [c \in Callers |-> "idle"]
    /\ sent = [c \in Callers |-> 0]
    /\ ret = [c \in Callers |-> None]
    /\ answer = [c \in Callers |-> None]
    /\ read = [c \in Callers |-> None]
    /\ late = {}

----------------------------------------------------------------------------
Hash(c) == call[c].hash

Present(c) == bucket[Hash(c)] # None

Goto(c, l) == pc' = [pc EXCEPT ![c] = l]

Settle(c, v) ==
    /\ ret' = [ret EXCEPT ![c] = v]
    /\ Goto(c, "return")

Store(c, n) == bucket' = [bucket EXCEPT ![Hash(c)] = [body |-> call[c].body, len |-> n]]

(* The S3 driver asks for the object before it writes or deletes it. *)
Entry(r) == CASE r.op = "get" -> "open"
              [] r.op = "put" /\ driver = "gcs" -> "copy"
              [] r.op = "delete" /\ driver = "gcs" -> "delete"
              [] OTHER -> "head"

Invoke(c) ==
    /\ pc[c] = "idle"
    /\ \E r \in Requests : /\ call' = [call EXCEPT ![c] = r]
                           /\ Goto(c, Entry(r))
    /\ answer' = [answer EXCEPT ![c] = None]
    /\ read' = [read EXCEPT ![c] = None]
    /\ UNCHANGED <<driver, bucket, sent, ret, late>>

(* Any request to the bucket may fail without having been applied. *)
RequestFails(c) ==
    /\ pc[c] \in {"head", "upload", "copy", "close", "open", "delete", "givenup"}
    /\ Settle(c, "error")
    /\ UNCHANGED <<driver, bucket, call, sent, answer, read, late>>

(* The requests the SDK sends again when no answer comes: S3's, except the *)
(* upload, whose body it cannot read twice, and conditional ones of GCS.   *)
Retried(c) ==
    \/ pc[c] \in {"close", "again", "abandon"}
    \/ pc[c] = "delete" /\ driver = "s3"

(* A request that changes the bucket stays on its way, while it is sent    *)
(* again or the call gives up.                                             *)
Delay(c) ==
    /\ pc[c] \in {"upload", "close", "again", "abandon", "delete"}
    /\ Cardinality(late) < MaxLate
    /\ late' = late \cup {[hash |-> Hash(c), object |->
          CASE pc[c] = "delete" -> None
            [] pc[c] = "upload" -> WholeOf(call[c].body)
            [] OTHER -> [body |-> call[c].body, len |-> sent[c]]]}
    /\ IF Retried(c) THEN UNCHANGED pc ELSE Goto(c, "givenup")
    /\ UNCHANGED <<driver, bucket, call, sent, ret, answer, read>>

(* The bucket applies it; a conditional one only if there is no object. *)
Arrive(e) ==
    /\ late' = late \ {e}
    /\ bucket' = IF e.object # None /\ driver = "gcs" /\ bucket[e.hash] # None
                    THEN bucket
                    ELSE [bucket EXCEPT ![e.hash] = e.object]
    /\ UNCHANGED <<driver, call, pc, sent, ret, answer, read>>

----------------------------------------------------------------------------
(* S3. *)

(* The HeadObject at the start of Put and of Delete. *)
S3Exists(c) ==
    /\ pc[c] = "head"
    /\ \/ call[c].op = "put" /\ Present(c) /\ Settle(c, "exists")
       \/ call[c].op = "put" /\ ~ Present(c) /\ Goto(c, "upload") /\ UNCHANGED ret
       \/ call[c].op = "delete" /\ Present(c) /\ Goto(c, "delete") /\ UNCHANGED ret
       \/ call[c].op = "delete" /\ ~ Present(c) /\ Settle(c, "notfound")
    /\ UNCHANGED <<driver, bucket, call, sent, answer, read, late>>

(* PutObject carries no condition: it replaces what is there by now. *)
S3PutObject(c) ==
    /\ pc[c] = "upload"
    /\ Store(c, Length[call[c].body])
    /\ Settle(c, "ok")
    /\ UNCHANGED <<driver, call, sent, answer, read, late>>

(* DeleteObject succeeds whether or not the object is still there. *)
S3DeleteObject(c) ==
    /\ driver = "s3"
    /\ pc[c] = "delete"
    /\ bucket' = [bucket EXCEPT ![Hash(c)] = None]
    /\ Settle(c, "ok")
    /\ UNCHANGED <<driver, call, sent, answer, read, late>>

----------------------------------------------------------------------------
(* GCS. *)

(* Variant: the reader is not limited to the declared size. *)
GcsCopy_Unlimited(c) ==
    /\ pc[c] = "copy"
    /\ sent' = [sent EXCEPT ![c] = @ + 1]
    /\ Goto(c, IF sent[c] = Length[call[c].body] THEN "close" ELSE "copy")
    /\ UNCHANGED <<driver, bucket, call, ret, answer, read, late>>

(* io.Copy gives the writer one more chunk of the body. *)
GcsCopy(c) ==
    /\ pc[c] = "copy"
    /\ sent[c] < Length[call[c].body]
    /\ sent' = [sent EXCEPT ![c] = @ + 1]
    /\ UNCHANGED <<driver, bucket, call, pc, ret, answer, read, late>>

(* The copy is over: the whole body was written, or reading it failed. *)
GcsCopied(c) ==
    /\ pc[c] = "copy"
    /\ \/ sent[c] = Length[call[c].body] /\ Goto(c, "close")
       \/ sent[c] < Length[call[c].body] /\ Goto(c, "abandon")
    /\ UNCHANGED <<driver, bucket, call, sent, ret, answer, read, late>>

(* Variant: the object is written without the DoesNotExist condition. *)
GcsClose_Unconditional(c) ==
    /\ pc[c] = "close"
    /\ Store(c, sent[c])
    /\ Settle(c, "ok")
    /\ UNCHANGED <<driver, call, sent, answer, read, late>>

(* Close finalizes the upload if the object does not exist; 412 otherwise. *)
GcsClose(c) ==
    /\ pc[c] = "close"
    /\ \/ ~ Present(c) /\ Store(c, sent[c]) /\ Settle(c, "ok")
       \/ ~ Present(c) /\ Store(c, sent[c]) /\ ret' = [ret EXCEPT ![c] = "ok"] /\ Goto(c, "again")
       \/ Present(c) /\ Settle(c, "exists") /\ UNCHANGED bucket
    /\ UNCHANGED <<driver, call, sent, answer, read, late>>

(* The answer to Close was lost and the SDK sends the upload once more: it *)
(* finds the object it has itself stored, or stores it again.              *)
GcsCloseAgain(c) ==
    /\ pc[c] = "again"
    /\ \/ Present(c) /\ Goto(c, "denied") /\ UNCHANGED bucket
       \/ ~ Present(c) /\ Store(c, sent[c]) /\ \E l \in {"return", "again"} : Goto(c, l)
    /\ UNCHANGED <<driver, call, sent, ret, answer, read, late>>

(* After a failed copy the writer is closed all the same, which stores the *)
(* part of the body it was given; the result of Close is dropped.          *)
GcsAbandon(c) ==
    /\ pc[c] = "abandon"
    /\ \/ ~ Present(c) /\ Store(c, sent[c])
       \/ UNCHANGED bucket
    /\ Settle(c, "error")
    /\ UNCHANGED <<driver, call, sent, answer, read, late>>

GcsDelete(c) ==
    /\ driver = "gcs"
    /\ pc[c] = "delete"
    /\ bucket' = [bucket EXCEPT ![Hash(c)] = None]
    /\ Settle(c, IF Present(c) THEN "ok" ELSE "notfound")
    /\ UNCHANGED <<driver, call, sent, answer, read, late>>

----------------------------------------------------------------------------
(* GetObject and NewReader: what is streamed is the object found here. *)
Get(c) ==
    /\ pc[c] = "open"
    /\ IF Present(c)
          THEN Settle(c, "ok") /\ read' = [read EXCEPT ![c] = bucket[Hash(c)]]
          ELSE Settle(c, "notfound") /\ UNCHANGED read
    /\ UNCHANGED <<driver, bucket, call, sent, answer, late>>

(* What a caller is told once its request is over: what came of it, or an *)
(* error if the answer of the bucket was lost; and of an upload that was   *)
(* sent twice, that the object exists.                                     *)
Reported(c) == CASE pc[c] = "return" -> {ret[c], "error"}
                 [] pc[c] = "denied" -> {"exists"}
                 [] pc[c] = "again" -> {"error"}
                 [] OTHER -> {}

Return(c) ==
    /\ \E a \in Reported(c) :
         /\ answer' = [answer EXCEPT ![c] = a]
         /\ read' = IF a = "ok" THEN read ELSE [read EXCEPT ![c] = None]
    /\ call' = [call EXCEPT ![c] = None]
    /\ ret' = [ret EXCEPT ![c] = None]
    /\ sent' = [sent EXCEPT ![c] = 0]
    /\ Goto(c, "idle")
    /\ UNCHANGED <<driver, bucket, late>>

(* The process is killed: every call in flight is cut. *)
Crash ==
    /\ answer' = [c \in Callers |-> IF call[c] # None THEN "error" ELSE answer[c]]
    /\ read' = [c \in Callers |-> IF call[c] # None THEN None ELSE read[c]]
    /\ call' = [c \in Callers |-> None]
    /\ pc' = [c \in Callers |-> "idle"]
    /\ sent' = [c \in Callers |-> 0]
    /\ ret' = [c \in Callers |-> None]
    /\ UNCHANGED <<driver, bucket, late>>

Next ==
    \/ \E c \in Callers :
         \/ Invoke(c)
         \/ RequestFails(c)
         \/ Delay(c)
         \/ S3Exists(c)
         \/ S3PutObject(c)
         \/ S3DeleteObject(c)
         \/ GcsCopy(c)
         \/ GcsCopied(c)
         \/ GcsClose(c)
         \/ GcsCloseAgain(c)
         \/ GcsAbandon(c)
         \/ GcsDelete(c)
         \/ Get(c)
         \/ Return(c)
    \/ \E e \in late : Arrive(e)
    \/ Crash

Spec == Init /\ [][Next]_vars

----------------------------------------------------------------------------
(* What each driver gives up of the contract of storage.Backend; the rest, *)
(* it keeps: S3 never stores part of a body, GCS never replaces one, and   *)
(* with both a call takes effect at one instant and a read is of an object *)
(* that was stored at an instant during the call.                          *)
Lapses == IF driver = "s3" THEN {"overwrite", "blindness", "late"}
                           ELSE {"truncate", "selfdenial", "repeat", "late"}

Contract == INSTANCE ArtifactStore WITH stored <- bucket, fate <- ret

KeepsRestOfContract == Contract!Init /\ [][Contract!Step(Lapses)]_(Contract!vars)

(* The README and the doc of ErrAlreadyExists: a hash is written once and  *)
(* never overwritten.  It fails for S3, whose Put looks before it writes.  *)
WriteOnce ==
    [][\A h \in Hashes : bucket[h] # None => bucket'[h] \in {bucket[h], None}]_vars

(* The doc of Backend: Put stores size bytes; a short body is an error and *)
(* never a truncated artifact.  It fails for GCS, whose Put closes the     *)
(* writer after a failed copy.                                             *)
WholeArtifacts == \A h \in Hashes : bucket[h] # None => Whole(bucket[h])
=============================================================================
