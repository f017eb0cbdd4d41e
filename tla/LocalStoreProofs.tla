-------------------------- MODULE LocalStoreProofs --------------------------
(***************************************************************************)
(* Proofs about LocalStore, for any number of callers, hashes, bodies and  *)
(* inodes.                                                                 *)
(*                                                                         *)
(* The argument: a file is written only between its CreateTemp and its     *)
(* Link, while one Put alone can reach it (Private); it is linked only     *)
(* once it is whole (Linked); so what a hash names, and what a Get holds   *)
(* open, is never written again and stays whole.                           *)
(***************************************************************************)
EXTENDS LocalStore, TLAPS

(* A Put can still write to, or is about to publish, the file it made. *)
Writing == {"copy", "link"}

(* Where a caller is in the code says what it asked, what it holds open    *)
(* and whether it has decided what to return.                              *)
Shape ==
    \A c \in Callers :
        /\ pc[c] = "idle" <=> call[c] = None
        /\ pc[c] \in PutLabels => call[c] \in PutRequests
        /\ pc[c] \in {"open", "stream"} => call[c] # None /\ call[c].op = "get"
        /\ pc[c] = "remove" => call[c] # None /\ call[c].op = "delete"
        /\ fd[c] # None <=> pc[c] \in Owning \cup {"stream"}
        /\ ret[c] # None <=> pc[c] \in {"cleanup", "return"}
        /\ call[c] # None => read[c] = None

(* The file a Put writes holds its own body; nothing else refers to it. *)
Private ==
    \A c \in Callers : pc[c] \in Writing =>
        /\ file[fd[c]].body = call[c].body
        /\ \A h \in Hashes : dest[h] # fd[c]
        /\ \A d \in Callers : d # c => fd[d] # fd[c]

(* The file a Put is about to link is whole. *)
Linked == \A c \in Callers : pc[c] = "link" => Whole(file[fd[c]])

IInv ==
    /\ TypeOK
    /\ Shape
    /\ Private
    /\ Linked
    /\ WholeArtifacts
    /\ HandedOutWhole
    /\ TempsAccounted

(* One chunk more keeps an unfinished copy within its declared length. *)
LEMMA OneMoreChunk ==
    ASSUME NEW a \in Artifact, ~ Whole(a)
    PROVE  [a EXCEPT !.len = @ + 1] \in Artifact
<1>1. a \in [body : Bodies, len : Nat] /\ a.len <= Length[a.body]
  BY DEF Artifact
<1>2. a.len + 1 <= Length[a.body]
  BY <1>1, LengthAssumption DEF Whole
<1>3. [a EXCEPT !.len = @ + 1] = [body |-> a.body, len |-> a.len + 1]
  BY <1>1
<1>4. [body |-> a.body, len |-> a.len + 1] \in Artifact
  BY <1>1, <1>2 DEF Artifact
<1> QED BY <1>3, <1>4

(* A new request holds no file and has decided nothing. *)
LEMMA InvokeKeeps ==
    ASSUME IInv, NEW c \in Callers, Invoke(c)
    PROVE  IInv'
<1> USE DEF IInv, TypeOK, Labels, PutLabels, Owning, Writing
<1>a. PICK r \in Requests : /\ call' = [call EXCEPT ![c] = r]
                             /\ pc' = [pc EXCEPT ![c] = Entry(r)]
  BY DEF Invoke, Goto
<1>b. \/ r.op = "put" /\ r \in PutRequests /\ Entry(r) = "stat"
      \/ r.op = "get" /\ Entry(r) = "open"
      \/ r.op = "delete" /\ Entry(r) = "remove"
  BY DEF Entry, Requests, PutRequests, HashRequests
<1>1. TypeOK'
  BY <1>a, <1>b DEF Invoke
<1>2. Shape'
  BY <1>a, <1>b, NoneAssumption DEF Invoke, Shape
<1>3. Private'
  BY <1>a, <1>b DEF Invoke, Private
<1>4. Linked'
  BY <1>a, <1>b DEF Invoke, Linked
<1>5. WholeArtifacts'
  BY DEF Invoke, WholeArtifacts
<1>6. HandedOutWhole'
  BY <1>a, <1>b DEF Invoke, HandedOutWhole
<1>7. TempsAccounted'
  BY <1>a, <1>b DEF Invoke, TempsAccounted
<1> QED BY <1>1, <1>2, <1>3, <1>4, <1>5, <1>6, <1>7

(* The Stat of Put only moves on or settles the call. *)
LEMMA PutStatKeeps ==
    ASSUME IInv, NEW c \in Callers, PutStat(c)
    PROVE  IInv'
<1> USE DEF IInv, TypeOK, Labels, PutLabels, Owning, Writing
<1>1. TypeOK'
  BY DEF PutStat, Settle, Goto, Verdicts
<1>2. Shape'
  BY NoneAssumption DEF PutStat, Settle, Goto, Shape, Verdicts
<1>3. Private'
  BY DEF PutStat, Settle, Goto, Private
<1>4. Linked'
  BY DEF PutStat, Settle, Goto, Linked
<1>5. WholeArtifacts'
  BY DEF PutStat, WholeArtifacts
<1>6. HandedOutWhole'
  BY DEF PutStat, Settle, Goto, HandedOutWhole
<1>7. TempsAccounted'
  BY DEF PutStat, Settle, Goto, TempsAccounted
<1> QED BY <1>1, <1>2, <1>3, <1>4, <1>5, <1>6, <1>7

(* CreateTemp hands Put a file that nothing else can reach. *)
LEMMA PutCreateKeeps ==
    ASSUME IInv, NEW c \in Callers, PutCreate(c)
    PROVE  IInv'
<1> USE DEF IInv, TypeOK, Labels, PutLabels, Owning, Writing
<1>a. call[c].body \in Bodies
  BY DEF PutCreate, Shape, PutRequests
<1>b. [body |-> call[c].body, len |-> 0] \in Artifact
  BY <1>a, LengthAssumption DEF Artifact
<1>1. TypeOK'
  BY <1>b DEF PutCreate, Settle, Goto, Free, Verdicts
<1>2. Shape'
  BY NoneAssumption DEF PutCreate, Settle, Goto, Free, Shape, Verdicts
<1>3. Private'
  BY DEF PutCreate, Settle, Goto, Free, Shape, Private
<1>4. Linked'
  BY DEF PutCreate, Settle, Goto, Free, Linked, TempsAccounted
<1>5. WholeArtifacts'
  BY DEF PutCreate, Free, WholeArtifacts
<1>6. HandedOutWhole'
  BY DEF PutCreate, Settle, Goto, Free, Shape, HandedOutWhole
<1>7. TempsAccounted'
  BY DEF PutCreate, Settle, Goto, Free, TempsAccounted
<1> QED BY <1>1, <1>2, <1>3, <1>4, <1>5, <1>6, <1>7

(* The copy writes only to the Put's private file. *)
LEMMA PutCopyKeeps ==
    ASSUME IInv, NEW c \in Callers, PutCopy(c)
    PROVE  IInv'
<1> USE DEF IInv, TypeOK, Labels, PutLabels, Owning, Writing
<1>a. fd[c] \in Inodes /\ file[fd[c]] \in Artifact
  BY DEF PutCopy, Shape
<1>b. [file[fd[c]] EXCEPT !.len = @ + 1] \in Artifact
  BY <1>a, OneMoreChunk DEF PutCopy
<1>1. TypeOK'
  BY <1>a, <1>b DEF PutCopy
<1>2. Shape'
  BY DEF PutCopy, Shape
<1>3. Private'
  BY DEF PutCopy, Private
<1>4. Linked'
  BY DEF PutCopy, Linked
<1>5. WholeArtifacts'
  BY DEF PutCopy, WholeArtifacts
<1>6. HandedOutWhole'
  BY DEF PutCopy, HandedOutWhole
<1>7. TempsAccounted'
  BY DEF PutCopy, TempsAccounted
<1> QED BY <1>1, <1>2, <1>3, <1>4, <1>5, <1>6, <1>7

(* Only a copy of the declared size goes on to be linked. *)
LEMMA PutCloseKeeps ==
    ASSUME IInv, NEW c \in Callers, PutClose(c)
    PROVE  IInv'
<1> USE DEF IInv, TypeOK, Labels, PutLabels, Owning, Writing
<1>1. TypeOK'
  BY DEF PutClose, Settle, Goto, Verdicts
<1>2. Shape'
  BY NoneAssumption DEF PutClose, Settle, Goto, Shape, Verdicts
<1>3. Private'
  BY DEF PutClose, Settle, Goto, Private
<1>4. Linked'
  BY DEF PutClose, Settle, Goto, Linked
<1>5. WholeArtifacts'
  BY DEF PutClose, WholeArtifacts
<1>6. HandedOutWhole'
  BY DEF PutClose, Settle, Goto, HandedOutWhole
<1>7. TempsAccounted'
  BY DEF PutClose, Settle, Goto, TempsAccounted
<1> QED BY <1>1, <1>2, <1>3, <1>4, <1>5, <1>6, <1>7

(* What the Link publishes is whole, and it replaces nothing. *)
LEMMA PutLinkKeeps ==
    ASSUME IInv, NEW c \in Callers, PutLink(c)
    PROVE  IInv'
<1> USE DEF IInv, TypeOK, Labels, PutLabels, Owning, Writing
<1>1. TypeOK'
  BY DEF PutLink, Settle, Goto, Hash, Shape, Verdicts
<1>2. Shape'
  BY NoneAssumption DEF PutLink, Settle, Goto, Shape, Verdicts
<1>3. Private'
  BY DEF PutLink, Settle, Goto, Private
<1>4. Linked'
  BY DEF PutLink, Settle, Goto, Linked
<1>5. WholeArtifacts'
  BY DEF PutLink, Linked, WholeArtifacts
<1>6. HandedOutWhole'
  BY DEF PutLink, Settle, Goto, HandedOutWhole
<1>7. TempsAccounted'
  BY DEF PutLink, Settle, Goto, TempsAccounted
<1> QED BY <1>1, <1>2, <1>3, <1>4, <1>5, <1>6, <1>7

(* The deferred remove takes away the name of the own file only. *)
LEMMA PutCleanupKeeps ==
    ASSUME IInv, NEW c \in Callers, PutCleanup(c)
    PROVE  IInv'
<1> USE DEF IInv, TypeOK, Labels, PutLabels, Owning, Writing
<1>1. TypeOK'
  BY DEF PutCleanup, Goto, Shape
<1>2. Shape'
  BY DEF PutCleanup, Goto, Shape
<1>3. Private'
  BY DEF PutCleanup, Goto, Shape, Private
<1>4. Linked'
  BY DEF PutCleanup, Goto, Linked
<1>5. WholeArtifacts'
  BY DEF PutCleanup, WholeArtifacts
<1>6. HandedOutWhole'
  BY DEF PutCleanup, Goto, HandedOutWhole
<1>7. TempsAccounted'
  BY DEF PutCleanup, Goto, TempsAccounted
<1> QED BY <1>1, <1>2, <1>3, <1>4, <1>5, <1>6, <1>7

(* A Get opens a file that is linked, so a whole one. *)
LEMMA GetOpenKeeps ==
    ASSUME IInv, NEW c \in Callers, GetOpen(c)
    PROVE  IInv'
<1> USE DEF IInv, TypeOK, Labels, PutLabels, Owning, Writing
<1>a. Hash(c) \in Hashes
  BY DEF GetOpen, Shape, Hash, Requests, PutRequests, HashRequests
<1>1. TypeOK'
  BY <1>a DEF GetOpen, Settle, Goto, Verdicts
<1>2. Shape'
  BY NoneAssumption DEF GetOpen, Settle, Goto, Shape, Verdicts
<1>3. Private'
  BY <1>a DEF GetOpen, Settle, Goto, Private
<1>4. Linked'
  BY DEF GetOpen, Settle, Goto, Linked
<1>5. WholeArtifacts'
  BY DEF GetOpen, WholeArtifacts
<1>6. HandedOutWhole'
  BY <1>a DEF GetOpen, Settle, Goto, WholeArtifacts, HandedOutWhole
<1>7. TempsAccounted'
  BY DEF GetOpen, Settle, Goto, TempsAccounted
<1> QED BY <1>1, <1>2, <1>3, <1>4, <1>5, <1>6, <1>7

(* Deleting a name leaves the file to those who hold it open. *)
LEMMA DeleteRemoveKeeps ==
    ASSUME IInv, NEW c \in Callers, DeleteRemove(c)
    PROVE  IInv'
<1> USE DEF IInv, TypeOK, Labels, PutLabels, Owning, Writing
<1>1. TypeOK'
  BY DEF DeleteRemove, Settle, Goto, Verdicts
<1>2. Shape'
  BY NoneAssumption DEF DeleteRemove, Settle, Goto, Shape, Verdicts
<1>3. Private'
  BY DEF DeleteRemove, Settle, Goto, Shape, Private
<1>4. Linked'
  BY DEF DeleteRemove, Settle, Goto, Linked
<1>5. WholeArtifacts'
  BY DEF DeleteRemove, WholeArtifacts
<1>6. HandedOutWhole'
  BY DEF DeleteRemove, Settle, Goto, HandedOutWhole
<1>7. TempsAccounted'
  BY DEF DeleteRemove, Settle, Goto, TempsAccounted
<1> QED BY <1>1, <1>2, <1>3, <1>4, <1>5, <1>6, <1>7

(* A call that returns holds no file any more. *)
LEMMA ReturnKeeps ==
    ASSUME IInv, NEW c \in Callers, Return(c)
    PROVE  IInv'
<1> USE DEF IInv, TypeOK, Labels, PutLabels, Owning, Writing
<1>1. TypeOK'
  BY DEF Return, Leave, Goto
<1>2. Shape'
  BY DEF Return, Leave, Goto, Shape
<1>3. Private'
  BY DEF Return, Leave, Goto, Private
<1>4. Linked'
  BY DEF Return, Leave, Goto, Linked
<1>5. WholeArtifacts'
  BY DEF Return, WholeArtifacts
<1>6. HandedOutWhole'
  BY DEF Return, Leave, Goto, HandedOutWhole
<1>7. TempsAccounted'
  BY DEF Return, Leave, Goto, TempsAccounted
<1> QED BY <1>1, <1>2, <1>3, <1>4, <1>5, <1>6, <1>7

(* What is streamed is the file that was opened, still whole. *)
LEMMA GetStreamKeeps ==
    ASSUME IInv, NEW c \in Callers, GetStream(c)
    PROVE  IInv'
<1> USE DEF IInv, TypeOK, Labels, PutLabels, Owning, Writing
<1>a. fd[c] \in Inodes /\ file[fd[c]] \in Artifact
  BY DEF GetStream, Shape
<1>1. TypeOK'
  BY <1>a, NoneAssumption, LengthAssumption DEF GetStream, Leave, Goto, Shape, Artifact, Requests, HashRequests, Verdicts
<1>2. Shape'
  BY DEF GetStream, Leave, Goto, Shape
<1>3. Private'
  BY DEF GetStream, Leave, Goto, Shape, Private
<1>4. Linked'
  BY DEF GetStream, Leave, Goto, Linked
<1>5. WholeArtifacts'
  BY DEF GetStream, WholeArtifacts
<1>6. HandedOutWhole'
  BY DEF GetStream, Leave, Goto, HandedOutWhole
<1>7. TempsAccounted'
  BY DEF GetStream, Leave, Goto, TempsAccounted
<1> QED BY <1>1, <1>2, <1>3, <1>4, <1>5, <1>6, <1>7

(* A crash leaves names and files as they are, all of them whole. *)
LEMMA CrashKeeps ==
    ASSUME IInv, Crash
    PROVE  IInv'
<1> USE DEF IInv, TypeOK, Labels, PutLabels, Owning, Writing
<1>1. TypeOK'
  BY DEF Crash, Verdicts
<1>2. Shape'
  BY DEF Crash, Shape
<1>3. Private'
  BY DEF Crash, Private
<1>4. Linked'
  BY DEF Crash, Linked
<1>5. WholeArtifacts'
  BY DEF Crash, WholeArtifacts
<1>6. HandedOutWhole'
  BY DEF Crash, HandedOutWhole
<1>7. TempsAccounted'
  BY DEF Crash, TempsAccounted
<1> QED BY <1>1, <1>2, <1>3, <1>4, <1>5, <1>6, <1>7

(* An empty cache directory satisfies the invariant. *)
LEMMA InitEstablishes ==
    ASSUME Init
    PROVE  IInv
<1>1. [body : Bodies, len : {0}] \in SUBSET Artifact
  BY LengthAssumption DEF Artifact
<1>2. TypeOK
  BY <1>1 DEF Init, TypeOK, Labels
<1>3. Shape /\ Private /\ Linked
  BY DEF Init, Shape, Private, Linked, PutLabels, Owning, Writing
<1>4. WholeArtifacts /\ HandedOutWhole /\ TempsAccounted
  BY DEF Init, WholeArtifacts, HandedOutWhole, TempsAccounted, Owning
<1> QED BY <1>2, <1>3, <1>4 DEF IInv

(* The invariant is inductive: one step per action of the module. *)
LEMMA NextKeeps ==
    ASSUME IInv, [Next]_vars
    PROVE  IInv'
<1>1. ASSUME NEW c \in Callers, Invoke(c) PROVE IInv'
  BY <1>1, InvokeKeeps
<1>2. ASSUME NEW c \in Callers, Run(c) PROVE IInv'
  BY <1>2, PutStatKeeps, PutCreateKeeps, PutCopyKeeps, PutCloseKeeps, PutLinkKeeps,
     PutCleanupKeeps, GetOpenKeeps, GetStreamKeeps, DeleteRemoveKeeps, ReturnKeeps DEF Run
<1>3. CASE Crash
  BY <1>3, CrashKeeps
<1>4. CASE UNCHANGED vars
  BY <1>4 DEF vars, IInv, TypeOK, Shape, Private, Linked, WholeArtifacts, HandedOutWhole,
     TempsAccounted, Hash
<1> QED BY <1>1, <1>2, <1>3, <1>4 DEF Next

(* So the invariant holds in every reachable state. *)
THEOREM Inductive == Spec => []IInv
<1>1. Init => IInv
  BY InitEstablishes
<1>2. IInv /\ [Next]_vars => IInv'
  BY NextKeeps
<1> QED BY <1>1, <1>2, PTL DEF Spec

(* Every variable has its type, whatever the callers and the faults do.   *)
THEOREM TypesCorrect == Spec => []TypeOK
<1>1. IInv => TypeOK
  BY DEF IInv
<1> QED BY Inductive, <1>1, PTL

(* A hash that can be read leads to a complete body.                       *)
THEOREM OnlyWhole == Spec => []WholeArtifacts
<1>1. IInv => WholeArtifacts
  BY DEF IInv
<1> QED BY Inductive, <1>1, PTL

(* What a reader was given stays whole while it reads.                     *)
THEOREM ReadersGetWhole == Spec => []HandedOutWhole
<1>1. IInv => HandedOutWhole
  BY DEF IInv
<1> QED BY Inductive, <1>1, PTL

(* A temporary file belongs to the upload that is writing it, or its       *)
(* process is dead or could not remove it.                                 *)
THEOREM NoStrayTemps == Spec => []TempsAccounted
<1>1. IInv => TempsAccounted
  BY DEF IInv
<1> QED BY Inductive, <1>1, PTL

----------------------------------------------------------------------------
(* What a step of the driver may do to a hash that is stored. *)
KeepsStored ==
    \A h \in Hashes :
        dest[h] # None => \/ dest'[h] = None
                          \/ dest'[h] = dest[h] /\ file'[dest[h]] = file[dest[h]]

(* Only CreateTemp and the copy write to files, and never to a linked one; *)
(* only the Link and the Remove change names, the Link none that is taken. *)
LEMMA StepKeepsStored ==
    ASSUME IInv, [Next]_vars
    PROVE  KeepsStored
<1> USE DEF KeepsStored
<1>1. CASE dest' = dest /\ file' = file
  BY <1>1
<1>2. ASSUME NEW c \in Callers, PutCreate(c) PROVE KeepsStored
  BY <1>2, InodesAssumption DEF PutCreate, Free, IInv, TypeOK
<1>3. ASSUME NEW c \in Callers, PutCopy(c) PROVE KeepsStored
  BY <1>3 DEF PutCopy, IInv, TypeOK, Private, Writing
<1>4. ASSUME NEW c \in Callers, PutLink(c) PROVE KeepsStored
  BY <1>4 DEF PutLink, IInv, TypeOK
<1>5. ASSUME NEW c \in Callers, DeleteRemove(c) PROVE KeepsStored
  BY <1>5 DEF DeleteRemove, IInv, TypeOK
<1>6. ASSUME NEW c \in Callers, Invoke(c) \/ PutStat(c) \/ PutClose(c) \/ PutCleanup(c)
                                  \/ GetOpen(c) \/ GetStream(c) \/ Return(c)
      PROVE dest' = dest /\ file' = file
  BY <1>6 DEF Invoke, PutStat, PutClose, PutCleanup, GetOpen, GetStream, Return
<1>7. CASE Crash \/ UNCHANGED vars
  BY <1>1, <1>7 DEF Crash, vars
<1> QED BY <1>1, <1>2, <1>3, <1>4, <1>5, <1>6, <1>7 DEF Next, Run

(* While a hash is stored, only a delete changes what is stored under it:  *)
(* Put never replaces an artifact, however uploads of one hash interleave. *)
THEOREM NeverOverwritten == Spec => WriteOnce
<1>1. IInv /\ [Next]_vars => [KeepsStored]_vars
  BY StepKeepsStored
<1>2. Spec => [][KeepsStored]_vars
  BY <1>1, Inductive, PTL DEF Spec
<1> QED BY <1>2 DEF WriteOnce, KeepsStored

----------------------------------------------------------------------------
(* What a step of the driver does to a request: it brings it nearer to its *)
(* end, or leaves it where it is.                                          *)
Advances(c) ==
    \/ Remaining(c)' \in 0 .. Remaining(c) - 1
    \/ Remaining(c)' = Remaining(c) /\ UNCHANGED <<call[c], pc[c], fd[c], ret[c]>>

(* What a request has before it is a number, from 1 on until it is over.   *)
LEMMA RemainingType ==
    ASSUME IInv, NEW c \in Callers
    PROVE  Remaining(c) \in Nat /\ (call[c] # None => Remaining(c) >= 1)
<1> USE DEF IInv, TypeOK, Labels, PutLabels, Owning
<1>1. CASE pc[c] \in {"stat", "create"}
  <2>1. Length[call[c].body] \in Nat
    BY <1>1, LengthAssumption DEF Shape, PutRequests
  <2>. QED BY <1>1, <2>1 DEF Remaining
<1>2. CASE pc[c] = "copy"
  <2>1. file[fd[c]] \in Artifact
    BY <1>2 DEF Shape
  <2>2. /\ Length[file[fd[c]].body] \in Nat /\ file[fd[c]].len \in Nat
        /\ file[fd[c]].len <= Length[file[fd[c]].body]
    BY <2>1, LengthAssumption DEF Artifact
  <2>. QED BY <1>2, <2>2 DEF Remaining
<1>3. CASE pc[c] \in {"link", "cleanup", "open", "remove", "stream", "return", "idle"}
  BY <1>3 DEF Remaining, Shape
<1> QED BY <1>1, <1>2, <1>3

(* A request is nowhere nearer or further when a step leaves it, its file  *)
(* and how much of that it has written alone.                              *)
LEMMA Bystander ==
    ASSUME NEW c \in Callers, UNCHANGED <<call[c], pc[c], fd[c], ret[c]>>,
           pc[c] = "copy" => file'[fd[c]] = file[fd[c]]
    PROVE  Advances(c)
BY DEF Advances, Remaining

(* The next system call of a request, with what it leaves before it.       *)
LEMMA RunAdvances ==
    ASSUME IInv, NEW c \in Callers, Run(c)
    PROVE  Advances(c)
<1> USE DEF IInv, TypeOK, Labels, PutLabels, Owning
<1>. DEFINE n == Remaining(c)
            len == Length[call[c].body]
<1>0. /\ n \in Nat /\ n >= 0
      /\ \A m \in Nat : Remaining(c)' = m /\ m < n => Advances(c)
  <2>1. n \in Nat
    BY RemainingType
  <2>. QED BY <2>1 DEF Advances
<1>1. CASE PutStat(c)
  <2>1. n = len + 6 /\ len \in Nat
    BY <1>1, LengthAssumption DEF PutStat, Shape, PutRequests, Remaining
  <2>2. Remaining(c)' = 1 \/ Remaining(c)' = len + 5
    BY <1>1 DEF PutStat, Settle, Goto, Remaining
  <2> QED BY <2>1, <2>2, <1>0
<1>2. CASE PutCreate(c)
  <2>1. n = len + 5 /\ len \in Nat
    BY <1>2, LengthAssumption DEF PutCreate, Shape, PutRequests, Remaining
  <2>2. CASE pc'[c] = "return"
    <3>1. Remaining(c)' = 1
      BY <2>2 DEF Remaining
    <3> QED BY <2>1, <3>1, <1>0
  <2>3. CASE pc'[c] = "copy"
    <3>1. file'[fd'[c]] = [body |-> call[c].body, len |-> 0]
      BY <1>2, <2>3 DEF PutCreate, Settle, Goto, Free
    <3>2. Remaining(c)' = len + 4
      BY <2>1, <2>3, <3>1 DEF Remaining
    <3> QED BY <2>1, <3>2, <1>0
  <2> QED BY <1>2, <2>2, <2>3 DEF PutCreate, Settle, Goto
<1>3. CASE PutCopy(c)
  <2>. DEFINE f == file[fd[c]]
  <2>1. /\ pc[c] = "copy" /\ pc'[c] = "copy" /\ fd'[c] = fd[c] /\ fd[c] \in Inodes
        /\ file' = [file EXCEPT ![fd[c]].len = @ + 1] /\ f \in Artifact
    BY <1>3 DEF PutCopy, Shape
  <2>2. file'[fd[c]] = [f EXCEPT !.len = @ + 1] /\ f.len \in Nat /\ Length[f.body] \in Nat
    BY <2>1, LengthAssumption DEF Artifact
  <2>3. file'[fd[c]].len = f.len + 1 /\ file'[fd[c]].body = f.body
    BY <2>1, <2>2 DEF Artifact
  <2>4. n = Length[f.body] - f.len + 4 /\ Remaining(c)' = Length[f.body] - (f.len + 1) + 4
    BY <2>1, <2>3 DEF Remaining
  <2>5. Remaining(c)' = n - 1 /\ n - 1 \in Nat
    <3>1. call[c] # None
      BY <2>1 DEF Shape
    <3> QED BY <2>2, <2>4, <3>1, RemainingType
  <2> QED BY <2>5, <1>0
<1>4. CASE PutClose(c)
  <2>1. file[fd[c]] \in Artifact
    BY <1>4 DEF PutClose, Shape
  <2>2. /\ Length[file[fd[c]].body] \in Nat /\ file[fd[c]].len \in Nat
        /\ file[fd[c]].len <= Length[file[fd[c]].body]
    BY <2>1, LengthAssumption DEF Artifact
  <2>3. n >= 4
    BY <1>4, <2>2 DEF PutClose, Remaining
  <2>4. Remaining(c)' \in {2, 3}
    BY <1>4 DEF PutClose, Settle, Goto, Remaining
  <2> QED BY <2>3, <2>4, <1>0
<1>5. CASE PutLink(c)
  <2>1. n = 3 /\ Remaining(c)' = 2
    BY <1>5 DEF PutLink, Settle, Goto, Remaining
  <2> QED BY <2>1, <1>0
<1>6. CASE PutCleanup(c) \/ GetOpen(c) \/ DeleteRemove(c)
  <2>1. n = 2 /\ Remaining(c)' = 1
    BY <1>6 DEF PutCleanup, GetOpen, DeleteRemove, Settle, Goto, Remaining
  <2> QED BY <2>1, <1>0
<1>7. CASE GetStream(c) \/ Return(c)
  <2>1. n = 1 /\ Remaining(c)' = 0
    BY <1>7 DEF GetStream, Return, Leave, Goto, Remaining
  <2> QED BY <2>1, <1>0
<1> QED BY <1>1, <1>2, <1>3, <1>4, <1>5, <1>6, <1>7 DEF Run

(* The calls of another request: only its own file does it write, and that *)
(* is not the one being copied to.                                         *)
LEMMA OthersLeaveAlone ==
    ASSUME IInv, NEW c \in Callers, NEW d \in Callers \ {c}, Invoke(d) \/ Run(d)
    PROVE  Advances(c)
<1> USE DEF IInv, TypeOK
<1>1. UNCHANGED <<call[c], pc[c], fd[c], ret[c]>>
  BY DEF Invoke, Run, PutStat, PutCreate, PutCopy, PutClose, PutLink, PutCleanup,
         GetOpen, GetStream, DeleteRemove, Return, Leave, Settle, Goto
<1>2. ASSUME pc[c] = "copy" PROVE file'[fd[c]] = file[fd[c]]
  <2>1. CASE file' = file
    BY <2>1
  <2>2. CASE PutCreate(d)
    <3>1. fd[c] \in Inodes
      BY <1>2 DEF Shape, Owning
    <3> QED BY <2>2, <3>1 DEF PutCreate, Free
  <2>3. CASE PutCopy(d)
    BY <1>2, <2>3 DEF PutCopy, Private, Writing
  <2> QED
    BY <2>1, <2>2, <2>3 DEF Invoke, Run, PutStat, PutClose, PutLink, PutCleanup, GetOpen,
       GetStream, DeleteRemove, Return
<1> QED BY <1>1, <1>2, Bystander

LEMMA StepAdvances ==
    ASSUME IInv, [Next]_vars, NEW c \in Callers, call[c] # None
    PROVE  Advances(c)
<1>1. CASE UNCHANGED vars
  BY <1>1, Bystander DEF vars
<1>2. CASE Crash
  <2>1. Remaining(c)' = 0
    BY <1>2 DEF Crash, Remaining
  <2> QED BY <2>1, RemainingType DEF Advances
<1>3. CASE Run(c)
  BY <1>3, RunAdvances
<1>4. ~ Invoke(c)
  BY DEF Invoke, IInv, Shape
<1>5. CASE \E d \in Callers \ {c} : Invoke(d) \/ Run(d)
  BY <1>5, OthersLeaveAlone
<1> QED BY <1>1, <1>2, <1>3, <1>4, <1>5 DEF Next

(* Nobody waits for anybody: a request is over after a number of its own   *)
(* system calls that only the body it uploads determines, and nothing      *)
(* other requests do, and no crash, makes it more.                         *)
THEOREM WaitFree == Spec => CallsAdvance
<1>. DEFINE A == \A c \in Callers : call[c] # None => Advances(c)
<1>1. IInv /\ [Next]_vars => [A]_vars
  BY StepAdvances
<1>2. Spec => [][A]_vars
  BY <1>1, Inductive, PTL DEF Spec
<1> QED BY <1>2 DEF CallsAdvance, Advances
=============================================================================
