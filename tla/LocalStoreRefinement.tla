------------------------ MODULE LocalStoreRefinement ------------------------
(***************************************************************************)
(* LocalStore implements ArtifactStore: proof of the refinement, for any   *)
(* number of callers, hashes, bodies and inodes, one lemma per action that *)
(* names the contract step, or the stutter, that the action is.            *)
(***************************************************************************)
EXTENDS LocalStoreProofs

(* What the disk holds, as the contract sees it, is left alone by a step   *)
(* that changes neither the names nor the files they lead to.              *)
SameStore == dest' = dest /\ \A h \in Hashes : dest[h] # None => file'[dest[h]] = file[dest[h]]

LEMMA SameStored ==
    ASSUME SameStore
    PROVE  Stored' = Stored
  BY DEF SameStore, Stored

(* A step after which no file a Get holds open has changed. *)
LEMMA SameFound ==
    ASSUME NEW c \in Callers, pc[c] # "stream", pc'[c] # "stream",
           read' = read, \A d \in Callers \ {c} : pc'[d] = pc[d],
           \A d \in Callers : pc[d] = "stream" => file'[fd'[d]] = file[fd[d]]
    PROVE  Found' = Found
  BY DEF Found

(* A call that settles on v at a step decides v for the contract. *)
LEMMA Settled ==
    ASSUME IInv, NEW c \in Callers, NEW v, NEW l, l # "stream", pc[c] # "stream", Settle(c, v, l)
    PROVE  Fate' = [Fate EXCEPT ![c] = v]
  BY DEF Settle, Goto, Fate, IInv, TypeOK

(* An empty directory is an empty store. *)
LEMMA InitRefines ==
    ASSUME Init
    PROVE  Contract!Init
  BY DEF Init, Contract!Init, Stored, Fate, Found

(* A request made of the driver is a request made of the contract. *)
LEMMA InvokeRefines ==
    ASSUME IInv, NEW c \in Callers, Invoke(c)
    PROVE  Contract!Invoke(c)
<1> USE DEF IInv, TypeOK
<1>1. Stored' = Stored
  BY SameStored DEF Invoke, SameStore
<1>2. PICK l \in Labels \ {"stream"} : pc' = [pc EXCEPT ![c] = l]
  BY DEF Invoke, Goto, Entry, Requests, PutRequests, HashRequests, Labels, PutLabels
<1>3. Fate' = Fate
  BY <1>2 DEF Invoke, Fate
<1>4. Found' = [Found EXCEPT ![c] = None]
  BY <1>2 DEF Invoke, Found
<1>5. Contract!Requests = Requests
  BY DEF Requests, PutRequests, HashRequests,
         Contract!Requests, Contract!PutRequests, Contract!HashRequests
<1> QED BY <1>1, <1>3, <1>4, <1>5 DEF Invoke, Contract!Invoke, Shape

(* A Put that finds its hash present is refused at its Stat. *)
LEMMA PutStatRefines ==
    ASSUME IInv, NEW c \in Callers, PutStat(c)
    PROVE  Contract!RefusePut(c) \/ Contract!Fail(c) \/ UNCHANGED Contract!vars
<1> USE DEF IInv, TypeOK
<1>1. Stored' = Stored
  BY SameStored DEF PutStat, SameStore
<1>2. Found' = Found
  BY SameFound DEF PutStat, Settle, Goto
<1>3. call[c] \in PutRequests /\ Hash(c) \in Hashes /\ Fate[c] = None
  BY NoneAssumption DEF PutStat, Shape, PutLabels, PutRequests, Hash, Fate
<1>4. CASE dest[Hash(c)] # None /\ Settle(c, "exists", "return")
  <2>1. Fate' = [Fate EXCEPT ![c] = "exists"]
    BY <1>4, Settled DEF PutStat
  <2>2. Stored[Hash(c)] # None
    BY <1>3, <1>4, NoneAssumption DEF Stored, Artifact
  <2> QED BY <1>1, <1>2, <1>3, <2>1, <2>2, NoneAssumption
         DEF PutStat, Contract!RefusePut, Contract!Undecided, Contract!Decide, Hash, PutRequests, Requests
<1>5. CASE Goto(c, "create") /\ UNCHANGED ret
  <2>1. Fate' = Fate
    BY <1>5 DEF PutStat, Fate, Goto
  <2> QED BY <1>1, <1>2, <2>1 DEF PutStat, Contract!vars
<1>6. CASE Settle(c, "error", "return")
  <2>1. Fate' = [Fate EXCEPT ![c] = "error"]
    BY <1>6, Settled DEF PutStat
  <2> QED BY <1>1, <1>2, <1>3, <2>1, NoneAssumption
         DEF PutStat, Contract!Fail, Contract!Decide, PutRequests, Requests
<1> QED BY <1>4, <1>5, <1>6 DEF PutStat

(* Until its Link, a Put is invisible to the contract. *)
LEMMA PutCreateRefines ==
    ASSUME IInv, NEW c \in Callers, PutCreate(c)
    PROVE  Contract!Fail(c) \/ UNCHANGED Contract!vars
<1> USE DEF IInv, TypeOK
<1>1. Stored' = Stored
  BY SameStored, InodesAssumption DEF PutCreate, SameStore, Free
<1>2. Found' = Found
  BY SameFound DEF PutCreate, Settle, Goto, Free, Shape, Owning
<1>3. call[c] # None /\ Fate[c] = None
  BY DEF PutCreate, Shape, Fate
<1>4. CASE ret' = ret /\ Goto(c, "copy")
  <2>1. Fate' = Fate
    BY <1>4 DEF PutCreate, Fate, Goto
  <2> QED BY <1>1, <1>2, <2>1 DEF PutCreate, Contract!vars
<1>5. CASE Settle(c, "error", "return")
  <2>1. Fate' = [Fate EXCEPT ![c] = "error"]
    BY <1>5, Settled DEF PutCreate
  <2> QED BY <1>1, <1>2, <1>3, <2>1 DEF PutCreate, Contract!Fail, Contract!Decide
<1> QED BY <1>4, <1>5 DEF PutCreate

(* No Get and no hash leads to the file that is being written. *)
LEMMA PutCopyRefines ==
    ASSUME IInv, NEW c \in Callers, PutCopy(c)
    PROVE  UNCHANGED Contract!vars
<1> USE DEF IInv, TypeOK
<1>1. Stored' = Stored
  BY SameStored DEF PutCopy, SameStore, Private, Writing
<1>2. Found' = Found
  BY SameFound DEF PutCopy, Private, Writing
<1> QED BY <1>1, <1>2 DEF PutCopy, Fate, Contract!vars

(* A short copy fails before anything was stored. *)
LEMMA PutCloseRefines ==
    ASSUME IInv, NEW c \in Callers, PutClose(c)
    PROVE  Contract!Fail(c) \/ UNCHANGED Contract!vars
<1> USE DEF IInv, TypeOK
<1>1. Stored' = Stored
  BY SameStored DEF PutClose, SameStore
<1>2. Found' = Found
  BY SameFound DEF PutClose, Settle, Goto
<1>3. call[c] # None /\ Fate[c] = None
  BY DEF PutClose, Shape, Fate
<1>4. CASE Goto(c, "link") /\ UNCHANGED ret
  <2>1. Fate' = Fate
    BY <1>4 DEF PutClose, Fate, Goto
  <2> QED BY <1>1, <1>2, <2>1 DEF PutClose, Contract!vars
<1>5. CASE Settle(c, "error", "cleanup")
  <2>1. Fate' = [Fate EXCEPT ![c] = "error"]
    BY <1>5, Settled DEF PutClose
  <2> QED BY <1>1, <1>2, <1>3, <2>1 DEF PutClose, Contract!Fail, Contract!Decide
<1> QED BY <1>4, <1>5 DEF PutClose

(* The instant at which a Put that has its file takes effect or loses. *)
LEMMA PutLinkRefines ==
    ASSUME IInv, NEW c \in Callers, PutLink(c)
    PROVE  Contract!TakePut(c, {}) \/ Contract!RefusePut(c) \/ Contract!Fail(c)
<1> USE DEF IInv, TypeOK
<1>1. /\ call[c] \in PutRequests /\ call[c] # None /\ call[c].op = "put"
      /\ Hash(c) \in Hashes /\ fd[c] \in Inodes /\ Fate[c] = None
  BY NoneAssumption DEF PutLink, Shape, PutLabels, Owning, PutRequests, Requests, Hash, Fate
<1>2. Found' = Found
  BY SameFound DEF PutLink, Settle, Goto
<1>3. Stored[Hash(c)] = None <=> dest[Hash(c)] = None
  BY <1>1, NoneAssumption DEF Stored, Artifact
<1>4. CASE /\ dest[Hash(c)] = None
           /\ dest' = [dest EXCEPT ![Hash(c)] = fd[c]]
           /\ Settle(c, "ok", "cleanup")
  <2>1. Fate' = [Fate EXCEPT ![c] = "ok"]
    BY <1>4, Settled DEF PutLink
  <2>2. file[fd[c]] = WholeOf(call[c].body)
    BY <1>1, LengthAssumption DEF PutLink, Private, Linked, Writing, Whole, WholeOf, Artifact
  <2>3. Stored' = [Stored EXCEPT ![Hash(c)] = WholeOf(call[c].body)]
    BY <1>1, <1>4, <2>2, InodesAssumption DEF PutLink, Stored
  <2> QED BY <1>1, <1>2, <1>3, <1>4, <2>1, <2>3
         DEF PutLink, Hash, Contract!TakePut, Contract!Undecided, Contract!Decide,
             WholeOf, Contract!WholeOf
<1>5. CASE dest[Hash(c)] # None /\ Settle(c, "exists", "cleanup") /\ UNCHANGED dest
  <2>1. Fate' = [Fate EXCEPT ![c] = "exists"]
    BY <1>5, Settled DEF PutLink
  <2>2. Stored' = Stored
    BY <1>5, SameStored DEF PutLink, SameStore
  <2> QED BY <1>1, <1>2, <1>3, <1>5, <2>1, <2>2
         DEF PutLink, Hash, Contract!RefusePut, Contract!Undecided, Contract!Decide
<1>6. CASE Settle(c, "error", "cleanup") /\ UNCHANGED dest
  <2>1. Fate' = [Fate EXCEPT ![c] = "error"]
    BY <1>6, Settled DEF PutLink
  <2>2. Stored' = Stored
    BY <1>6, SameStored DEF PutLink, SameStore
  <2> QED BY <1>1, <1>2, <2>1, <2>2 DEF PutLink, Contract!Fail, Contract!Decide
<1> QED BY <1>4, <1>5, <1>6 DEF PutLink

(* Temporary names are no part of what is stored. *)
LEMMA PutCleanupRefines ==
    ASSUME IInv, NEW c \in Callers, PutCleanup(c)
    PROVE  UNCHANGED Contract!vars
<1> USE DEF IInv, TypeOK
<1>1. Stored' = Stored
  BY SameStored DEF PutCleanup, SameStore
<1>2. Found' = Found
  BY SameFound DEF PutCleanup, Goto
<1>3. Fate' = Fate
  BY DEF PutCleanup, Goto, Fate
<1> QED BY <1>1, <1>2, <1>3 DEF PutCleanup, Contract!vars

(* The instant at which a Get takes hold of what it will stream. *)
LEMMA GetOpenRefines ==
    ASSUME IInv, NEW c \in Callers, GetOpen(c)
    PROVE  Contract!Read(c) \/ Contract!Miss(c) \/ Contract!Fail(c)
<1> USE DEF IInv, TypeOK
<1>1. call[c] # None /\ call[c].op = "get" /\ Hash(c) \in Hashes /\ Fate[c] = None
  BY NoneAssumption DEF GetOpen, Shape, Requests, PutRequests, HashRequests, Hash, Fate
<1>2. Stored' = Stored
  BY SameStored DEF GetOpen, SameStore
<1>3. Stored[Hash(c)] = None <=> dest[Hash(c)] = None
  BY <1>1, NoneAssumption DEF Stored, Artifact
<1>4. CASE dest[Hash(c)] # None /\ fd' = [fd EXCEPT ![c] = dest[Hash(c)]]
           /\ Goto(c, "stream") /\ UNCHANGED ret
  <2>1. Fate' = [Fate EXCEPT ![c] = "ok"]
    BY <1>4 DEF GetOpen, Goto, Fate
  <2>2. Found' = [Found EXCEPT ![c] = Stored[Hash(c)]]
    BY <1>1, <1>4 DEF GetOpen, Goto, Found, Stored
  <2> QED BY <1>1, <1>2, <1>3, <1>4, <2>1, <2>2
         DEF GetOpen, Hash, Contract!Read, Contract!Undecided, Contract!Decide
<1>5. CASE Settle(c, "notfound", "return") /\ dest[Hash(c)] = None /\ UNCHANGED fd
  <2>1. Fate' = [Fate EXCEPT ![c] = "notfound"]
    BY <1>5, Settled DEF GetOpen
  <2>2. Found' = Found
    BY <1>5, SameFound DEF GetOpen, Settle, Goto
  <2> QED BY <1>1, <1>2, <1>3, <1>5, <2>1, <2>2
         DEF GetOpen, Hash, Contract!Miss, Contract!Undecided, Contract!Decide
<1>6. CASE Settle(c, "error", "return") /\ UNCHANGED fd
  <2>1. Fate' = [Fate EXCEPT ![c] = "error"]
    BY <1>6, Settled DEF GetOpen
  <2>2. Found' = Found
    BY <1>6, SameFound DEF GetOpen, Settle, Goto
  <2> QED BY <1>1, <1>2, <2>1, <2>2 DEF GetOpen, Contract!Fail, Contract!Decide
<1> QED BY <1>4, <1>5, <1>6 DEF GetOpen

(* A Delete takes effect at its Remove. *)
LEMMA DeleteRemoveRefines ==
    ASSUME IInv, NEW c \in Callers, DeleteRemove(c)
    PROVE  Contract!TakeDelete(c, {}) \/ Contract!Miss(c) \/ Contract!Fail(c)
<1> USE DEF IInv, TypeOK
<1>1. call[c] # None /\ call[c].op = "delete" /\ Hash(c) \in Hashes /\ Fate[c] = None
  BY NoneAssumption DEF DeleteRemove, Shape, Requests, PutRequests, HashRequests, Hash, Fate
<1>2. Found' = Found
  BY SameFound DEF DeleteRemove, Settle, Goto
<1>3. Stored[Hash(c)] = None <=> dest[Hash(c)] = None
  BY <1>1, NoneAssumption DEF Stored, Artifact
<1>4. CASE /\ dest[Hash(c)] # None
           /\ dest' = [dest EXCEPT ![Hash(c)] = None]
           /\ Settle(c, "ok", "return")
  <2>1. Fate' = [Fate EXCEPT ![c] = "ok"]
    BY <1>4, Settled DEF DeleteRemove
  <2>2. Stored' = [Stored EXCEPT ![Hash(c)] = None]
    BY <1>1, <1>4 DEF DeleteRemove, Stored
  <2> QED BY <1>1, <1>2, <1>3, <1>4, <2>1, <2>2
         DEF DeleteRemove, Hash, Contract!TakeDelete, Contract!Undecided, Contract!Decide
<1>5. CASE dest[Hash(c)] = None /\ Settle(c, "notfound", "return") /\ UNCHANGED dest
  <2>1. Fate' = [Fate EXCEPT ![c] = "notfound"]
    BY <1>5, Settled DEF DeleteRemove
  <2>2. Stored' = Stored
    BY <1>5, SameStored DEF DeleteRemove, SameStore
  <2> QED BY <1>1, <1>2, <1>3, <1>5, <2>1, <2>2
         DEF DeleteRemove, Hash, Contract!Miss, Contract!Undecided, Contract!Decide
<1>6. CASE Settle(c, "error", "return") /\ UNCHANGED dest
  <2>1. Fate' = [Fate EXCEPT ![c] = "error"]
    BY <1>6, Settled DEF DeleteRemove
  <2>2. Stored' = Stored
    BY <1>6, SameStored DEF DeleteRemove, SameStore
  <2> QED BY <1>1, <1>2, <2>1, <2>2 DEF DeleteRemove, Contract!Fail, Contract!Decide
<1> QED BY <1>4, <1>5, <1>6 DEF DeleteRemove

(* The caller is told what the call settled on. *)
LEMMA ReturnRefines ==
    ASSUME IInv, NEW c \in Callers, Return(c)
    PROVE  Contract!Return(c, {})
<1> USE DEF IInv, TypeOK
<1>1. call[c] # None /\ Fate[c] # None /\ Fate[c] = ret[c]
  BY DEF Return, Shape, Fate
<1>2. Stored' = Stored
  BY SameStored DEF Return, SameStore
<1>3. Found' = Found
  BY SameFound DEF Return, Leave, Goto
<1>4. Fate' = [Fate EXCEPT ![c] = None]
  BY DEF Return, Leave, Goto, Fate
<1>5. Found[c] = None
  BY <1>1 DEF Return, Shape, Found
<1>6. Found = [Found EXCEPT ![c] = None]
  BY <1>5 DEF Found
<1> QED BY <1>1, <1>2, <1>3, <1>4, <1>6
       DEF Return, Leave, Contract!Return, Contract!Reportable

(* A Get hands out what it found at its Open, or breaks off. *)
LEMMA GetStreamRefines ==
    ASSUME IInv, NEW c \in Callers, GetStream(c)
    PROVE  Contract!Return(c, {})
<1> USE DEF IInv, TypeOK
<1>1. call[c] # None /\ Fate[c] = "ok" /\ Fate[c] # None
  BY NoneAssumption DEF GetStream, Shape, Fate, Verdicts
<1>2. Stored' = Stored
  BY SameStored DEF GetStream, SameStore
<1>3. Fate' = [Fate EXCEPT ![c] = None]
  BY DEF GetStream, Leave, Goto, Fate
<1>4. CASE Leave(c, "ok") /\ read' = [read EXCEPT ![c] = file[fd[c]]]
  <2>1. Found' = Found
    BY <1>4 DEF GetStream, Leave, Goto, Found
  <2> QED BY <1>1, <1>2, <1>3, <1>4, <2>1
         DEF GetStream, Leave, Contract!Return, Contract!Reportable
<1>5. CASE Leave(c, "error") /\ UNCHANGED read
  <2>1. read[c] = None
    BY <1>1 DEF Shape
  <2>2. Found' = [Found EXCEPT ![c] = None]
    BY <1>5, <2>1 DEF GetStream, Leave, Goto, Found
  <2>3. "error" \in Contract!Reportable(c, {})
    BY DEF Contract!Reportable
  <2> QED BY <1>1, <1>2, <1>3, <1>5, <2>2, <2>3 DEF GetStream, Leave, Contract!Return
<1> QED BY <1>4, <1>5 DEF GetStream

(* A crash of the process cuts every call and loses nothing stored. *)
LEMMA CrashRefines ==
    ASSUME IInv, Crash
    PROVE  Contract!Crash
<1> USE DEF IInv, TypeOK
<1>1. Stored' = Stored
  BY SameStored DEF Crash, SameStore
<1>2. Fate' = [c \in Callers |-> None]
  BY DEF Crash, Fate
<1>3. Found' = [c \in Callers |-> IF call[c] # None THEN None ELSE Found[c]]
  BY DEF Crash, Shape, Found
<1> QED BY <1>1, <1>2, <1>3 DEF Crash, Contract!Crash

(* Every step of the driver is a step of the contract or none. *)
LEMMA NextRefines ==
    ASSUME IInv, [Next]_vars
    PROVE  [Contract!Next]_(Contract!vars)
<1> USE DEF Contract!Next, Contract!Step
<1>1. ASSUME NEW c \in Callers, Invoke(c) PROVE Contract!Next
  BY <1>1, InvokeRefines
<1>2. ASSUME NEW c \in Callers, PutStat(c) \/ PutCreate(c) \/ PutCopy(c) \/ PutClose(c)
      PROVE Contract!Next \/ UNCHANGED Contract!vars
  BY <1>2, PutStatRefines, PutCreateRefines, PutCopyRefines, PutCloseRefines
<1>3. ASSUME NEW c \in Callers, PutLink(c) \/ PutCleanup(c)
      PROVE Contract!Next \/ UNCHANGED Contract!vars
  BY <1>3, PutLinkRefines, PutCleanupRefines
<1>4. ASSUME NEW c \in Callers, GetOpen(c) \/ GetStream(c) \/ DeleteRemove(c) \/ Return(c)
      PROVE Contract!Next
  BY <1>4, GetOpenRefines, GetStreamRefines, DeleteRemoveRefines, ReturnRefines
<1>5. CASE Crash
  BY <1>5, CrashRefines
<1>6. CASE UNCHANGED vars
  BY <1>6 DEF vars, Contract!vars, Stored, Fate, Found
<1> QED BY <1>1, <1>2, <1>3, <1>4, <1>5, <1>6 DEF Next, Run

(* The local driver keeps the whole contract of storage.Backend: every     *)
(* call appears to take effect at one instant, whatever system calls of    *)
(* other requests and whatever crashes fall between its own.               *)
THEOREM Refinement == Spec => ImplementsContract
<1>1. Init => Contract!Init
  BY InitRefines
<1>2. IInv /\ [Next]_vars => [Contract!Next]_(Contract!vars)
  BY NextRefines
<1> QED BY <1>1, <1>2, Inductive, PTL DEF Spec, ImplementsContract, Contract!Spec
=============================================================================
