----------------------------- MODULE LocalStore -----------------------------
(***************************************************************************)
(* The local disk driver, internal/storage/local.go, one action per file   *)
(* system call.  Several goroutines run Put, Get and Delete on one cache   *)
(* directory, and the process may be killed between any two calls.         *)
(*                                                                         *)
(* The directory holds two kinds of entries: names that are hashes, and    *)
(* temporary names made by os.CreateTemp, which contain "." and so are     *)
(* never hashes (storage.ValidHash).  An entry refers to an inode; a hard  *)
(* link gives a second name to the inode of a temporary file.              *)
(*                                                                         *)
(* Every call to the operating system may fail with an error of its own    *)
(* (disk full, permission, I/O): the disjuncts that end in "error".        *)
(***************************************************************************)
EXTENDS Artifacts

CONSTANT Inodes     \* the inodes of the file system; none free means disk full

ASSUME InodesAssumption == None \notin Inodes

VARIABLES
    dest,       \* dest[h] is the inode linked at Path(h), None when absent
    temps,      \* the inodes linked at a temporary name
    file,       \* the content of each inode
    call,       \* the request each caller runs
    pc,         \* the next file system call of that request
    fd,         \* the file the request holds open (or has created)
    ret,        \* what its Go code is about to return, None until decided
    answer,     \* what the caller was last told
    read,       \* the artifact the caller was last handed by a Get
    orphans     \* history: temporary names no request is going to remove

vars == <<dest, temps, file, call, pc, fd, ret, answer, read, orphans>>

PutLabels == {"stat", "create", "copy", "link", "cleanup"}
Labels == PutLabels \cup {"idle", "open", "stream", "remove", "return"}

(* Labels at which a Put owns the temporary file it created. *)
Owning == {"copy", "link", "cleanup"}

TypeOK ==
    /\ dest \in [Hashes -> Inodes \cup {None}]
    /\ temps \in SUBSET Inodes
    /\ file \in [Inodes -> Artifact]
    /\ call \in [Callers -> Requests \cup {None}]
    /\ pc \in [Callers -> Labels]
    /\ fd \in [Callers -> Inodes \cup {None}]
    /\ ret \in [Callers -> Verdicts \cup {None}]
    /\ answer \in [Callers -> Verdicts \cup {None}]
    /\ read \in [Callers -> Artifact \cup {None}]
    /\ orphans \in SUBSET Inodes

Init ==
    /\ dest = [h \in Hashes |-> None]
    /\ temps = {}
    /\ file \in [Inodes -> [body : Bodies, len : {0}]]
    /\ call = [c \in Callers |-> None]
    /\ pc = [c \in Callers |-> "idle"]
    /\ fd = [c \in Callers |-> None]
    /\ ret = [c \in Callers |-> None]
    /\ answer = [c \in Callers |-> None]
    /\ read = [c \in Callers |-> None]
    /\ orphans = {}

----------------------------------------------------------------------------
Hash(c) == call[c].hash

Goto(c, l) == pc' = [pc EXCEPT ![c] = l]

(* The code has decided what to return; l is where it goes from there. *)
Settle(c, v, l) ==
    /\ ret' = [ret EXCEPT ![c] = v]
    /\ Goto(c, l)

(* An inode the file system may hand out: linked nowhere, open nowhere. *)
Free == {i \in Inodes : /\ i \notin temps
                        /\ \A h \in Hashes : dest[h] # i
                        /\ \A c \in Callers : fd[c] # i}

(* The Backend method called for each operation starts with: *)
Entry(r) == CASE r.op = "put" -> "stat"
              [] r.op = "get" -> "open"
              [] r.op = "delete" -> "remove"

Invoke(c) ==
    /\ pc[c] = "idle"
    /\ \E r \in Requests : /\ call' = [call EXCEPT ![c] = r]
                           /\ Goto(c, Entry(r))
    /\ answer' = [answer EXCEPT ![c] = None]
    /\ read' = [read EXCEPT ![c] = None]
    /\ UNCHANGED <<dest, temps, file, fd, ret, orphans>>

----------------------------------------------------------------------------
(* Put. *)

(* os.Stat(dest): present, absent or unreadable. *)
PutStat(c) ==
    /\ pc[c] = "stat"
    /\ \/ dest[Hash(c)] # None /\ Settle(c, "exists", "return")
       \/ dest[Hash(c)] = None /\ Goto(c, "create") /\ UNCHANGED ret
       \/ Settle(c, "error", "return")
    /\ UNCHANGED <<dest, temps, file, call, fd, answer, read, orphans>>

(* Variant: the upload is written under its final name from the start. *)
PutCreate_InPlace(c) ==
    /\ pc[c] = "create"
    /\ \E i \in Free :
         /\ temps' = temps \cup {i}
         /\ file' = [file EXCEPT ![i] = [body |-> call[c].body, len |-> 0]]
         /\ dest' = [dest EXCEPT ![Hash(c)] = i]
         /\ fd' = [fd EXCEPT ![c] = i]
         /\ Goto(c, "copy")
    /\ UNCHANGED <<call, ret, answer, read, orphans>>

(* Variant: the temporary name is made from the hash, so that two uploads  *)
(* of one hash share the file.                                             *)
PutCreate_NamedAfterHash(c) ==
    /\ pc[c] = "create"
    /\ \E i \in Free \cup {fd[d] : d \in {d \in Callers : pc[d] = "copy" /\ Hash(d) = Hash(c)}} :
         /\ temps' = temps \cup {i}
         /\ file' = [file EXCEPT ![i] = [body |-> call[c].body, len |-> 0]]
         /\ fd' = [fd EXCEPT ![c] = i]
         /\ Goto(c, "copy")
    /\ UNCHANGED <<dest, call, ret, answer, read, orphans>>

PutCreate(c) ==
    /\ pc[c] = "create"
    /\ \/ \E i \in Free :
            /\ temps' = temps \cup {i}
            /\ file' = [file EXCEPT ![i] = [body |-> call[c].body, len |-> 0]]
            /\ fd' = [fd EXCEPT ![c] = i]
            /\ Goto(c, "copy")
            /\ UNCHANGED ret
       \/ Settle(c, "error", "return") /\ UNCHANGED <<temps, file, fd>>
    /\ UNCHANGED <<dest, call, answer, read, orphans>>

(* Variant: the body is copied without the LimitReader. *)
PutCopy_Unlimited(c) ==
    /\ pc[c] = "copy"
    /\ file' = [file EXCEPT ![fd[c]].len = @ + 1]
    /\ UNCHANGED <<dest, temps, call, pc, fd, ret, answer, read, orphans>>

(* io.Copy moves one more chunk of the body, which LimitReader cuts at size. *)
PutCopy(c) ==
    /\ pc[c] = "copy"
    /\ ~ Whole(file[fd[c]])
    /\ file' = [file EXCEPT ![fd[c]].len = @ + 1]
    /\ UNCHANGED <<dest, temps, call, pc, fd, ret, answer, read, orphans>>

(* Variant: n is not compared with size, so a short copy is linked. *)
PutClose_Short(c) ==
    /\ pc[c] = "copy"
    /\ Goto(c, "link")
    /\ UNCHANGED <<dest, temps, file, call, fd, ret, answer, read, orphans>>

(* Variant: a failed copy is started over instead of being given up. *)
PutClose_Retry(c) ==
    /\ pc[c] = "copy"
    /\ IF Whole(file[fd[c]])
          THEN Goto(c, "link") /\ UNCHANGED file
          ELSE file' = [file EXCEPT ![fd[c]].len = 0] /\ UNCHANGED pc
    /\ UNCHANGED <<dest, temps, call, fd, ret, answer, read, orphans>>

(* The copy ends, because size bytes arrived, the client went away or the  *)
(* disk failed, the file is closed and the three checks follow.            *)
PutClose(c) ==
    /\ pc[c] = "copy"
    /\ \/ Whole(file[fd[c]]) /\ Goto(c, "link") /\ UNCHANGED ret
       \/ Settle(c, "error", "cleanup")
    /\ UNCHANGED <<dest, temps, file, call, fd, answer, read, orphans>>

(* Variant: os.Rename, which replaces the entry of an earlier upload. *)
PutLink_Rename(c) ==
    /\ pc[c] = "link"
    /\ dest' = [dest EXCEPT ![Hash(c)] = fd[c]]
    /\ Settle(c, "ok", "cleanup")
    /\ UNCHANGED <<temps, file, call, fd, answer, read, orphans>>

(* Variant: the loser of a race is told that its body was stored. *)
PutLink_LoserOk(c) ==
    /\ pc[c] = "link"
    /\ dest' = [dest EXCEPT ![Hash(c)] = IF @ = None THEN fd[c] ELSE @]
    /\ Settle(c, "ok", "cleanup")
    /\ UNCHANGED <<temps, file, call, fd, answer, read, orphans>>

(* Variant: the loser of a race returns without removing its file. *)
PutLink_LoserLeaks(c) ==
    /\ pc[c] = "link"
    /\ IF dest[Hash(c)] = None
          THEN /\ dest' = [dest EXCEPT ![Hash(c)] = fd[c]]
               /\ Settle(c, "ok", "cleanup")
               /\ UNCHANGED fd
          ELSE /\ Settle(c, "exists", "return")
               /\ fd' = [fd EXCEPT ![c] = None]
               /\ UNCHANGED dest
    /\ UNCHANGED <<temps, file, call, answer, read, orphans>>

(* os.Link fails with EEXIST when another Put got there first. *)
PutLink(c) ==
    /\ pc[c] = "link"
    /\ \/ /\ dest[Hash(c)] = None
          /\ dest' = [dest EXCEPT ![Hash(c)] = fd[c]]
          /\ Settle(c, "ok", "cleanup")
       \/ /\ dest[Hash(c)] # None
          /\ Settle(c, "exists", "cleanup")
          /\ UNCHANGED dest
       \/ Settle(c, "error", "cleanup") /\ UNCHANGED dest
    /\ UNCHANGED <<temps, file, call, fd, answer, read, orphans>>

(* The deferred os.Remove of the temporary name; its error is ignored. *)
PutCleanup(c) ==
    /\ pc[c] = "cleanup"
    /\ \/ temps' = temps \ {fd[c]} /\ UNCHANGED orphans
       \/ orphans' = orphans \cup {fd[c]} /\ UNCHANGED temps
    /\ fd' = [fd EXCEPT ![c] = None]
    /\ Goto(c, "return")
    /\ UNCHANGED <<dest, file, call, ret, answer, read>>

----------------------------------------------------------------------------
(* Get and Delete. *)

(* os.Open and the Stat of the open file. *)
GetOpen(c) ==
    /\ pc[c] = "open"
    /\ \/ /\ dest[Hash(c)] # None
          /\ fd' = [fd EXCEPT ![c] = dest[Hash(c)]]
          /\ Goto(c, "stream")
          /\ UNCHANGED ret
       \/ dest[Hash(c)] = None /\ Settle(c, "notfound", "return") /\ UNCHANGED fd
       \/ Settle(c, "error", "return") /\ UNCHANGED fd
    /\ UNCHANGED <<dest, temps, file, call, answer, read, orphans>>

DeleteRemove(c) ==
    /\ pc[c] = "remove"
    /\ \/ /\ dest[Hash(c)] # None
          /\ dest' = [dest EXCEPT ![Hash(c)] = None]
          /\ Settle(c, "ok", "return")
       \/ dest[Hash(c)] = None /\ Settle(c, "notfound", "return") /\ UNCHANGED dest
       \/ Settle(c, "error", "return") /\ UNCHANGED dest
    /\ UNCHANGED <<temps, file, call, fd, answer, read, orphans>>

----------------------------------------------------------------------------
(* The method has returned and the caller goes on to its next request. *)
Leave(c, a) ==
    /\ answer' = [answer EXCEPT ![c] = a]
    /\ call' = [call EXCEPT ![c] = None]
    /\ ret' = [ret EXCEPT ![c] = None]
    /\ Goto(c, "idle")

Return(c) ==
    /\ pc[c] = "return"
    /\ Leave(c, ret[c])
    /\ UNCHANGED <<dest, temps, file, fd, read, orphans>>

(* handleGet streams the open file, whose name may be gone by now, and     *)
(* closes it; the client may hang up first.                                *)
GetStream(c) ==
    /\ pc[c] = "stream"
    /\ \/ Leave(c, "ok") /\ read' = [read EXCEPT ![c] = file[fd[c]]]
       \/ Leave(c, "error") /\ UNCHANGED read
    /\ fd' = [fd EXCEPT ![c] = None]
    /\ UNCHANGED <<dest, temps, file, orphans>>

(* The process is killed: no deferred call runs, the directory survives. *)
Crash ==
    /\ answer' = [c \in Callers |-> IF call[c] # None THEN "error" ELSE answer[c]]
    /\ call' = [c \in Callers |-> None]
    /\ pc' = [c \in Callers |-> "idle"]
    /\ fd' = [c \in Callers |-> None]
    /\ ret' = [c \in Callers |-> None]
    /\ orphans' = temps
    /\ UNCHANGED <<dest, temps, file, read>>

Run(c) ==
    \/ PutStat(c)
    \/ PutCreate(c)
    \/ PutCopy(c)
    \/ PutClose(c)
    \/ PutLink(c)
    \/ PutCleanup(c)
    \/ GetOpen(c)
    \/ GetStream(c)
    \/ DeleteRemove(c)
    \/ Return(c)

Next ==
    \/ \E c \in Callers : Invoke(c) \/ Run(c)
    \/ Crash

Spec == Init /\ [][Next]_vars

(* A goroutine that has been started is scheduled until its handler is     *)
(* done, and the server's read timeout ends a body that never arrives.     *)
FairSpec == Spec /\ \A c \in Callers : WF_vars(Run(c))

----------------------------------------------------------------------------
(* A name that is a hash always leads to a whole artifact: an interrupted  *)
(* upload, a crash or two uploads of one hash never leave part of a body   *)
(* where a Get can find it.                                                *)
WholeArtifacts == \A h \in Hashes : dest[h] # None => Whole(file[dest[h]])

(* What a Get streams is whole even when the entry is deleted, uploaded    *)
(* again or its inode given away between the open and the end of the copy. *)
HandedOutWhole ==
    /\ \A c \in Callers : pc[c] = "stream" => Whole(file[fd[c]])
    /\ \A c \in Callers : read[c] # None => Whole(read[c])

(* Temporary files are the ones the running Puts own, each its own, and    *)
(* those a crash or a failed remove left behind: no other path leaks one   *)
(* or removes that of another request.                                     *)
TempsAccounted ==
    /\ temps = orphans \cup {fd[c] : c \in {d \in Callers : pc[d] \in Owning}}
    /\ \A c \in Callers : pc[c] \in Owning => fd[c] \notin orphans
    /\ \A c, d \in Callers :
         pc[c] \in Owning /\ pc[d] \in Owning /\ c # d => fd[c] # fd[d]

(* "A hash is written once and never overwritten": while a hash is stored, *)
(* no step changes what is stored under it other than a delete.            *)
WriteOnce ==
    [][\A h \in Hashes :
         dest[h] # None => \/ dest'[h] = None
                           \/ dest'[h] = dest[h] /\ file'[dest[h]] = file[dest[h]]]_vars

(* How many system calls a request has before it at most, with its return  *)
(* to the caller as the last.                                              *)
Remaining(c) ==
    CASE pc[c] = "stat"    -> Length[call[c].body] + 6
      [] pc[c] = "create"  -> Length[call[c].body] + 5
      [] pc[c] = "copy"    -> Length[file[fd[c]].body] - file[fd[c]].len + 4
      [] pc[c] = "link"    -> 3
      [] pc[c] \in {"cleanup", "open", "remove"} -> 2
      [] pc[c] \in {"stream", "return"} -> 1
      [] pc[c] = "idle"    -> 0

(* Each system call brings its request nearer to its end, and no call of   *)
(* another request sets one back, fills the file it copies to or makes it  *)
(* try again: a Put is done after Length + 6 calls, the others after two.  *)
CallsAdvance ==
    [][\A c \in Callers : call[c] # None =>
         \/ Remaining(c)' \in 0 .. Remaining(c) - 1
         \/ Remaining(c)' = Remaining(c) /\ UNCHANGED <<call[c], pc[c], fd[c], ret[c]>>]_vars

(* Every call comes back, whatever the others do. *)
CallsReturn == \A c \in Callers : call[c] # None ~> call[c] = None

(* Every temporary file is eventually removed, or was left by a crash or a *)
(* failed remove.                                                          *)
TempsReclaimed == \A i \in Inodes : i \in temps ~> i \notin temps \/ i \in orphans

----------------------------------------------------------------------------
(* The driver implements the contract of storage.Backend: a Put is decided *)
(* at its Stat or its Link, a Get at its Open, a Delete at its Remove.     *)
Stored == [h \in Hashes |-> IF dest[h] = None THEN None ELSE file[dest[h]]]

Fate == [c \in Callers |-> IF pc[c] = "stream" THEN "ok" ELSE ret[c]]

Found == [c \in Callers |-> IF pc[c] = "stream" THEN file[fd[c]] ELSE read[c]]

Contract == INSTANCE ArtifactStore WITH stored <- Stored, fate <- Fate, read <- Found, late <- {}

ImplementsContract == Contract!Spec
=============================================================================
