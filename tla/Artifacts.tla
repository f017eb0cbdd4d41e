----------------------------- MODULE Artifacts -----------------------------
(***************************************************************************)
(* What every storage driver of internal/storage handles: hashes, the      *)
(* bodies clients upload under them, the requests the HTTP server makes of *)
(* a Backend and the answers it gets back.                                 *)
(*                                                                         *)
(* A body is a model value with a declared length (the Content-Length the  *)
(* server passes as `size`).  What is stored is a body together with how   *)
(* much of it arrived, so that a truncated artifact can be told from a     *)
(* whole one.  Bytes are counted in chunks; their content plays no role.   *)
(***************************************************************************)
EXTENDS Integers

CONSTANTS
    Callers,    \* goroutines that call a Backend: one per HTTP request in flight
    Hashes,     \* cache keys; ValidHash keeps "." and "/" out of them
    Bodies,     \* the different artifacts clients may upload
    Length,     \* Length[b] is the size declared for body b, in chunks
    None        \* no request, no object, no answer

(* handlePut refuses ContentLength <= 0 before it calls the backend. *)
ASSUME LengthAssumption == Length \in [Bodies -> Nat \ {0}]

Artifact == {a \in [body : Bodies, len : Nat] : a.len <= Length[a.body]}

Whole(a) == a.len = Length[a.body]

WholeOf(b) == [body |-> b, len |-> Length[b]]

PutRequests == [op : {"put"}, hash : Hashes, body : Bodies]
HashRequests == [op : {"get", "delete"}, hash : Hashes]
Requests == PutRequests \cup HashRequests

(* What applying a request does to a bucket: None is the end of an object. *)
Effects == [hash : Hashes, object : Artifact \cup {None}]

(* What a call reports: success, a sentinel error of the package, or any   *)
(* other error.                                                            *)
Verdicts == {"ok", "exists", "notfound", "error"}

ASSUME NoneAssumption ==
    /\ None \notin Requests
    /\ None \notin Verdicts
    /\ None \notin [body : Bodies, len : Nat]
=============================================================================
