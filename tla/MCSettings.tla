----------------------------- MODULE MCSettings -----------------------------
(* Settings on a small instance: a local directory, and a bucket that can   *)
(* only be listed with a secret.                                            *)
EXTENDS Settings, TLC

CONSTANTS local, bucket, p1, r1

MCReplica == [r \in Handlers |-> IF r = r1 \/ Replicas = {p1} THEN p1
                                 ELSE CHOOSE p \in Replicas : p # p1]

MCSeed == [target |-> local, secret |-> [f \in Fields |-> Empty], ttl |-> 1, size |-> 1]

(* A credential is entered with the bucket only, or left alone; with a      *)
(* directory it may be cleared; the lifetime and the size limit change with *)
(* the target.                                                              *)
MCInputs ==
    {in \in ApplyInput :
      /\ in.size = in.ttl
      /\ CASE in.target = local -> in.ttl = 1 /\ (\E x \in {Nil, Empty} : \A f \in Fields : in.secret[f] = x)
           [] in.target = bucket -> in.ttl = 2 /\ \A f \in Fields : in.secret[f] # Empty
           [] OTHER -> in.ttl = 1 /\ \A f \in Fields : in.secret[f] = Nil}

MCWorking ==
    {w \in [target : {local, bucket}, secret : [Fields -> Secrets \cup {Empty}]] :
        w.target = bucket => \A f \in Fields : w.secret[f] # Empty}
=============================================================================
