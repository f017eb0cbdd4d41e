--------------------------- MODULE Configurations ---------------------------
(***************************************************************************)
(* What the runtime configuration of internal/settings consists of, what   *)
(* an admin may ask for, and who asks.                                     *)
(*                                                                         *)
(* The description of a backend (its type, directory, bucket, prefix, ...) *)
(* is one value; the secrets are apart because a request may leave them as *)
(* they are.  TTLs are in seconds and small enough for time.Duration.      *)
(***************************************************************************)
EXTENDS Integers

CONSTANTS
    Replicas,   \* processes of the server
    Handlers,   \* goroutines that serve an admin's request
    Replica,    \* Replica[r] is the process handler r runs in
    Targets,    \* descriptions of a storage backend, without its credentials
    Nowhere,    \* one of them: of no known type, or with its bucket or directory missing
    Fields,     \* the secret fields: access key id, secret access key, service account
    Secrets,    \* the plaintexts they may hold
    Empty,      \* "" in a Settings, NULL in the row: no such credential
    Nil,        \* in an ApplyInput: leave the credential as it is
    Ttls, Sizes,    \* session lifetimes and entry sizes
    Inputs,     \* what admins enter
    Working,    \* the targets that can be built and listed, each with its credentials
    Seed,       \* what migration 0002 puts into the row
    None

Config == [target : Targets, secret : [Fields -> Secrets \cup {Empty}],
           ttl : Ttls, size : Sizes]

ApplyInput == [target : Targets, secret : [Fields -> Secrets \cup {Empty, Nil}],
               ttl : Ttls, size : Sizes]

(* validate *)
Valid(c) == c.target # Nowhere /\ c.ttl > 0 /\ c.size > 0

Works(c) == [target |-> c.target, secret |-> c.secret] \in Working

(* Variant: a secret that is nil is taken for "". *)
Merge_NilClears(c, in) ==
    [in EXCEPT !.secret = [f \in Fields |-> IF in.secret[f] = Nil THEN Empty
                                            ELSE in.secret[f]]]

(* An ApplyInput laid over the settings in force: a secret that is nil in  *)
(* the input stays, any other is taken from it, "" clearing it.            *)
Merge(c, in) ==
    [in EXCEPT !.secret = [f \in Fields |-> IF in.secret[f] = Nil THEN c.secret[f]
                                            ELSE in.secret[f]]]

ASSUME ReplicaAssumption == Replica \in [Handlers -> Replicas]
ASSUME RangesAssumption == Ttls \subseteq Int /\ Sizes \subseteq Int
ASSUME InputsAssumption == Inputs \subseteq ApplyInput
ASSUME SeedAssumption ==
    /\ Seed \in Config /\ Valid(Seed) /\ Works(Seed)
    /\ \A f \in Fields : Seed.secret[f] = Empty
ASSUME MarkersAssumption ==
    /\ Empty \notin Secrets /\ Nil \notin Secrets \cup {Empty}
    /\ None \notin Config \cup ApplyInput \cup Handlers
=============================================================================
