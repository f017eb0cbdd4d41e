-------------------------- MODULE RetentionProofs --------------------------
(***************************************************************************)
(* Proofs about Retention: for any number of entries, replicas, prunes and *)
(* clients and for every page size, a sweep or a prune that no swap of the *)
(* backend overtakes deletes what its rule condemned, all of it and        *)
(* nothing else.                                                           *)
(***************************************************************************)
EXTENDS Retention, FiniteSetTheorems, TLAPS

----------------------------------------------------------------------------
(* Least and greatest elements, and pages.                                 *)

(* T contains no other member of F. *)
Minimal(T, F) == \A R \in F : R \subseteq T => R = T

(* F is a set of finite subsets of U. *)
AllFinite(F, U) == \A T \in F : T \subseteq U /\ IsFiniteSet(T)

(* A set of finite sets has one that contains no other. *)
LEMMA Smallest ==
    ASSUME NEW U, NEW F, F # {}, AllFinite(F, U)
    PROVE  \E T \in F : Minimal(T, F)
<1>1. F \subseteq FiniteSubsetsOf(U)
  BY DEF FiniteSubsetsOf, AllFinite
<1>2. \E T \in F : \A S \in F : ~ (<<S, T>> \in StrictSubsetOrdering(U))
  BY <1>1, FS_StrictSubsetOrderingWellFounded, WFMin, Zenon
<1>. QED
  BY <1>2 DEF StrictSubsetOrdering, Minimal, AllFinite

(* A set of numbers has a least element. *)
LEMMA Least ==
    ASSUME NEW S \in SUBSET Nat, S # {}
    PROVE  Min(S) \in S /\ \A x \in S : Min(S) <= x
<1>1. PICK F : F = {0 .. x : x \in S}
  OBVIOUS
<1>2. \A x \in S : 0 .. x \subseteq Nat /\ IsFiniteSet(0 .. x)
  <2>1. \A x \in S : x \in Int
    OBVIOUS
  <2>2. \A x \in S : IsFiniteSet(0 .. x)
    BY <2>1, FS_Interval
  <2>. QED
    BY <2>2
<1>3. F # {} /\ AllFinite(F, Nat)
  BY <1>1, <1>2 DEF AllFinite
<1>4. PICK T \in F : Minimal(T, F)
  BY <1>3, Smallest
<1>5. PICK x \in S : T = 0 .. x
  BY <1>1
<1>6. ASSUME NEW y \in S PROVE x <= y
  <2>1. SUFFICES ASSUME y < x PROVE FALSE
    OBVIOUS
  <2>2. 0 .. y \in F
    BY <1>1
  <2>3. 0 .. y \subseteq T /\ x \in T /\ x \notin 0 .. y
    BY <1>5, <2>1
  <2>. QED
    BY <2>2, <2>3, <1>4 DEF Minimal
<1>7. \E z \in S : \A y \in S : z <= y
  BY <1>6
<1>. QED
  BY <1>7, Zenon DEF Min

(* A finite set of numbers has a greatest element: a smallest set without  *)
(* an upper bound would have one as soon as an element is taken out.       *)
LEMMA Greatest ==
    ASSUME NEW S \in SUBSET Nat, S # {}, IsFiniteSet(S)
    PROVE  Max(S) \in S /\ \A x \in S : Max(S) >= x
<1>. DEFINE HasMax(T) == \E x \in T : \A y \in T : x >= y
<1>1. SUFFICES HasMax(S)
  BY Zenon DEF Max
<1>2. SUFFICES ASSUME ~ HasMax(S) PROVE FALSE
  OBVIOUS
<1>3. PICK F : F = {T \in SUBSET S : T # {} /\ ~ HasMax(T)}
  OBVIOUS
<1>4. F # {} /\ AllFinite(F, S)
  BY <1>2, <1>3, FS_Subset DEF AllFinite
<1>5. PICK T \in F : Minimal(T, F)
  BY <1>4, Smallest
<1>6. PICK x \in T : TRUE
  BY <1>3, <1>5
<1>7. T \ {x} \notin F /\ T \in SUBSET S /\ ~ HasMax(T)
  BY <1>3, <1>5, <1>6 DEF Minimal
<1>8. CASE T \ {x} = {}
  <2>1. x \in Nat /\ \A y \in T : y = x
    BY <1>8, <1>6, <1>7
  <2>. QED
    BY <2>1, <1>6, <1>7
<1>9. CASE HasMax(T \ {x})
  <2>1. PICK z \in T \ {x} : \A y \in T \ {x} : z >= y
    BY <1>9
  <2>2. z \in Nat /\ x \in Nat /\ \A y \in T : y \in Nat
    BY <2>1, <1>6, <1>7
  <2>3. CASE z >= x
    <3>1. \A y \in T : z >= y
      BY <2>1, <2>3
    <3>. QED
      BY <3>1, <1>7
  <2>4. CASE x > z
    <3>1. \A y \in T : x >= y
      BY <2>1, <2>2, <2>4
    <3>. QED
      BY <3>1, <1>6, <1>7
  <2>. QED
    BY <2>2, <2>3, <2>4
<1>. QED
  BY <1>3, <1>7, <1>8, <1>9

(* A page of some names has one of them if there are any, comes before all *)
(* that it leaves out, and has a last name to go on from.                  *)
LEMMA PageFacts ==
    ASSUME NEW A \in SUBSET Hashes
    PROVE  /\ Page(A) \subseteq A
           /\ \A h \in A \ Page(A), p \in Page(A) : p < h
           /\ Page(A) # A => Max(Page(A)) \in Page(A) /\ \A p \in Page(A) : Max(Page(A)) >= p
<1>. DEFINE Below(h) == {g \in A : g < h}
<1>1. A \in SUBSET Nat /\ IsFiniteSet(A)
  BY HashesAssumption, FS_Subset
<1>2. Page(A) = {h \in A : Cardinality(Below(h)) < PageSize}
  BY DEF Page
<1>3. \A h : IsFiniteSet(Below(h)) /\ Cardinality(Below(h)) \in Nat
  <2>1. \A h : Below(h) \in SUBSET A
    OBVIOUS
  <2>. QED
    BY <2>1, <1>1, FS_Subset, FS_CardinalityType
<1>4. ASSUME NEW h \in A, NEW p \in A, h <= p
      PROVE  Cardinality(Below(h)) <= Cardinality(Below(p))
  <2>1. h \in Nat /\ p \in Nat /\ \A g \in A : g \in Nat
    BY <1>1
  <2>2. \A g \in A : g < h => g < p
    BY <2>1, <1>4
  <2>3. Below(h) \in SUBSET Below(p)
    BY <2>2
  <2>. QED
    BY <2>3, <1>3, FS_Subset
<1>5. ASSUME NEW h \in A \ Page(A), NEW p \in Page(A) PROVE p < h
  <2>1. h \in A /\ p \in A /\ h \in Nat /\ p \in Nat
    BY <1>1, <1>2, <1>5
  <2>2. Cardinality(Below(p)) < PageSize /\ ~ (Cardinality(Below(h)) < PageSize)
    BY <1>2, <1>5
  <2>3. Cardinality(Below(p)) \in Nat /\ Cardinality(Below(h)) \in Nat /\ PageSize \in Nat
    BY <1>3, ConfigAssumption
  <2>4. ~ (h <= p)
    BY <2>1, <2>2, <2>3, <1>4
  <2>. QED
    BY <2>1, <2>4
<1>6. ASSUME Page(A) # A PROVE Page(A) # {}
  <2>1. A # {}
    BY <1>6, <1>2
  <2>2. Min(A) \in A /\ \A g \in A : Min(A) <= g
    BY <2>1, <1>1, Least
  <2>3. Min(A) \in Nat /\ \A g \in A : g \in Nat
    BY <2>2, <1>1
  <2>4. Below(Min(A)) = {}
    BY <2>2, <2>3
  <2>5. Cardinality(Below(Min(A))) = 0
    BY <2>4, FS_EmptySet
  <2>. QED
    BY <2>2, <2>5, <1>2, ConfigAssumption
<1>7. Page(A) \in SUBSET Nat /\ IsFiniteSet(Page(A)) /\ Page(A) \subseteq A
  <2>1. Page(A) \in SUBSET A
    BY <1>2
  <2>. QED
    BY <2>1, <1>1, FS_Subset
<1>. QED
  BY <1>5, <1>6, <1>7, Greatest

----------------------------------------------------------------------------
(* The inductive invariant.                                                *)

(* Hash h is out of the reach of the verdict of scan s: it is absent, or   *)
(* was stored since the scan began.                                        *)
Gone(s, h) == entry[active][h] = None \/ entry[active][h] >= scan[s].started

(* The rule of scan s as its code applies it, with cutoffs and reads of    *)
(* the start, to the entry as it is now.                                   *)
Condemned(s, h) ==
    shouldDelete(entry[active][h], h \in scan[s].fresh, scan[s].old, scan[s].unread)

(* Scan s has yet to come to h, or holds it among those to delete. *)
Ahead(s, h) ==
    \/ scan[s].pc = "list" /\ h > scan[s].cursor
    \/ scan[s].pc # "list" /\ scan[s].more /\ h > scan[s].cursor
    \/ scan[s].pc = "stat" /\ h \in scan[s].names
    \/ scan[s].pc = "delete" /\ h \in scan[s].doomed
    \/ scan[s].pc = "clear" /\ h \in scan[s].doomed /\ h # Min(scan[s].doomed)

(* A scan that no swap has overtaken works on one backend, its rule means  *)
(* what it meant at the start, and what it was to delete is deleted or     *)
(* ahead of it.                                                            *)
Exact(s) ==
    /\ scan[s].on \in {None, active}
    /\ \A h \in Hashes : Gone(s, h) \/ (h \in scan[s].due <=> Condemned(s, h))
    /\ \A h \in scan[s].doomed : Gone(s, h) \/ h \in scan[s].due
    /\ ~ scan[s].failed => \A h \in scan[s].due : Gone(s, h) \/ Ahead(s, h)

Sound(s) ==
    /\ scan[s].started <= now
    /\ scan[s].pc = "stat" => scan[s].on # None
    /\ scan[s].pc = "clear" => scan[s].doomed # {}
    /\ ~ scan[s].swapped => Exact(s)

IInv ==
    /\ TypeOK
    /\ \A s \in Scanners : scan[s] # None => Sound(s)

(* The fields of a scan have their types. *)
LEMMA ScanFields ==
    ASSUME TypeOK, NEW s \in Scanners, scan[s] # None
    PROVE  /\ scan[s] \in Scan
           /\ scan[s].doomed \in SUBSET Hashes /\ scan[s].doomed \in SUBSET Nat
           /\ scan[s].names \in SUBSET Hashes /\ scan[s].due \in SUBSET Hashes
           /\ scan[s].started \in Int /\ scan[s].old \in Int /\ scan[s].unread \in Int
           /\ scan[s].cursor \in Nat /\ now \in Nat /\ Hashes \in SUBSET Nat
           /\ \A h \in Hashes : entry[active][h] # None => entry[active][h] \in Nat
<1>1. scan[s] \in Scan
  BY DEF TypeOK
<1>2. scan[s].doomed \in SUBSET Hashes /\ scan[s].names \in SUBSET Hashes
      /\ scan[s].due \in SUBSET Hashes /\ scan[s].started \in Time
      /\ scan[s].old \in Int /\ scan[s].unread \in Int /\ scan[s].cursor \in Hashes \cup {0}
  BY <1>1 DEF Scan
<1>3. Time \in SUBSET Nat /\ Hashes \in SUBSET Nat
  BY ConfigAssumption, HashesAssumption DEF Time
<1>4. \A h \in Hashes : entry[active][h] \in Time \cup {None}
  BY DEF TypeOK
<1>5. now \in Time
  BY DEF TypeOK
<1>6. scan[s].doomed \in SUBSET Nat
  BY <1>2, <1>3
<1>7. scan[s].started \in Nat /\ scan[s].cursor \in Nat /\ now \in Nat
  <2>1. \A t \in Time : t \in Nat
    BY <1>3
  <2>2. \A h \in Hashes : h \in Nat
    BY <1>3
  <2>. QED
    BY <2>1, <2>2, <1>2, <1>5
<1>8. \A h \in Hashes : entry[active][h] # None => entry[active][h] \in Nat
  BY <1>3, <1>4
<1>. QED
  BY <1>1, <1>2, <1>3, <1>6, <1>7, <1>8

(* What others do to the entries of its backend, storing new ones and      *)
(* deleting any, is no harm to a scan.                                     *)
LEMMA Undisturbed ==
    ASSUME TypeOK, NEW s \in Scanners, scan[s] # None, Sound(s),
           scan'[s] = scan[s], active' = active, now' \in Nat, now' >= now,
           \A h \in Hashes : entry'[active][h] \in {entry[active][h], None, now}
    PROVE  Sound(s)'
<1>1. scan[s].started \in Int /\ now \in Nat /\ scan[s].due \in SUBSET Hashes
      /\ scan[s].doomed \in SUBSET Hashes
  BY ScanFields
<1>2. scan[s].started <= now /\ scan[s].started <= now'
  BY <1>1 DEF Sound
<1>3. \A h \in Hashes : Gone(s, h) => Gone(s, h)'
  BY <1>1, <1>2 DEF Gone
<1>4. \A h \in Hashes : entry'[active][h] # entry[active][h] => Gone(s, h)'
  BY <1>1, <1>2 DEF Gone
<1>5. \A h \in Hashes : Gone(s, h)' \/ (Condemned(s, h)' <=> Condemned(s, h))
  BY <1>4 DEF Condemned, shouldDelete
<1>6. \A h \in Hashes : Ahead(s, h)' <=> Ahead(s, h)
  BY DEF Ahead
<1>7. Exact(s) => Exact(s)'
  BY <1>1, <1>3, <1>5, <1>6 DEF Exact
<1>. QED
  BY <1>2, <1>7 DEF Sound

(* A step that leaves every scan but s alone, and the backend's entries as *)
(* above, keeps the invariant if it leaves s sound.                        *)
LEMMA OneScan ==
    ASSUME IInv, TypeOK', NEW s \in Scanners,
           \A q \in Scanners \ {s} : scan'[q] = scan[q],
           active' = active, now' = now,
           \A h \in Hashes : entry'[active][h] \in {entry[active][h], None, now},
           scan'[s] # None => Sound(s)'
    PROVE  IInv'
<1>1. ASSUME NEW q \in Scanners \ {s}, scan'[q] # None
      PROVE  Sound(q)'
  <2>1. scan'[q] = scan[q] /\ scan[q] # None /\ Sound(q)
    BY <1>1 DEF IInv
  <2>2. now \in Nat
    BY <2>1, ScanFields DEF IInv
  <2>. QED
    BY <2>1, <2>2, Undisturbed DEF IInv
<1>. QED
  BY <1>1 DEF IInv

(* The same for a step that touches no scan. *)
LEMMA NoScan ==
    ASSUME IInv, TypeOK', scan' = scan, active' = active, now' \in Nat, now' >= now,
           \A h \in Hashes : entry'[active][h] \in {entry[active][h], None, now}
    PROVE  IInv'
<1>1. ASSUME NEW q \in Scanners, scan'[q] # None
      PROVE  Sound(q)'
  BY <1>1, Undisturbed DEF IInv
<1>. QED
  BY <1>1 DEF IInv

----------------------------------------------------------------------------
(* The invariant holds at the start.                                       *)
LEMMA InitInv == Init => IInv
<1>. SUFFICES ASSUME Init PROVE IInv
  OBVIOUS
<1>1. TypeOK
  BY ConfigAssumption DEF Init, TypeOK, Time
<1>. QED
  BY <1>1 DEF IInv, Init

(* The clock. *)
LEMMA TickKeeps ==
    ASSUME IInv, Tick
    PROVE  IInv'
<1>1. now \in Nat /\ now' = now + 1 /\ now' \in Time
  BY ConfigAssumption DEF IInv, TypeOK, Tick, Time
<1>2. TypeOK'
  BY <1>1 DEF IInv, TypeOK, Tick
<1>. QED
  BY <1>1, <1>2, NoScan DEF Tick

(* Uploads. *)
LEMMA PutKeeps ==
    ASSUME IInv, NEW w \in Writers, PutEnd(w) \/ \E h \in Hashes : PutBegin(w, h)
    PROVE  IInv'
<1>1. now \in Nat /\ now \in Time
  BY ConfigAssumption DEF IInv, TypeOK, Time
<1>2. ASSUME NEW h \in Hashes, PutBegin(w, h) PROVE IInv'
  <2>1. TypeOK'
    BY <1>2 DEF IInv, TypeOK, PutBegin
  <2>. QED
    BY <1>1, <1>2, <2>1, NoScan DEF PutBegin
<1>3. CASE PutEnd(w)
  <2>1. writer[w] \in Backends \X Hashes
    BY <1>3 DEF IInv, TypeOK, PutEnd
  <2>2. PICK b \in Backends, h \in Hashes : writer[w] = <<b, h>>
    BY <2>1
  <2>3. entry' = entry \/ entry' = [entry EXCEPT ![b][h] = now]
    BY <1>3, <2>2 DEF PutEnd
  <2>4. /\ entry' \in [Backends -> [Hashes -> Time \cup {None}]]
        /\ \A g \in Hashes : entry'[active][g] \in {entry[active][g], None, now}
    <3>1. CASE entry' = entry
      BY <3>1 DEF IInv, TypeOK
    <3>2. CASE entry' = [entry EXCEPT ![b][h] = now]
      BY <1>1, <3>2 DEF IInv, TypeOK
    <3>. QED
      BY <2>3, <3>1, <3>2
  <2>5. TypeOK'
    BY <1>3, <2>4 DEF IInv, TypeOK, PutEnd
  <2>. QED
    BY <1>1, <1>3, <2>4, <2>5, NoScan DEF PutEnd
<1>. QED
  BY <1>2, <1>3

(* Reads. *)
LEMMA ReadKeeps ==
    ASSUME IInv, NEW r \in Readers, RecordRead(r) \/ \E h \in Hashes : GetHit(r, h)
    PROVE  IInv'
<1>1. now \in Nat /\ now \in Time
  BY ConfigAssumption DEF IInv, TypeOK, Time
<1>2. ASSUME NEW h \in Hashes, GetHit(r, h) PROVE IInv'
  <2>1. TypeOK'
    BY <1>2 DEF IInv, TypeOK, GetHit
  <2>. QED
    BY <1>1, <1>2, <2>1, NoScan DEF GetHit
<1>3. CASE RecordRead(r)
  <2>1. faults' \in 0 .. MaxFaults
    BY <1>3, ConfigAssumption DEF IInv, TypeOK, RecordRead, Fault
  <2>2. row' \in [Hashes -> Time \cup {None}]
    BY <1>1, <1>3 DEF IInv, TypeOK, RecordRead
  <2>3. TypeOK'
    BY <1>3, <2>1, <2>2 DEF IInv, TypeOK, RecordRead
  <2>. QED
    BY <1>1, <1>3, <2>3, NoScan DEF RecordRead
<1>. QED
  BY <1>2, <1>3

(* Deletes of admins. *)
LEMMA AdminKeeps ==
    ASSUME IInv, NEW d \in Deleters, AdminClear(d) \/ \E h \in Hashes : AdminDelete(d, h)
    PROVE  IInv'
<1>1. now \in Nat
  BY ConfigAssumption DEF IInv, TypeOK, Time
<1>2. ASSUME NEW h \in Hashes, AdminDelete(d, h) PROVE IInv'
  <2>1. /\ entry' \in [Backends -> [Hashes -> Time \cup {None}]]
        /\ \A g \in Hashes : entry'[active][g] \in {entry[active][g], None, now}
    BY <1>2 DEF IInv, TypeOK, AdminDelete
  <2>2. TypeOK'
    BY <1>2, <2>1 DEF IInv, TypeOK, AdminDelete
  <2>. QED
    BY <1>1, <1>2, <2>1, <2>2, NoScan DEF AdminDelete
<1>3. CASE AdminClear(d)
  <2>1. faults' \in 0 .. MaxFaults
    BY <1>3, ConfigAssumption DEF IInv, TypeOK, AdminClear, Fault
  <2>2. row' \in [Hashes -> Time \cup {None}]
    BY <1>3 DEF IInv, TypeOK, AdminClear
  <2>3. TypeOK'
    BY <1>3, <2>1, <2>2 DEF IInv, TypeOK, AdminClear
  <2>. QED
    BY <1>1, <1>3, <2>3, NoScan DEF AdminClear
<1>. QED
  BY <1>2, <1>3

(* A swap releases every scan in progress from its duties. *)
LEMMA SwapKeeps ==
    ASSUME IInv, NEW b \in Backends, Swap(b)
    PROVE  IInv'
<1>1. ASSUME NEW s \in Scanners, scan[s] # None
      PROVE  /\ scan'[s] = [scan[s] EXCEPT !.swapped = TRUE]
             /\ scan'[s] \in Scan /\ Sound(s)'
  <2>1. scan[s] \in Scan /\ Sound(s)
    BY <1>1 DEF IInv, TypeOK
  <2>2. scan'[s] = [scan[s] EXCEPT !.swapped = TRUE]
    BY <1>1 DEF Swap
  <2>3. scan'[s] \in Scan /\ scan'[s].swapped
    BY <2>1, <2>2 DEF Scan
  <2>4. Sound(s)'
    BY <2>1, <2>2, <2>3 DEF Sound, Swap, Scan
  <2>. QED
    BY <2>2, <2>3, <2>4
<1>2. scan' \in [Scanners -> Scan \cup {None}] /\ \A s \in Scanners : scan[s] = None => scan'[s] = None
  BY <1>1 DEF Swap
<1>3. swaps' \in 0 .. MaxSwaps
  BY ConfigAssumption DEF IInv, TypeOK, Swap
<1>4. TypeOK'
  BY <1>2, <1>3 DEF IInv, TypeOK, Swap
<1>. QED
  BY <1>1, <1>2, <1>4 DEF IInv

(* A crash ends every scan. *)
LEMMA CrashKeeps ==
    ASSUME IInv, Crash
    PROVE  IInv'
<1>1. faults' \in 0 .. MaxFaults
  BY ConfigAssumption DEF IInv, TypeOK, Crash, Fault
<1>2. TypeOK'
  BY <1>1 DEF IInv, TypeOK, Crash
<1>. QED
  BY <1>2 DEF IInv, Crash

----------------------------------------------------------------------------
(* The steps of a scan.                                                    *)

(* A scan that begins has everything ahead of it, and its cutoffs and      *)
(* reads say of every entry what its rule says.                            *)
LEMMA BeginSound ==
    ASSUME IInv, NEW s \in Scanners, scan[s] = None,
           NEW old \in Int, NEW unread \in Int,
           NEW fresh \in SUBSET Hashes, NEW due \in SUBSET Hashes,
           Begin(s, old, unread, fresh, due),
           \A h \in due : entry[active][h] # None /\ shouldDelete(entry[active][h], h \in fresh, old, unread),
           \A h \in Hashes \ due : entry[active][h] = None \/ ~ shouldDelete(entry[active][h], h \in fresh, old, unread),
           UNCHANGED <<now, active, entry, row, reader, writer, deleter, swaps, faults>>
    PROVE  IInv'
<1>1. scan' = [scan EXCEPT ![s] =
        [pc |-> "list", started |-> now, old |-> old, unread |-> unread, fresh |-> fresh,
         cursor |-> 0, on |-> None, names |-> {}, doomed |-> {}, more |-> FALSE,
         due |-> due, swapped |-> FALSE, failed |-> FALSE]]
  BY DEF Begin
<1>2. now \in Time /\ now \in Nat /\ scan \in [Scanners -> Scan \cup {None}]
  BY ConfigAssumption DEF IInv, TypeOK, Time
<1>3. scan'[s] =
        [pc |-> "list", started |-> now, old |-> old, unread |-> unread, fresh |-> fresh,
         cursor |-> 0, on |-> None, names |-> {}, doomed |-> {}, more |-> FALSE,
         due |-> due, swapped |-> FALSE, failed |-> FALSE]
  BY <1>1, <1>2
<1>4. scan'[s] \in Scan
  BY <1>2, <1>3 DEF Scan
<1>5. TypeOK'
  <2>1. scan' \in [Scanners -> Scan \cup {None}]
    BY <1>1, <1>2, <1>3, <1>4
  <2>. QED
    BY <2>1 DEF IInv, TypeOK
<1>6. \A h \in Hashes : h \in due <=> (entry[active][h] # None /\ Condemned(s, h)')
  BY <1>3 DEF Condemned
<1>7. \A h \in Hashes : h > 0
  BY HashesAssumption
<1>8. Exact(s)'
  BY <1>3, <1>6, <1>7 DEF Exact, Gone, Ahead
<1>9. Sound(s)'
  BY <1>2, <1>3, <1>8 DEF Sound
<1>10. \A q \in Scanners \ {s} : scan'[q] = scan[q]
  BY <1>1, <1>2
<1>. QED
  BY <1>5, <1>9, <1>10, OneScan

LEMMA SweepBeginKeeps ==
    ASSUME IInv, NEW j \in Janitors, SweepBegin(j)
    PROVE  IInv'
<1>. DEFINE fresh == {h \in Hashes : row[h] # None /\ row[h] >= now - UnreadAfter}
            due == {h \in Hashes : Expired(h, now)}
<1>1. now \in Nat /\ MaxAge \in Nat /\ UnreadAfter \in Nat /\ j \in Scanners
  BY ConfigAssumption DEF IInv, TypeOK, Time, Scanners
<1>2. \A h \in Hashes : /\ entry[active][h] # None => entry[active][h] \in Nat
                        /\ row[h] # None => row[h] \in Nat
  BY ConfigAssumption DEF IInv, TypeOK, Time
<1>3. ASSUME NEW h \in Hashes, entry[active][h] # None
      PROVE  Expired(h, now) <=>
               shouldDelete(entry[active][h], h \in fresh, now - MaxAge, now - UnreadAfter)
  <2>1. h \in fresh <=> ~ (row[h] = None \/ now - row[h] > UnreadAfter)
    BY <1>1, <1>2
  <2>2. now - entry[active][h] > MaxAge <=> entry[active][h] < now - MaxAge
    BY <1>1, <1>2, <1>3
  <2>3. now - entry[active][h] > UnreadAfter <=> entry[active][h] < now - UnreadAfter
    BY <1>1, <1>2, <1>3
  <2>. QED
    BY <2>1, <2>2, <2>3, <1>3 DEF Expired, shouldDelete
<1>4. \A h \in due : entry[active][h] # None
  BY DEF Expired
<1>5. Begin(j, now - MaxAge, now - UnreadAfter, fresh, due) /\ scan[j] = None
      /\ UNCHANGED <<now, active, entry, row, reader, writer, deleter, swaps, faults>>
  BY DEF SweepBegin
<1>6. now - MaxAge \in Int /\ now - UnreadAfter \in Int
      /\ fresh \in SUBSET Hashes /\ due \in SUBSET Hashes
  BY <1>1
<1>7. /\ \A h \in due : entry[active][h] # None
            /\ shouldDelete(entry[active][h], h \in fresh, now - MaxAge, now - UnreadAfter)
      /\ \A h \in Hashes \ due : entry[active][h] = None
            \/ ~ shouldDelete(entry[active][h], h \in fresh, now - MaxAge, now - UnreadAfter)
  BY <1>3, <1>4
<1>. HIDE DEF fresh, due
<1>. QED
  BY <1>1, <1>5, <1>6, <1>7, BeginSound

LEMMA PruneBeginKeeps ==
    ASSUME IInv, NEW p \in Pruners, NEW age \in PruneAges, PruneBegin(p, age)
    PROVE  IInv'
<1>. DEFINE due == {h \in Hashes : entry[active][h] # None /\ now - entry[active][h] > age}
<1>1. now \in Nat /\ age \in Nat /\ p \in Scanners
  BY ConfigAssumption DEF IInv, TypeOK, Time, Scanners
<1>2. \A h \in Hashes : entry[active][h] # None => entry[active][h] \in Nat
  BY ConfigAssumption DEF IInv, TypeOK, Time
<1>3. ASSUME NEW h \in Hashes, entry[active][h] # None
      PROVE  h \in due <=> shouldDelete(entry[active][h], h \in Hashes, now - age, now - age)
  BY <1>1, <1>2, <1>3 DEF shouldDelete
<1>4. Begin(p, now - age, now - age, Hashes, due) /\ scan[p] = None
      /\ UNCHANGED <<now, active, entry, row, reader, writer, deleter, swaps, faults>>
  BY DEF PruneBegin
<1>5. now - age \in Int /\ due \in SUBSET Hashes /\ Hashes \in SUBSET Hashes
      /\ \A h \in due : entry[active][h] # None
  BY <1>1
<1>6. /\ \A h \in due : entry[active][h] # None
            /\ shouldDelete(entry[active][h], h \in Hashes, now - age, now - age)
      /\ \A h \in Hashes \ due : entry[active][h] = None
            \/ ~ shouldDelete(entry[active][h], h \in Hashes, now - age, now - age)
  BY <1>3, <1>5
<1>. HIDE DEF due
<1>. QED
  BY <1>1, <1>4, <1>5, <1>6, BeginSound

(* A page is read: what was ahead is in it, or behind its last name. *)
LEMMA ReadPageKeeps ==
    ASSUME IInv, NEW s \in Scanners, scan[s] # None, scan[s].pc = "list",
           NEW cur \in Hashes \cup {0}, ReadPage(s, cur),
           scan[s].swapped \/ cur = scan[s].cursor,
           UNCHANGED <<now, active, entry, row, reader, writer, deleter, swaps, faults>>
    PROVE  IInv'
<1>. DEFINE after == After(cur)
            page == Page(after)
            next == IF page # after THEN Max(page) ELSE scan[s].cursor
<1>1. scan \in [Scanners -> Scan \cup {None}] /\ scan[s] \in Scan /\ Sound(s)
      /\ active \in Backends /\ Hashes \in SUBSET Nat
  BY ScanFields DEF IInv, TypeOK
<1>2. /\ scan'[s] = [scan[s] EXCEPT !.pc = "stat", !.on = active, !.names = page,
                                    !.more = (page # after), !.cursor = next]
      /\ \A q \in Scanners \ {s} : scan'[q] = scan[q]
      /\ scan' \in [Scanners -> {scan'[q] : q \in Scanners}]
  BY <1>1 DEF ReadPage
<1>3. after \in SUBSET Hashes
  BY DEF After
<1>4. /\ page \in SUBSET Hashes /\ page \subseteq after
      /\ \A h \in after \ page, p \in page : p < h
      /\ page # after => next \in page
      /\ page = after => next = scan[s].cursor
  BY <1>3, PageFacts
<1>5. next \in Hashes \cup {0}
  BY <1>1, <1>4 DEF Scan
<1>. HIDE DEF page, next, after
<1>6. /\ scan'[s].pc = "stat" /\ scan'[s].on = active /\ scan'[s].names = page
      /\ scan'[s].more = (page # after) /\ scan'[s].cursor = next
      /\ scan'[s].started = scan[s].started /\ scan'[s].old = scan[s].old
      /\ scan'[s].unread = scan[s].unread /\ scan'[s].fresh = scan[s].fresh
      /\ scan'[s].doomed = scan[s].doomed /\ scan'[s].due = scan[s].due
      /\ scan'[s].swapped = scan[s].swapped /\ scan'[s].failed = scan[s].failed
      /\ scan'[s] \in Scan
  BY <1>1, <1>2, <1>4, <1>5 DEF Scan
<1>7. TypeOK'
  <2>1. scan' \in [Scanners -> Scan \cup {None}]
    BY <1>1, <1>2, <1>6
  <2>. QED
    BY <2>1 DEF IInv, TypeOK
<1>8. \A h \in Hashes : (Gone(s, h)' <=> Gone(s, h)) /\ (Condemned(s, h)' <=> Condemned(s, h))
  BY <1>6 DEF Gone, Condemned
<1>9. ASSUME NEW h \in Hashes, cur = scan[s].cursor, Ahead(s, h), ~ Gone(s, h)
      PROVE  Ahead(s, h)'
  <2>1. h > cur /\ entry[active][h] # None
    BY <1>9 DEF Ahead, Gone
  <2>2. h \in after
    BY <2>1 DEF after, After
  <2>3. CASE h \in page
    BY <2>3, <1>6 DEF Ahead
  <2>4. CASE h \notin page
    <3>1. page # after /\ next < h
      BY <2>2, <2>4, <1>4
    <3>2. h > next
      BY <3>1, <1>4, <1>1
    <3>. QED
      BY <3>1, <3>2, <1>6 DEF Ahead
  <2>. QED
    BY <2>3, <2>4
<1>10. ~ scan[s].swapped => Exact(s)'
  <2>. SUFFICES ASSUME ~ scan[s].swapped PROVE Exact(s)'
    OBVIOUS
  <2>1. Exact(s) /\ cur = scan[s].cursor /\ scan[s].due \in SUBSET Hashes
        /\ scan[s].doomed \in SUBSET Hashes
    BY <1>1 DEF Sound, Scan
  <2>. QED
    BY <2>1, <1>6, <1>8, <1>9 DEF Exact
<1>11. Sound(s)'
  <2>1. active # None
    BY <1>1, NoneAssumption
  <2>. QED
    BY <2>1, <1>1, <1>6, <1>10 DEF Sound
<1>. QED
  BY <1>2, <1>7, <1>11, OneScan

(* A scan that ends leaves nothing to say about it. *)
LEMMA EndKeeps ==
    ASSUME IInv, NEW s \in Scanners, scan' = [scan EXCEPT ![s] = None],
           faults' \in 0 .. MaxFaults,
           UNCHANGED <<now, active, entry, row, reader, writer, deleter, swaps>>
    PROVE  IInv'
<1>1. scan' \in [Scanners -> Scan \cup {None}] /\ scan'[s] = None
      /\ \A q \in Scanners \ {s} : scan'[q] = scan[q]
  BY DEF IInv, TypeOK
<1>2. TypeOK'
  BY <1>1 DEF IInv, TypeOK
<1>. QED
  BY <1>1, <1>2, OneScan

LEMMA ScanListKeeps ==
    ASSUME IInv, NEW s \in Scanners, ScanList(s)
    PROVE  IInv'
<1>1. scan[s] # None /\ scan[s].pc = "list" /\ scan[s] \in Scan /\ Sound(s)
      /\ UNCHANGED <<now, active, entry, row, reader, writer, deleter, swaps>>
  BY DEF ScanList, IInv, TypeOK
<1>2. CASE scan[s].on \in {None, active} /\ ReadPage(s, scan[s].cursor) /\ UNCHANGED faults
  <2>1. scan[s].cursor \in Hashes \cup {0}
    BY <1>1 DEF Scan
  <2>. QED
    BY <1>1, <1>2, <2>1, ReadPageKeeps
<1>3. ASSUME NEW cur \in Hashes \cup {0}, scan[s].on \notin {None, active},
             ReadPage(s, cur), UNCHANGED faults
      PROVE  IInv'
  <2>1. scan[s].swapped
    BY <1>1, <1>3 DEF Sound, Exact, Scan
  <2>. QED
    BY <1>1, <1>3, <2>1, ReadPageKeeps
<1>4. CASE scan' = [scan EXCEPT ![s] = None] /\ (Fault \/ UNCHANGED faults)
  <2>1. faults' \in 0 .. MaxFaults
    BY <1>4, ConfigAssumption DEF Fault, IInv, TypeOK
  <2>. QED
    BY <1>1, <1>4, <2>1, EndKeeps
<1>. QED
  BY <1>2, <1>3, <1>4 DEF ScanList

(* The rule is applied: it condemns what it condemned at the start. *)
LEMMA ScanStatKeeps ==
    ASSUME IInv, NEW s \in Scanners, ScanStat(s)
    PROVE  IInv'
<1>. DEFINE picked == {h \in scan[s].names :
             /\ entry[scan[s].on][h] # None
             /\ shouldDelete(entry[scan[s].on][h], h \in scan[s].fresh,
                             scan[s].old, scan[s].unread)}
<1>1. scan \in [Scanners -> Scan \cup {None}] /\ scan[s] \in Scan /\ Sound(s)
      /\ scan[s] # None /\ scan[s].pc = "stat"
  BY DEF IInv, TypeOK, ScanStat
<1>2. /\ scan'[s] = [scan[s] EXCEPT !.pc = "delete", !.doomed = picked]
      /\ \A q \in Scanners \ {s} : scan'[q] = scan[q]
      /\ scan' \in [Scanners -> {scan'[q] : q \in Scanners}]
  BY <1>1 DEF ScanStat
<1>3. picked \in SUBSET Hashes
  BY <1>1 DEF Scan
<1>4. /\ scan'[s].pc = "delete" /\ scan'[s].doomed = picked
      /\ scan'[s].on = scan[s].on /\ scan'[s].names = scan[s].names
      /\ scan'[s].more = scan[s].more /\ scan'[s].cursor = scan[s].cursor
      /\ scan'[s].started = scan[s].started /\ scan'[s].old = scan[s].old
      /\ scan'[s].unread = scan[s].unread /\ scan'[s].fresh = scan[s].fresh
      /\ scan'[s].due = scan[s].due
      /\ scan'[s].swapped = scan[s].swapped /\ scan'[s].failed = scan[s].failed
      /\ scan'[s] \in Scan
  BY <1>1, <1>2, <1>3 DEF Scan
<1>5. TypeOK'
  <2>1. scan' \in [Scanners -> Scan \cup {None}]
    BY <1>1, <1>2, <1>4
  <2>. QED
    BY <2>1 DEF IInv, TypeOK, ScanStat
<1>6. UNCHANGED <<now, active, entry>>
  BY DEF ScanStat
<1>7. ~ scan[s].swapped => Exact(s)'
  <2>. SUFFICES ASSUME ~ scan[s].swapped PROVE Exact(s)'
    OBVIOUS
  <2>1. Exact(s) /\ scan[s].on = active /\ scan[s].due \in SUBSET Hashes
        /\ scan[s].names \in SUBSET Hashes
    BY <1>1 DEF Sound, Exact, Scan
  <2>2. \A h \in Hashes : h \in picked <=> /\ h \in scan[s].names
                                           /\ entry[active][h] # None
                                           /\ Condemned(s, h)
    BY <2>1 DEF Condemned
  <2>. HIDE DEF picked
  <2>3. \A h \in Hashes : (Gone(s, h)' <=> Gone(s, h)) /\ (Condemned(s, h)' <=> Condemned(s, h))
    BY <1>4, <1>6 DEF Gone, Condemned
  <2>4. \A h \in scan[s].due : Ahead(s, h) => Gone(s, h) \/ Ahead(s, h)'
    <3>1. \A h \in scan[s].due : Gone(s, h) \/ (entry[active][h] # None /\ Condemned(s, h))
      BY <2>1 DEF Exact, Gone
    <3>. QED
      BY <3>1, <2>1, <2>2, <1>1, <1>4 DEF Ahead
  <2>5. \A h \in picked : Gone(s, h) \/ h \in scan[s].due
    BY <2>1, <2>2, <1>3 DEF Exact
  <2>. QED
    BY <2>1, <2>3, <2>4, <2>5, <1>3, <1>4, <1>6 DEF Exact
<1>8. Sound(s)'
  BY <1>1, <1>4, <1>6, <1>7 DEF Sound
<1>. QED
  BY <1>2, <1>5, <1>6, <1>8, OneScan

(* The entry deleted next is one of those to delete. *)
LEMMA NextDoomed ==
    ASSUME TypeOK, NEW s \in Scanners, scan[s] # None, scan[s].doomed # {}
    PROVE  Min(scan[s].doomed) \in scan[s].doomed /\ Min(scan[s].doomed) \in Hashes
BY ScanFields, Least

(* A delete takes away the entry, or fails and ends a prune, or leaves a   *)
(* sweep that can no longer claim to be complete.                          *)
LEMMA ScanDeleteKeeps ==
    ASSUME IInv, NEW s \in Scanners, ScanDelete(s)
    PROVE  IInv'
<1>. DEFINE m == Min(scan[s].doomed)
<1>1. /\ scan \in [Scanners -> Scan \cup {None}] /\ scan[s] \in Scan /\ Sound(s)
      /\ scan[s] # None /\ scan[s].pc = "delete" /\ scan[s].doomed # {}
      /\ active \in Backends
      /\ UNCHANGED <<now, active, row, reader, writer, deleter, swaps>>
  BY DEF IInv, TypeOK, ScanDelete
<1>2. m \in scan[s].doomed /\ m \in Hashes
  BY <1>1, NextDoomed DEF IInv
<1>3. CASE /\ entry' = [entry EXCEPT ![active][m] = None]
           /\ scan' = [scan EXCEPT ![s].pc = "clear"]
           /\ UNCHANGED faults
  <2>1. /\ scan'[s] = [scan[s] EXCEPT !.pc = "clear"]
        /\ \A q \in Scanners \ {s} : scan'[q] = scan[q]
        /\ scan' \in [Scanners -> {scan'[q] : q \in Scanners}]
    BY <1>1, <1>3
  <2>2. /\ scan'[s].pc = "clear" /\ scan'[s].doomed = scan[s].doomed
        /\ scan'[s].on = scan[s].on /\ scan'[s].names = scan[s].names
        /\ scan'[s].more = scan[s].more /\ scan'[s].cursor = scan[s].cursor
        /\ scan'[s].started = scan[s].started /\ scan'[s].old = scan[s].old
        /\ scan'[s].unread = scan[s].unread /\ scan'[s].fresh = scan[s].fresh
        /\ scan'[s].due = scan[s].due
        /\ scan'[s].swapped = scan[s].swapped /\ scan'[s].failed = scan[s].failed
        /\ scan'[s] \in Scan
    BY <1>1, <2>1 DEF Scan
  <2>3. /\ entry' \in [Backends -> [Hashes -> Time \cup {None}]]
        /\ entry'[active][m] = None
        /\ \A h \in Hashes \ {m} : entry'[active][h] = entry[active][h]
    BY <1>2, <1>3 DEF IInv, TypeOK
  <2>4. TypeOK'
    <3>1. scan' \in [Scanners -> Scan \cup {None}]
      BY <1>1, <2>1, <2>2
    <3>. QED
      BY <1>1, <1>3, <2>3, <3>1 DEF IInv, TypeOK
  <2>5. Gone(s, m)' /\ \A h \in Hashes \ {m} : (Gone(s, h)' <=> Gone(s, h))
                                             /\ (Condemned(s, h)' <=> Condemned(s, h))
    BY <1>1, <2>2, <2>3 DEF Gone, Condemned
  <2>6. \A h \in Hashes \ {m} : Ahead(s, h) => Ahead(s, h)'
    BY <1>1, <2>2 DEF Ahead
  <2>7. Exact(s) => Exact(s)'
    <3>1. scan[s].due \in SUBSET Hashes /\ scan[s].doomed \in SUBSET Hashes
      BY <1>1 DEF Scan
    <3>. QED
      BY <3>1, <1>1, <2>2, <2>5, <2>6 DEF Exact
  <2>8. Sound(s)'
    BY <1>1, <2>2, <2>7 DEF Sound
  <2>9. \A h \in Hashes : entry'[active][h] \in {entry[active][h], None, now}
    BY <2>3
  <2>. QED
    BY <1>1, <2>1, <2>4, <2>8, <2>9, OneScan
<1>4. CASE /\ Fault
           /\ scan' = IF s \in Pruners
                         THEN [scan EXCEPT ![s] = None]
                         ELSE [scan EXCEPT ![s].doomed = @ \ {Min(@)}, ![s].failed = TRUE]
           /\ UNCHANGED entry
  <2>1. faults' \in 0 .. MaxFaults
    BY <1>4, ConfigAssumption DEF Fault, IInv, TypeOK
  <2>2. CASE s \in Pruners
    <3>1. scan' = [scan EXCEPT ![s] = None]
      BY <1>4, <2>2
    <3>. QED
      BY <1>1, <1>4, <2>1, <3>1, EndKeeps
  <2>3. CASE s \notin Pruners
    <3>0. scan' = [scan EXCEPT ![s].doomed = @ \ {Min(@)}, ![s].failed = TRUE]
      BY <1>4, <2>3
    <3>1. /\ scan'[s] = [scan[s] EXCEPT !.doomed = @ \ {m}, !.failed = TRUE]
          /\ \A q \in Scanners \ {s} : scan'[q] = scan[q]
          /\ scan' \in [Scanners -> {scan'[q] : q \in Scanners}]
      BY <1>1, <3>0
    <3>2. /\ scan'[s].pc = "delete" /\ scan'[s].doomed \subseteq scan[s].doomed
          /\ scan'[s].on = scan[s].on /\ scan'[s].failed
          /\ scan'[s].started = scan[s].started /\ scan'[s].old = scan[s].old
          /\ scan'[s].unread = scan[s].unread /\ scan'[s].fresh = scan[s].fresh
          /\ scan'[s].due = scan[s].due /\ scan'[s].swapped = scan[s].swapped
          /\ scan'[s] \in Scan
      BY <1>1, <3>1 DEF Scan
    <3>3. TypeOK'
      <4>1. scan' \in [Scanners -> Scan \cup {None}]
        BY <1>1, <3>1, <3>2
      <4>. QED
        BY <1>1, <1>4, <2>1, <4>1 DEF IInv, TypeOK
    <3>4. \A h \in Hashes : (Gone(s, h)' <=> Gone(s, h)) /\ (Condemned(s, h)' <=> Condemned(s, h))
      BY <1>1, <1>4, <3>2 DEF Gone, Condemned
    <3>5. Exact(s) => Exact(s)'
      <4>1. scan[s].doomed \in SUBSET Hashes
        BY <1>1 DEF Scan
      <4>. QED
        BY <4>1, <1>1, <3>2, <3>4 DEF Exact
    <3>6. Sound(s)'
      BY <1>1, <3>2, <3>5 DEF Sound
    <3>. QED
      BY <1>1, <1>4, <3>1, <3>3, <3>6, OneScan
  <2>. QED
    BY <2>2, <2>3
<1>. QED
  BY <1>3, <1>4 DEF ScanDelete

(* The row is cleared, and the entry is off the list. *)
LEMMA ScanClearKeeps ==
    ASSUME IInv, NEW s \in Scanners, ScanClear(s)
    PROVE  IInv'
<1>. DEFINE m == Min(scan[s].doomed)
<1>1. /\ scan \in [Scanners -> Scan \cup {None}] /\ scan[s] \in Scan /\ Sound(s)
      /\ scan[s] # None /\ scan[s].pc = "clear" /\ scan[s].doomed # {}
      /\ UNCHANGED <<now, active, entry, reader, writer, deleter, swaps>>
  BY DEF IInv, TypeOK, ScanClear, Sound
<1>2. m \in Hashes
  BY <1>1, NextDoomed DEF IInv
<1>3. /\ scan'[s] = [scan[s] EXCEPT !.pc = "delete", !.doomed = @ \ {m}]
      /\ \A q \in Scanners \ {s} : scan'[q] = scan[q]
      /\ scan' \in [Scanners -> {scan'[q] : q \in Scanners}]
  BY <1>1 DEF ScanClear
<1>4. /\ scan'[s].pc = "delete" /\ scan'[s].doomed = scan[s].doomed \ {m}
      /\ scan'[s].on = scan[s].on /\ scan'[s].names = scan[s].names
      /\ scan'[s].more = scan[s].more /\ scan'[s].cursor = scan[s].cursor
      /\ scan'[s].started = scan[s].started /\ scan'[s].old = scan[s].old
      /\ scan'[s].unread = scan[s].unread /\ scan'[s].fresh = scan[s].fresh
      /\ scan'[s].due = scan[s].due
      /\ scan'[s].swapped = scan[s].swapped /\ scan'[s].failed = scan[s].failed
      /\ scan'[s] \in Scan
  BY <1>1, <1>3 DEF Scan
<1>5. TypeOK'
  <2>1. scan' \in [Scanners -> Scan \cup {None}]
    BY <1>1, <1>3, <1>4
  <2>2. row' \in [Hashes -> Time \cup {None}] /\ faults' \in 0 .. MaxFaults
    BY <1>2, ConfigAssumption DEF ScanClear, Fault, IInv, TypeOK
  <2>. QED
    BY <1>1, <2>1, <2>2 DEF IInv, TypeOK
<1>6. \A h \in Hashes : (Gone(s, h)' <=> Gone(s, h)) /\ (Condemned(s, h)' <=> Condemned(s, h))
  BY <1>1, <1>4 DEF Gone, Condemned
<1>7. \A h \in Hashes : Ahead(s, h) => Ahead(s, h)'
  BY <1>1, <1>4 DEF Ahead
<1>8. Exact(s) => Exact(s)'
  <2>1. scan[s].due \in SUBSET Hashes /\ scan[s].doomed \in SUBSET Hashes
    BY <1>1 DEF Scan
  <2>. QED
    BY <2>1, <1>1, <1>4, <1>6, <1>7 DEF Exact
<1>9. Sound(s)'
  BY <1>1, <1>4, <1>8 DEF Sound
<1>. QED
  BY <1>1, <1>3, <1>5, <1>9, OneScan

(* The scan goes on to the next page, or ends. *)
LEMMA ScanNextKeeps ==
    ASSUME IInv, NEW s \in Scanners, ScanNext(s)
    PROVE  IInv'
<1>1. /\ scan \in [Scanners -> Scan \cup {None}] /\ scan[s] \in Scan /\ Sound(s)
      /\ scan[s] # None /\ scan[s].pc = "delete" /\ scan[s].doomed = {}
      /\ UNCHANGED <<now, active, entry, row, reader, writer, deleter, swaps, faults>>
  BY DEF IInv, TypeOK, ScanNext
<1>2. CASE ~ scan[s].more
  <2>1. scan' = [scan EXCEPT ![s] = None] /\ faults' \in 0 .. MaxFaults
    BY <1>1, <1>2 DEF ScanNext, IInv, TypeOK
  <2>. QED
    BY <1>1, <2>1, EndKeeps
<1>3. CASE scan[s].more
  <2>1. /\ scan'[s] = [scan[s] EXCEPT !.pc = "list"]
        /\ \A q \in Scanners \ {s} : scan'[q] = scan[q]
        /\ scan' \in [Scanners -> {scan'[q] : q \in Scanners}]
    BY <1>1, <1>3 DEF ScanNext
  <2>2. /\ scan'[s].pc = "list" /\ scan'[s].doomed = {}
        /\ scan'[s].on = scan[s].on /\ scan'[s].names = scan[s].names
        /\ scan'[s].more = scan[s].more /\ scan'[s].cursor = scan[s].cursor
        /\ scan'[s].started = scan[s].started /\ scan'[s].old = scan[s].old
        /\ scan'[s].unread = scan[s].unread /\ scan'[s].fresh = scan[s].fresh
        /\ scan'[s].due = scan[s].due
        /\ scan'[s].swapped = scan[s].swapped /\ scan'[s].failed = scan[s].failed
        /\ scan'[s] \in Scan
    BY <1>1, <2>1 DEF Scan
  <2>3. TypeOK'
    <3>1. scan' \in [Scanners -> Scan \cup {None}]
      BY <1>1, <2>1, <2>2
    <3>. QED
      BY <1>1, <3>1 DEF IInv, TypeOK
  <2>4. \A h \in Hashes : (Gone(s, h)' <=> Gone(s, h)) /\ (Condemned(s, h)' <=> Condemned(s, h))
    BY <1>1, <2>2 DEF Gone, Condemned
  <2>5. \A h \in Hashes : Ahead(s, h) => Ahead(s, h)'
    BY <1>1, <2>2 DEF Ahead
  <2>6. Exact(s) => Exact(s)'
    <3>1. scan[s].due \in SUBSET Hashes
      BY <1>1 DEF Scan
    <3>. QED
      BY <3>1, <1>1, <2>2, <2>4, <2>5 DEF Exact
  <2>7. Sound(s)'
    BY <1>1, <2>2, <2>6 DEF Sound
  <2>. QED
    BY <1>1, <2>1, <2>3, <2>7, OneScan
<1>. QED
  BY <1>2, <1>3

(* Every step keeps the invariant. *)
LEMMA NextKeeps == IInv /\ [Next]_vars => IInv'
<1>. SUFFICES ASSUME IInv, [Next]_vars PROVE IInv'
  OBVIOUS
<1>1. CASE Tick
  BY <1>1, TickKeeps
<1>2. CASE \E w \in Writers : PutEnd(w) \/ \E h \in Hashes : PutBegin(w, h)
  BY <1>2, PutKeeps
<1>3. CASE \E r \in Readers : RecordRead(r) \/ \E h \in Hashes : GetHit(r, h)
  BY <1>3, ReadKeeps
<1>4. CASE \E d \in Deleters : AdminClear(d) \/ \E h \in Hashes : AdminDelete(d, h)
  BY <1>4, AdminKeeps
<1>5. CASE \E b \in Backends : Swap(b)
  BY <1>5, SwapKeeps
<1>6. CASE \E j \in Janitors : SweepBegin(j)
  BY <1>6, SweepBeginKeeps
<1>7. CASE \E p \in Pruners, age \in PruneAges : PruneBegin(p, age)
  BY <1>7, PruneBeginKeeps
<1>8. CASE \E s \in Scanners : ScanStep(s)
  BY <1>8, ScanListKeeps, ScanStatKeeps, ScanDeleteKeeps, ScanClearKeeps, ScanNextKeeps
     DEF ScanStep
<1>9. CASE Crash
  BY <1>9, CrashKeeps
<1>10. CASE UNCHANGED vars
  BY <1>10 DEF vars, IInv, TypeOK, Sound, Exact, Gone, Condemned, Ahead
<1>. QED
  BY <1>1, <1>2, <1>3, <1>4, <1>5, <1>6, <1>7, <1>8, <1>9, <1>10 DEF Next

----------------------------------------------------------------------------
(* The theorems.                                                           *)

(* The invariant holds in every reachable state. *)
THEOREM Inductive == Spec => []IInv
<1>1. Init => IInv
  BY InitInv
<1>2. IInv /\ [Next]_vars => IInv'
  BY NextKeeps
<1>. QED
  BY <1>1, <1>2, PTL DEF Spec

(* Every variable has its type. *)
THEOREM TypesCorrect == Spec => []TypeOK
<1>1. IInv => TypeOK
  BY DEF IInv
<1>. QED
  BY <1>1, Inductive, PTL

(* What a step can do to scan s, if it neither crashes nor begins it: it   *)
(* leaves it alone, marks it as overtaken, or is a step of its own.        *)
LEMMA StepOfScan ==
    ASSUME IInv, [Next]_vars, NEW s \in Scanners, scan[s] # None
    PROVE  \/ scan'[s] = scan[s]
           \/ scan'[s] = [scan[s] EXCEPT !.swapped = TRUE]
           \/ ScanStep(s)
           \/ Crash
<1>. USE DEF IInv, TypeOK
<1>1. CASE Tick
  BY <1>1 DEF Tick
<1>2. CASE \E w \in Writers : PutEnd(w) \/ \E h \in Hashes : PutBegin(w, h)
  BY <1>2 DEF PutEnd, PutBegin
<1>3. CASE \E r \in Readers : RecordRead(r) \/ \E h \in Hashes : GetHit(r, h)
  BY <1>3 DEF RecordRead, GetHit
<1>4. CASE \E d \in Deleters : AdminClear(d) \/ \E h \in Hashes : AdminDelete(d, h)
  BY <1>4 DEF AdminClear, AdminDelete
<1>5. CASE \E b \in Backends : Swap(b)
  BY <1>5 DEF Swap
<1>6. CASE \E j \in Janitors : SweepBegin(j)
  BY <1>6 DEF SweepBegin, Begin
<1>7. CASE \E p \in Pruners, age \in PruneAges : PruneBegin(p, age)
  BY <1>7 DEF PruneBegin, Begin
<1>8. ASSUME NEW q \in Scanners, ScanStep(q), q # s PROVE scan'[s] = scan[s]
  <2>1. CASE ScanList(q)
    BY <2>1, <1>8 DEF ScanList, ReadPage
  <2>2. CASE ScanStat(q)
    BY <2>2, <1>8 DEF ScanStat
  <2>3. CASE ScanDelete(q)
    BY <2>3, <1>8 DEF ScanDelete
  <2>4. CASE ScanClear(q)
    BY <2>4, <1>8 DEF ScanClear
  <2>5. CASE ScanNext(q)
    BY <2>5, <1>8 DEF ScanNext
  <2>. QED
    BY <1>8, <2>1, <2>2, <2>3, <2>4, <2>5 DEF ScanStep
<1>9. CASE UNCHANGED vars
  BY <1>9 DEF vars
<1>. QED
  BY <1>1, <1>2, <1>3, <1>4, <1>5, <1>6, <1>7, <1>8, <1>9 DEF Next

(* An entry that goes when scan s deletes is the next on its list, in the  *)
(* backend that is active by then.                                         *)
LEMMA Victim ==
    ASSUME IInv, [Next]_vars, NEW s \in Scanners, Deletes(s),
           NEW b \in Backends, NEW h \in Hashes, Removed(b, h)
    PROVE  /\ scan[s] # None /\ ScanDelete(s)
           /\ b = active /\ entry[b][h] # None /\ h \in scan[s].doomed
<1>1. scan[s] # None /\ scan[s].pc = "delete" /\ scan[s] \in Scan
      /\ scan'[s] # None /\ scan'[s].pc = "clear"
      /\ scan \in [Scanners -> Scan \cup {None}]
  BY DEF Deletes, IInv, TypeOK
<1>2. [scan[s] EXCEPT !.swapped = TRUE].pc = "delete"
  BY <1>1 DEF Scan
<1>3. ScanDelete(s)
  <2>1. ~ Crash
    BY <1>1 DEF Crash
  <2>2. ScanStep(s)
    BY <1>1, <1>2, <2>1, StepOfScan
  <2>3. ~ ScanList(s) /\ ~ ScanStat(s) /\ ~ ScanClear(s)
    BY <1>1 DEF ScanList, ScanStat, ScanClear
  <2>4. ~ ScanNext(s)
    <3>1. ASSUME ScanNext(s) PROVE FALSE
      <4>1. scan'[s] = [scan[s] EXCEPT !.pc = "list"]
        BY <1>1, <3>1 DEF ScanNext
      <4>. QED
        BY <1>1, <4>1 DEF Scan
    <3>. QED
      BY <3>1
  <2>. QED
    BY <2>2, <2>3, <2>4 DEF ScanStep
<1>4. entry' = [entry EXCEPT ![active][Min(scan[s].doomed)] = None]
  BY <1>3 DEF ScanDelete, Removed
<1>5. b = active /\ h = Min(scan[s].doomed) /\ entry[b][h] # None
  BY <1>4 DEF Removed, IInv, TypeOK
<1>6. h \in scan[s].doomed
  BY <1>1, <1>3, <1>5, NextDoomed DEF ScanDelete, IInv
<1>. QED
  BY <1>1, <1>3, <1>5, <1>6

(* A sweep or a prune that no swap overtakes deletes only what its rule    *)
(* condemned when it began, or what was uploaded since.                    *)
THEOREM NothingElse == Spec => ScansSpareTheRest
<1>1. ASSUME IInv, [Next]_vars, NEW s \in Scanners, Deletes(s), ~ scan[s].swapped,
             NEW b \in Backends, NEW h \in Hashes, Removed(b, h)
      PROVE  h \in scan[s].due \/ entry[b][h] >= scan[s].started
  BY <1>1, Victim DEF IInv, Sound, Exact, Gone
<1>2. IInv /\ [Next]_vars =>
        [\A s \in Scanners : Deletes(s) /\ ~ scan[s].swapped =>
           \A b \in Backends, h \in Hashes : Removed(b, h) =>
              h \in scan[s].due \/ entry[b][h] >= scan[s].started]_vars
  BY <1>1
<1>. QED
  BY <1>2, Inductive, PTL DEF Spec, ScansSpareTheRest

(* A sweep or a prune that ends in order, on one backend, leaves nothing   *)
(* of what its rule condemned when it began.                               *)
THEOREM NothingLeft == Spec => ScansAreComplete
<1>1. ASSUME IInv, [Next]_vars, NEW s \in Scanners,
             scan[s] # None, scan'[s] = None,
             scan[s].pc = "delete", scan[s].doomed = {}, faults' = faults,
             ~ scan[s].swapped, ~ scan[s].failed,
             NEW h \in scan[s].due
      PROVE  entry[active][h] = None \/ entry[active][h] >= scan[s].started
  <2>1. scan[s] \in Scan /\ scan \in [Scanners -> Scan \cup {None}] /\ faults \in Int
    BY <1>1 DEF IInv, TypeOK
  <2>2. [scan[s] EXCEPT !.swapped = TRUE] \in Scan /\ [scan[s] EXCEPT !.pc = "list"] \in Scan
    BY <2>1 DEF Scan
  <2>3. None \notin Scan
    BY NoneAssumption
  <2>4. ~ Crash
    BY <1>1, <2>1 DEF Crash, Fault
  <2>5. ScanStep(s)
    BY <1>1, <2>2, <2>3, <2>4, StepOfScan
  <2>6. ScanNext(s)
    BY <1>1, <2>5 DEF ScanStep, ScanList, ScanStat, ScanDelete, ScanClear
  <2>7. ~ scan[s].more
    BY <1>1, <2>1, <2>2, <2>3, <2>6 DEF ScanNext
  <2>8. Gone(s, h) \/ Ahead(s, h)
    BY <1>1 DEF IInv, Sound, Exact
  <2>. QED
    BY <1>1, <2>7, <2>8 DEF Gone, Ahead
<1>2. IInv /\ [Next]_vars =>
        [\A s \in Scanners :
           /\ scan[s] # None /\ scan'[s] = None
           /\ scan[s].pc = "delete" /\ scan[s].doomed = {} /\ faults' = faults
           /\ ~ scan[s].swapped /\ ~ scan[s].failed
           => \A h \in scan[s].due :
                entry[active][h] = None \/ entry[active][h] >= scan[s].started]_vars
  BY <1>1
<1>. QED
  BY <1>2, Inductive, PTL DEF Spec, ScansAreComplete

----------------------------------------------------------------------------
(* Names beyond a cursor, and how many there are.                          *)
Beyond(cur) == {h \in Hashes : h > cur}

LEMMA FewerBeyond ==
    ASSUME NEW cur \in Nat, NEW next \in Hashes, next > cur
    PROVE  /\ Cardinality(Beyond(cur)) \in Nat
           /\ Cardinality(Beyond(next)) \in Nat
           /\ Cardinality(Beyond(next)) < Cardinality(Beyond(cur))
<1>1. next \in Nat /\ \A h \in Hashes : h \in Nat
  BY HashesAssumption
<1>2. Beyond(cur) \in SUBSET Hashes /\ Beyond(next) \in SUBSET Beyond(cur)
  <2>1. \A h \in Hashes : h > next => h > cur
    BY <1>1
  <2>. QED
    BY <2>1 DEF Beyond
<1>3. next \in Beyond(cur) /\ next \notin Beyond(next)
  BY <1>1 DEF Beyond
<1>4. IsFiniteSet(Beyond(cur)) /\ IsFiniteSet(Beyond(next))
  BY <1>2, HashesAssumption, FS_Subset
<1>5. Cardinality(Beyond(next)) <= Cardinality(Beyond(cur))
  BY <1>2, <1>4, FS_Subset
<1>6. Cardinality(Beyond(next)) # Cardinality(Beyond(cur))
  BY <1>2, <1>3, <1>4, FS_Subset
<1>7. Cardinality(Beyond(cur)) \in Nat /\ Cardinality(Beyond(next)) \in Nat
  BY <1>4, FS_CardinalityType
<1>. QED
  BY <1>5, <1>6, <1>7

(* What is before a scan is counted in numbers.                            *)
LEMMA BacklogFacts ==
    ASSUME TypeOK, NEW s \in Scanners, scan[s] # None
    PROVE  /\ Backlog(s) \in [names : Nat, stage : 0 .. 2, calls : Nat]
           /\ Cardinality(Beyond(scan[s].cursor)) \in Nat
           /\ Backlog(s).names = IF scan[s].pc = "list" \/ scan[s].more
                                    THEN Cardinality(Beyond(scan[s].cursor)) + 1 ELSE 0
           /\ Cardinality(scan[s].doomed) \in Nat /\ IsFiniteSet(scan[s].doomed)
<1>1. Beyond(scan[s].cursor) \in SUBSET Hashes /\ scan[s].doomed \in SUBSET Hashes
  BY ScanFields DEF Beyond
<1>2. IsFiniteSet(Beyond(scan[s].cursor)) /\ IsFiniteSet(scan[s].doomed)
  BY <1>1, HashesAssumption, FS_Subset
<1>3. Cardinality(Beyond(scan[s].cursor)) \in Nat /\ Cardinality(scan[s].doomed) \in Nat
  BY <1>2, FS_CardinalityType
<1>4. scan[s].pc \in {"list", "stat", "delete", "clear"}
  BY ScanFields DEF Scan
<1>. QED
  BY <1>2, <1>3, <1>4 DEF Backlog, Beyond

(* A page that has others after it ends beyond the cursor it was asked for. *)
LEMMA PageAdvances ==
    ASSUME IInv, NEW s \in Scanners, scan[s] # None, scan[s].pc = "list",
           ReadPage(s, scan[s].cursor)
    PROVE  Shorter(Backlog(s)', Backlog(s))
<1>. DEFINE cur == scan[s].cursor
            after == After(cur)
            page == Page(after)
            next == IF page # after THEN Max(page) ELSE cur
<1>1. scan \in [Scanners -> Scan \cup {None}] /\ scan[s] \in Scan /\ cur \in Nat
  BY ScanFields DEF IInv, TypeOK
<1>2. scan'[s] = [scan[s] EXCEPT !.pc = "stat", !.on = active, !.names = page,
                                 !.more = (page # after), !.cursor = next]
  BY <1>1 DEF ReadPage
<1>3. after \in SUBSET Hashes /\ \A h \in after : h > cur
  BY DEF After
<1>4. page \subseteq after /\ (page # after => Max(page) \in page)
  BY <1>3, PageFacts
<1>. HIDE DEF page, after
<1>5. scan'[s].pc = "stat" /\ scan'[s].more = (page # after) /\ scan'[s].cursor = next
  BY <1>1, <1>2 DEF Scan
<1>6. Backlog(s).names = Cardinality(Beyond(cur)) + 1 /\ Cardinality(Beyond(cur)) \in Nat
  BY BacklogFacts DEF IInv
<1>7. CASE page = after
  <2>1. Backlog(s)'.names = 0
    BY <1>5, <1>7 DEF Backlog
  <2>. QED
    BY <1>6, <2>1 DEF Shorter
<1>8. CASE page # after
  <2>1. next \in Hashes /\ next > cur
    BY <1>3, <1>4, <1>8
  <2>2. Backlog(s)'.names = Cardinality(Beyond(next)) + 1
    BY <1>5, <1>8 DEF Backlog, Beyond
  <2>3. /\ Cardinality(Beyond(next)) \in Nat
        /\ Cardinality(Beyond(next)) < Cardinality(Beyond(cur))
    BY <1>1, <2>1, FewerBeyond
  <2>. QED
    BY <1>6, <2>2, <2>3 DEF Shorter
<1>. QED
  BY <1>7, <1>8

(* What is left to delete of a page shrinks with every delete and with the *)
(* row cleared after it.                                                   *)
LEMMA DeletesAdvance ==
    ASSUME IInv, NEW s \in Scanners, scan'[s] # None, ScanDelete(s) \/ ScanClear(s)
    PROVE  Shorter(Backlog(s)', Backlog(s))
<1>. DEFINE m == Min(scan[s].doomed)
            n == Cardinality(scan[s].doomed)
<1>1. /\ scan \in [Scanners -> Scan \cup {None}] /\ scan[s] \in Scan
      /\ scan[s] # None /\ scan[s].doomed # {} /\ scan[s].pc \in {"delete", "clear"}
  BY DEF IInv, TypeOK, Sound, ScanDelete, ScanClear
<1>2. m \in scan[s].doomed
  BY <1>1, NextDoomed DEF IInv
<1>3. n \in Nat /\ IsFiniteSet(scan[s].doomed)
  BY <1>1, BacklogFacts DEF IInv
<1>4. Cardinality(scan[s].doomed \ {m}) = n - 1
  BY <1>2, <1>3, FS_RemoveElement
<1>. HIDE DEF m
<1>5. ASSUME scan'[s].pc \in {"delete", "clear"},
             scan'[s].more = scan[s].more, scan'[s].cursor = scan[s].cursor
      PROVE  Backlog(s)'.names = Backlog(s).names /\ Backlog(s)'.stage = Backlog(s).stage
  BY <1>1, <1>5 DEF Backlog
<1>6. CASE ScanClear(s)
  <2>1. scan[s].pc = "clear" /\ scan'[s] = [scan[s] EXCEPT !.pc = "delete", !.doomed = @ \ {m}]
    BY <1>1, <1>6 DEF ScanClear, m
  <2>2. /\ scan'[s].pc = "delete" /\ scan'[s].doomed = scan[s].doomed \ {m}
        /\ scan'[s].more = scan[s].more /\ scan'[s].cursor = scan[s].cursor
    BY <1>1, <2>1 DEF Scan
  <2>3. Backlog(s).calls = 2 * n + 0 /\ Backlog(s)'.calls = 2 * (n - 1) + 1
    BY <1>4, <2>1, <2>2 DEF Backlog
  <2>. QED
    BY <1>3, <1>5, <2>2, <2>3 DEF Shorter
<1>7. CASE scan[s].pc = "delete" /\ scan' = [scan EXCEPT ![s].pc = "clear"]
  <2>1. scan'[s] = [scan[s] EXCEPT !.pc = "clear"]
    BY <1>1, <1>7
  <2>2. /\ scan'[s].pc = "clear" /\ scan'[s].doomed = scan[s].doomed
        /\ scan'[s].more = scan[s].more /\ scan'[s].cursor = scan[s].cursor
    BY <1>1, <2>1 DEF Scan
  <2>3. Backlog(s).calls = 2 * n + 1 /\ Backlog(s)'.calls = 2 * n + 0
    BY <1>7, <2>2 DEF Backlog
  <2>. QED
    BY <1>3, <1>5, <2>2, <2>3 DEF Shorter
<1>8. CASE /\ scan[s].pc = "delete"
           /\ scan' = [scan EXCEPT ![s].doomed = @ \ {Min(@)}, ![s].failed = TRUE]
  <2>1. scan'[s] = [scan[s] EXCEPT !.doomed = @ \ {m}, !.failed = TRUE]
    BY <1>1, <1>8 DEF m
  <2>2. /\ scan'[s].pc = "delete" /\ scan'[s].doomed = scan[s].doomed \ {m}
        /\ scan'[s].more = scan[s].more /\ scan'[s].cursor = scan[s].cursor
    BY <1>1, <1>8, <2>1 DEF Scan
  <2>3. Backlog(s).calls = 2 * n + 1 /\ Backlog(s)'.calls = 2 * (n - 1) + 1
    BY <1>4, <1>8, <2>2 DEF Backlog
  <2>. QED
    BY <1>3, <1>5, <2>2, <2>3 DEF Shorter
<1>. QED
  BY <1>1, <1>6, <1>7, <1>8 DEF ScanDelete

(* The steps of a scan between its pages and its deletes.                  *)
LEMMA StagesAdvance ==
    ASSUME IInv, NEW s \in Scanners, scan'[s] # None, ScanStat(s) \/ ScanNext(s)
    PROVE  Shorter(Backlog(s)', Backlog(s))
<1>1. /\ scan \in [Scanners -> Scan \cup {None}] /\ scan[s] \in Scan /\ scan[s] # None
  BY DEF IInv, TypeOK, ScanStat, ScanNext
<1>2. CASE ScanStat(s)
  <2>1. PICK D : scan'[s] = [scan[s] EXCEPT !.pc = "delete", !.doomed = D]
    BY <1>1, <1>2 DEF ScanStat
  <2>2. /\ scan'[s].pc = "delete"
        /\ scan'[s].more = scan[s].more /\ scan'[s].cursor = scan[s].cursor
    BY <1>1, <2>1 DEF Scan
  <2>3. /\ Backlog(s)'.names = Backlog(s).names
        /\ Backlog(s)'.stage = 1 /\ Backlog(s).stage = 2
    BY <1>2, <2>2 DEF ScanStat, Backlog
  <2>4. Backlog(s).names \in Nat
    BY <1>1, BacklogFacts DEF IInv
  <2>. QED
    BY <2>3, <2>4 DEF Shorter
<1>3. CASE ScanNext(s)
  <2>1. scan[s].pc = "delete" /\ scan[s].more /\ scan'[s] = [scan[s] EXCEPT !.pc = "list"]
    BY <1>1, <1>3 DEF ScanNext
  <2>2. /\ scan'[s].pc = "list"
        /\ scan'[s].more = scan[s].more /\ scan'[s].cursor = scan[s].cursor
    BY <1>1, <2>1 DEF Scan
  <2>3. /\ Backlog(s)'.names = Backlog(s).names
        /\ Backlog(s)'.stage = 0 /\ Backlog(s).stage = 1
    BY <2>1, <2>2 DEF Backlog
  <2>. QED
    BY <2>3 DEF Shorter
<1>. QED
  BY <1>2, <1>3

(* A sweep or a prune comes to its end, whatever is uploaded, deleted or   *)
(* fails meanwhile: what is before it shrinks with every step of its own,  *)
(* in an order without infinite descent, unless a swap has left it with a  *)
(* cursor that means nothing to the backend it goes on with.               *)
THEOREM ScansEnd == Spec => ScansAdvance
<1>1. ASSUME IInv, [Next]_vars, NEW s \in Scanners, scan[s] # None, scan'[s] # None,
             <<scan'[s].pc, scan'[s].doomed>> # <<scan[s].pc, scan[s].doomed>>,
             ~ (scan[s].pc = "list" /\ scan[s].on \notin {None, active})
      PROVE  Shorter(Backlog(s)', Backlog(s))
  <2>1. scan[s] \in Scan /\ scan \in [Scanners -> Scan \cup {None}]
    BY <1>1 DEF IInv, TypeOK
  <2>2. /\ [scan[s] EXCEPT !.swapped = TRUE].pc = scan[s].pc
        /\ [scan[s] EXCEPT !.swapped = TRUE].doomed = scan[s].doomed
    BY <2>1 DEF Scan
  <2>3. ~ Crash
    BY <1>1 DEF Crash
  <2>4. ScanStep(s)
    BY <1>1, <2>2, <2>3, StepOfScan
  <2>5. CASE ScanList(s)
    <3>1. scan[s].pc = "list" /\ ReadPage(s, scan[s].cursor)
      BY <1>1, <2>1, <2>5 DEF ScanList
    <3>. QED
      BY <1>1, <3>1, PageAdvances
  <2>. QED
    BY <1>1, <2>4, <2>5, DeletesAdvance, StagesAdvance DEF ScanStep
<1>2. IInv /\ [Next]_vars =>
        [\A s \in Scanners :
           /\ scan[s] # None /\ scan'[s] # None
           /\ <<scan'[s].pc, scan'[s].doomed>> # <<scan[s].pc, scan[s].doomed>>
           /\ ~ (scan[s].pc = "list" /\ scan[s].on \notin {None, active})
           => Shorter(Backlog(s)', Backlog(s))]_vars
  BY <1>1
<1>. QED
  BY <1>2, Inductive, PTL DEF Spec, ScansAdvance

----------------------------------------------------------------------------
(* Deletes and the rows they clear.                                        *)

(* Whoever is about to clear a row goes on to do so, until a step that     *)
(* clears it, fails or crashes.                                            *)
LEMMA ClearingStays ==
    ASSUME IInv, [Next]_vars, NEW h \in Hashes, Clearing(h), row'[h] # None, faults' = faults
    PROVE  Clearing(h)'
<1>. USE DEF IInv, TypeOK
<1>1. ~ Crash
  BY DEF Crash, Fault
<1>2. ASSUME NEW d \in Deleters, deleter[d] = h
      PROVE  deleter'[d] = h
  <2>1. ASSUME NEW x \in Deleters, AdminClear(x) PROVE x # d
    BY <1>2, <2>1 DEF AdminClear, Fault
  <2>2. ASSUME NEW x \in Deleters, NEW g \in Hashes, AdminDelete(x, g) PROVE x # d
    BY <1>2, <2>2, NoneAssumption DEF AdminDelete
  <2>3. CASE \E x \in Deleters : AdminClear(x) \/ \E g \in Hashes : AdminDelete(x, g)
    BY <1>2, <2>1, <2>2, <2>3 DEF AdminClear, AdminDelete
  <2>4. CASE deleter' = deleter
    BY <1>2, <2>4
  <2>5. deleter' = deleter \/ \E x \in Deleters : AdminClear(x) \/ \E g \in Hashes : AdminDelete(x, g)
    BY <1>1 DEF Next, vars, Tick, PutBegin, PutEnd, GetHit, RecordRead, Swap, SweepBegin,
                PruneBegin, ScanStep, ScanList, ScanStat, ScanDelete, ScanClear, ScanNext
  <2>. QED
    BY <2>3, <2>4, <2>5
<1>3. ASSUME NEW s \in Scanners, scan[s] # None, scan[s].pc = "clear", Min(scan[s].doomed) = h
      PROVE  scan'[s] # None /\ scan'[s].pc = "clear" /\ Min(scan'[s].doomed) = h
  <2>1. ~ ScanStep(s)
    BY <1>3 DEF ScanStep, ScanList, ScanStat, ScanDelete, ScanClear, ScanNext, Fault
  <2>2. scan'[s] \in {scan[s], [scan[s] EXCEPT !.swapped = TRUE]}
    BY <1>1, <1>3, <2>1, StepOfScan
  <2>3. scan[s] \in Scan /\ [scan[s] EXCEPT !.swapped = TRUE] \in Scan
    BY <1>3 DEF Scan
  <2>4. /\ [scan[s] EXCEPT !.swapped = TRUE].pc = scan[s].pc
        /\ [scan[s] EXCEPT !.swapped = TRUE].doomed = scan[s].doomed
    BY <2>3 DEF Scan
  <2>. QED
    BY <1>3, <2>2, <2>3, <2>4, NoneAssumption
<1>. QED
  BY <1>2, <1>3 DEF Clearing

(* Whoever removes an entry is about to clear its row. *)
LEMMA RemoverClears ==
    ASSUME IInv, [Next]_vars, NEW b \in Backends, NEW h \in Hashes, Removed(b, h)
    PROVE  Clearing(h)'
<1>. USE DEF IInv, TypeOK
<1>1. CASE \E d \in Deleters, g \in Hashes : AdminDelete(d, g)
  <2>1. PICK d \in Deleters, g \in Hashes : AdminDelete(d, g)
    BY <1>1
  <2>2. g = h /\ deleter'[d] = g
    BY <2>1 DEF AdminDelete, Removed
  <2>. QED
    BY <2>2 DEF Clearing
<1>2. CASE \E s \in Scanners : ScanDelete(s)
  <2>1. PICK s \in Scanners : ScanDelete(s)
    BY <1>2
  <2>2. /\ entry' = [entry EXCEPT ![active][Min(scan[s].doomed)] = None]
        /\ scan' = [scan EXCEPT ![s].pc = "clear"]
        /\ scan[s] \in Scan
    BY <2>1 DEF ScanDelete, Removed
  <2>3. h = Min(scan[s].doomed)
    BY <2>2 DEF Removed
  <2>4. scan'[s] = [scan[s] EXCEPT !.pc = "clear"] /\ scan'[s] \in Scan
    BY <2>2 DEF Scan
  <2>5. scan'[s] # None /\ scan'[s].pc = "clear" /\ Min(scan'[s].doomed) = h
    BY <2>2, <2>3, <2>4, NoneAssumption DEF Scan
  <2>. QED
    BY <2>5 DEF Clearing
<1>3. CASE \E w \in Writers : PutEnd(w)
  <2>1. entry'[b][h] = None => entry[b][h] = None
    <3>1. None \notin Time
      BY NoneAssumption
    <3>. QED
      BY <1>3, <3>1 DEF PutEnd
  <2>. QED
    BY <2>1 DEF Removed
<1>4. CASE entry' = entry
  BY <1>4 DEF Removed
<1>5. \/ \E d \in Deleters, g \in Hashes : AdminDelete(d, g)
      \/ \E s \in Scanners : ScanDelete(s)
      \/ \E w \in Writers : PutEnd(w)
      \/ entry' = entry
  BY DEF Next, vars, Tick, PutBegin, GetHit, RecordRead, AdminClear, Swap, SweepBegin,
         PruneBegin, ScanStep, ScanList, ScanStat, ScanClear, ScanNext, Crash
<1>. QED
  BY <1>1, <1>2, <1>3, <1>4, <1>5

(* Whoever writes a row is a goroutine that records a read. *)
LEMMA RowsAreReads ==
    ASSUME IInv, [Next]_vars, NEW h \in Hashes, row[h] = None, row'[h] # None
    PROVE  \E r \in Readers : reader[r] = h /\ reader'[r] = None
<1>. USE DEF IInv, TypeOK
<1>1. CASE \E r \in Readers : RecordRead(r)
  BY <1>1 DEF RecordRead
<1>2. CASE \/ \E d \in Deleters : AdminClear(d)
           \/ \E s \in Scanners : ScanClear(s)
           \/ row' = row
  BY <1>2 DEF AdminClear, ScanClear
<1>3. \/ \E r \in Readers : RecordRead(r)
      \/ \E d \in Deleters : AdminClear(d)
      \/ \E s \in Scanners : ScanClear(s)
      \/ row' = row
  BY DEF Next, vars, Tick, PutBegin, PutEnd, GetHit, AdminDelete, Swap, SweepBegin,
         PruneBegin, ScanStep, ScanList, ScanStat, ScanDelete, ScanNext, Crash
<1>. QED
  BY <1>1, <1>2, <1>3

(* Deletes leave no rows behind, however those of admins, prunes, sweeps,  *)
(* backends and replicas meet: a row without an entry that nobody is about *)
(* to clear is from a failure, a crash, or a read recorded too late.       *)
THEOREM NoRowLeftBehind == Spec => OnlyLateReadsOrphan
<1>1. ASSUME IInv, [Next]_vars, NEW h \in Hashes, Orphan(h)', ~ Orphan(h), faults' = faults
      PROVE  \E r \in Readers : reader[r] = h /\ reader'[r] = None
  <2>1. row'[h] # None /\ (\A b \in Backends : entry'[b][h] = None) /\ ~ Clearing(h)'
    BY <1>1 DEF Orphan
  <2>2. ~ Clearing(h)
    BY <1>1, <2>1, ClearingStays
  <2>3. \A b \in Backends : entry[b][h] = None
    BY <1>1, <2>1, RemoverClears DEF Removed
  <2>4. row[h] = None
    BY <1>1, <2>2, <2>3 DEF Orphan
  <2>. QED
    BY <1>1, <2>1, <2>4, RowsAreReads
<1>2. IInv /\ [Next]_vars =>
        [\A h \in Hashes : Orphan(h)' /\ ~ Orphan(h) =>
           \/ faults' # faults
           \/ \E r \in Readers : reader[r] = h /\ reader'[r] = None]_vars
  BY <1>1
<1>. QED
  BY <1>2, Inductive, PTL DEF Spec, OnlyLateReadsOrphan
=============================================================================
