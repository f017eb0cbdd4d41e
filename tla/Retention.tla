----------------------------- MODULE Retention -----------------------------
(***************************************************************************)
(* How cache entries come and go: the HTTP handlers of internal/server,    *)
(* the janitor, the admin's prune and deletes (internal/adminapi), the     *)
(* read tracking table (internal/store/cache_reads.go) and storage.Dynamic *)
(* in front of the backends, which an admin may swap at any time.          *)
(*                                                                         *)
(* Calls to a backend and statements to Postgres are atomic here (module   *)
(* ArtifactStore says what they promise); what is interleaved is what lies *)
(* between them.  An entry is its modification time: what it holds never   *)
(* matters to its lifetime.  Time is counted in coarse ticks and a lookup  *)
(* that changes nothing (a miss, a 409) is no step.                        *)
(***************************************************************************)
EXTENDS Integers, FiniteSets, FiniteSetsExt

CONSTANTS
    Hashes,         \* cache keys, as positive integers: List is in key order
    Backends,       \* the backends an admin may configure
    Janitors,       \* one per replica of the server
    Pruners,        \* prune requests of admins
    Readers,        \* goroutines that record a read
    Writers,        \* uploads
    Deleters,       \* deletes and bulk deletes of admins
    MaxAge, UnreadAfter,    \* janitor.Config
    PruneAges,      \* what admins enter as olderThanDays, if it fits a Duration
    PageSize,       \* the limit passed to List: 200 in the code
    MaxTime, MaxSwaps, MaxFaults,   \* bounds on the clock, on swaps, on failures
    None

Scanners == Janitors \cup Pruners

Time == 0 .. MaxTime

(* The scan of a janitor or a prune.  The last three fields are history:   *)
(* the entries its rule condemned when it started, and whether the backend *)
(* was swapped or a delete failed since.                                   *)
Scan == [pc : {"list", "stat", "delete", "clear"},
         started : Time,
         old : Int,                     \* ModTime below this: delete
         unread : Int,                  \* ModTime below this and not fresh: delete
         fresh : SUBSET Hashes,         \* read since `unread`, as of the start
         cursor : Hashes \cup {0},
         on : Backends \cup {None},     \* the backend the cursor came from
         names : SUBSET Hashes,         \* the page being listed
         doomed : SUBSET Hashes,        \* what is left to delete of it
         more : BOOLEAN,                \* NextCursor is not empty
         due : SUBSET Hashes, swapped : BOOLEAN, failed : BOOLEAN]

ASSUME HashesAssumption == Hashes \subseteq Nat \ {0} /\ IsFiniteSet(Hashes)
ASSUME ConfigAssumption ==
    /\ MaxAge \in Nat /\ UnreadAfter \in Nat
    /\ PruneAges \subseteq Nat \ {0}
    /\ PageSize \in Nat \ {0}
    /\ MaxTime \in Nat /\ MaxSwaps \in Nat /\ MaxFaults \in Nat
ASSUME ActorsAssumption == Janitors \cap Pruners = {}
ASSUME NoneAssumption ==
    None \notin Hashes \cup Backends \cup Time \cup Backends \X Hashes \cup Scan

VARIABLES
    now,        \* the clock
    active,     \* Dynamic.current
    entry,      \* entry[b][h]: ModTime of h in backend b, None when absent
    row,        \* cache_reads: last_read_at of each hash, None when it has no row
    reader,     \* the hash each reader's goroutine is about to record
    writer,     \* the backend and hash each upload in flight writes to
    deleter,    \* the hash whose row each admin delete is about to clear
    scan,       \* the progress of each sweep and prune
    swaps, faults   \* how many there have been

vars == <<now, active, entry, row, reader, writer, deleter, scan, swaps, faults>>

TypeOK ==
    /\ now \in Time
    /\ active \in Backends
    /\ entry \in [Backends -> [Hashes -> Time \cup {None}]]
    /\ row \in [Hashes -> Time \cup {None}]
    /\ reader \in [Readers -> Hashes \cup {None}]
    /\ writer \in [Writers -> (Backends \X Hashes) \cup {None}]
    /\ deleter \in [Deleters -> Hashes \cup {None}]
    /\ scan \in [Scanners -> Scan \cup {None}]
    /\ swaps \in 0 .. MaxSwaps
    /\ faults \in 0 .. MaxFaults

Init ==
    /\ now = 0
    /\ active \in Backends
    /\ entry = [b \in Backends |-> [h \in Hashes |-> None]]
    /\ row = [h \in Hashes |-> None]
    /\ reader = [r \in Readers |-> None]
    /\ writer = [w \in Writers |-> None]
    /\ deleter = [d \in Deleters |-> None]
    /\ scan = [s \in Scanners |-> None]
    /\ swaps = 0
    /\ faults = 0

(* A call to a backend or to Postgres fails. *)
Fault ==
    /\ faults < MaxFaults
    /\ faults' = faults + 1

Tick ==
    /\ now < MaxTime
    /\ now' = now + 1
    /\ UNCHANGED <<active, entry, row, reader, writer, deleter, scan, swaps, faults>>

----------------------------------------------------------------------------
(* Requests of Nx clients: internal/server. *)

(* An upload gets hold of the active backend and keeps it to its end. *)
PutBegin(w, h) ==
    /\ writer[w] = None
    /\ writer' = [writer EXCEPT ![w] = <<active, h>>]
    /\ UNCHANGED <<now, active, entry, row, reader, deleter, scan, swaps, faults>>

(* It stores the entry, loses to another upload, or is cut short. *)
PutEnd(w) ==
    /\ writer[w] # None
    /\ LET b == writer[w][1] h == writer[w][2] IN
         \/ entry[b][h] = None /\ entry' = [entry EXCEPT ![b][h] = now]
         \/ UNCHANGED entry
    /\ writer' = [writer EXCEPT ![w] = None]
    /\ UNCHANGED <<now, active, row, reader, deleter, scan, swaps, faults>>

(* A hit starts a goroutine that will record it. *)
GetHit(r, h) ==
    /\ reader[r] = None
    /\ entry[active][h] # None
    /\ reader' = [reader EXCEPT ![r] = h]
    /\ UNCHANGED <<now, active, entry, row, writer, deleter, scan, swaps, faults>>

(* Variant: the read is stamped by a clock that runs ahead of the server's. *)
RecordRead_Ahead(r) ==
    /\ reader[r] # None
    /\ row' = [row EXCEPT ![reader[r]] = now + 1]
    /\ reader' = [reader EXCEPT ![r] = None]
    /\ UNCHANGED <<now, active, entry, writer, deleter, scan, swaps, faults>>

(* RecordCacheRead upserts the row, whatever became of the entry; or it    *)
(* fails, or its five seconds run out, and the read goes unrecorded.       *)
RecordRead(r) ==
    /\ reader[r] # None
    /\ \/ row' = [row EXCEPT ![reader[r]] = now] /\ UNCHANGED faults
       \/ Fault /\ UNCHANGED row
    /\ reader' = [reader EXCEPT ![r] = None]
    /\ UNCHANGED <<now, active, entry, writer, deleter, scan, swaps>>

----------------------------------------------------------------------------
(* Deletes and settings of admins: internal/adminapi. *)

(* DELETE of one entry, or the next hash of a bulk delete. *)
AdminDelete(d, h) ==
    /\ deleter[d] = None
    /\ entry[active][h] # None
    /\ entry' = [entry EXCEPT ![active][h] = None]
    /\ deleter' = [deleter EXCEPT ![d] = h]
    /\ UNCHANGED <<now, active, row, reader, writer, scan, swaps, faults>>

(* clearReadStats is best effort. *)
AdminClear(d) ==
    /\ deleter[d] # None
    /\ \/ row' = [row EXCEPT ![deleter[d]] = None] /\ UNCHANGED faults
       \/ Fault /\ UNCHANGED row
    /\ deleter' = [deleter EXCEPT ![d] = None]
    /\ UNCHANGED <<now, active, entry, reader, writer, scan, swaps>>

Swap(b) ==
    /\ swaps < MaxSwaps
    /\ b # active
    /\ swaps' = swaps + 1
    /\ active' = b
    /\ scan' = [s \in Scanners |->
                  IF scan[s] = None THEN None ELSE [scan[s] EXCEPT !.swapped = TRUE]]
    /\ UNCHANGED <<now, entry, row, reader, writer, deleter, faults>>

----------------------------------------------------------------------------
(* Sweeps and prunes. *)

(* Variant: entries never read are deleted whatever their age. *)
shouldDelete_NoAgeGate(mod, read, old, unread) == mod < old \/ ~ read

(* Variant: a read does not keep an entry. *)
shouldDelete_ReadsIgnored(mod, read, old, unread) == mod < old \/ mod < unread

shouldDelete(mod, read, old, unread) ==
    \/ mod < old
    \/ mod < unread /\ ~ read

(* The rule of janitor.Config for an entry at time t: older than MaxAge, or *)
(* older than UnreadAfter and with no recorded read in the last UnreadAfter. *)
Expired(h, t) ==
    LET mod == entry[active][h] IN
        /\ mod # None
        /\ \/ t - mod > MaxAge
           \/ /\ t - mod > UnreadAfter
              /\ row[h] = None \/ t - row[h] > UnreadAfter

Begin(s, old, unread, fresh, due) ==
    scan' = [scan EXCEPT ![s] =
        [pc |-> "list", started |-> now, old |-> old, unread |-> unread, fresh |-> fresh,
         cursor |-> 0, on |-> None, names |-> {}, doomed |-> {}, more |-> FALSE,
         due |-> due, swapped |-> FALSE, failed |-> FALSE]]

(* Variant: the sweep at startup is the only one. *)
SweepBegin_Once(j) ==
    /\ scan[j] = None
    /\ now = 0
    /\ Begin(j, now - MaxAge, now - UnreadAfter, {}, {h \in Hashes : Expired(h, now)})
    /\ UNCHANGED <<now, active, entry, row, reader, writer, deleter, swaps, faults>>

(* Sweep loads all read stats, then computes its cutoffs from the clock. *)
SweepBegin(j) ==
    /\ scan[j] = None
    /\ Begin(j, now - MaxAge, now - UnreadAfter,
             {h \in Hashes : row[h] # None /\ row[h] >= now - UnreadAfter},
             {h \in Hashes : Expired(h, now)})
    /\ UNCHANGED <<now, active, entry, row, reader, writer, deleter, swaps, faults>>

PruneBegin(p, age) ==
    /\ scan[p] = None
    /\ Begin(p, now - age, now - age, Hashes,
             {h \in Hashes : entry[active][h] # None /\ now - entry[active][h] > age})
    /\ UNCHANGED <<now, active, entry, row, reader, writer, deleter, swaps, faults>>

(* Variant: the cursor itself is listed again. *)
After_Inclusive(cur) == {h \in Hashes : entry[active][h] # None /\ h >= cur}

(* What the active backend holds beyond a cursor, in key order ... *)
After(cur) == {h \in Hashes : entry[active][h] # None /\ h > cur}

(* ... and the first PageSize of such names. *)
Page(after) == {h \in after : Cardinality({g \in after : g < h}) < PageSize}

(* Variant: the next page starts after its own first entry. *)
ReadPage_Skips(s, cur) ==
    LET after == After(cur)
        page == Page(after)
    IN  scan' = [scan EXCEPT ![s].pc = "stat", ![s].on = active, ![s].names = page,
                             ![s].more = page # after,
                             ![s].cursor = IF page # after THEN Min(after \ page) ELSE @]

(* A page of names, and a cursor to go on from if there are more. *)
ReadPage(s, cur) ==
    LET after == After(cur)
        page == Page(after)
    IN  scan' = [scan EXCEPT ![s].pc = "stat", ![s].on = active, ![s].names = page,
                             ![s].more = page # after,
                             ![s].cursor = IF page # after THEN Max(page) ELSE @]

(* List on the active backend.  A cursor that another backend issued means *)
(* nothing to it: it may resume anywhere, or refuse it.  A failed List ends *)
(* the scan.                                                               *)
ScanList(s) ==
    /\ scan[s] # None
    /\ scan[s].pc = "list"
    /\ \/ scan[s].on \in {None, active} /\ ReadPage(s, scan[s].cursor) /\ UNCHANGED faults
       \/ scan[s].on \notin {None, active} /\ UNCHANGED faults
            /\ \/ \E cur \in Hashes \cup {0} : ReadPage(s, cur)
               \/ scan' = [scan EXCEPT ![s] = None]
       \/ Fault /\ scan' = [scan EXCEPT ![s] = None]
    /\ UNCHANGED <<now, active, entry, row, reader, writer, deleter, swaps>>

(* The rest of List looks at each name again, in the backend it was called *)
(* on, and skips those that are gone; then the rule picks the ones to go.  *)
ScanStat(s) ==
    /\ scan[s] # None
    /\ scan[s].pc = "stat"
    /\ scan' = [scan EXCEPT
         ![s].pc = "delete",
         ![s].doomed = {h \in scan[s].names :
             /\ entry[scan[s].on][h] # None
             /\ shouldDelete(entry[scan[s].on][h], h \in scan[s].fresh,
                             scan[s].old, scan[s].unread)}]
    /\ UNCHANGED <<now, active, entry, row, reader, writer, deleter, swaps, faults>>

(* Variant: nobody clears the row of what a scan has deleted. *)
ScanDelete_KeepsRow(s) ==
    /\ scan[s] # None
    /\ scan[s].pc = "delete"
    /\ scan[s].doomed # {}
    /\ entry' = [entry EXCEPT ![active][Min(scan[s].doomed)] = None]
    /\ scan' = [scan EXCEPT ![s].doomed = @ \ {Min(@)}]
    /\ UNCHANGED <<now, active, row, reader, writer, deleter, swaps, faults>>

(* Delete goes to the backend that is active by now; an entry that is gone *)
(* counts as deleted.  On an error the janitor goes on, a prune gives up.  *)
ScanDelete(s) ==
    /\ scan[s] # None
    /\ scan[s].pc = "delete"
    /\ scan[s].doomed # {}
    /\ \/ /\ entry' = [entry EXCEPT ![active][Min(scan[s].doomed)] = None]
          /\ scan' = [scan EXCEPT ![s].pc = "clear"]
          /\ UNCHANGED faults
       \/ /\ Fault
          /\ scan' = IF s \in Pruners
                        THEN [scan EXCEPT ![s] = None]
                        ELSE [scan EXCEPT ![s].doomed = @ \ {Min(@)}, ![s].failed = TRUE]
          /\ UNCHANGED entry
    /\ UNCHANGED <<now, active, row, reader, writer, deleter, swaps>>

(* The row of the deleted entry is cleared, best effort. *)
ScanClear(s) ==
    /\ scan[s] # None
    /\ scan[s].pc = "clear"
    /\ \/ row' = [row EXCEPT ![Min(scan[s].doomed)] = None] /\ UNCHANGED faults
       \/ Fault /\ UNCHANGED row
    /\ scan' = [scan EXCEPT ![s].pc = "delete", ![s].doomed = @ \ {Min(@)}]
    /\ UNCHANGED <<now, active, entry, reader, writer, deleter, swaps>>

(* Variant: NextCursor is ignored. *)
ScanNext_OnePage(s) ==
    /\ scan[s] # None
    /\ scan[s].pc = "delete"
    /\ scan[s].doomed = {}
    /\ scan' = [scan EXCEPT ![s] = None]
    /\ UNCHANGED <<now, active, entry, row, reader, writer, deleter, swaps, faults>>

(* The page is done: list the next one, or end the scan. *)
ScanNext(s) ==
    /\ scan[s] # None
    /\ scan[s].pc = "delete"
    /\ scan[s].doomed = {}
    /\ scan' = [scan EXCEPT ![s] = IF @.more THEN [@ EXCEPT !.pc = "list"] ELSE None]
    /\ UNCHANGED <<now, active, entry, row, reader, writer, deleter, swaps, faults>>

ScanStep(s) == ScanList(s) \/ ScanStat(s) \/ ScanDelete(s) \/ ScanClear(s) \/ ScanNext(s)

----------------------------------------------------------------------------
(* The process dies with everything it was doing; uploads in flight with   *)
(* it.  The active backend is configuration and is loaded again.           *)
Crash ==
    /\ Fault
    /\ reader' = [r \in Readers |-> None]
    /\ writer' = [w \in Writers |-> None]
    /\ deleter' = [d \in Deleters |-> None]
    /\ scan' = [s \in Scanners |-> None]
    /\ UNCHANGED <<now, active, entry, row, swaps>>

Next ==
    \/ Tick
    \/ \E w \in Writers : PutEnd(w) \/ \E h \in Hashes : PutBegin(w, h)
    \/ \E r \in Readers : RecordRead(r) \/ \E h \in Hashes : GetHit(r, h)
    \/ \E d \in Deleters : AdminClear(d) \/ \E h \in Hashes : AdminDelete(d, h)
    \/ \E b \in Backends : Swap(b)
    \/ \E j \in Janitors : SweepBegin(j)
    \/ \E p \in Pruners, age \in PruneAges : PruneBegin(p, age)
    \/ \E s \in Scanners : ScanStep(s)
    \/ Crash

Spec == Init /\ [][Next]_vars

(* The ticker starts sweep after sweep, and a sweep that has begun is run  *)
(* to its end; nothing makes clients or admins act.                        *)
FairSpec ==
    /\ Spec
    /\ \A j \in Janitors : WF_vars(SweepBegin(j))
    /\ \A s \in Scanners : WF_vars(ScanStep(s))

----------------------------------------------------------------------------
Removed(b, h) == entry[b][h] # None /\ entry'[b][h] = None

(* Scan s deletes an entry in this step. *)
Deletes(s) ==
    /\ scan[s] # None /\ scan[s].pc = "delete"
    /\ scan'[s] # None /\ scan'[s].pc = "clear"

(* A sweep or prune that no swap overtakes deletes only what its rule      *)
(* condemned when it started, or what was stored again since: an entry     *)
(* read lately by then, or too young by then, is never its victim, however *)
(* long it runs and whatever uploads, reads and deletes fall between its   *)
(* listing and its deletes.                                                *)
ScansSpareTheRest ==
    [][\A s \in Scanners : Deletes(s) /\ ~ scan[s].swapped =>
         \A b \in Backends, h \in Hashes : Removed(b, h) =>
            h \in scan[s].due \/ entry[b][h] >= scan[s].started]_vars

(* When a scan ends in order, nothing its rule condemned at the start is   *)
(* left, however the listing shifted between its pages: entries deleted by *)
(* itself or by others make no page skip what follows.                     *)
ScansAreComplete ==
    [][\A s \in Scanners :
         /\ scan[s] # None /\ scan'[s] = None
         /\ scan[s].pc = "delete" /\ scan[s].doomed = {} /\ faults' = faults
         /\ ~ scan[s].swapped /\ ~ scan[s].failed
         => \A h \in scan[s].due :
              entry[active][h] = None \/ entry[active][h] >= scan[s].started]_vars

(* What scan s has before it: the names it may still list, the stage it is *)
(* at with its page, and the calls for what is left to delete of that.     *)
Backlog(s) ==
    [names |-> IF scan[s].pc = "list" \/ scan[s].more
                  THEN Cardinality({h \in Hashes : h > scan[s].cursor}) + 1 ELSE 0,
     stage |-> CASE scan[s].pc = "stat" -> 2
                 [] scan[s].pc \in {"delete", "clear"} -> 1
                 [] scan[s].pc = "list" -> 0,
     calls |-> 2 * Cardinality(scan[s].doomed) + (IF scan[s].pc = "delete" THEN 1 ELSE 0)]

Shorter(a, b) ==
    \/ a.names < b.names
    \/ a.names = b.names /\ a.stage < b.stage
    \/ a.names = b.names /\ a.stage = b.stage /\ a.calls < b.calls

(* Every step of a scan brings it nearer to its end, whatever is stored    *)
(* and deleted meanwhile: it never lists the same page again, never tries  *)
(* a delete again, and new uploads cannot keep it busy forever.  Only the  *)
(* cursor of a backend swapped out since may set it back.                  *)
ScansAdvance ==
    [][\A s \in Scanners :
         /\ scan[s] # None /\ scan'[s] # None
         /\ <<scan'[s].pc, scan'[s].doomed>> # <<scan[s].pc, scan[s].doomed>>
         /\ ~ (scan[s].pc = "list" /\ scan[s].on \notin {None, active})
         => Shorter(Backlog(s)', Backlog(s))]_vars

(* An entry of the active backend that has outlived MaxAge goes in the end *)
(* although sweeps fail, are cut by a crash or find a swapped backend.     *)
OldEntriesGo ==
    \A b \in Backends, h \in Hashes :
        (active = b /\ entry[b][h] # None /\ now - entry[b][h] > MaxAge)
            ~> (active # b \/ entry[b][h] = None \/ now - entry[b][h] <= MaxAge)

(* janitor.Config: the age gate keeps a new upload from being deleted      *)
(* before anyone had a chance to use it.  It fails when the entry that was *)
(* listed is not the entry that is deleted; ScansSpareTheRest is how far   *)
(* it holds.                                                               *)
AgeGate ==
    [][\A j \in Janitors : Deletes(j) =>
         \A b \in Backends, h \in Hashes :
            Removed(b, h) => now - entry[b][h] >= UnreadAfter]_vars

(* cache_reads.go: tracking rows do not accumulate for hashes that no      *)
(* longer exist.  Once nothing is in flight, a row has an entry.           *)
Quiet ==
    /\ \A r \in Readers : reader[r] = None
    /\ \A w \in Writers : writer[w] = None
    /\ \A d \in Deleters : deleter[d] = None
    /\ \A s \in Scanners : scan[s] = None

NoOrphanRows ==
    Quiet => \A h \in Hashes : row[h] # None => \E b \in Backends : entry[b][h] # None

(* A row whose entry is gone, and which nobody is about to clear.          *)
Clearing(h) ==
    \/ \E d \in Deleters : deleter[d] = h
    \/ \E s \in Scanners : scan[s] # None /\ scan[s].pc = "clear" /\ Min(scan[s].doomed) = h

Orphan(h) ==
    /\ row[h] # None
    /\ \A b \in Backends : entry[b][h] = None
    /\ ~ Clearing(h)

(* How far that does hold: a row is left behind only by a failure or a     *)
(* crash, or by a read recorded after its entry had gone; never by deletes *)
(* of admins, prunes and sweeps that meet on one hash, on whichever        *)
(* backend, with uploads of it in between.                                 *)
OnlyLateReadsOrphan ==
    [][\A h \in Hashes : Orphan(h)' /\ ~ Orphan(h) =>
         \/ faults' # faults
         \/ \E r \in Readers : reader[r] = h /\ reader'[r] = None]_vars
=============================================================================
