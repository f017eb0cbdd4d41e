# nx-remote-cache: a TLA+ model of the cache server

nx-remote-cache is a self-hosted remote cache for Nx. A Go server stores the
artifacts of tasks under their hashes in one of three storage backends (a local
directory, an S3 bucket, a GCS bucket), keeps its users, sessions, access
tokens, settings and read statistics in Postgres, sweeps old entries away in
the background, and serves a web UI to its admins. This directory models the
parts in which concurrency, failures and order decide what is correct, checks
small instances with TLC, and proves the main results with TLAPS.

## 1. Inventory

| Part | State | Operations | Interacts with |
|---|---|---|---|
| Backend contract (`internal/storage/storage.go`) | the artifact under each hash | Exists, Put, Get, Delete, List | implemented by the three drivers |
| Local driver (`local.go`) | a directory of final and temporary names | Stat, CreateTemp, copy, Link, Remove, Open, ReadDir | the operating system |
| S3 driver (`s3.go`) | none of its own | HeadObject, PutObject, GetObject, DeleteObject, ListObjectsV2 | the bucket |
| GCS driver (`gcs.go`) | none of its own | Writer with a DoesNotExist condition, NewReader, Delete, Objects | the bucket, the SDK's retries |
| Dynamic backend (`dynamic.go`) | the active backend | every Backend method; Swap | settings swap it, everyone else calls through it |
| Cache server (`internal/server`) | the entry size limit | GET and PUT of an artifact | tokens, Dynamic, read tracking (a goroutine per hit) |
| Janitor (`internal/janitor`) | its ticker | Sweep | Dynamic, read tracking |
| Admin cache handlers (`adminapi/cache_handlers.go`) | none | list, delete, bulk delete, prune | Dynamic, read tracking |
| Read tracking (`store/cache_reads.go`) | one row per hash that was read | record, list, delete | server, janitor, admin handlers |
| Settings (`internal/settings`, `store/settings.go`) | the row in Postgres, the live copy | Load, Apply, Current | Dynamic, sessions, server |
| Users, sessions, tokens (`store`, `session`, `auth`, `adminapi`) | three tables | login, logout, create, delete, revoke, authenticate | every handler |
| Startup and shutdown (`cmd/server/main.go`) | the process | migrate with retries, bootstrap an admin, load settings, serve, shut down | all of the above |
| Web UI (`web/src`) | pages with lists, selections, requests in flight | load, delete, prune, log in | the admin API |
| Configuration, migrations, encryption, logging, routing | none that moves | | |

Where it is hard:

* one goroutine per request: Puts, Gets and Deletes of one hash overlap at the
  granularity of file system calls or bucket requests;
* the process may be killed anywhere, and the directory, the bucket and
  Postgres survive;
* a call may fail before it is applied, or be applied and its answer lost;
* a sweep works from a listing and from read statistics that age while it
  runs, against uploads, reads, deletes, prunes, sweeps of other replicas and
  swaps of the backend;
* rows about an entry and the entry itself live in two stores with no
  transaction around them.

What makes each part correct:

* **drivers**: a stored artifact is whole and never replaced; a Get hands out a
  whole artifact; nothing but crashes and failed removes leaves temporary files;
  every call takes effect at one instant and says what it did;
* **retention**: a scan deletes what its rule condemns, all of it and nothing
  else; old entries go in the end; new ones are given time; rows of deleted
  entries do not accumulate;
* **accounts**: there is always an admin to log in; a revoked token and an ended
  session are never accepted again;
* **settings**: what is live is what was stored; a refused change changes
  nothing; secrets are kept, cleared or replaced as asked;
* **web UI**: what is shown and what a button does match the last answer.

`PROJECT.json` lists the components with their status and the hazards of the
code, each at its line, with the properties that cover it or the reason none
does.

## 2. Plan

Done, in this order:

1. `Artifacts`, `ArtifactStore` (the contract), `LocalStore` with its proofs and
   its refinement of the contract, `BucketStore` (the contract with lapses),
   `Retention`.
2. `Accounts`: users, sessions, tokens, bootstrap and the requests they
   authorize; then passwords, their change, and the scopes of tokens.
3. `Settings`: startup with its retries, Load, Apply and its lock, a crash
   between the UPDATE and the swap, several replicas, the three-way secrets, a
   changed encryption key, what `Current` reports.
4. Requests that a bucket applies late, in the contract and in `BucketStore`.
5. Proofs about all of the modules, see section 5.
6. `SettingsRegister`, the abstract register that `Settings` implements; what
   calls and scans have before them (`Remaining`, `Backlog`); and how far each
   promise holds that a run finds violated.

Open:

* pure algorithms against reference definitions: the cutoff of a prune and the
  TTL of a session in 64 bits, keys and prefixes of object stores, the refill of
  the login limiter;
* the cache page and the session context of the UI;
* a refinement of the calls `Retention` takes to be atomic against
  `ArtifactStore`.

Modules stay provable: parameters are CONSTANTS with named assumptions, one
action per call, and no module uses RECURSIVE operators.

## 3. Modules

| Module | Models |
|---|---|
| `Artifacts` | hashes, bodies with a declared length, requests, verdicts, effects of a delayed request |
| `ArtifactStore` | what `storage.Backend` promises: one atomic step per call; `Step(lapses)` is the contract with named promises given up |
| `LocalStore` | `local.go`, one action per file system call, with the part of `handleGet` that streams and closes the file |
| `LocalStoreProofs` | inductive invariant of `LocalStore`, safety theorems |
| `LocalStoreRefinement` | proof that `LocalStore` implements `ArtifactStore` |
| `BucketStore` | `s3.go` and `gcs.go`, one action per bucket request |
| `BucketStoreProofs` | inductive invariant of `BucketStore`, its type correctness, what each driver keeps of the other's lapse |
| `BucketStoreRefinement` | proof that each driver implements `ArtifactStore` up to its lapses |
| `Retention` | server, janitor, admin deletes and prunes, read tracking and `Dynamic` together, one action per call |
| `RetentionProofs` | inductive invariant of the scans, proofs that they are exact, complete and come to an end |
| `Accounts` | users, sessions, tokens, the handlers that change them and the requests they authorize |
| `AccountsProofs` | inductive invariant and safety theorems of `Accounts` |
| `Configurations` | what a configuration and a request for one consist of, `validate` and the merge of the two |
| `SettingsRegister` | what the settings promise the admins: a change is one atomic step |
| `Settings` | the stored and the live settings of every replica, startup and shutdown, the settings handlers |
| `SettingsProofs` | inductive invariant and safety theorems of `Settings` |
| `SettingsRefinement` | proof that `Settings` implements `SettingsRegister` |
| `MC*` | instances for TLC |

### LocalStore

The directory is `dest` (final names) and `temps` (temporary names), both
leading to inodes whose content is `file`: a hard link makes two names of one
inode, which is what `os.Link` does in `Put`. A caller is a goroutine; `call`
is its request, `pc` its next system call, `fd` the file it holds, `ret` what
its code has decided to return. Every system call may fail on its own. `Free`
says which inodes the file system may give out: those no name and no open file
refers to, so that a Get keeps its file after the name is gone. `Crash` drops
every goroutine, runs no deferred call and keeps the directory. `orphans` is a
history variable: the temporary names nobody is going to remove. `Remaining` is
what a call still has before it, an upper bound on its own system calls.

A Put is decided at its Stat (the hash is there) or at its Link; a Get at its
Open, a Delete at its Remove. With `Stored`, `Fate` and `Found` as the
refinement mapping these are the steps of `ArtifactStore`, and every other
system call is a stutter.

### BucketStore

S3 looks before it writes and before it deletes (`S3Exists`), then sends a
request without a condition. GCS writes chunks to a Writer and its Close stores
what was written if the object does not exist. The SDK repeats a conditional
upload whose answer was lost (`GcsCloseAgain`), and after a failed copy `Put`
closes the writer all the same (`GcsAbandon`). Any request may fail before it is
applied, and any answer may be lost (`Return` then reports an error). A request
that changes the bucket may also stay on its way (`Delay`): either the SDK sends
it again (`Retried`) or the call is given up (`givenup`), and the copy in `late`
is applied at any later time, or comes to nothing (`Arrive`), also after the call
has returned or its process has died. What a conditional upload does when it
arrives late depends on whether the object exists then.

`Lapses` says which promises each driver gives up: S3 may overwrite and may
report a Delete that removed nothing; GCS may store part of a body, deny its own
success and store again what was deleted meanwhile; both may take effect late.
`KeepsRestOfContract` says that there is nothing else: S3 stores whole bodies
only, however late, GCS never replaces an artifact, and every read is of what was
stored at an instant during the call. Key prefixes rename all keys of a bucket
alike and are left out.

### Retention

An entry is the time it was stored, per backend; a row is the time its hash was
last read. `PutBegin` takes the active backend from `Dynamic` and `PutEnd`
writes to it; `GetHit` starts the goroutine whose `RecordRead` comes later;
`AdminDelete` and `AdminClear` are the two calls of every admin delete. A scan
is a sweep of the janitor or a prune: it starts with its cutoffs and, for a
sweep, the rows (`SweepBegin`, `PruneBegin`), then per page reads the names
(`ScanList`), looks at each of them (`ScanStat`), and deletes and clears one at a
time (`ScanDelete`, `ScanClear`). `due`, `swapped` and `failed` are history. `Backlog`
is what a scan has before it: the names beyond its cursor, its stage within a
page, and the deletes and clears left. The
query for the rows and the reading of the clock are one step, and so are the
Stats of one page; with a page size of one, as in the runs, the latter loses
nothing; the object stores return names and times in one answer, which is the
case of a `ScanStat` that follows its `ScanList` at once. The modification time
of a local file is that of its last write, a moment before its link; here it is
the time of the link. Day counts of a prune are taken to fit a `time.Duration`.

### Accounts

`email`, `session` and `token` are the tables; `issued` keeps the ids given out,
which are never given out twice. A request is a record of its `pc` and of what
its handler has read so far: `protected` resolves the cookie in two queries (the
session, then its user), and the handler goes on with the user it was given,
however long ago that was. `handleDeleteUser` counts (`CountUsers`) and deletes
(`DeleteUser`) in two statements, `Login` looks the user up and inserts the
session in two. Every statement is one atomic step, with the schema's
references: deleting a user deletes its sessions and keeps its tokens, and an
insert that refers to a deleted user fails. The bootstrap of every start counts
the users (`BootCount`) and creates one if there is none (`BootInsert`). A
password is the number of times it was changed; whoever logs in enters the one in
force or a former one, and `ChangePassword` replaces it. `token` holds the scope a
token was created with; `Authenticate` compares it with what the cache request
needs (`Allows`). `Answer` is every way a handler ends without a change: a
refusal, a failed statement, a cancelled request. `dead` and `crossed` are
history: whether the credential of a request was bad when it began, and whether a
user was ever deleted while another delete had counted.

A credential may end while a request with it is on its way: between the two
queries of `CurrentUser`, before the statement of the handler, between the
comparison of a password and the INSERT of the session. The code finishes such a
request, and the model has all of these steps. What must hold is
`ChangesHaveCallers`: each change is made for the one caller whose credential was
in force during that request, never for a user to whom the session has passed.
Since no id is given out twice and no credential comes back, in force at an
instant of a request is in force at its beginning, which `dead` records.

### Settings

`row` is the row of `app_settings` with its secrets sealed: a ciphertext is the
key that made it and what it holds, `Seal` is `encryptForStorage`, and `Opens`
says that a key decrypts every secret of the row. A replica goes through the
stages of `cmd/server/main.go`: `WaitForDB` with its bounded retries, the two
halves of `Load` (`LoadRow` reads, `LoadApply` decrypts, builds and puts in
force), serving, `Terminate` (SIGTERM) and `Shutdown`; whatever fails on the way
up ends the process (`Exit`), and a `Crash` does at any point. `force` is what
requests meet: the backend in `Dynamic`, the TTL and the size limit in their
atomics. `current` is the manager's own copy, which `Current` reports.

`Apply` takes `lock` (`Manager.mu`), lays the input over `current` (`Merge`: a
secret that is nil stays, "" clears it) and validates; then follow `Probe` (build
and List), `UpdateSettings`, `Swap`, `SetTTL`, `SetMaxEntryBytes` and
`SetCurrent`, one action each, because crashes fall between them and requests see
`force` change piece by piece. `UpdateSettings` may fail, or be applied without
its answer. `drifted` is history: a replica whose copy may differ from the row
because another one stored a change or its own answer was lost. `ChangeKey` is
the operator who configures another encryption key; a running replica keeps the
one it was started with.

In `SettingsRegister` a change is one step: laid over what its replica reports at
that instant, valid, working, stored, and reported from then on. The refinement
mapping places that step at the UPDATE. Between it and `SetCurrent` nobody can ask,
because the lock is held, so that `Reported` may already be what is being put in
force (`Putting`); a start has its settings from the moment `LoadRow` reads a row it
can open. The register is weaker than one variable in two ways, which the code
is: a change whose answer is lost is stored and not taken on (`Lose`), and what
another replica stores is read at the next start only.

## 4. Runs

| Run | Instance | Shows |
|---|---|---|
| `local_driver` | 2 requests, 1 hash, 2 bodies of 1 and 2 chunks, 2 inodes, fairness | types, `WholeArtifacts`, `HandedOutWhole`, `TempsAccounted`, `WriteOnce`, `CallsAdvance`, `ImplementsContract`, `CallsReturn`, `TempsReclaimed` |
| `bucket_contract` | 3 requests, 1 hash, 2 bodies, each driver, 1 delayed request | types, `KeepsRestOfContract` |
| `bucket_overwrite` | 2 requests, S3 | **violated**: `WriteOnce` |
| `bucket_truncate` | 2 requests, GCS | **violated**: `WholeArtifacts` |
| `retention_safety` | 2 hashes on 2 pages, a sweep, a prune, an upload, a read | types, `ScansSpareTheRest`, `ScansAreComplete`, `ScansAdvance`, `OnlyLateReadsOrphan` |
| `retention_swap` | 2 hashes, 2 backends, a sweep, an upload, an admin, 1 swap, 1 failure or crash, fairness | `OldEntriesGo`, `ScansSpareTheRest`, `ScansAreComplete` |
| `retention_agegate` | 1 hash, a sweep, an upload, an admin | **violated**: `AgeGate` |
| `retention_orphanrows` | 1 hash, a read, an upload, an admin | **violated**: `NoOrphanRows` |
| `accounts_safety` | 2 replicas with a request each, 2 user ids, 2 emails, 2 session ids, 1 token id, 1 change of each password | types, `DeadCredentialsStayOut`, `SessionsHaveUsers`, `SomebodyCanLogIn`, `ChangesHaveCallers` |
| `accounts_lastadmin` | the same with 3 user ids | **violated**: `AlwaysAnAdmin` |
| `settings_safety` | 1 replica, 2 requests, a directory, a bucket and an unusable target, 2 secret fields, 2 keys, 2 attempts of `waitForDB`, 2 failures or crashes, fairness | types, `StoredWorks`, `ReportedIsInForce`, `LiveIsStored`, `RequestsAnswered`, `ComesBack`, `ImplementsRegister`, `UndriftedSecretsKept` |
| `settings_lostsecret` | 2 replicas with a request each | **violated**: `OmittedSecretsKept` |

**Bounds.** The races of a local Put, Get or Delete are between two requests on
one hash, at any pair of system calls; two inodes make the disk full for a third
file and are given out again while an old name or an open file could still lead
to them. Of a bucket, a third request looks on or deletes, and one delayed
request (`MaxLate`) arrives among the calls that follow it. Two chunks tell an
empty, a partial and a whole body apart. In `Retention` a page of one entry makes
every scan of two entries cross a page boundary, two ticks past the limits of one
make entries age from new to expired, and one swap and one failure fall anywhere.
In `Accounts` two user ids are the bootstrap account and a second one, and two
requests are what it takes for deletes, logins, password changes and logouts to
overlap, on replicas of their own so that either may crash. In `Settings` two
requests compete for one lock; two fields can hold credentials sealed at
different times; two faults are a lost answer and a crash after it. The only
counters are the clock, the swaps, the failures, the retries, the password
changes and the delayed requests, bounded by `MaxTime`, `MaxSwaps`, `MaxFaults`,
`MaxAttempts`, `MaxChanges` and `MaxLate`; no bound is on the length of a
behaviour. All safety properties of the passing runs are proved for every value
of these constants too (section 5), so the instances need only be large enough
for liveness and to show the mutants.

**Fairness.** `LocalStore!FairSpec` is weak fairness of each goroutine's next
step: the Go scheduler runs what is runnable, and the server's `READ_TIMEOUT`
turns a body that never arrives into an error. Nothing makes a client send a
request. `Retention!FairSpec` is weak fairness of starting sweeps (the ticker of
`Janitor.Run`) and of the steps of a scan in progress. The clock, uploads,
reads, admins and failures are not fair; the number of failures is finite, which
is what lets a sweep eventually run to its end. `Settings!FairSpec` is weak
fairness of starting a replica that is down (whoever runs the server restarts
it), of the end of a shutdown (its grace is bounded) and of the steps of a request
that holds the lock (calls to Postgres and to a backend return or fail); and
strong fairness of a request that waits for the lock, since a `sync.RWMutex` lets
everyone who waits have its turn while others take and release it. Nothing makes
an admin send a request or the operator change the key back; `ComesBack` therefore
has as its premise that the key in the end is one that opens the row.

**The violated runs** are disagreements between the code and what its own
comments, tests or README say; section `findings` of `PROJECT.json` quotes them.

1. *S3 overwrites* (`bucket_overwrite`): HeadObject twice, then PutObject twice.
2. *GCS truncates* (`bucket_truncate`): the client hangs up during an upload and
   the part that arrived becomes the artifact.
3. *The age gate* (`retention_agegate`): a listed entry is deleted and uploaded
   again before the sweep deletes by its hash.
4. *Orphan rows* (`retention_orphanrows`): the read of a hit is recorded after
   the entry and its row were deleted.
5. *The last admin* (`accounts_lastadmin`): two admins delete each other at once.
6. *The lost secret* (`settings_lostsecret`): a change that leaves a credential
   out writes back the one its replica loaded, over what another replica stored.

**How far they hold.** Each of these promises fails in one way, and the complement
is checked or proved. Of the drivers, S3 stores whole artifacts only
(`S3StoresWhole`) and GCS never overwrites (`GcsWritesOnce`). Of what was stored
before it began, a sweep that no swap overtakes deletes only what was past one of its
limits then (`ScansSpareTheRest`). Without a failure or a crash, only a read recorded too
late leaves a row behind (`OnlyLateReadsOrphan`). Unless deletes cross, somebody can
log in (`SomebodyCanLogIn`). A replica that knows what is stored keeps the
credentials a change leaves out (`UndriftedSecretsKept`).

One disagreement more has no run of its own. The README of the server (line 85) says
that after a change of the encryption key the credentials are to be entered again
from the Settings page; `LoadApply` exits when it cannot decrypt them, so that there
is no such page. What holds is `ComesBack`: no start under the wrong key spoils
anything, and the replica serves again once the key that opens the row is back.

Each property of a passing run comes with a mutant: a variant of one action
(`PutLink_Rename`, `ReadPage_Skips`, ...) written next to it in the module, as a
plausible bug would have it, with which TLC finds the property violated.

## 5. Proofs

Everything here holds for all values of the constants that satisfy the named
assumptions of the modules, which TLC also evaluates in every run. Those of most
weight: lengths are positive naturals (`handlePut` refuses others); `None` and the
other markers are none of the values they stand beside; the kinds of ids of
`Accounts` are disjoint; the keys of `Retention` are a finite set of numbers,
ordered as `List` orders names; the seed of the settings is valid and works.

**`LocalStoreProofs`, `LocalStoreRefinement`.** The invariants of the run are not
inductive: that a linked inode is whole depends on nobody writing to it any more,
hence on who owns which inode. `IInv` adds to `TypeOK` and `TempsAccounted` what
`pc` says about a request and its file (`Shape`), that the file of a Put before
its link is reachable from no name and from no other request (`Private`), and
that what names and readers refer to is whole (`Linked`). One lemma per action
shows that it keeps `IInv` (`Inductive`).

* `TypesCorrect`, `OnlyWhole` (`WholeArtifacts`), `ReadersGetWhole`
  (`HandedOutWhole`) and `NoStrayTemps` (`TempsAccounted`) follow from it.
* `NeverOverwritten`: `Spec => WriteOnce`, from `IInv` and the actions.
* `Refinement`: `Spec => ImplementsContract`. Each action, in a state of `IInv`,
  is a step of the contract under the mapping or leaves all it maps to as it was.
* `WaitFree`: `Spec => CallsAdvance`. `Remaining(c)` is a natural number that every
  step of caller c decreases and no step of another changes (`Bystander`): no
  call waits for, or is set back by, what others do to the directory.

**`BucketStoreProofs`, `BucketStoreRefinement`.** `IInv` says at each stage of a
call whose request it is, which driver has that stage, what is decided and how
much of the body was sent (`Shape`), and that S3 never has part of a body on its
way (`LateWhole`): a late arrival is then a step the contract allows S3.

* `TypesCorrect`: `Spec => []TypeOK`.
* `S3StoresWhole`, `GcsWritesOnce`: with S3 every stored object is whole, and with
  GCS none is replaced, from what a step may put into the bucket
  (`BucketChanges`). These are the properties that `bucket_truncate` and
  `bucket_overwrite` find violated with the other driver.
* `Refinement`: `Spec => KeepsRestOfContract`, for each driver with its own
  lapses, any number of callers and any number of delayed requests.

**`RetentionProofs`.** A scan decides by cutoffs and reads that age while it runs,
and meets entries that come and go. `Gone` says that an entry is out of its
reach, absent or stored since it began. For a scan that no swap has overtaken,
`Exact` says that for every entry not gone the rule says today what it said at the
start; that all it is about to delete was condemned then or is gone; and that all
that was condemned is gone or ahead of it: beyond its cursor, on the page it is
looking at, or among those to delete (`Ahead`). Reading a page keeps the last
part because of `PageFacts`: a page lies before all it leaves out and ends in the
cursor. The lemmas `Least` and `Greatest` on finite sets of numbers rest on the
well-foundedness of strict inclusion between finite sets.

* `TypesCorrect`: `Spec => []TypeOK`.
* `NothingElse`: `Spec => ScansSpareTheRest`.
* `NothingLeft`: `Spec => ScansAreComplete`.
* `ScansEnd`: `Spec => ScansAdvance`. Every step of a scan takes it down in the
  lexicographic order `Shorter` on its `Backlog`. That listing a page leaves fewer
  names beyond the cursor (`FewerBeyond`) rests on `PageFacts`: a page that is not
  the last has a last name, which is beyond the cursor.
* `NoRowLeftBehind` (`OnlyLateReadsOrphan`): whoever removes an entry is about to
  clear its row (`RemoverClears`), goes on to do so unless something fails
  (`ClearingStays`), and only reads write rows (`RowsAreReads`). It holds across
  backends, swaps and replicas.

**`AccountsProofs`.** `IInv` adds to the invariants of the run that every id in
use was issued (`Ids`), that a credential that was dead when its request began is
still dead when it is looked up (`StillDead`), and that unless deletes crossed,
every delete that has counted leaves an account beside its target (`Survivor`,
from the lemma `Another` on cardinalities: of more than one account, one is not
the target).

* `TypesCorrect`, `NoDeadCredential` (`DeadCredentialsStayOut`), `NoOrphanSession`
  (`SessionsHaveUsers`), `Safety` (`SomebodyCanLogIn`).
* `OnlyCallersChange`: `Spec => ChangesHaveCallers`. It needs one fact more,
  `OneCaller`: the session of a request is its caller's or nobody's, because
  `CreateSession` takes a new id (`SessionsStay`); the mutant that gives out the id
  of an ended session breaks it. `Changes` lists the steps that change a table, and
  `LastStatement` says for whom each of them acts.

**`SettingsProofs`.** `IInv` says who holds the lock (`Locked`), what a change
carries past its validation and its probe (`Carried`), what a replica has at each
stage of its life (`Loaded`), how far a change has been put in force (`InStep`)
and that, unless a replica has drifted, what it has read, works with or is about
to work with is what the row says (`Fresh`).

* `TypesCorrect`, `StoredSettingsWork` (`StoredWorks`), `ReportsAreTrue`
  (`ReportedIsInForce`), `LiveSettingsAreStored` (`LiveIsStored`).

**`SettingsRefinement`.** The refinement needs one fact more than `IInv`: from its
validation to its UPDATE a change still is its request laid over what its replica
reports (`Laid`), which is what holding the lock across the connectivity check is
for; the mutant that shares the lock breaks it. One lemma per action names the
step of the register that it is, or the stutter.

* `LaidHolds`: `Spec => [](IInv /\ Laid)`.
* `SecretsKept`: `Spec => UndriftedSecretsKept`, from `Laid` and `Fresh`: without a
  drift, what is reported is what is stored.
* `Refinement`: `Spec => ImplementsRegister`, for any number of replicas and
  requests, crashes, lost answers and changes of the key.

**Only model-checked.** Liveness, and with it everything that rests on fairness
or ENABLED, is out of the prover's reach: `CallsReturn`, `TempsReclaimed`,
`OldEntriesGo`, `RequestsAnswered` and `ComesBack`. Of the first and the third the
part that is about steps is proved: `WaitFree` and `ScansEnd` give the ranks that
make calls and scans end once they are given their turns, and `NothingLeft` says
what a sweep that ended has done. The violated properties are counterexamples of
TLC.

## 6. Not modelled

* What a file system loses with the power: the code does not fsync, and the
  crash of the models is that of the process.
* The content of artifacts beyond their length, key prefixes of buckets, and the
  check of Content-Length against the size limit, which decides one request.
* Overflow of `time.Duration` in a prune (`cache_handlers.go:168`) and in a
  session lifetime (`settings_handlers.go:98`): one multiplication each.
* The read counter, the listing for the UI, the login limiter, the CSRF header
  and the lifetime of the cookie. Nothing calls `DeleteExpiredSessions`, so
  there is no such step.
* AES-GCM, base64 and bcrypt; migrations and the state they leave when they
  fail; environment configuration; routing, JSON and logging.
* That shutdown closes the pool under the janitor and the goroutines that record
  reads: their statements fail then, as any may.
* The web UI: what it shows may be stale, and the server decides every request.

`PROJECT.json` gives the reason for each part.
