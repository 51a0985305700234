# Opatchy: TLA+ specifications, model checking and proofs

Opatchy is a desktop-shell plugin that shows pending updates and security
advisories of an Arch/Omarchy machine. It has two halves:

* a **service** inside the shell (QML and JavaScript: `Service.qml`,
  `qml/models/`), one thread, which queues operations, runs one helper process
  at a time and schedules scans;
* a **helper** (Python, `helper/opatchy_helper/`), a process per operation
  (`scan`, `snapshot`, `inventory`, `set-star`), which collects the sources,
  keeps watches, a notification ledger and a cached generation in files, and
  sends desktop notifications.

Source paths below are relative to the repository.

## 1. Inventory

| Component | State | Operations | Interacts with |
| --- | --- | --- | --- |
| Service controller (`qml/models/ServiceController.js`, `Service.qml`) | operation queue, active operation, waiting refresh, four schedules, wake timer | start, requestRefresh, requestInventory, setStar, wake, recordHandoff, complete, shutdown | transport (start, completed), panel (state, starFailed) |
| Helper transport (`qml/models/HelperTransport.qml`) | the helper process, its operation, output, time limit | run, stop, finish, timeout, output limit | controller |
| Star interaction (`qml/components/StarInteractionState.qml`) | the pending star request, override | requestMode, acceptResult, acceptFailure | service |
| Helper commands (`cli_operations.py`, `cli_requests.py`) | none | scan, snapshot, inventory, set-star | storage, scan coordinator |
| Storage (`storage*.py`) | `generation.json`, `state.json`, `state.lock`, feed caches | load, update_state, commit_generation, quarantine, prune | every command of every helper |
| Watches (`stars.py`) | a watch per item: off, temporary, permanent | click | storage, ledger |
| Scan (`scan*.py`) | retry metadata per source, last-good evidence in the generation | due, resolve, build_generation, commit | adapters, storage, notifications |
| Notifications (`notifications.py`, `notification_batch.py`) | ledger entries with leases, an owner entry per kind | claim_batch, notify-send, complete_batch | storage |
| Source adapters (`adapters/`, `scan_command_outcomes.py`) | what a collection has read so far | the commands of each source, their joins | scan, runner |
| Command runner and supervisor (`runner_process.py`, `command_supervisor.py`) | the process group of a command, its pipes, its time limit | run_spec, _collect, _stop_group, _drain | adapters, notifications |
| Remote feeds (`runner.py`, `cache_metadata.py`, `storage_feeds.py`, `adapters/security.py`) | transport body, its metadata, last-good copy per feed | fetch_endpoint, write_last_good_feed, confirm | scan, storage |
| Notification policy (`notification_policy.py`, `conditional_security_policy.py`, `security_correlation.py`) | none; reads the generation and the watches | notification_candidates | scan, ledger |
| Protocol (`protocol.py`, `parser*.py`, `validation.py`, `ProtocolValidator.js`) | none | encode, decode, validate | both halves |
| Update handoff (`ActionPolicy.js`, `TerminalHandoff.qml`) | list of terminals to open | openAction, requestUpdateAll | service |
| Views and view models | presentation | | service |

What is hard here: several helper processes over the same files (a shell that
restarts leaves its helper running; the helper can be used from a terminal);
death of a helper between two writes, or between claiming and completing a
batch; suspends and waits for the lock that outlast a lease; a scan that writes
back the state it loaded before others changed it; replies, time
limits and shutdown in any order; a machine that changes between the commands
of one collection; processes that outlive or outwait the one that started them;
a feed whose bytes, validators and accepted copy are three files; and evidence
that is carried from scan to scan through failures, backoffs and a lost cache.
`PROJECT.json` lists each hazard at its line with the properties that cover it.

What makes each part correct: the queue never wedges and no request is lost or
downgraded; a confirmed star survives; the two files behave as one atomically
updated state; one of several overlapping scans is published; a notification is
delivered by one helper at a time, settles for good and is retried until it
does, as far as overlapping scans leave it alone; evidence never looks newer than it is, is never lost to a failure, and
every source recovers; a failed command is never an empty success; a command's
result is true and nothing of a stopped command goes on; a notification is asked
for exactly when the evidence supports it.

## 2. Modules

| Module | Models |
| --- | --- |
| `NotificationBatch` | `notification_batch.py`: the ledger and the operations on it, as functions of a stored state |
| `NotificationDispatch` (extends it) | the scans of several helpers over one stored state, and the `NotificationCoordinator.dispatch` that ends each, with crashes and unlimited lock waits |
| `ServiceController` | the controller, the transport and the star request a panel waits for |
| `HelperStorage` | the files, the lock and the commands that use them |
| `AtomicStore` | what the storage promises: one state, changed in single steps |
| `ScanEvidence` | what a scan knows of its sources, for how long, and when they are tried again |
| `FeedCache` | one remote feed: its three files, the requests and the confirmations of overlapping helpers |
| `CommandRunner` | one local command: helper, supervisor, target and child, their pipes and signals |
| `SourceAdapters` | how each source is collected: its commands, their failures, their joins |
| `WatchPolicy` | which notifications a scan asks for: findings, watches, conditions, settings |
| `NotificationProofs`, `ServiceProofs`, `StorageProofs`, `EvidenceProofs`, `FeedProofs`, `CommandProofs`, `AdapterProofs`, `PolicyProofs` | the theorems about them |
| `MCNotification`, `MCStorage`, `MCScan`, `MCPolicy` | instances for TLC; the other modules are checked as they are |

The modules meet at the values they exchange. `CommandRunner`'s results are the
answers of `SourceAdapters`; its outcomes, with those of `FeedCache`, are the
outcomes that `ScanEvidence` schedules and merges; `WatchPolicy` takes the merged
evidence of two sources and produces candidates; `NotificationDispatch` delivers
them; `HelperStorage` gives each locked operation its two writes; and
`ServiceController` decides when a helper runs at all.

Operators named "Faulty variant of X" precede X. No specification uses them:
each is a plausible mistake in the code that X models, and the property it is
paired with in `PROJECT.json` fails when X is replaced by it.

### Notifications

`db` is the stored ledger: `ledger[f]` the entry of a fingerprint, `owner[k]` the
entry `notification-owner-v1:k`; `watches` are the stored watches. A scan takes
its order and loads the state (`Scan`: `loaded` and `copied`, for in the code
both are read before the collection), collects without the lock, and writes what
it loaded back with the new generation (`Commit`, `scan_generation.py:95`). The
commit compares the order only (`storage.py:205`), so every other scan under way
is beaten (`Refused`), but claims, completions and stars of others are written
over. Only a helper that committed dispatches: `Dispatch` loads the state again
and keeps the candidates of watches that still exist; then it is in `pc` "ready"
(it has read the clock and waits for the lock to claim), "running" (notify-send
runs without the lock) or "finishing" (it waits for the lock to complete), once
for each kind (`turn`). Every locked operation of the code is one action: the
lock makes it so, and its two file writes are in `HelperStorage`. A scan that
reads its order before and the state after another's commit is beaten as well;
it is the scan that started before that commit.

* `missed[h]` and `undone[h]` are history: who has written since the scan of `h`
  loaded the state, and whether a commit that had missed the claim of `h` came.
  `Overwrites` is the step in which such a commit happens.
* Time is relative. `left` is how far an expiry lies ahead; an operation that
  read the clock `age[h]` units before it got the lock compares with that older
  clock, as the code does with the `now` it passes to `claim_batch`. `Tick` may
  come at any point of any helper any number of times: `flock` has no time limit
  (`storage_locked_state.py:44`), and a suspend is many ticks. A waiting claim is
  followed up to `MaxAge`, which is at least the lease; a batch in flight gets
  older than that without a difference. `Retire` is the retention age.
* A `uuid4` token is named after the helper that drew it last; `Disown` renames
  its older ones, so that tokens never repeat though they are finite.
* `StartsWith` keeps what `_suppress_superseded` and
  `_without_active_references` really compare: textual prefixes.
* `Result` has the three classes `_delivery_status` distinguishes.
* `evidence` is what a scan would report, `published` what the last generation
  reports and `publisher` the helper that committed it. `evidence` changes freely.

### Service

One action per handler. `startNext` is a loop in the code (a refused operation
fails, the next is tried); as the refusal does not depend on the operation, it
either starts the first or drops all. `proc` is the helper process; `exited`
holds from its end until `finish` runs, which `Qt.callLater` puts off, so that
other handlers come between. `installed` is whether `helperEntrypoint` is set.
Identities are reused once nothing refers to them. The reply's content is
reduced to what scheduling reads: the `freshUntil` it carries.

### Storage

`gen` and `sfile` are the two files, each possibly absent or unreadable. The
first write of a state (`Commit`, `WriteGeneration`) takes the lock, the second
(`CommitState`, `NotifyState`, `StarState`) releases it; `Abort` between them is
a crash or a failed write. A scan loads the previous generation and the state in
separate steps, collects without the lock, and commits what it loaded.
`setup`, chosen once, says which helpers scan, which commands may overlap
("stars": further set-stars; "any": what two shells or a terminal can do), what
may happen to the files, and how far the generation order is followed. `acked`
is a history variable: the last confirmed mode.

### Scan evidence

A slice is a source or one of Flatpak's two scopes. `Inputs` are the outcomes a
scan may collect, None for a slice that is not due; `Resolve`, `ScanState`,
`Generation` and `NextMeta` follow `resolve`, `scan_state`, `build_generation`
and `_next_metadata`, and `FlatpakStatus` and `SourceHealth` the health of whole
sources. A scan is one step here. "timeout" stands for every transient failure,
"invalid" for every permanent one other than a missing command. `setup` says
which slices the machine has and whether its cache may be lost. `good` is a
history variable: what was collected last, and how long ago.

### Feeds

A body is a version number; the server publishes them in order and some are not
accepted by the feed's parser (`Valid`). A collection goes through
`_conditional_headers` (which reads the body and the metadata in two steps), the
request with its redirects, the two renames of a download, the parser, and, for
a 304, the comparison of the body with the last-good copy and its confirmation
under the lock. Between any two, helpers die, writes fail, files are lost or
damaged and other helpers take steps: nothing locks the transport files. `epoch`
(the server's version when the first of the running collections began), `torn`
(the versions whose last-good copy was missed) and `settled` (everything works
from now on) are history.

### Commands

`helper` is where `run_spec` is, `sup` the supervisor, step by step from
`pthread_sigmask` to its exit, `target` and `child` the command and a descendant
in its group, which may keep the pipes open or not. Output is counted in chunks.
A signal ends who does not ignore it; SIGKILL ends everyone. A process that has
closed its files and is not a zombie yet is "closing": the pipes end before
`wait` returns. `pending` is the parent-death signal, sent to a supervisor that
has asked for it when the helper dies.

### Adapters

One action per command. `ChangeSystem` installs, removes and upgrades packages,
publishes updates and removes programs between the commands. A command that
succeeds with output that parses tells the truth of its moment; it may as well
fail in each of the ways the runner reports, or print rows that do not parse. A
ref stands for a package, a Flatpak ref or a tool, and one Flatpak scope for
both, whose code is the same. `steady` and `seen` are history: the refs with an
update all along, and at some time.

### Policy

`world` is the machine and what is published of each advisory; `snap` the last
generation, of which each part carries as history the machine its items were
collected from and the time since. A scan is four steps (`CollectArch`,
`CollectSecurity`, `Dispatch`, `Respond`), and the machine may change between
them. `WatchAlerts`, `SecurityAlerts` and `ConditionalAlerts` are the three parts
of `notification_candidates`; `OwnedFindings` is by advisory id alone, as in the
code. Only listed packages can be starred, or a temporary watch made permanent:
`set_star` looks the item up in the last generation.

## 3. Runs

| Run | Instance | Shows |
| --- | --- | --- |
| `notify_overlap` | 2 helpers, 2 kinds, 1 advisory with 2 severities, overlapping scans, crashes, unlimited waits | `OwnerCovers`, `BatchKept`, `NoRedelivery`, `SettledIsFinal`, `PendingKept`, `TypeOK` |
| `notify_retry` | 2 helpers, 1 watched item, overlapping scans, crashes, fairness | `IndInv`, the invariant of the proofs, with a watch turned on and off; `DueSettles`: what stays due is settled |
| `service` | 4 identities, 1 waiting, helper path comes and goes, fairness | `NeverWedged`, `OneScanWaits`, `TimerArmed`, `ForceKept`, `ArmedScans`, `StarAnswered`, `TypeOK` |
| `storage` | scans and overlapping stars with loss of or damage to either file; two scanners that overlap anyhow | `AckedDurable`, `GenerationChain`, `Atomic` (the refinement of `AtomicStore`), `TypeOK` |
| `scan` | arch with both Flatpak scopes; arch, security and CISA KEV switched on and off with cache loss; arch and AUR; fairness | `EvidenceKept`, `OkIsCurrent`, `NoneExpired`, `StateEarned`, `Recovers`, `TypeOK` |
| `feed_cache` | 2 helpers, 3 versions of which the second is not accepted, fairness | `EvidenceFresh`, `FeedRecovers`, `TypeOK` |
| `command_runner` | limit 1, up to 2 chunks per stream, fairness | `ResultTrue`, `NoneSurvives`, `Returns`, `OrphansDie`, `TypeOK` |
| `adapters` | 3 refs, 2 of them applications, 1 filtered, 1 without a version | `Bracketed`, `CalmSucceeds`, `TypeOK` |
| `policy` | 2 packages, 1 advisory naming both, 3 versions, fairness | `AlertsEarned`, `WatchTold`, `FixTold`, `TypeOK` |
| `service_argv` | 3 identities, 1 waiting | `ScanAccepted` is violated |
| `storage_stale` | one scanner, overlapping star | `PermanentKept` is violated |
| `policy_clears` | 1 package, 2 changes, fairness | `TemporaryClears` is violated |

`CHECK_DEADLOCK FALSE` stands where the system may stop: a service that was shut
down, a command that has returned, and storage models at the bound on the
generation order.

### Bounds and why they are enough

* Two helpers: every hazard in the ledger, the files and the feeds is between
  one that acts and one that overtakes it; a third repeats the second. For the
  ledger, the files and the feeds the proofs remove the bound.
* `Lease` 2 and `MaxAge` 3 (2 in `notify_retry`): a claim is made and completed
  with its lease fresh, half gone and expired, and one waits for the lock until
  the lease it asks for has already passed. The two versions of a reference are
  what a newer report needs; `notify_retry` has one, for its liveness property
  costs more. The proofs remove these bounds, so that the action properties hold
  with watches and with several versions too.
* One item in the storage runs: commands on different items share only the
  files, which they rewrite whole; two versions give a change and a change back.
  Two orders allow a commit after a commit after a loss. No scan and star of
  different helpers overlap in the first two machines, which is how the service
  runs them; `storage_stale` has what happens otherwise. The proofs remove the
  bounds on helpers, items, versions and orders.
* `MaxQueue` 1 with an active operation lets a refresh wait before and behind
  another operation; identities suffice for the queue, the active operation and a
  late star. The proofs of the safety properties remove all three bounds.
* `Freshness` 2 with delays 1 and 2 keeps what matters about six hours and
  (5 min, 15 min, 1 h, 6 h): shorter delays, and a longest delay equal to the
  freshness. The proofs need no more than that no delay exceeds the freshness.
* Three versions of a feed, the middle one refused by the parser, give a body
  that is refused between two that are accepted; one redirect reaches its limit.
* `Limit` 1 and two chunks: a stream can stay below, reach and pass its limit,
  and leave something for `_drain`. The proof removes both.
* Three refs: an application, a runtime and one that Omarchy's adapter reports
  itself; one has an update without a version. The proof removes the bound.
* `policy`: versions below, at and above a fix need 3; one change per behaviour,
  at every place of a scan, and two machines to start from (a fix that is
  offered; an offer below the fix and a package that is not installed);
  `Freshness` 1 lets evidence go stale between scans. `AlertsEarned` is proved
  without these bounds.
* Symmetry is used for helpers and versions, only where the run has no liveness
  property.

### Fairness

* Helpers: a started helper runs on, gets the lock at some time and ends; the
  service goes on starting scans (`WF`). Time does not stand still: `Tick` is
  strongly fair, since it waits for a claim at the bound `MaxAge`, and infinitely
  many dispatches do not fit into one moment. notify-send is not refused for ever
  for a kind that is tried for ever (`SF`). `DueSettles` further says in its
  premises what the code cannot do without: in the end helpers do not die (`Dies`;
  a dispatch that had nothing to claim ends like a death and is not one), scans do
  not write over what others wrote, and batches are completed within their lease.
  Two helpers that overlap for ever may erase each other's claims for ever. Any
  finite number of deaths, overwritten claims and late completions is covered.
  Nothing is assumed about who wins a race for the lease.
* Service: `HelperExit` is weakly fair because `timeoutTimer` ends a helper that
  does not end by itself; timers and `Qt.callLater` are served by the event
  loop. No fairness for users, handoffs or replies being good. `StarAnswered` is
  about an installed helper path that stays.
* Scans: scans go on being made (again and again a generation is new) and time
  passes; `Recovers` speaks of behaviours in which the sources eventually work
  and the cache is eventually kept.
* Feeds: the steps of a collection are taken (`WF` on `Step`), for every request
  and lock wait has a time limit. Failures, deaths and losses stop when `Settle`
  says so; nothing makes it happen.
* Commands: runnable processes run and time passes (`WF` on `Collect`,
  `Supervisor`, `Expire`). The target and its child may hang for ever.
* Policy: scans go on and end (`WF`), and time passes between them (`SF`, for
  `Tick` waits for the scan that runs once things are calm). `WatchTold` and
  `FixTold` speak of a machine that is left alone and whose commands work.

## 4. Disagreements found

* **A merged manual refresh is rejected** (`service_argv`). `--force` is appended
  behind the settings (`ServiceController.js:92`); the helper accepts it only in
  front of them (`cli_requests.py:106`, `README.md:52`).
* **A scan undoes a star** (`storage_stale`). The state loaded before the
  collection is written by the commit (`scan.py:50`, `scan_generation.py:95`),
  against `README.md:62`, when two helpers overlap.
* **Temporary watches are never cleared** (`policy_clears`). `_fresh_scan`
  (`stars.py:192`) is reached only by an event that no command makes, against
  `README.md:59`.

Behaviour that a property has to name or step around, or that was read in the
code while modelling; no document of the repository clearly forbids it:

* A scan that loaded the state before another helper claimed a batch erases the
  claim with its commit, and one that loaded before the completion makes a
  delivered entry pending or absent again (`scan.py:50`, `scan_generation.py:95`,
  `storage.py:205`). Both helpers then deliver the same notification, although
  `docs/architecture.md:72` has delivery deduplicated by the ledger across
  restarts. It takes two overlapping helpers: the second scan starts after the
  first has committed and before it claims. This is the cause of `storage_stale`
  seen from the ledger; `Overwrites` in `SettledIsFinal` and `PendingKept`, `undone`
  in `Protected`.
* Once the waits for the lock and notify-send have taken 30 s a second helper may
  claim the batch, and both deliver it (`notification_batch.py:26`; `age` in
  `Protected`).
* A dispatcher that was overtaken by a newer scan may still claim, and then
  suppresses the pending notification of the newer report
  (`notification_batch.py:110`, against `README.md:67`, "a failed delivery remains
  retryable"; `publisher` in `PendingKept`).
* A Flatpak update without a version becomes a candidate of None
  (`flatpak_parser.py:96`, `flatpak.py:284`). The record keeps the update's ref
  (`tests/python/adapters/test_flatpak.py:356`), but only its item is passed on
  (`scan_normalize.py:72`), which looks like one without an update
  (`UpdateViewModel.js:13`), in a scope that is ok (`LeftOut` in `Bracketed`).
* A helper that dies between the metadata of a download and its last-good copy,
  a damaged last-good copy, or an overlapping older download leaves a feed
  unavailable until the server publishes again: every 304 finds nothing to
  confirm (`adapters/security.py:152`; `torn` in `FeedRecovers`).
* When the helper dies after the supervisor of a command has ended, a descendant
  that is still in the group is not reached by the parent-death signal
  (`command_supervisor.py:65`; `OrphansDie` is about a living supervisor). A
  target killed by SIGKILL is reported as an exit with status 1, since its
  disposition cannot be set (`command_supervisor.py:107`).
* A condition on one package of an advisory silences the general alert of
  another package of the same advisory (`conditional_security_policy.py:53`;
  `ClaimedElsewhere` in `FixTold`; compare `docs/architecture.md:81`).
* Findings that are carried to a later scan keep the provenance they were
  collected with (`scan_resolution.py:199`): alerts rest on findings up to six
  hours old, which `AlertsEarned` says.
* Flatpak as a whole is "ok" with one scope timed out (`scan_assembly.py:223`);
  `OkIsCurrent` says what that "ok" still guarantees.
* Nothing is scheduled after a failed first scan (`ServiceController.js:107`,
  `docs/architecture.md:21`); a scan may be complete with unknown sources after
  the cache was lost (`scan_resolution.py:86`); CISA KEV switched on again stays
  "not applicable" for up to six hours (`scan.py:127`); nested references suppress
  each other's notifications (`notification_batch.py:174`).

## 5. Proofs

Each theorem holds for all constants that satisfy the named assumptions of the
modules it extends; TLC evaluates those assumptions in the runs.

| Module | Theorems | The invariant behind them |
| --- | --- | --- |
| `NotificationProofs` | `TypeCorrect`, `InductiveInvariant`, `OwnerCoversAlways`, `BatchKeptAlways`, `NoRedeliveryAlways`, `SettledStaysSettled`, `PendingGivenUpByPrefix`, `PendingNeverLost` | `IndInv` |
| `StorageProofs` | `FilesTypeCorrect`, `StarsDurable`, `OrdersChain`, `FilesAreAtomic` | `IInv` (`FilesInvariant`) |
| `EvidenceProofs` | `EvidenceTyped`, `EvidenceNeverLost`, `NothingPromoted`, `BackoffNeverOutlasts`, `StatesEarned` | `IInv` (`EvidenceInvariant`) |
| `ServiceProofs` | `ServiceTyped`, `QueueNeverWedged`, `RefreshesCoalesce`, `TimerAlwaysArmed`, `ForceNeverLost` | `IInv` (`ServiceInvariant`) |
| `FeedProofs` | `FeedTyped`, `NoOldEvidence` | `FreshInv` |
| `CommandProofs` | `RunnerTyped`, `ResultsAreTrue`, `StoppedForGood` | `IndInv` |
| `AdapterProofs` | `UpdatesBracketed`, `CalmEndsWell`, `CollectionsTyped` | `IndInv` |
| `PolicyProofs` | `OnlyEarnedAlerts`, `PolicyTyped` | `IndInv`, `Bounded` |

**Notifications** (any helpers, kinds, fingerprints and prefixes; the only
assumption on time is that claims are followed for at least their lease,
`Lease <= MaxAge`). A commit may put any loaded ledger in the place of the stored
one, so what an invariant says of `db` it must say of every `loaded[g]`: `Sound`.
Its parts are `Covers` (a live lease is the present owner's, which is what
`Claimable` relies on), `Listed` (a batch in flight has every entry with its
token, so completing it frees all of them) and `Open` (as long as the owner entry
has the batch's token, its entries are pending and its own, or were dropped).
`Open` is why a completion that comes too late cannot relabel what was settled
meanwhile: a claim that supersedes an entry takes the kind over under another
token, and a ledger written back has both the owner and the entries of its time.
`BatchKept` and `NoRedelivery` are not inductive either: `LeaseOutlasts` says that
a claim that stands has the owner's lease with exactly what its age leaves, in
`db` and in every ledger loaded after the claim (`h \notin missed[g]`), so
`LiveLease` holds for every clock another helper may have read and `ReserveBatch`
refuses. `LoadedTrue` says that a scan which missed nothing loaded what is stored,
up to pruning, so its commit changes nothing but that; `ReportKept` ties the
candidates of the publisher to its report, which names one notification for a
reference. The proof first states what each ledger operation does to an entry and
to `Sound` (`PruneLemma`, `ReserveLemma`, `CompleteLemma`, ...), then has a lemma
per action.

`SettledStaysSettled` and the two theorems on pending entries name a commit that
`Overwrites` as their only exception beside the ones of the code.
`PendingGivenUpByPrefix` needs no assumption on the references: a pending entry is
given up only for a reference that its own fingerprint begins with, or for its
age. `PendingNeverLost` assumes `NoClash`, that no fingerprint begins with the
text of another item's reference, and has `PendingKept`. The assumption is needed
and not always true: with nested mise references `PendingKept` fails
(`notification_batch.py:174`).

**Storage** (any helpers, items, versions, orders and kinds of damage). The
difficulty is that two files say what the state is, and a crash or a loss decides
which counts. `IInv` says: the lock is held exactly between the two writes of a
command, and generation.json has what will be written to state.json (`LockOwned`,
`HeldWritten`); where only set-stars overlap, a scan runs alone (`ScanAlone`) and
so commits the state as it is (`CommitsEffective`); a confirmed star is in the
effective state, in state.json while that file is safe, and in the state every
command is about to write (`StarsEverywhere`); and an order under way is at most
one ahead (`OrderAhead`). `AckedDurable` is about machines on which at most one of
the two files may be lost (`OneFileAtRisk`): nothing survives the loss of both.
`GenerationChain` says "by one" except where a generation may be lost while scans
overlap (`Orderly`): there a scan may commit an order taken from a generation that
is gone, which is greater, as it must be, by more than one. `FilesAreAtomic` maps
the effective state to `AtomicStore`'s: the write of generation.json is the
atomic step of a star or a dispatch, and every other step is a stutter. Like
`Atomic` itself it speaks of machines that do not lose generation.json and of
scans that no set-star overlaps; `storage_stale` shows why.

**Evidence** (any slices, values, delays and freshness; no delay exceeds the
freshness, a generation is not `None`). `NoneExpired` is not inductive, for it
does not relate the health of a slice to the backoff of its source: `OkCovered`
says that what is ok outlives both the success and the backoff recorded for its
source, which Flatpak's scopes share. `KnownGood` ties the history to the keys of
last-good evidence, which is what a fallback consults, and `NothingYet` covers
the machine before its first scan. The proof reads the outcomes a scan may
collect (`Fed`), what `resolve` makes of each (`Merged`, `CachedAs`,
`CollectedAs`) and what becomes of the retry metadata (`MetaAfter`), once each,
and then argues slice by slice. `NothingPromoted` adds the health of sources as a
whole from that of their slices.

**Service** (any identities, queue bound, delays and time limits). The four
invariants are inductive together: a scan that waits is found by
`queuedRefresh` (`OneScanWaits`) only because a queue without an active operation
is empty (`NeverWedged`), and both need the types of queue and process. Most of
the proof is about the operators on the queue (`StartNext`, `Enqueue`,
`Refresh`): each keeps the queue well formed and works on it again or empties it.
`TimerArmed` rests on `Soonest`, the least of the schedules that are set.

**Feeds** (any helpers, versions, parser and redirect limit). `EvidenceFresh` is
about what has been reported; `FreshInv` adds what running collections hold
(`HeldFresh`): a body that was received, stored or compared is not older than
`epoch`; and a collection that will be told "not modified" about a version not
older than `epoch` will read a body not older than it. The second half is what
makes the unlocked files safe: a body is replaced only by one that a running
collection received.

**Commands** (any output limit and amount of output). What is reported at the
end must have been true since it was observed, so the invariant says what cannot
come back: a stream that has ended has no writer and nothing unread
(`EndedStays`); a group that was killed stays dead, since only a living
supervisor starts the target and only a living target forks (`StartOrder`,
`GroupGone`); the supervisor's status is the target's (`CodeTrue`).

**Adapters** (any refs, applications, filter and refs without a version). `IndInv` adds that the history
follows the system (`Followed`), and what the partial inventory of an adapter
means: between the two lists of Flatpak it covers every application with an
update all along (`AppsCovered`), so that such an update cannot hide from both
lists; and while nothing has changed or failed it is exact (`CalmInventory`), so
that the joins find what they look for. `CollectionsTyped` says that every way
through an adapter ends in an outcome of the known shapes.

**Policy** (any packages, advisories, severities, settings and freshness).
Items and findings of the last generation are true of the machine they were
collected from; an item that is not marked as last good was collected by the scan
that committed; and while a source is ok, its age is what the time left of its
freshness leaves (`Timed`). `AlertsEarned` follows from this and the definitions
of the three kinds of alerts. `PolicyTyped` adds the bounds of the clocks
(`Bounded`): a part's age and time left stay within its freshness.

Only model-checked: the liveness properties (`DueSettles`, `ArmedScans`,
`StarAnswered`, `Recovers`, `FeedRecovers`, `Returns`, `OrphansDie`, `WatchTold`,
`FixTold`), which are out of the prover's reach since they need fairness and
ENABLED. Every invariant and every action property that a passing run checks is
stated by a theorem.

## 6. Not modelled

* Protocol encoding and validation (`protocol.py`, `parser*.py`,
  `payload_parser.py`, `validation.py`, `models.py`, `ProtocolValidator.js`):
  field-by-field conversions without state; a reply is accepted or not.
* The rows of command output: a row parses or not.
* Inventory browsing, view models and views: presentation of a snapshot.
* Update handoffs beyond the scan they schedule, and update-all.
* Scripts and CI.
* Of modelled parts: pruning to 5000 entries, a wall clock that is set back, snapshots and inventories saved
  outside a generation, the counts of the summary, panel overrides and feedback,
  `_fresh_scan`, which no command reaches.

## 7. Plan

Done: notifications, service, storage with its refinement, evidence, feeds,
commands, adapters, policy; theorems for every safety property of the runs. Next,
in this order:

1. What a scan does to a star of another helper (`storage_stale`) as a theorem:
   which stars survive an overlap, in terms of what the scan had loaded.
2. `UpdateHandoff`: eligibility, terminals, update-all against a snapshot that
   changes (`ActionPolicy.js`, `TerminalHandoff.qml`, `Service.qml`).
3. `Panel`: star interaction with overrides and inventory browsing against late
   replies (`StarInteractionState.qml`, `InventoryBrowseState.qml`, `TabModel.js`).

The runs stay few, one per question: where a theorem makes a run redundant, a
new component takes its place.
