# Coven Pocket in TLA+

Coven Pocket is an iOS client for coding agents: a Rust core (`src/rust/ffi`,
exported through uniffi) that runs an agent loop on the device, stores its
sessions and signs in to providers, and a Swift app (`src/app`) that drives it
and, alternatively, talks to a paired daemon. This directory holds TLA+ modules
that model the parts of it where order and failure matter, the TLC
configurations that check them on small instances, and proofs that TLAPS checks
for every value of the constants.

`tlc -config X.cfg M` runs a check, `tlapm M_proofs.tla` checks a proof module.
`PROJECT.json` maps each definition to the source lines it stands for and lists
runs, mutants, findings, hazards and theorems.

## 1. Inventory

Paths: `R` is `src/rust/ffi/src/`, `W` is `src/app/Sources/Support/`.

| Component | State | Operations | Module |
| --- | --- | --- | --- |
| Session append, recovery, resume (`R sessions.rs`) | transcript JSONL, pending-index record, index baseline, rows of `index.sqlite`; per handle: persisted count, last UUID, work queue, uncertainty flag | `persist_new`, `list_sessions`, `resume` | `SessionPersistence` |
| Session lifecycle (`R sessions.rs`) | up to eleven artifacts of a session, fork and deletion markers, staging directory, writer leases, tombstones and quarantines in memory, a process-wide lifecycle lock | create, resume, list, fork, delete, the recovery each begins with | `SessionLifecycle` |
| Checked storage tree (`R sessions.rs`) | the directories of the root and their entries, visible and durable | open, provision, sync, revalidate, roll back | `StorageRoot` |
| Chat session and goals (`R chat.rs`, `R goals.rs`) | busy flag, cancellation token, message vector, the session's row of `goals.sqlite` | `send`, `retry`, `start_goal`, `resume_goal`, `pause_goal`, `clear_goal`, `stop` | `ChatSession`, `GoalLifecycle` |
| Chat screen and write gate (`W ChatModel.swift`, `ChatBridge.swift`, `R chat.rs`) | live session, operation and transcript generations, approval queue, permission mode; per session the turn's mode and approved tools | send, stop, reset, resume, pick a mode, approve; `authorize_write` | `ChatSurface` |
| Session browser (`W SessionListModel.swift`) | rows, load state, refresh and error generations, mutation lock with a FIFO of waiters | refresh, delete, fork | `SessionList` |
| Codex sign-in (`R codex_auth.rs`, `W EngineClient.swift`, `W AuthenticationCleanupStore.swift`) | token store, authentication slot, durable cleanup flag, account on screen | sign in, supersede, sign out, cleanup at launch | `Authentication` |
| Companion pairing gate (`W CompanionModel.swift`, `R daemon.rs`) | pairing in the Keychain and in two models, shared handshake, generation | pair, confirm, unpair, gate | `CompanionGate` |
| Remote attach (`W RemoteSessionModels.swift`, `R remote.rs`) | cursor, rows, finished, pairing | poll, page, send, kill | `RemoteAttach` |
| Familiar roster (`R remote.rs`) | rows read, kept, ids seen, first fault | decode | `FamiliarRoster` |
| Git (`R git.rs`, `W RepoModel.swift`) | commits, branches, HEAD, index, files, the calls in flight | clone, delete, pull, commit, push, check out | `GitWorkspaces` |
| Companion chat (`W CompanionChatModel*.swift`), familiar selection, routed reset, diff review, memory, share, facade, routing, activity, views, bindings | | | not modelled, section 8 |

How they interact. The Swift models run on the main actor and call the Rust core
through `EngineClient` with `await`: every await returns into a state that may
have moved on. The chat session calls the engine's agent loop (a library outside
this repository), persists after every turn (`SessionPersistence`) and asks the
screen, by callback, before it writes (`ChatSurface`). The browser lists, forks
and deletes the same sessions (`SessionLifecycle`), each under one lock of the
process; opening the root (`StorageRoot`) is done before that lock. Everything
remote first passes the pairing gate (`CompanionGate`).

What is hard in each, and what makes it correct:

* **Append, recovery, resume.** One append is eight durable operations over
  three files and a database, any of which may fail or be the last one before a
  crash or a power loss; the recovery that runs first in every other operation
  has only the disk to tell which. Correct: the transcript is the conversation;
  an acknowledged message stays; the index has no message the transcript lacks;
  an intent covers every append, and no single failure lets it block the next one;
  a pending record is always resolved.
* **Lifecycle.** Deletion and fork go artifact by artifact under a marker.
  Correct: a marked session is invisible and is finished or undone by the next
  recovery; a deleted one does not come back; nobody's right to write is taken.
* **Storage root.** Several openers make, sync and take back the same two
  directories, by path, before any lock. Correct: what was answered as kept is
  on disk with every directory above it.
* **Chat session and goals.** `stop`, `pause_goal` and `clear_goal` claim
  nothing and fall between any two awaits of a run. Correct: one run at a time
  that always ends; a stop reaches it; a paused or cleared goal is not worked
  on; usage is counted once; limits hold across pauses.
* **Chat screen.** A callback is a task of its own, a session may be swapped
  while a turn asks. Correct: no turn waits for an answer nobody can give, no
  write runs that the user has not chosen, the mode shown is the one in force.
* **Browser.** Loads overlap, changes queue. Correct: the list shown is the
  store's when all has settled, and everybody who waits gets the lock.
* **Sign-in.** A superseded login cannot be cancelled and may still store its
  tokens, over a crash. Correct: a sign-out is kept; the callback port has one
  user; every sign-in ends.
* **Companion.** Correct: a handshake that ran across a re-pairing never lets
  traffic through; each row of the ledger is shown once and in order; a roster
  is whole or an error.
* **Git.** Correct: a commit that was answered for is not lost.

The hazards, each at its line, are in `PROJECT.json`.

## 2. The modules and how they are put together

`SessionPersistence`, `ChatSession` and `SessionLifecycle` are checked on their
own: each has a control point (`at`, `call[c]`, `op`) and actions that end at the
next durable call or await. `ChatSession` is shown to implement the abstract
`GoalLifecycle`.

The eight smaller parts are composed by `Pocket`. They share no state: what one
makes of another is a choice in its own module (whether the gate lets a poll
through, in `RemoteAttach`; what the agent edits, in `GitWorkspaces`; what the
engine does with a session, in `SessionList`). A behaviour of `Pocket` is one
part's behaviour while the others stand still; `focus` says which. Interleaving
parts whose steps commute and whose properties speak of one part each would only
multiply states. `MCPocket` gives the values TLC cannot read from a
configuration (paths, names that differ in case). `MCChatSession` and
`MCSessionLifecycle` do the same for the others.

| Module | Lines of Swift or Rust become |
| --- | --- |
| `SessionPersistence` | one action per durable call of `persist_new`, recovery, `resume` |
| `SessionLifecycle` | one action per write, removal or rename; straight runs of them are `op.todo` |
| `ChatSession` | one action per stretch between two awaits |
| `ChatSurface`, `SessionList`, `Authentication`, `CompanionGate`, `RemoteAttach` | one action per stretch on the main actor between two awaits, one for each thing the other side does meanwhile |
| `StorageRoot` | one action per system call |
| `GitWorkspaces` | one action per reference or file update of libgit2 |
| `FamiliarRoster` | one action per row of the array |

What was next in line and is not here: an abstract durable log for
`SessionPersistence`; Companion chat; the patch builder of the diff review.

## 3. SessionPersistence

One session under `SESSION_LIFECYCLE_LOCK`. `op` is the operation that holds the
lock, `at` the call it performs next; an action is one durable call of the code,
so that a crash falls between any two.

| State | Code |
| --- | --- |
| `file`, `record`, `baseline` | `transcripts/{uuid}.jsonl`, `pending-index/{uuid}.json`, `index-baselines/{uuid}.json` as the running system sees them |
| `durFile`, `durRecord`, `durBaseline` | the same on stable storage: what a power loss falls back to |
| `index` | the session's row and messages in `index.sqlite`; commits are durable (the engine's store is external) |
| `live`, `persisted`, `last`, `queue`, `uncertain` | `PersistState` of the open handle |
| `conv` | messages in the chat session's memory |
| `known`, `gone` | the process-wide entry of the session, its tombstone |

`persist_new` is `Resolve`, `Discard`, `InvalidateBaselines`, `OpenIndex`,
`Drain`, `PublishIntent`, `WriteLine`, `SyncLine`, `SyncNewFile`, `Rollback`,
`Recheck`, `Withdraw`; its tail, shared with the recovery, is `SaveRow`,
`SaveMessage`, `Retire`. `recover_storage_unlocked` is `Preflight`, `FindRecord`,
`Expunge`, and `InspectLegacy` to `WriteBaseline` for sessions of an older
version. `resume` is `Load` to `Attach`. The environment closes the handle,
removes `index.sqlite`, writes changed files back on its own (`WriteBack`), kills
the process or takes the power.

A message is its position in the conversation; a line is that, a UUID and the
parent's UUID. A torn tail is a state of the file's end, not characters. What a
failed `write` leaves (nothing, a piece, a line without newline, the whole line)
is a choice.

| Run | Question | Bounds |
| --- | --- | --- |
| `persistence_crash` | types, one intent per append, an intent slot that is free or holds a stray record, faithful transcript, clean append position, with everything failing | 3 messages, 4 UUIDs, 3 faults, 2 crashes of either kind, 1 lost index |
| `persistence_power` | durability of acknowledged messages, index against stable storage, baselines, automatic deletions, and that pending records are resolved | 3 messages, 4 UUIDs, 1 fault, 2 power losses, 1 lost index |
| `persistence_synced` | violated: see findings | 1 message, 1 process crash |

*Bounds.* Three messages are a first append (which creates the file), a second,
and one after it that meets what the second left. Four UUIDs leave one failed
attempt. Three faults are a failed call, a failed rollback and a failed
withdrawal in one append, or a failed publication, a failed look at what it left and
one more; two crashes interrupt the recovery of the first. One
lost index is enough, as nothing counts losses.

*Why different crash kinds.* The properties of `persistence_power` do not hold with
every kind of crash and any number of faults, so the run says which kind it is
about. `BaselineCovers` fails when a new file's directory entry cannot be synced,
its removal is not synced either, recovery drops the intent on that absence and a
power loss brings the file back. `Heals` fails with a legacy record over an
unsynced line. `AckedDurable` fails after a process death followed by a power
loss, because resume does not sync a recovered file and an append syncs the
directory only of a file it created; this is the finding's root as well.

*Fairness.* `Proceed` weakly fair: an operation holds a lock and makes no wait of
its own. `BeginRecovery("list")` weakly fair: the app lists its sessions at start
and when the browser appears. Nothing is assumed of `persist_new` being called
again. Faults and crashes are bounded, so that liveness is about the time after
the last of them.

*Proved* (`SessionPersistence_proofs`), for any number of messages, UUIDs, faults,
crashes and lost indexes: every property of the two passing runs but `Heals`.

| Theorems | Hypothesis | Inductive invariant |
| --- | --- | --- |
| `TypeCorrect`, `OneIntentAlways` | none | `SlotInv` |
| `SlotFreeOrStrayAlways` | none | `StrayInv`: `FileInv` and where a stray record's UUID may be |
| `TranscriptFaithfulAlways`, `CleanAppendAlways` | none | `FileInv`: `SlotInv`, `ChainOK`, `PlaceOK` |
| `IndexSoundAlways`, `BaselineCoversAlways`, `ExpungesUnackedAlways`, `AckedStaysAlways` | `PowerKept \/ OneFault` | `StoreInv`: `FileInv`, `IndexOK`, `CoverOK`, `AckedOK` |
| `AckedDurableAlways`, `PublishedIsSyncedAlways` | `OneFault` | `PowerInv`: `StoreInv`, `SyncOK`, `DurCoverOK` |

`PowerKept` is "no crash is a loss of power", with any number of faults and process
deaths; `OneFault` is "at most one call fails, and every crash is a loss of power",
with any number of those. Outside them the code does not keep its promises. With
two failing calls and a power loss TLC finds all six properties violated: the
directory of a new file is not synced, its removal is not either, the outcome stays
uncertain, and a list publishes the line that is on no stable storage yet. A
process death before a power loss does the same to all but `BaselineCovers`, with
no failing call at all, and for `PublishedIsSynced` the death alone is enough
(`persistence_synced`).

The argument. The properties speak of few control points; what makes them true is
that the files, the lock entry and the handle agree everywhere. `SlotInv`: a live
handle with a queued intent means the record is absent or is that intent's;
recovery that rebuilds runs without a handle; between intent and outcome the
queue's front is what is on disk. `ChainOK` adds that lines are the conversation's
first messages, each with its predecessor as parent; `PlaceOK` what the handle
believes of the file at each step of an append (`persisted`, `last`, whether the
line is there), and that only an uncertain outcome leaves it open. `IndexOK` and
`CoverOK` say where a message may be indexed and which line an index with a
baseline may lack: the one the record names, or those a rebuild of an older
version's session still owes. `StrayOK` is about a record nobody queued, the
legacy of a publication that failed, installed its record and could not look at
it: UUIDs are drawn once, so it names nothing in transcript or index; it takes two
failures, and every later `persist_new` is refused until a recovery drops it.
`AckedOK` bounds what was answered for by what the file has at that step. With
power losses `SyncOK` says that stable storage lacks at most the line the append
is at, and `DurCoverOK` that what a power loss would leave satisfies the same
conditions as what is there. One lemma per action and invariant.

## 4. ChatSession and GoalLifecycle

`ChatSession` is one `ChatSession` object and its goal. The app calls it from
any number of tasks (`Callers`). One action is the code between two awaits; each
operation on the goal database is one blocking closure and one action.

| State | Code |
| --- | --- |
| `busy`, `current`, `cancelled` | `ChatSession.busy`, the token in `ChatSession.cancel`, which tokens are cancelled |
| `goal` | the session's row of `goals.sqlite` |
| `tail` | role of the last durable message |
| `call[c]` | the call a task makes, where it is, and its locals: its token, goal id, `starting_tokens`, `CostTracker` total |
| `lastRun`, `counted`, `halfDone` | history: how the last goal run ended, tokens of recorded turns, a control call that wrote and then failed |

`BeginRun` is the claim (`claim_goal_run`, head of `run_turn`); a call that finds
the session busy is refused and is no action. `Create`, `LoadGoal`, `Reactivate`
are `goals::create` and the two closures of `goals::resume`; `Prompt`, `Check`,
`Build`, `Turn`, `Journal` the steps of `run_turn` and of the loop of `run_goal`;
`RecordTurn`, `Snapshot`, `Final`, `PauseResult` what follows a goal's turn.
`Pause`, `Clear`, `StopAfter`, `Stop` claim nothing. Each call may fail where the
code has a `?`; a failing store operation may have been committed, because
`GoalStorage::with_path` checks the files again after it. `Crash` ends the process
and opens the session again.

External: the engine loop (a turn costs tokens and ends, fails, or is cancelled;
it may call `GoalComplete`) and `claurst_core::GoalStore` with
`check_and_continue_goal`, modelled from how `goals.rs` uses them and its tests.

Properties: `OneRun` (busy exactly while one call runs), `OwnToken` (stop cancels
the running call's token), `PauseReaches` (nobody works on a paused or cleared
goal without being cancelled, or about to be), `AnsweredStops` (an active goal
without a run is the legacy of an error or death), `UsageExact` (each recorded
turn's tokens once, over runs and pauses), `TurnsBounded` (no turn for a goal at
its limit), `BusyEnds` (every claim is given back), `Lifecycle`.

`GoalLifecycle` is the abstract promise: only a running call creates, activates,
records or completes; anybody may pause or clear; a finished goal is never
revived; resume only with turns left; a turn is recorded once. The mapping keeps
`goal` and `created` and takes "some caller is in a run" for `running`, so it
relies on the claim being exclusive and not on the flag.

| Run | Question | Bounds |
| --- | --- | --- |
| `chat_runs` | the safety properties, `BusyEnds`, and the refinement of `GoalLifecycle` | 2 callers, 2 runs, 1 fault, 1 death, turn limit 2, budget none or 1, 1 token a turn |
| `chat_errors`, `chat_launch` | violated: see findings | the smallest that show it |

*Bounds.* Two callers are a run and a control call, or a claim that is refused;
two runs are a start and a resume; a turn limit of two lets a goal reach it
across a pause; a budget of one is used up by one turn.

*Fairness.* Weak fairness of every caller's next step (`Advance`): the runtime
polls a task that can go on, and blocking closures return. That a turn of the
engine ends is part of it: the provider's stream ends or the request times out, and a
write that waits for the user (`authorize_write`, whose `rx.await` has no timeout) is
answered, its sheet released, or the turn stopped.
`BeginRun`, `Pause`, `Clear`, `Stop`, `CompleteGoal` and deaths are not fair.

*Proved* (`ChatSession_proofs`), for any callers, turn limit, budgets, costs and
any number of runs, faults and deaths, from `ConstantsAssumption` only: all seven
safety properties and `Implements == Spec => Lifecycle`. The inductive invariant
`Inv` adds to the properties what each run knows of the goal. `OwnsGoal`: nobody
replaces the goal of a run, it can only vanish. `Accounts`: start plus counted is
the goal's tokens, plus the last turn's share until it is recorded. `TurnsLeft`:
between validation and the end of a turn the goal has turns left; nobody else
records. `Unattended`: active and no run implies error or death. Since the
session is claimed once, a step of the running call concerns only that call
(`RunStep`, from which `RunMoves`, `RunEnds`, `RunFails`, `TurnMoves` follow);
calls that do not run are `ControlStep` and `StopAfterInv`. One lemma per action.

## 5. SessionLifecycle

A session is a set of artifacts (`disk[s]`, `dur[s]`): `transcript`, `model`,
`familiar`, `stage`, `baseline`, the pending-index slot (`record`, `reconciling`,
`oversized`), the rows `row`, `messages`, `goal`, the markers `forkmark` and
`delmark`. `life[s]` is the process's entry (none, active with a generation,
tombstoned, pending fork), `open[h]` a `SessionPersistence` handle.

`op` is the operation under `SESSION_LIFECYCLE_LOCK`: `op.todo` the straight run
of writes and removals it is in, where an error of each leads (`return`,
`collect`, or a place), `op.at` the code that follows. `TakeStep` performs the
next one; an error leaves none, some or all of its effect, not synced. The other
actions are the branches between the runs: `Preflight`, `RecoverMarked`,
`ResolveRecord`, `ReconcileLegacy` … of the recovery, `Delete`, `Create`,
`Resume`, `Fork` with their continuations, `Undo*` of `ForkStage::cleanup`.
`Persist` is one `persist_new`, which gets some of the way; a record that is there
over a line is indexed and removed first (`Drained`). `GoalWrite` is the
chat session's goal store, which takes no lock and no generation.

| Run | Question | Bounds |
| --- | --- | --- |
| `lifecycle_power` | `AckedStays`, `DeletedStays`, `NoOrphan` | 2 sessions, 1 handle, 2 mishaps of which at most 1 is a power loss |
| `lifecycle_heals` | `Heals`, `HandleKept` | 1 session, 2 handles, anything an older version may have left, 2 crashes of either kind, 1 error |
| `lifecycle_forks` | `TypeOK`, `ShownWhole`, `Heals` | 2 sessions (a fork needs a target), 1 error or 1 process death |
| `lifecycle_quarantine` | violated: see findings | 2 errors |

*Bounds.* A fork or a deletion, the mishap that cuts it off, and a mishap in the
recovery that follows are the cases; a second fork or handle meets what the
first left. Generations suffice for the handles alive and one fresh one.

*Fairness.* `Working` weakly fair (the holder of the lock goes on), `BeginAny`
weakly fair (the app goes on using the store: some operation begins, and each
begins with the recovery).

*Proved* (`SessionLifecycle_proofs` and, for `ShownWhole`,
`SessionListing_proofs`), for any sets of sessions, generations and
handles, any number of operations, and, unless a hypothesis says otherwise, any
number of errors, process deaths and power losses:

| Theorem | Hypothesis | Inductive invariant |
| --- | --- | --- |
| `LifeTypeCorrect`, `HandleKeptAlways` | none | `LifeInv` |
| `DeletedStaysAlways` | none | `DeletedInv`: `LifeInv`, `GoneOK` |
| `AckedStaysAlways` | `LeftsUnmarked`; `PowerKept \/ OneFault` | `AckedInv`: `LifeInv`, `AckedOK`; with power losses also `SeenOK` |
| `NoOrphanAlways` | `LeftsTraced` | `TracedInv`: `LifeInv`, `MarkedOn`, `TracedOK` |
| `ShownWholeAlways`: `ShownWhole` wherever `faults = 0 \/ crashes = 0` | `LeftsTraced`, `LeftsWhole` | `WholeInv`: `TracedInv`, `PlainOK`, `CalmOK` |

The three are about the store that is found. `LeftsUnmarked`: no marker over a
transcript. `LeftsTraced`: each transcript has a row, a record or a marker.
`LeftsWhole`: each session bears a marker or is at rest (`RestOK`), that is, an index
is over a transcript and a baseline over messages, unless a record says otherwise.
Both values that the runs give `Lefts` satisfy them: `LeftsAssumption` of
`MCSessionLifecycle`, which TLC evaluates on every run. `PowerKept` and
`OneFault` are those of section 3. Without them `AckedStays` is false: TLC violates
it with one failing call, a process death and a power loss, and with three failing
calls and a power loss. A marker whose removal was not synced comes back with the
power loss, over a session that was used meanwhile, and recovery obeys it.

The argument. An operation is a place in the code (`op.at`) and a straight run
(`op.todo`). `LifeInv` says which runs a place may have (`OpOK`); that a marker on
disk or on stable storage is one of an operation memory knows of, or of a session
recovery has yet to reach (`MarksOK`); what a cleanup has removed by each of its
steps (`CleanOK`); that `create` and `fork` write under an id nothing is stored
under (`NewOK`); that a session with a writer bears no marker and has a transcript
if it has an index (`LeaseOK`). `GoneOK` adds that no operation, run or handle is
one of a deleted session, which is why nothing comes back. `AckedOK`: what was
answered for bears no marker, is not fenced and is in no cleanup; a fork is
answered for only with its transcript on stable storage and its marker gone or in
the rest of the run. Under power losses that needs `SeenOK`: a marker on stable
storage is seen, or the operation whose removal failed is about to write it again.
`NoOrphan` needs to know of each run that what a step rests on is there when the
step is reached: messages are written under a row, a record or a marker goes once
there is a row, a row goes only under a record (`RunSafe`). The proof shows that of
every run that starts and that taking a step leaves the rest of the run safe.

`ShownWhole` is about the moment of listing, and sessions are half there at all
others. `WholeInv` says what each of them is (`Settled`): at rest, or marked, or
fenced by the error that left it so. Whatever fails, the index of who may be
written to is vouched for (`ActiveOK`), there are no records left once recovery is
through (`SlotsOK`), which repairs no index somebody writes to (`RepairOK`), a
create that is taken back left nothing (`CreateOK`), and a fork is in the index only
while it is quarantined (`StageOK`); `ListOK` is what recovery leaves for the
listing. `CalmOK` are the parts that need `faults = 0 \/ crashes = 0`: `Settled`;
that without an error nothing of a fenced session is indexed but under a marker
(`FencedOK`); and that each repair of an index keeps its session at rest at every
step, done, failed or cut off (`OrderOK`): the baseline is written over messages,
a record goes only once what it stands for is there, messages go only under a
record. With one mishap at most, as in `lifecycle_forks`, the condition always holds.

*Limits, each found by a run that is not listed:* `NoOrphan` holds only while no
I/O has failed, and `ShownWhole` not with a power loss on top of an error (a line
that was published unsynced), nor with a process death on top of three errors (a
fork's marker can be neither removed nor written again, nor its index undone).
Between these and the theorem, process deaths on top of one or two errors, TLC
finds it true but nothing is proved: what it needs there of each operation depends
on how often it has failed. `DetachedGoal` (a goal never outlives its session) is
violated (`SessionLifecycleGoals.cfg`), as `GoalWrite` checks nothing.

## 6. Pocket's parts

One run, `pocket`, checks them under `FairSpec`; `PocketTypeOK` is the type
invariant of the part in focus, `Settles` the liveness of four of them.

**Authentication.** `signIn[c]` is where a call of `codexLogin` is: waiting for
the slot, inside `login()` (listening, reading a request, exchanging), answered,
loading. `Accept` and `ReadLine` are the callback server, which may be given a
wrong state, an error or rubbish; `GiveUp` its timeout or failure. `SignOut`
invalidates, clears the tokens or remembers to; `Relaunch` is a death of the app,
where only tokens and cleanup flag stay. `SignOutHolds`: tokens of a sign-in that
began before the last sign-out are gone or on record for removal, and that
account is not on screen.

**CompanionGate.** Two `CompanionModel`s, one Keychain item. `CallGate` joins or
starts a check, `PerformGate` is its handshake (`Fetch`, `ClassifyHandshake`: an
address answers as a daemon of this version, an older one, a sick one, another
service or nobody), `GateReturns` compares and answers. Keychain writes may be
lost, and so may the delete of `unpair`. `GateCurrent`: an answer "ready" is for
the pairing that is at that moment in the Keychain and in the model that asked.
`RestartsExpected` (the Companion tab's gate gives way only to another pairing) is
violated (`PocketRestarts.cfg`): that model never reloads after the chat's gate
has saved a new pid, though `CompanionModel.swift:13-16` and `:266-268` expect
restarts. The address fields may be edited between the handshake and the
confirmation, so that the stored address is one nothing was verified against; the
next gate verifies it.

**RemoteAttach.** `poll[v]` is the task of the view's appearance `v`, `page[v]`
the answer on its way. `Page` and `NextAfterSeq` are what `events` makes of an answer,
which may lack rows, the list of them, the cursor or a truthful `hasMore`: then the
next cursor is the last row's or the one that was sent. An empty page that says
`hasMore` is asked for again at once. Each such answer counts as a loss (`MaxLost`); a
daemon that sends nothing else keeps the loop busy for ever. A cancelled
task's request is not cancelled: `EventsInOrder` (rows exactly the ledger's,
cursor behind the last) holds unless such an answer comes while the next task
polls (`crossed`), which nothing in the code prevents
(`RemoteSessionModels.swift:113`). `RowsShown`, in `Settles`, excepts a gate that
failed for some action: it clears `pairing`, and polling reads nothing from then
on without saying so.

**FamiliarRoster.** `TakeRow` is one pass of `visit_seq`'s loop. `RosterExact`
compares with `GoodRoster`, which says without the loop what a roster is.

**GitWorkspaces.** `hist`, `tree` are commits; `pull` is `Fetched`, `MoveBranch`,
`ForceFiles`, so that a failure or another caller falls between. `CommittedStays`:
a commit `commit_all` answered for is reachable from a branch until the workspace
is deleted, however many callers there are, with one exception. `ReposView` owns its
`RepoModel` as a state object under `.id(selectedTab)`, so leaving the tab and coming
back makes a second model while the first one's call runs. A pull whose branch or HEAD
another call has moved since it began (`stalePulls`) goes by an old `merge_analysis`;
if it moves its branch all the same (`overrun`), a commit made in between is dropped,
and the code does nothing against it. Also seen while modelling, without a property:
a pull overwrites uncommitted edits; a pull cut off after the branch moved makes
the next `commit_all` revert what was pulled; the server's refusal of a push is
not noticed; a deletion cut off after `.git` went cannot be repeated; commits on a
detached HEAD are lost by a switch; `checkout_head` without force after
`set_head` may leave the files of the branch before; no call has a network
timeout.

**ChatSurface.** `oper[o]` is an operation of `ChatModel`, `turn[s]` the turn of a
session on the Rust side, `ask[r]` a request for approval: posted to the main
actor, on the sheet, queued or gone. `AsksReachable`: a turn that waits, waits for
something that is on its way or on the live session's sheet. `WritesAllowed`: a
write runs in a session that accepts edits, or by a yes to that very request, or,
in default mode, by a yes to its tool for the rest of that session. `yes`
remembers what the user has agreed to, apart from what the code keeps of it
(`mode`, `allowed`, the answer), and `unasked` that a write ran without it. A yes
that comes after the mode was changed to plan still lets that request through: the
user gave it. `path_is_contained` is not modelled: it is a test on the text of a
path, and a cloned workspace may hold links that lead elsewhere, so nothing
follows from it about where a tool writes. A `stop` that falls before `run_turn`
has claimed its token is lost, and the turn runs on; an error of `send` is shown
twice.

**StorageRoot.** Inodes with one entry each; `child` as seen, `dchild` on disk. A
level is made, its parent opened, synced and revalidated by path, or rolled back.
`StoredSurvives`: what a caller was answered for is on disk with all directories
above it, unless a rollback removed a directory under a caller at work
(`undercut`). Without that exception it is violated (`StorageRootRollback.cfg`): B
syncs the parent between A's rollback and A's second try, and B's revalidation
takes the new, unsynced directory for the one it synced.

**SessionList.** `job[t]` is a task of a view. Deletes and forks queue for the
lock, loads do not. `ListShown`: with nothing in flight, a list shown as loaded is
the store's, but for copies of forks that reported an error. It excepts a newest
load that was cancelled: it superseded the others for nothing, and a deleted row
stays on screen. The app has a second instance of the model (sidebar and modal);
one is modelled. The tasks that delete and fork are not cancelled in the app, so
`fork`'s branch for that is left out.

*Bounds* (`Pocket.cfg`). Three sign-ins are one in the engine, one waiting and one
that supersedes it. Two gates are two callers of one check, or one on each side
of a re-pairing; two confirmations and a changed daemon give it something to
miss. Three rows with pages of two make a full and a short page; one loss is a
request that fails or an answer that is short. Three commits are the clone's, one
here and one by others; two callers and three calls (`MaxCalls`) are the clone and
two calls that meet, such as a pull and a commit (four calls pass as well and take
three minutes). Two tools are one the user has allowed for the session and one he
has not. Two operations are a session and its successor, two asks one shown and one
queued; eight inodes leave three for directories made anew. Three tasks are a
load, a change and a load that overlaps it.

*Fairness.* Weakly fair: a sign-in's own steps, including the timeout of the
callback server (`codex_auth.rs`), but neither the browser nor the user; a gate's
handshake, which has a timeout, and its return; the poll loop; the tasks of the
list, as the main actor resumes what is ready and the engine's calls return.
Everything else may never happen.

## 7. Findings

Disagreements between the code and what its documents say, and one bug, each
shown by a run that TLC finds violated:

1. `persistence_synced`: recovery publishes a transcript line nothing has synced
   after a process crash between write and sync; the module documentation says
   appends are synced before they are published.
2. `chat_errors`: error exits in the middle of `run_goal` return with the goal still
   active and no attempt to pause it; the trace is a turn whose inputs cannot be
   built, after the goal has been created and its prompt persisted. The goals
   design says a runtime error pauses an active goal before it is returned.
3. `chat_launch`: after a death the next process finds the goal active;
   `reconcile_goals` exists and nothing in the app calls it.
4. `lifecycle_quarantine`: two errors in one fork leave the id quarantined in
   memory with no marker on disk; every operation of the root is refused until the
   process restarts.
5. `chat_mode`: a permission mode picked while a session is being started or
   resumed does not reach it; the comment on the property says it applies to the
   live session immediately.

Configurations that show further violations and are not among the runs:
`ChatSessionResume.cfg` (a resumed goal starts without the continuation message
the design promises), `SessionLifecycleGoals.cfg`, `PocketRestarts.cfg`,
`StorageRootRollback.cfg`, all described above.

## 8. Proved, only model-checked, not modelled

| Proof module | For every value of the constants |
| --- | --- |
| `SessionPersistence_proofs` | `TypeOK`, `OneIntent`, `SlotFreeOrStray`, `TranscriptFaithful`, `CleanAppend`; with `PowerKept \/ OneFault`: `IndexSound`, `BaselineCovers`, `ExpungesUnacked`, `AckedStays`; with `OneFault`: `AckedDurable`, `PublishedIsSynced` |
| `SessionLifecycle_proofs` | `TypeOK`, `HandleKept`, `DeletedStays`; with `LeftsUnmarked` and `PowerKept \/ OneFault`: `AckedStays`; with `LeftsTraced`: `NoOrphan` |
| `SessionListing_proofs` | with `LeftsTraced` and `LeftsWhole`: `ShownWhole` as long as `faults = 0 \/ crashes = 0` |
| `ChatSession_proofs` | `TypeOK`, `OneRun`, `OwnToken`, `PauseReaches`, `AnsweredStops`, `UsageExact`, `TurnsBounded`, and that `ChatSession` implements `GoalLifecycle` |
| `Storage_proofs` | `GitWorkspaces`: `GitTypeOK`, `CommittedStays`; `StorageRoot`: `StorageTypeOK`, `StoredSurvives` |
| `Screen_proofs` | `ChatSurface`: `SurfaceTypeOK`, `AsksReachable`, `WritesAllowed`; `SessionList`: `ListTypeOK`, `ListShown` |
| `Remote_proofs` | `RemoteAttach`: `AttachTypeOK`, `EventsInOrder`; `FamiliarRoster`: `RosterTypeOK`, `RosterExact`; `CompanionGate`: `GateTypeOK`, `GateCurrent`; `Authentication`: `AuthTypeOK`, `SignOutHolds`, one owner of the slot |
| `Pocket_proofs` | `Pocket` implements all eight parts; `PocketTypeOK`, and side by side what the rows above say of each part |

The arguments of the first four are in sections 3 to 5. The others are about the
parts' own specifications (`AuthSpec`, `ListSpec`, `GitSpec`, `StorageSpec`,
`SurfaceSpec`, `AttachSpec`, `RosterSpec`, `GateSpec`). `Pocket_proofs` carries them
over to the whole: a step of `Pocket` is a step of the part in focus and leaves the
variables of the others alone (`PartSteps`), so `PocketSpec` implies each of the
eight specifications (`PocketImplementsParts`), and with it all that was proved of
them (`PocketPromises`).

`SignOutHolds` is not inductive: a login that is signed out may store its tokens
later. `AuthInv` adds who may still do so: the owner of the slot (`SlotHeld`);
while he is a signed-out call the cleanup is on record (`OnRecord`), and whoever
strikes it off the record is the owner himself or has found the slot free; the
current call began after the last sign-out (`Begun`).

`ListShown` is not inductive either: what is on its way to the screen matters.
`ListInv` says that what a load has read, or the screen shows, is the store's
(`Fresh`) unless a newer load has begun or somebody is at work (`AtWork`) who has
changed the store and will begin one (`ReadFresh`, `ShownFresh`). It needs that a
waiter waits once and nobody is handed the lock who is at work already
(`WaitersWait`), and that a fork asks the engine once (`TurnsTaken`). `LoadBegins`
is the step at which nothing that was read before counts any longer.

`CommittedStays` needs three facts more (`GitInv`). Ancestry is closed: a commit's
history holds its ancestors', and origin always has its main branch (`GitTyped`).
From the analysis of a pull until the branch is moved, the target's history holds
the branch's, and HEAD does not leave the branch while the fetch runs, unless the pull
is in `stalePulls` (`PullAhead`). A workspace that is not a repository has no
commit to keep (`Kept`). Then each step keeps every branch's history or
extends it, and a step of another call either leaves HEAD and the branches alone
(`OthersStand`) or puts the pull into `stalePulls`.

`StoredSurvives` looks at the end of a caller's way. `StorageInv` says what holds on
it: the levels a caller has synced so far are there and on disk (`Relies`, `OnDisk`
up to `SyncedTo`), the directory it holds open is the one on the path, and between
sync and revalidation so is its entry. Another caller's step leaves that alone: an
entry is only set where there was none, to an inode nobody knows (`MakeFirm`), or
brought to disk (`SyncFirm`); both are `Firm`. A power loss takes none of the entries
that are the same as seen and on disk (`PowerDisk`). Only a rollback takes one
away, and then nobody else is at work and no record is below it (`RemoveDisk`), or
`undercut` says so.

`GateCurrent` holds because a gate compares its check's pairing with model and
Keychain in the step that answers. `GateInv` adds what the comparison needs: a check
that ended ready has a pairing, and who waits, waits for a check that was started.
The check alone would not do: the pairing may go while its caller is resumed.

`AsksReachable` looks at a request and the live session; why they belong together
is in `SurfaceInv`. A turn of the live session has an operation, and that one owns
the screen (`Owned`): so whoever puts another session on screen changes the
transcript's generation and empties the sheet in the same step. Requests that carry
the generation on screen are therefore the live session's (`Generations`), and only
those get onto the sheet. No request is queued twice, and an answered one is off
the sheet (`SheetAgrees`); a request that is waited for carries its turn's
generation until it is settled (`AskOfTurn`).

`WritesAllowed` needs to know where a session's permissions come from (`ConsentInv`):
a tool that a session has on its list is there by a yes for that tool in that session
(`AllowedByWord`), an answer that agrees is on record as the user's yes to that request
(`AnsweredByWord`), and a request that is waited for was made by the session that waits
(`AskedOfItself`). Steps that only move a request or drop it change none of that
(`ConsentStays`).

`EventsInOrder` holds because the cursor a request was sent with is still the
cursor when its page comes back. `AttachInv` says so: until an old task's answer
has come in beside a later poll (`crossed`) the latest task alone moves the cursor
(`CursorSent`), and a page is the ledger's rows from the cursor it was made of
(`PagesMatch`).

`RosterExact` looks at the end of decoding. `RosterInv` holds at every row: while
no fault is remembered all that was read is kept in its order and no id is there
twice (`WholeSoFar`); a remembered fault is the first of the body (`FirstFault`)
and is not overwritten.

From which assumptions: the named ones on the constants only (`BoundsAssumption`,
`ConstantsAssumption`, `NamesAssumption`, `AuthAssumption`, `ListAssumption`,
`GitAssumption`, `StorageAssumption`, `SurfaceAssumption`,
`AttachAssumption`, `RosterAssumption`, `GateAssumption`, which ask for natural
bounds, distinct names and the like), and the hypotheses the table names.

Only model-checked:

* All liveness (`Heals` of both modules, `BusyEnds`, `Settles`): liveness under
  fairness is beyond the prover in use.
* `SessionLifecycle.ShownWhole` with process deaths on top of errors (section 5).

Abstracted: texts, prompts, streaming of events, elapsed time, provider settings,
the contents of tool calls and of records. `SessionPersistence` has one session
and one handle and takes the deletion of a session by recovery as one step, which
`SessionLifecycle` takes apart; that one in turn takes `persist_new` as one step.
`ChatSession` takes persisting as a call that works or fails.

Covered by no property: what a pull does to the worktree, a rollback of the storage
root under another caller and a pull that another call overtook, which all occur in
the models, and an endless run of empty pages with `hasMore`, of which the model has
only finitely many (section 6).

Not modelled: where a path that `path_is_contained` accepts leads. Companion chat
(launches, ownership of cleanups, traffic epoch: five files over some thirty
fields of one actor, too large to be checked on instances that would say
something) and familiar selection; their hazards are listed without a property, as
is that answers to goal calls are applied without the transcript generation
(`ChatModel.swift:343`). Routed reset is one reset and one waiting. The transcript
decoder, the diff review and secret redaction are functions over text. The facade
delegates; memory notes and gist sharing are single files and uploads; the live
activity, routing, views and generated bindings keep no state others depend on.
