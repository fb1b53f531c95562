-------------------------- MODULE SessionLifecycle --------------------------
(***************************************************************************)
(* Sessions as sets of artifacts (rust/ffi/src/sessions.rs): create,       *)
(* resume, fork and delete, and the recovery that finishes a deletion,     *)
(* undoes a fork that was cut off and takes in what older versions left.   *)
(*                                                                         *)
(* These operations touch up to ten files and two databases, one by one,   *)
(* and any write or removal may fail, before or after its effect, or be    *)
(* the last one before the process dies or the power goes.  A marker file  *)
(* or a record is written first and removed last, so that the next         *)
(* operation can tell what was going on.  disk is what the running system  *)
(* sees, dur what a power loss may fall back to.  Rows of index.sqlite and *)
(* goals.sqlite are durable when their commit returns (the engine's        *)
(* stores, external).                                                      *)
(*                                                                         *)
(* op holds SESSION_LIFECYCLE_LOCK.  op.todo is the straight run of writes *)
(* and removals it is in, op.at the code that follows it.  What            *)
(* persist_new does to a session is SessionPersistence; here it is one     *)
(* step, Persist, that gets some of the way.                               *)
(***************************************************************************)
EXTENDS Naturals, Sequences, FiniteSets

CONSTANTS
  Ids,         \* session ids
  Lefts,       \* what an older version may have left of a session
  Handles,     \* SessionPersistence handles the app can hold
  Gens,        \* generations (uuid::Uuid) of handles
  MaxFaults,   \* bound: writes and removals that answer an error
  MaxCrashes,  \* bound: process deaths and power losses
  MaxMishaps,  \* bound: errors, deaths and losses together
  MaxLate,     \* bound: goal writes of a handle whose session was deleted
  CrashKinds   \* out of {"process", "power"}

VARIABLES
  disk, dur,        \* artifacts of each session: visible, and durable
  life,             \* SessionLifecycle.sessions, with the generation
  open,             \* the session and generation of each handle
  op,               \* the operation under the lock
  deleted, acked,   \* history: deletions and contents answered with Ok
  faults, crashes, late

history == <<deleted, acked>>
bounds == <<faults, crashes, late>>
vars == <<disk, dur, life, open, op, history, bounds>>

-----------------------------------------------------------------------------
(* Artifacts *)

\* The pending-index slot: the record of a message, one that stands for a
\* legacy reconciliation, or one too large to be read.
Slot == {"record", "reconciling", "oversized"}

\* Rows of the two databases: the session's row, its messages, its goal.
Databases == {"row", "messages", "goal"}

Markers == {"forkmark", "delmark"}

Artifacts == Slot \cup Databases \cup Markers
               \cup {"baseline", "model", "transcript", "familiar", "stage"}

ASSUME ConstantsAssumption ==
  /\ Lefts \subseteq SUBSET Artifacts
  /\ {MaxFaults, MaxCrashes, MaxMishaps, MaxLate} \subseteq Nat
  /\ CrashKinds \subseteq {"process", "power"}

\* The session's visible artifacts become D; those in synced, and the rows of
\* the databases, durably so.
Changes(s, D, synced) ==
  LET sure == synced \cup Databases
  IN /\ disk' = [disk EXCEPT ![s] = D]
     /\ dur' = [dur EXCEPT ![s] = (@ \ sure) \cup (D \cap sure)]

Fault == /\ faults < MaxFaults /\ faults + crashes < MaxMishaps
         /\ faults' = faults + 1

\* write_new_file, write_json_record_atomically, save_familiar_metadata and the
\* database writes: an error leaves nothing, some or all of it, not synced.
AddUnsynced(s, A) == Changes(s, disk[s] \cup A, {})
Add(s, A) == Changes(s, disk[s] \cup A, A)
AddFails(s, A) ==
  Fault /\ \E some \in SUBSET A : Changes(s, disk[s] \cup some, {})

\* remove_file_durably_if_present, remove_tree_durably_if_present and the
\* database deletions: the directory is synced though nothing was there.
RemoveUnsynced(s, A) == Changes(s, disk[s] \ A, {})
Remove(s, A) == Changes(s, disk[s] \ A, A)
RemoveFails(s, A) ==
  Fault /\ \E some \in SUBSET A : Changes(s, disk[s] \ some, {})

-----------------------------------------------------------------------------
(* SESSION_LIFECYCLE_LOCK and the handles *)

Nobody == "nobody"
NoGen == 0

ASSUME NamesAssumption == Nobody \notin Ids /\ NoGen \notin Gens

Nothing == [state |-> "none", gen |-> NoGen]
Tombstone == [state |-> "tombstoned", gen |-> NoGen]
Quarantine == [state |-> "pendingFork", gen |-> NoGen]
Active(g) == [state |-> "active", gen |-> g]

Closed == [id |-> Nobody, gen |-> NoGen]

\* (As if the lease were never upgraded.)
LeasedNever(s) == FALSE

\* The writer lease: the handle of the session's generation is alive.
Leased(s) == /\ life[s].state = "active"
             /\ \E h \in Handles : open[h] = [id |-> s, gen |-> life[s].gen]

\* ensure_persistence_active
Writable(h) == open[h] # Closed /\ life[open[h].id] = Active(open[h].gen)

\* ensure_session_available
Available(s) == life[s].state \notin {"tombstoned", "pendingFork"}

FreshGens == Gens \ ({open[h].gen : h \in Handles} \cup {life[s].gen : s \in Ids})
NoFreshGen == NoGen
FreshGen == CHOOSE g \in FreshGens : TRUE

-----------------------------------------------------------------------------
(* Operations *)

\* A write ("add"), a removal ("remove"), a write of the index row ("index") or
\* a rename out of the staging directory ("publish") of artifacts of op.job,
\* and where an error leads: "return", "collect" (go on, fail later), or a place.
Step(verb, what, orelse) == [verb |-> verb, what |-> what, orelse |-> orelse]

When(condition, steps) == IF condition THEN steps ELSE <<>>

NoOp == [kind |-> "none", at |-> "idle", id |-> Nobody, src |-> Nobody,
         job |-> Nobody, mark |-> "none", back |-> "idle", todo |-> <<>>,
         errs |-> FALSE, published |-> {}, indexed |-> FALSE,
         quarantined |-> FALSE, dropped |-> FALSE]

At(place) == op.at = place /\ op.todo = <<>>

Goto(place) == op' = [op EXCEPT !.at = place]

\* Take the steps for session s, then go to place.
Do(s, steps, place) ==
  op' = [op EXCEPT !.job = s, !.todo = steps, !.at = place, !.errs = FALSE]

\* The operation answers, with Ok or with an error.
Return == op' = NoOp

Init ==
  /\ disk \in [Ids -> Lefts]
  /\ dur = disk
  /\ life = [s \in Ids |-> Nothing]
  /\ open = [h \in Handles |-> Closed]
  /\ op = NoOp
  /\ deleted = {}
  /\ acked = {s \in Ids : "transcript" \in disk[s]}
  /\ faults = 0 /\ crashes = 0 /\ late = 0

\* A new UUID: one never used, or (drawn twice) one this process knows.
Drawn(s) == life[s] = Nothing => disk[s] = {} /\ dur[s] = {}

Begin(kind, s, src) ==
  /\ op = NoOp
  /\ kind \in {"create", "fork"} => Drawn(s)
  /\ kind \in {"create", "resume"} => \E h \in Handles : open[h] = Closed
  /\ FreshGens # {}
  /\ op' = [NoOp EXCEPT !.kind = kind, !.id = s, !.src = src, !.at = "preflight"]
  /\ UNCHANGED <<disk, dur, life, open, history, bounds>>

BeginAny ==
  \/ Begin("list", Nobody, Nobody)
  \/ \E s \in Ids, kind \in {"create", "resume", "delete"} : Begin(kind, s, Nobody)
  \/ \E s, src \in Ids : s # src /\ Begin("fork", s, src)

\* One write or removal of op.todo.
TakeStep ==
  /\ op.todo # <<>>
  /\ LET step == Head(op.todo)
         after == [op EXCEPT !.todo = Tail(@),
                             !.indexed = @ \/ step.verb = "index",
                             !.published = @ \cup IF step.verb = "publish"
                                                  THEN step.what ELSE {}]
         failed == [after EXCEPT !.errs = TRUE,
                                 !.todo = IF step.orelse = "collect" THEN @ ELSE <<>>,
                                 !.at = IF step.orelse = "collect" THEN @ ELSE step.orelse]
     IN \/ /\ IF step.verb = "remove" THEN Remove(op.job, step.what)
                                      ELSE Add(op.job, step.what)
           /\ op' = after
           /\ UNCHANGED faults
        \/ /\ IF step.verb = "remove" THEN RemoveFails(op.job, step.what)
                                      ELSE AddFails(op.job, step.what)
           /\ IF step.orelse = "return" THEN Return
              ELSE \/ op' = failed
                   \* The rename itself answered the error.
                   \/ step.verb = "publish" /\ op' = [failed EXCEPT !.published = op.published]
  /\ UNCHANGED <<life, open, history, crashes, late>>

-----------------------------------------------------------------------------
(* cleanup_session_artifacts *)

\* ensure_pending_*_marker_checked: a marker that is there is synced again, a
\* new one that cannot be synced is rolled back, which may fail too.
MarkerKept(s, mark) == Add(s, {mark}) /\ UNCHANGED faults
MarkerFails(s, mark) == AddFails(s, {mark})

\* remove_pending_*_marker_checked
Unmark(mark, orelse) == <<Step("remove", {mark}, orelse)>>

\* Clean up session s under its marker, then go to back.
Clean(s, mark, back) ==
  op' = [op EXCEPT !.job = s, !.mark = mark, !.back = back, !.at = "ensure"]

Records ==
  <<Step("remove", Slot, "collect"), Step("remove", {"baseline"}, "collect"),
    Step("remove", {"model"}, "collect")>>

DatabaseRows ==
  <<Step("remove", {"goal"}, "restore"), Step("remove", {"row", "messages"}, "restore")>>

Files(mark) ==
  <<Step("remove", {"transcript"}, "collect"), Step("remove", {"familiar"}, "collect"),
    Step("remove", {"stage"}, "collect")>>
  \o When(mark = "delmark", Unmark("forkmark", "collect"))

\* A fork's cleanup gives way to a deletion.
EnsureMarker ==
  /\ At("ensure")
  /\ \/ /\ MarkerKept(op.job, op.mark)
        /\ IF op.mark = "forkmark" /\ "delmark" \in disk[op.job]
           THEN Return ELSE Do(op.job, Records, "records")
     \/ MarkerFails(op.job, op.mark) /\ Return
  /\ UNCHANGED <<life, open, history, crashes, late>>

RecordsGone ==
  /\ At("records")
  /\ IF op.errs THEN Goto("restore") ELSE Do(op.job, DatabaseRows, "databases")
  /\ UNCHANGED <<disk, dur, life, open, history, bounds>>

RowsGone ==
  /\ At("databases")
  /\ Do(op.job, Files(op.mark), "files")
  /\ UNCHANGED <<disk, dur, life, open, history, bounds>>

\* verify_session_artifacts_absent, then the marker goes.
FilesGone ==
  /\ At("files")
  /\ \/ /\ ~op.errs /\ disk[op.job] = {op.mark}
        /\ Do(op.job, Unmark(op.mark, "restore"), "cleaned")
        /\ UNCHANGED faults
     \/ (op.errs \/ disk[op.job] # {op.mark}) /\ Goto("restore") /\ UNCHANGED faults
     \/ ~op.errs /\ Fault /\ Goto("restore")
  /\ UNCHANGED <<disk, dur, life, open, history, crashes, late>>

\* cleanup_error
Restore ==
  /\ At("restore")
  /\ MarkerKept(op.job, op.mark) \/ MarkerFails(op.job, op.mark)
  /\ Return
  /\ UNCHANGED <<life, open, history, crashes, late>>

\* A quarantined fork is forgotten; a deleted session stays tombstoned, unless
\* a fork takes its id.
Cleaned ==
  /\ At("cleaned")
  /\ life' = [life EXCEPT ![op.job] =
                IF @ = Quarantine \/ op.back = "fork.stage" THEN Nothing ELSE @]
  /\ Goto(op.back)
  /\ UNCHANGED <<disk, dur, open, history, bounds>>

\* begin_session_deletion_and_tombstone: the session is fenced once its marker
\* is visible, durable or not.
BeginDeletion(s, back) ==
  \/ /\ MarkerKept(s, "delmark")
     /\ life' = [life EXCEPT ![s] = Tombstone]
     /\ Clean(s, "delmark", back)
  \/ /\ MarkerFails(s, "delmark")
     /\ life' = IF "delmark" \in disk'[s]
                THEN [life EXCEPT ![s] = Tombstone] ELSE life
     /\ Return

\* A tombstoned id is drawn again: its deletion is finished once more.
BeginReuse(s, back) ==
  \/ MarkerKept(s, "delmark") /\ Clean(s, "delmark", back)
  \/ MarkerFails(s, "delmark") /\ Return

-----------------------------------------------------------------------------
(* recover_storage_unlocked, the head of every operation *)

DeletionMarked == {s \in Ids : "delmark" \in disk[s]}
ForkMarked == {s \in Ids : "forkmark" \in disk[s]}

\* The check in preflight_pending_lifecycle_recovery.
Unmarked == {s \in Ids : life[s] = Quarantine /\ disk[s] \cap Markers = {}}

\* preflight_storage_recovery reads and validates everything, and refuses a
\* quarantined session without a marker; recover_pending_lifecycle_plan then
\* fences every marked session before it cleans any.
Preflight ==
  /\ At("preflight")
  /\ \/ /\ IF Unmarked = {}
           THEN /\ life' = [s \in Ids |-> IF "delmark" \in disk[s] THEN Tombstone
                                         ELSE IF "forkmark" \in disk[s] THEN Quarantine
                                         ELSE life[s]]
                /\ Goto("recover")
           ELSE Return /\ UNCHANGED life
        /\ UNCHANGED faults
     \/ Fault /\ Return /\ UNCHANGED life
  /\ UNCHANGED <<disk, dur, open, history, crashes, late>>

\* Forks are left alone.
RecoverDeletions ==
  /\ At("recover")
  /\ \E s \in DeletionMarked : Clean(s, "delmark", "recover")
  /\ UNCHANGED <<disk, dur, life, open, history, bounds>>

\* Deletions first; a session with both markers is a deletion.
RecoverMarked ==
  /\ At("recover")
  /\ \/ \E s \in DeletionMarked : Clean(s, "delmark", "recover")
     \/ DeletionMarked = {} /\ \E s \in ForkMarked : Clean(s, "forkmark", "recover")
  /\ UNCHANGED <<disk, dur, life, open, history, bounds>>

\* delete_session leaves the record and the legacy row of its target alone.
Skipped(s) == op.kind = "delete" /\ op.id = s

Recorded == {s \in Ids : disk[s] \cap Slot # {} /\ ~Skipped(s)}

\* publish_pending_index_record for the message of a record
PublishRecord ==
  <<Step("add", {"row"}, "return"), Step("add", {"messages"}, "return"),
    Step("remove", Slot, "return")>>

DropRecord == <<Step("remove", Slot, "return")>>

\* reconcile_legacy_zero_count_candidate
Reconcile ==
  <<Step("add", {"model"}, "return"), Step("add", {"reconciling"}, "return"),
    Step("remove", {"row", "messages"}, "return"), Step("add", {"row"}, "return"),
    Step("add", {"messages"}, "return"), Step("add", {"baseline"}, "return"),
    Step("remove", Slot, "return")>>

\* Left to the next start to remove.
RebuildLeaves ==
  <<Step("add", {"model"}, "return"), Step("remove", {"baseline"}, "return"),
    Step("remove", {"row", "messages"}, "return"), Step("add", {"row"}, "return"),
    Step("add", {"messages"}, "return"), Step("add", {"baseline"}, "return")>>

\* recover_oversized_pending_index_transcript
Rebuild ==
  <<Step("add", {"model"}, "return"), Step("remove", {"baseline"}, "return"),
    Step("remove", {"row", "messages"}, "return"), Step("add", {"row"}, "return"),
    Step("add", {"messages"}, "return"), Step("add", {"baseline"}, "return"),
    Step("remove", Slot, "return")>>

\* What recover_pending_index_plan may do about the record of a session; one
\* over an absent line is dropped, and there are earlier lines then.
Scripts(s) ==
  LET has(A) == A \subseteq disk[s]
  IN IF ~Available(s) THEN {DropRecord}
     ELSE {script \in {PublishRecord} : has({"record", "transcript"})}
          \cup {script \in {DropRecord} :
                  \/ has({"record", "transcript", "messages"})
                  \/ /\ has({"record"}) /\ ~has({"transcript"})
                     /\ has({"row"}) => has({"messages"})}
          \cup {script \in {Reconcile} : has({"reconciling", "transcript", "model"})}
          \cup {script \in {Rebuild} : has({"oversized", "transcript", "model"})}

ResolveRecord ==
  /\ At("recover")
  /\ DeletionMarked \cup ForkMarked = {}
  /\ \E s \in Recorded : \E script \in Scripts(s) : Do(s, script, "recover")
  /\ UNCHANGED <<disk, dur, life, open, history, bounds>>

\* A record, or a row without messages, over no transcript: the session was
\* never published and is deleted (recover_absent_pending_index_record,
\* recover_absent_oversized_pending_index_record).
Unpublished == {s \in Recorded : /\ Available(s) /\ "transcript" \notin disk[s]
                                 /\ \/ "oversized" \in disk[s]
                                    \/ /\ "record" \in disk[s] /\ "row" \in disk[s]
                                       /\ "messages" \notin disk[s]}

\* Rows without messages of sessions this process does not know and no record
\* or baseline vouches for.
Uncounted == {s \in Ids : /\ "row" \in disk[s] /\ "messages" \notin disk[s]
                          /\ life[s] = Nothing /\ ~Skipped(s)
                          /\ disk[s] \cap (Slot \cup {"baseline"}) = {}}

DeleteUnpublished ==
  /\ At("recover")
  /\ DeletionMarked \cup ForkMarked = {}
  /\ \E s \in Unpublished : BeginDeletion(s, "recover")
  /\ UNCHANGED <<open, history, crashes, late>>

\* A record that stands for a rebuilding is refused if the model to rebuild
\* with, or what it was read from, is not there.
Refused == {s \in Recorded : Scripts(s) = {} /\ s \notin Unpublished}

RefuseRecord ==
  /\ At("recover")
  /\ DeletionMarked \cup ForkMarked = {}
  /\ Refused # {}
  /\ Return
  /\ UNCHANGED <<disk, dur, life, open, history, bounds>>

DeleteGhostUnread ==
  /\ At("recover")
  /\ DeletionMarked \cup ForkMarked \cup Recorded = {}
  /\ \E s \in Uncounted : BeginDeletion(s, "recover")
  /\ UNCHANGED <<open, history, crashes, late>>

\* recover_legacy_zero_count_candidate
DeleteGhost ==
  /\ At("recover")
  /\ DeletionMarked \cup ForkMarked \cup Recorded = {}
  /\ \E s \in Uncounted : "transcript" \notin disk[s] /\ BeginDeletion(s, "recover")
  /\ UNCHANGED <<open, history, crashes, late>>

ReconcileLegacy ==
  /\ At("recover")
  /\ DeletionMarked \cup ForkMarked \cup Recorded = {}
  /\ \E s \in Uncounted : "transcript" \in disk[s] /\ Do(s, Reconcile, "recover")
  /\ UNCHANGED <<disk, dur, life, open, history, bounds>>

\* Where the operation goes on.
Recovered ==
  /\ At("recover")
  /\ DeletionMarked \cup ForkMarked \cup Recorded \cup Uncounted = {}
  /\ Goto(op.kind)
  /\ UNCHANGED <<disk, dur, life, open, history, bounds>>

-----------------------------------------------------------------------------
(* list_sessions, delete_session, SessionPersistence::create and resume *)

Listed == {s \in Ids : "row" \in disk[s] /\ Available(s)}

List ==
  /\ At("list")
  /\ Return
  /\ UNCHANGED <<disk, dur, life, open, history, bounds>>

Delete ==
  /\ At("delete")
  /\ BeginDeletion(op.id, "deleted")
  /\ acked' = acked \ {op.id}
  /\ UNCHANGED <<open, deleted, crashes, late>>

Deleted ==
  /\ At("deleted")
  /\ Return
  /\ deleted' = deleted \cup {op.id}
  /\ UNCHANGED <<disk, dur, life, open, acked, bounds>>

Create ==
  /\ At("create")
  /\ \/ life[op.id].state \in {"active", "pendingFork"} /\ Return
        /\ UNCHANGED <<disk, dur, faults>>
     \/ life[op.id] = Tombstone /\ BeginReuse(op.id, "create.write")
     \/ life[op.id] = Nothing /\ Goto("create.write") /\ UNCHANGED <<disk, dur, faults>>
  /\ deleted' = deleted \ {op.id}
  /\ UNCHANGED <<life, open, acked, crashes, late>>

\* write_session_model_record and write_index_baseline; the first keeps a record
\* that says the same, the second any, and both sync what is there.
ModelRecord(orelse) == <<Step("add", {"model"}, orelse)>>
Baseline(orelse) == <<Step("add", {"baseline"}, orelse)>>

\* With or without a familiar.
CreateFiles(verb) ==
  <<Step(verb, {"familiar"}, "return")>> \o ModelRecord("create.undo") \o Baseline("create.undo")

CreateWrite ==
  /\ At("create.write")
  /\ \E verb \in {"add", "remove"} : Do(op.id, CreateFiles(verb), "attach")
  /\ UNCHANGED <<disk, dur, life, open, history, bounds>>

CreateUndo ==
  /\ At("create.undo")
  /\ Do(op.id, <<Step("remove", {"baseline"}, "collect"), Step("remove", {"model"}, "collect"),
                 Step("remove", {"familiar"}, "collect")>>, "failed")
  /\ UNCHANGED <<disk, dur, life, open, history, bounds>>

Failed ==
  /\ At("failed")
  /\ Return
  /\ UNCHANGED <<disk, dur, life, open, history, bounds>>

\* The index is brought up to date with a transcript no baseline vouches for.
CatchUp(s) == When("baseline" \notin disk[s],
                   <<Step("add", {"messages"}, "return")>> \o Baseline("return"))

Resume ==
  /\ At("resume")
  /\ IF Available(op.id) /\ ~Leased(op.id) /\ "transcript" \in disk[op.id]
     THEN Do(op.id, ModelRecord("return") \o <<Step("add", {"row"}, "return")>>
                    \o CatchUp(op.id), "attach")
     ELSE Return
  /\ UNCHANGED <<disk, dur, life, open, history, bounds>>

\* The handle is returned: the session is active with a new generation.
Attach ==
  /\ At("attach")
  /\ \E h \in Handles :
       /\ open[h] = Closed
       /\ open' = [open EXCEPT ![h] = [id |-> op.id, gen |-> FreshGen]]
  /\ life' = [life EXCEPT ![op.id] = Active(FreshGen)]
  /\ Return
  /\ UNCHANGED <<disk, dur, history, bounds>>

-----------------------------------------------------------------------------
(* fork_session *)

\* The source is written to only to complete its own index.  A source without
\* a model record takes the model of its row.
Fork ==
  /\ At("fork")
  /\ IF /\ Available(op.src) /\ "transcript" \in disk[op.src]
        /\ disk[op.src] \cap {"model", "row"} # {}
     THEN Do(op.src, ModelRecord("return")
                     \o When("baseline" \notin disk[op.src],
                             <<Step("add", {"row"}, "return")>> \o CatchUp(op.src)),
             "fork.id")
     ELSE Return
  /\ UNCHANGED <<disk, dur, life, open, history, bounds>>

ForkId ==
  /\ At("fork.id")
  /\ \/ life[op.id].state \in {"active", "pendingFork"} /\ Return
        /\ UNCHANGED <<disk, dur, faults>>
     \/ life[op.id] = Tombstone /\ BeginReuse(op.id, "fork.stage")
     \/ life[op.id] = Nothing /\ Goto("fork.stage") /\ UNCHANGED <<disk, dur, faults>>
  /\ deleted' = deleted \ {op.id}
  /\ UNCHANGED <<life, open, acked, crashes, late>>

\* ForkStage::begin to remove_empty_staging_dirs.  Nothing is undone for a
\* marker that could not be written.
Staging(familiar) ==
  <<Step("add", {"forkmark"}, "return"), Step("add", {"stage"}, "undo"),
    Step("publish", {"transcript"}, "undo")>>
  \o When(familiar, <<Step("publish", {"familiar"}, "undo")>>)
  \o <<Step("remove", {"stage"}, "undo")>>

\* familiar_metadata_bytes_at_storage
HasFamiliar(s) == "familiar" \in disk[s]

ForkStaged ==
  /\ At("fork.stage")
  /\ Do(op.id, Staging(HasFamiliar(op.src)), "fork.publish")
  /\ UNCHANGED <<disk, dur, life, open, history, bounds>>

\* The fork is committed before its index is complete.
PublicationEarly ==
  <<Step("add", {"model"}, "undo")>> \o Unmark("forkmark", "undo")
  \o <<Step("index", {"row"}, "undo"), Step("add", {"messages"}, "undo"),
       Step("add", {"baseline"}, "undo")>>

\* Up to remove_pending_marker_for_commit.
Publication ==
  <<Step("add", {"model"}, "undo"), Step("index", {"row"}, "undo"),
    Step("add", {"messages"}, "undo"), Step("add", {"baseline"}, "undo")>>
  \o Unmark("forkmark", "undo")

ForkPublish ==
  /\ At("fork.publish")
  /\ life' = [life EXCEPT ![op.id] = Quarantine]
  /\ \/ /\ op' = [op EXCEPT !.quarantined = TRUE, !.todo = Publication, !.at = "fork.commit"]
        /\ UNCHANGED faults
     \/ Fault /\ op' = [op EXCEPT !.quarantined = TRUE, !.at = "undo"]
  /\ UNCHANGED <<disk, dur, open, history, crashes, late>>

\* Active, and writable by nobody.
ForkCommit ==
  /\ At("fork.commit")
  /\ life' = [life EXCEPT ![op.id] = Active(FreshGen)]
  /\ acked' = acked \cup {op.id}
  /\ Return
  /\ UNCHANGED <<disk, dur, open, deleted, bounds>>

(* ForkStage::cleanup *)

\* If the preflight fails the stage stays armed and its Drop tries again when
\* the error has been returned: op.dropped.
Undo ==
  /\ At("undo")
  /\ \/ /\ IF "delmark" \in disk[op.id]
           THEN op' = [op EXCEPT !.at = "undone", !.errs = TRUE]
           ELSE Do(op.id, Records, "undo.index")
        /\ UNCHANGED <<life, faults>>
     \/ /\ Fault
        /\ life' = IF op.quarantined THEN [life EXCEPT ![op.id] = Quarantine] ELSE life
        /\ IF op.dropped THEN Return ELSE op' = [op EXCEPT !.dropped = TRUE]
  /\ UNCHANGED <<disk, dur, open, history, crashes, late>>

\* op.errs is kept: these steps go on collecting.
Then(steps, place) == op' = [op EXCEPT !.todo = steps, !.at = place]

UndoIndexForgotten ==
  /\ At("undo.index")
  /\ Then(<<>>, "undo.files")
  /\ UNCHANGED <<disk, dur, life, open, history, bounds>>

UndoIndex ==
  /\ At("undo.index")
  /\ Then(When(op.indexed, <<Step("add", {"forkmark"}, "collect"),
                             Step("remove", {"row", "messages"}, "undone")>>),
          "undo.files")
  /\ UNCHANGED <<disk, dur, life, open, history, bounds>>

UndoFiles ==
  /\ At("undo.files")
  /\ Then(When("familiar" \in op.published, <<Step("remove", {"familiar"}, "collect")>>)
          \o When("transcript" \in op.published, <<Step("remove", {"transcript"}, "collect")>>)
          \o <<Step("remove", {"stage"}, "collect")>>,
          "undo.mark")
  /\ UNCHANGED <<disk, dur, life, open, history, bounds>>

UndoMark ==
  /\ At("undo.mark")
  /\ Then(When(~op.errs, Unmark("forkmark", "undo.remark")), "undone")
  /\ UNCHANGED <<disk, dur, life, open, history, bounds>>

UndoRemark ==
  /\ At("undo.remark")
  /\ Then(<<Step("add", {"forkmark"}, "collect")>>, "undone")
  /\ UNCHANGED <<disk, dur, life, open, history, bounds>>

\* fork_stage_error and fork_publication_error
Undone ==
  /\ At("undone")
  /\ life' = IF ~op.quarantined \/ op.dropped THEN life
             ELSE [life EXCEPT ![op.id] = IF op.errs THEN Quarantine ELSE Nothing]
  /\ Return
  /\ UNCHANGED <<disk, dur, open, history, bounds>>

-----------------------------------------------------------------------------
(* What happens outside the lifecycle operations *)

\* How far a persist_new gets that answers an error: what is there of the
\* record, the line, the row and the message, and what is synced.
PersistCut ==
  {[has |-> some, synced |-> {}] : some \in SUBSET {"record"}}
  \cup {[has |-> {"record"} \cup some, synced |-> {"record"}] : some \in SUBSET {"transcript"}}
  \cup {[has |-> {"record", "transcript"} \cup some, synced |-> {"record", "transcript"}] :
          some \in {{}, {"row"}, {"row", "messages"}}}
  \cup {[has |-> {"transcript", "row", "messages"} \cup some, synced |-> {"transcript"}] :
          some \in SUBSET {"record"}}

\* A record over a line: drain_pending_index writes its row and message and
\* removes it before persist_new goes on.
Drained(s) == IF {"record", "transcript"} \subseteq disk[s] THEN {"row", "messages"} ELSE {}

\* persist_new, which holds the lock for reading: the record is there before
\* the line, the line before the row, and the record goes last.
Persist(h) ==
  /\ op = NoOp /\ Writable(h)
  /\ LET s == open[h].id
         rest == (disk[s] \ Slot) \cup Drained(s)
     IN \/ /\ Changes(s, rest \cup {"transcript", "row", "messages"}, Slot \cup {"transcript"})
           /\ acked' = acked \cup {s}
           /\ UNCHANGED faults
        \/ /\ Fault
           /\ \/ \E some \in SUBSET Drained(s) : Changes(s, disk[s] \cup some, {})
              \/ \E cut \in PersistCut : Changes(s, rest \cup cut.has, cut.synced)
           /\ UNCHANGED acked
  /\ UNCHANGED <<life, open, op, deleted, crashes, late>>

\* A chat session's goal store: no lock, no generation.
GoalWrite(h) ==
  /\ open[h] # Closed
  /\ "goal" \notin disk[open[h].id]
  /\ Changes(open[h].id, disk[open[h].id] \cup {"goal"}, {})
  /\ IF Writable(h) THEN UNCHANGED late ELSE late < MaxLate /\ late' = late + 1
  /\ UNCHANGED <<life, open, op, history, faults, crashes>>

\* The app lets go of a chat session.
DropHandle(h) ==
  /\ open[h] # Closed
  /\ open' = [open EXCEPT ![h] = Closed]
  /\ UNCHANGED <<disk, dur, life, op, history, bounds>>

\* The process dies; memory is gone.
Restart ==
  /\ crashes < MaxCrashes /\ faults + crashes < MaxMishaps
  /\ crashes' = crashes + 1
  /\ life' = [s \in Ids |-> Nothing]
  /\ open' = [h \in Handles |-> Closed]
  /\ op' = NoOp
  /\ UNCHANGED <<history, faults, late>>

Crash == "process" \in CrashKinds /\ Restart /\ UNCHANGED <<disk, dur>>

Unsynced == {e \in Ids \X Artifacts : (e[2] \in disk[e[1]]) # (e[2] \in dur[e[1]])}

\* Whatever was not synced falls one way or the other.
PowerLoss ==
  /\ "power" \in CrashKinds
  /\ Restart
  /\ \E kept \in SUBSET Unsynced :
       disk' = [s \in Ids |-> (disk[s] \cap dur[s]) \cup {a \in Artifacts : <<s, a>> \in kept}]
  /\ dur' = disk'

Working ==
  \/ TakeStep \/ EnsureMarker \/ RecordsGone \/ RowsGone \/ FilesGone \/ Restore \/ Cleaned
  \/ Preflight \/ RecoverMarked \/ ResolveRecord \/ RefuseRecord \/ DeleteUnpublished \/ DeleteGhost
  \/ ReconcileLegacy \/ Recovered
  \/ List \/ Delete \/ Deleted \/ Create \/ CreateWrite \/ CreateUndo \/ Failed
  \/ Resume \/ Attach
  \/ Fork \/ ForkId \/ ForkStaged \/ ForkPublish \/ ForkCommit
  \/ Undo \/ UndoIndex \/ UndoFiles \/ UndoMark \/ UndoRemark \/ Undone

Next ==
  \/ Working \/ BeginAny
  \/ \E h \in Handles : Persist(h) \/ GoalWrite(h) \/ DropHandle(h)
  \/ Crash \/ PowerLoss

Spec == Init /\ [][Next]_vars
FairSpec == Spec /\ WF_vars(Working) /\ WF_vars(BeginAny)

-----------------------------------------------------------------------------
(* What the store may hold when the app first opens it: no marker over a
   transcript; a trace of each transcript, and messages only under a row; and
   each session at rest or marked. *)

LeftsUnmarked == \A left \in Lefts : "transcript" \in left => left \cap Markers = {}

LeftsTraced ==
  \A left \in Lefts : /\ "transcript" \in left => left \cap ({"row"} \cup Slot \cup Markers) # {}
                      /\ "messages" \in left => "row" \in left

\* An index is over a transcript or a record says that it is not; the baseline
\* is over messages unless a record is there; of the records there is one.
RestOK(D) ==
  /\ {"row", "messages"} \subseteq D /\ "transcript" \notin D => "oversized" \in D
  /\ "baseline" \in D /\ D \cap Slot = {} /\ D \cap {"row", "transcript"} # {} => "messages" \in D
  /\ "record" \in D => D \cap {"oversized", "reconciling"} = {}

LeftsWhole == \A left \in Lefts : RestOK(left) \/ left \cap Markers # {}

-----------------------------------------------------------------------------
(* Properties *)

\* Every variable has its type.
TypeOK ==
  /\ disk \in [Ids -> SUBSET Artifacts] /\ dur \in [Ids -> SUBSET Artifacts]
  /\ life \in [Ids -> {Nothing, Tombstone, Quarantine} \cup {Active(g) : g \in Gens}]
  /\ open \in [Handles -> {Closed} \cup [id : Ids, gen : Gens]]
  /\ deleted \subseteq Ids /\ acked \subseteq Ids

Idle == op = NoOp

\* The browser is never shown a half-made fork or a half-deleted session: what
\* list_sessions answers has its transcript and its messages and no marker.
ShownWhole ==
  At("list") => \A s \in Listed : /\ {"transcript", "messages"} \subseteq disk[s]
                                  /\ disk[s] \cap Markers = {}

\* When delete_session has answered Ok nothing of the session is left or comes
\* back, but for a goal its chat session writes afterwards and the marker of a
\* further deletion.
DeletedStays == \A s \in deleted : disk[s] \cup dur[s] \subseteq {"goal", "delmark"}

\* The contents of a session that persist_new or fork_session answered Ok for
\* stay on stable storage until the user deletes it.
AckedStays == \A s \in acked : "transcript" \in disk[s] \cap dur[s]

\* Between operations, as long as no I/O failed, a transcript is never without a
\* row to find it by, a record to recover it from or a marker to remove it by.
NoOrphan ==
  Idle /\ faults = 0 => \A s \in Ids : "transcript" \in disk[s]
                           => disk[s] \cap ({"row"} \cup Slot \cup Markers) # {}

\* A handle that may write keeps that right until it is dropped, its session is
\* deleted or the process dies: no resume, fork, create or recovery takes it.
HandleKept ==
  [][\A h \in Handles : Writable(h) /\ open'[h] = open[h]
                           => \/ life'[open[h].id] = life[open[h].id]
                              \/ life'[open[h].id] = Tombstone /\ op.kind = "delete"]_vars

\* Markers and records do not stay: the operations that follow finish what was
\* cut off, all but the rebuilding that recovery refuses.
Heals ==
  \A s \in Ids : /\ []<>(disk[s] \cap Markers = {})
                 /\ []<>(disk[s] \cap Slot = {} \/ s \in Refused)

\* A goal never outlives its session.
DetachedGoal == \A s \in deleted : "goal" \notin disk[s]

\* The assertion in preflight_pending_lifecycle_recovery: a quarantined session
\* has a marker on disk.
QuarantineMarked == At("preflight") => Unmarked = {}
=============================================================================
