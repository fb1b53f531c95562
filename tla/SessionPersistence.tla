------------------------- MODULE SessionPersistence -------------------------
(***************************************************************************)
(* The durable append protocol of one stored chat session                  *)
(* (rust/ffi/src/sessions.rs): SessionPersistence::persist_new, the        *)
(* pending-index intent it publishes before it touches the transcript, the *)
(* recovery every other entry point runs first, and resume.                *)
(*                                                                         *)
(* Three files and one database describe the session: the JSONL            *)
(* transcript (the source of truth), at most one pending-index record, the *)
(* index-baseline marker, and the rows of index.sqlite.  Files exist twice *)
(* here: as the running system sees them and as they are on stable storage *)
(* (the dur* variables), which is what a power loss may fall back to.  A   *)
(* process crash loses the memory of the process only.  SQLite commits are *)
(* durable when they return (the engine's store, external).                *)
(*                                                                         *)
(* One action is one durable operation of the code, so that a crash can    *)
(* fall between any two.  SESSION_LIFECYCLE_LOCK makes the operations of   *)
(* one session exclude each other: op is the one that holds it, at is the  *)
(* call it performs next.                                                  *)
(***************************************************************************)
EXTENDS Naturals, Sequences

CONSTANTS
  MaxMessages,  \* bound: messages of the conversation
  MaxUuid,      \* bound: message UUIDs drawn, one per append attempt
  MaxFaults,    \* bound: I/O errors
  MaxCrashes,   \* bound: process crashes and power losses
  MaxLosses,    \* bound: times index.sqlite disappears
  CrashKinds    \* the crashes considered, out of {"process", "power"}

ASSUME BoundsAssumption ==
  /\ MaxMessages \in Nat
  /\ MaxUuid \in Nat
  /\ MaxFaults \in Nat
  /\ MaxCrashes \in Nat
  /\ MaxLosses \in Nat
  /\ CrashKinds \subseteq {"process", "power"}

VARIABLES
  file, durFile,          \* transcripts/{uuid}.jsonl
  record, durRecord,      \* pending-index/{uuid}.json
  baseline, durBaseline,  \* index-baselines/{uuid}.json
  index,                  \* the session's rows of index.sqlite
  live,                   \* a SessionPersistence handle holds the writer lease
  persisted, last, queue, uncertain,  \* PersistState of that handle
  conv,                   \* messages in the ChatSession's memory
  prepared,               \* PreparedTranscriptAppend of the running append
  known,                  \* SESSION_LIFECYCLE_LOCK has an entry for the session
  gone,                   \* the session was deleted (tombstoned)
  op, at,                 \* the operation that runs and its next call
  uuids, faults, crashes, losses,     \* counters of the bounds
  acked                   \* messages persist_new has answered Ok for

disk == <<file, durFile, record, durRecord, baseline, durBaseline>>
handle == <<live, persisted, last, queue, uncertain, conv>>
bounds == <<uuids, faults, crashes, losses>>
vars == <<disk, index, handle, prepared, known, gone, op, at, bounds, acked>>

-----------------------------------------------------------------------------
(* Data *)

NoUuid == 0
Uuid == Nat \ {NoUuid}

\* One transcript line: the message, its UUID and the UUID of the line before.
Entry == [uuid : Uuid, parent : Uuid \cup {NoUuid}, msg : Nat \ {0}]

\* What follows the last complete line of the file: nothing, a piece of a line
\* ("torn"), or the final newline of an otherwise complete line is missing.
Tails == {"clean", "torn", "open"}

Transcript == [exists : BOOLEAN, lines : Seq(Entry), tail : Tails]
NoFile == [exists |-> FALSE, lines |-> <<>>, tail |-> "clean"]

\* The model field of a record tells a legacy reconciliation from an append.
Record == [uuid : Uuid, kind : {"append", "legacy"}]
NoRecord == [uuid |-> NoUuid, kind |-> "none"]

\* PendingIndexWork: an intent the handle has queued.
Work == [uuid : Uuid, appended : BOOLEAN]

EmptyIndex == [exists |-> TRUE, row |-> FALSE, msgs |-> {}]
LostIndex == [exists |-> FALSE, row |-> FALSE, msgs |-> {}]

Ops == {"none", "persist", "list", "resume"}

PersistSteps ==
  {"resolve", "discard", "open", "drain", "intent", "write", "sync", "link",
   "rollback", "recheck", "rollback2", "withdraw"}
PublishSteps == {"row", "message", "retire"}
RecoverSteps ==
  {"preflight", "find", "expunge", "legacy", "legacyIntent", "legacyReset",
   "legacyRow", "legacyFill", "legacyBaseline"}
ResumeSteps == {"load", "resumeRow", "resumeFill", "resumeBaseline", "attach"}

Steps == {"idle"} \cup PersistSteps \cup PublishSteps \cup RecoverSteps
           \cup ResumeSteps

UuidsOf(f) == {f.lines[i].uuid : i \in DOMAIN f.lines}

LastUuid(f) ==
  IF f.lines = <<>> THEN NoUuid ELSE f.lines[Len(f.lines)].uuid

\* repair_incomplete_transcript_tail: a complete last line gets its newline,
\* a torn one is cut off; either way the lines before it stay.
Repaired(f) == [f EXCEPT !.tail = "clean"]

\* The repair syncs the file it changed, and only that one: a file that ends
\* in a newline is left as it is, synced or not.
RepairTailSkipped == UNCHANGED <<file, durFile>>

RepairTail ==
  /\ file' = Repaired(file)
  /\ durFile' = IF file.tail = "clean" THEN durFile
                ELSE [durFile EXCEPT !.lines = file.lines, !.tail = "clean"]

-----------------------------------------------------------------------------
(* Initial states: a session SessionPersistence::create has just set up, or *)
(* one an older version left behind, without lifecycle files: a transcript, *)
(* an index row, no record of how much of the transcript the index holds.   *)

LegacyLines(n) == [i \in 1..n |-> [uuid |-> i, parent |-> i - 1, msg |-> i]]

Idle == /\ op = "none"
        /\ at = "idle"
        /\ persisted = 0
        /\ last = NoUuid
        /\ queue = <<>>
        /\ uncertain = FALSE
        /\ conv = 0
        /\ prepared = [existed |-> FALSE, len |-> 0]
        /\ gone = FALSE
        /\ faults = 0 /\ crashes = 0 /\ losses = 0
        /\ acked = 0
        /\ record = NoRecord /\ durRecord = NoRecord

Created == /\ file = NoFile
           /\ baseline = TRUE
           /\ index = EmptyIndex
           /\ live = TRUE
           /\ known = TRUE
           /\ uuids = 0

Legacy(n, tail, indexed) ==
  /\ file = [exists |-> TRUE, lines |-> LegacyLines(n), tail |-> tail]
  /\ baseline = FALSE
  /\ index = [exists |-> TRUE, row |-> TRUE, msgs |-> indexed]
  /\ live = FALSE
  /\ known = FALSE
  /\ uuids = n

Init == /\ \/ Created
           \/ \E n \in 0..(IF MaxMessages < MaxUuid THEN MaxMessages ELSE MaxUuid) :
                \E tail \in Tails, indexed \in SUBSET (1..n) :
                  /\ tail = "open" => n > 0
                  /\ Legacy(n, tail, indexed)
        /\ durFile = file
        /\ durBaseline = baseline
        /\ Idle

-----------------------------------------------------------------------------
(* Control *)

Goto(step) == at' = step /\ UNCHANGED op

\* The operation returns; the lock is released.
Return == op' = "none" /\ at' = "idle"

\* n calls in a row fail, within the budget of I/O errors.
Faults(n) == faults + n <= MaxFaults /\ faults' = faults + n
Fault == Faults(1)
NoFault == UNCHANGED faults

\* The recovery is over: list has its rows, resume goes on to its session.
AfterRecovery == IF op = "resume" THEN Goto("load") ELSE Return

\* The calls that change nothing when they fail; the operation returns the
\* error.  (Resolving, finding and loading may leave a tail cut but unsynced.)
CleanSteps ==
  {"open", "drain", "row", "message", "preflight", "legacy", "legacyReset",
   "legacyRow", "legacyFill", "resumeRow", "resumeFill", "attach"}
LoadingSteps == {"resolve", "find", "load"}

FailClean ==
  /\ at \in CleanSteps
  /\ Fault
  /\ Return
  /\ UNCHANGED <<disk, index, handle, prepared, known, gone, uuids, crashes,
                 losses, acked>>

FailLoading ==
  /\ at \in LoadingSteps
  /\ Fault
  /\ file' \in {file, Repaired(file)}
  /\ Return
  /\ UNCHANGED <<durFile, record, durRecord, baseline, durBaseline, index,
                 handle, prepared, known, gone, uuids, crashes, losses, acked>>

-----------------------------------------------------------------------------
(* The pending-index record *)

\* write_json_record_atomically: the record is installed by a rename and then
\* the directory is synced.  A failure before the rename leaves nothing (the
\* temporary is removed), one after it leaves a record that is not durable.
InstallRecord(r) == record' = r /\ durRecord' = r
InstallFails(r) == /\ record' \in {record, r}
                   /\ UNCHANGED durRecord

\* remove_pending_index_record succeeds.
RemoveRecord == record' = NoRecord /\ durRecord' = NoRecord

\* It fails: the unlink failed; or the sync after the unlink failed and the
\* record was written back; or that failed too.
RemoveFails(r) == \/ UNCHANGED <<record, durRecord>> /\ Fault
                  \/ /\ record = r
                     /\ InstallRecord(r)
                     /\ Fault
                  \/ /\ record = r
                     /\ record' \in {r, NoRecord}
                     /\ UNCHANGED durRecord
                     /\ Faults(2)

-----------------------------------------------------------------------------
(* persist_new *)

Front == queue[1]
Pop == queue' = Tail(queue)

FrontRecord == [uuid |-> Front.uuid, kind |-> "append"]

\* The caller hands in n messages, those it had and any new ones (as many as
\* there are UUIDs left for: a bound).
BeginPersist(n) ==
  /\ op = "none" /\ live /\ ~gone /\ ~uncertain
  /\ n <= persisted + MaxUuid - uuids
  /\ conv' = n
  /\ IF queue = <<>> /\ n <= persisted
     THEN acked' = n /\ UNCHANGED <<op, at>>
     ELSE op' = "persist" /\ at' = "resolve" /\ UNCHANGED acked
  /\ UNCHANGED <<disk, index, live, persisted, last, queue, uncertain,
                 prepared, known, gone, bounds>>

\* resolve_pending_index_transcript: a queued record whose append failed is
\* looked for in the transcript.
Resolve ==
  /\ at = "resolve"
  /\ IF queue = <<>> \/ Front.appended
     THEN /\ Goto("open")
          /\ UNCHANGED <<file, durFile, persisted, last, queue>>
     ELSE IF file.exists /\ Front.uuid \in UuidsOf(file)
     THEN /\ RepairTail
          /\ queue' = [queue EXCEPT ![1].appended = TRUE]
          /\ persisted' = persisted + 1
          /\ last' = Front.uuid
          /\ Goto("open")
     ELSE /\ RepairTail
          /\ Goto("discard")
          /\ UNCHANGED <<persisted, last, queue>>
  /\ UNCHANGED <<record, durRecord, baseline, durBaseline, index, live,
                 uncertain, conv, prepared, known, gone, bounds, acked>>

\* remove_pending_index_record answers an error without touching the record
\* when the slot holds another one, or none and that is not acceptable.
Removable(r, missingOk) == record = r \/ (missingOk /\ record = NoRecord)

\* The record is dropped (missing_ok: recovery may have dropped it before).
Discard ==
  /\ at = "discard"
  /\ IF Removable(FrontRecord, TRUE)
     THEN \/ RemoveRecord /\ Pop /\ NoFault /\ Goto("resolve")
          \/ RemoveFails(FrontRecord) /\ Return /\ UNCHANGED queue
     ELSE UNCHANGED <<record, durRecord, queue, faults>> /\ Return
  /\ UNCHANGED <<file, durFile, baseline, durBaseline, index, live, persisted,
                 last, uncertain, conv, prepared, known, gone, uuids, crashes,
                 losses, acked>>

\* checked_index_store: when index.sqlite is gone its baselines are dropped,
\* durably, before SQLite creates an empty database.
Stale == ~index.exists /\ (baseline \/ durBaseline)

InvalidateBaselines ==
  /\ at \in {"open", "preflight"}
  /\ Stale
  /\ \/ /\ baseline' = FALSE /\ durBaseline' = FALSE
        /\ NoFault
        /\ UNCHANGED <<op, at>>
     \/ /\ baseline' \in {baseline, FALSE}
        /\ UNCHANGED durBaseline
        /\ Fault
        /\ Return
  /\ UNCHANGED <<file, durFile, record, durRecord, index, handle, prepared,
                 known, gone, uuids, crashes, losses, acked>>

CreatesIndexFirst == index' = [index EXCEPT !.exists = TRUE]

CheckedIndexStore == ~Stale /\ index' = [index EXCEPT !.exists = TRUE]

OpenIndex ==
  /\ at = "open"
  /\ CheckedIndexStore
  /\ Goto("drain")
  /\ UNCHANGED <<disk, handle, prepared, known, gone, bounds, acked>>

\* drain_pending_index and the loop over the messages not yet persisted.
DrainForgotten ==
  /\ at = "drain"
  /\ IF conv <= persisted THEN Return /\ acked' = conv
     ELSE Goto("intent") /\ UNCHANGED acked
  /\ UNCHANGED <<disk, index, handle, prepared, known, gone, bounds>>

Drain ==
  /\ at = "drain"
  /\ IF queue # <<>>
     THEN /\ IF Front.appended THEN Goto("row") ELSE Return
          /\ UNCHANGED acked
     ELSE IF conv <= persisted
     THEN Return /\ acked' = conv
     ELSE Goto("intent") /\ UNCHANGED acked
  /\ UNCHANGED <<disk, index, handle, prepared, known, gone, bounds>>

\* write_pending_index_record for the next message: a fresh UUID, the append
\* prepared, the intent published.  A record left in the slot is a mismatch.
\* A failure is followed by a look at the slot: a record that was installed is
\* queued, to be resolved later.  If the look fails too nothing is queued,
\* whatever is in the slot.
PublishIntent ==
  /\ at = "intent"
  /\ uuids' = uuids + 1
  /\ prepared' = [existed |-> file.exists, len |-> Len(file.lines)]
  /\ LET r == [uuid |-> uuids + 1, kind |-> "append"]
         work == [uuid |-> uuids + 1, appended |-> FALSE]
     IN IF record = NoRecord
        THEN \/ /\ InstallRecord(r)
                /\ queue' = Append(queue, work)
                /\ NoFault
                /\ Goto("write")
             \/ /\ Fault
                /\ InstallFails(r)
                /\ queue' = IF record' = r THEN Append(queue, work) ELSE queue
                /\ Return
             \/ /\ Faults(2)
                /\ InstallFails(r)
                /\ UNCHANGED queue
                /\ Return
        ELSE UNCHANGED <<record, durRecord, queue, faults>> /\ Return
  /\ UNCHANGED <<file, durFile, baseline, durBaseline, index, live, persisted,
                 last, uncertain, conv, known, gone, crashes, losses, acked>>

\* append_transcript_entry: write_all.  A failed write leaves any part of the
\* line, the whole of it included; a failed open leaves the file alone.
NextLine == [uuid |-> Front.uuid, parent |-> last, msg |-> persisted + 1]

WithLine(f, tail) ==
  [exists |-> TRUE, lines |-> Append(f.lines, NextLine), tail |-> tail]

WriteLine ==
  /\ at = "write"
  /\ \/ /\ file' = WithLine(file, "clean")
        /\ NoFault
        /\ Goto("sync")
     \/ /\ Fault
        /\ file' \in {[file EXCEPT !.exists = TRUE, !.tail = "torn"],
                      [file EXCEPT !.exists = TRUE],
                      WithLine(file, "open"), WithLine(file, "clean")}
        /\ Goto("rollback")
     \/ /\ Fault
        /\ UNCHANGED file
        /\ Goto("withdraw")
  /\ UNCHANGED <<durFile, record, durRecord, baseline, durBaseline, index,
                 handle, prepared, known, gone, uuids, crashes, losses, acked>>

\* The append counts: the queued record is marked, the handle moves on.
Appended ==
  /\ queue' = [queue EXCEPT ![Len(queue)].appended = TRUE]
  /\ persisted' = persisted + 1
  /\ last' = queue[Len(queue)].uuid
  /\ Goto("drain")

\* TranscriptDurability::Immediate: sync_all on the file.
SyncLineDeferred ==
  /\ at = "sync"
  /\ IF prepared.existed THEN Appended
     ELSE Goto("link") /\ UNCHANGED <<queue, persisted, last>>
  /\ UNCHANGED <<file, durFile, record, durRecord, baseline, durBaseline, index,
                 live, uncertain, conv, prepared, known, gone, bounds, acked>>

SyncLineAlone ==
  /\ at = "sync"
  /\ durFile' = [durFile EXCEPT !.lines = file.lines, !.tail = file.tail]
  /\ Appended
  /\ UNCHANGED <<file, record, durRecord, baseline, durBaseline, index, live,
                 uncertain, conv, prepared, known, gone, bounds, acked>>

SyncLine ==
  /\ at = "sync"
  /\ \/ /\ durFile' = [durFile EXCEPT !.lines = file.lines, !.tail = file.tail]
        /\ NoFault
        /\ IF prepared.existed THEN Appended
           ELSE Goto("link") /\ UNCHANGED <<queue, persisted, last>>
     \/ /\ Fault
        /\ Goto("rollback")
        /\ UNCHANGED <<durFile, queue, persisted, last>>
  /\ UNCHANGED <<file, record, durRecord, baseline, durBaseline, index, live,
                 uncertain, conv, prepared, known, gone, uuids, crashes,
                 losses, acked>>

\* A new file needs its directory entry synced; if that fails it is removed,
\* and if that fails too the outcome is uncertain.
SyncNewFile ==
  /\ at = "link"
  /\ \/ /\ durFile' = [durFile EXCEPT !.exists = TRUE]
        /\ NoFault
        /\ Appended
        /\ UNCHANGED <<file, uncertain>>
     \/ /\ Fault
        /\ file' = NoFile /\ durFile' = NoFile
        /\ Goto("withdraw")
        /\ UNCHANGED <<queue, persisted, last, uncertain>>
     \/ /\ Faults(2)
        /\ file' \in {file, NoFile}
        /\ uncertain' = TRUE
        /\ Return
        /\ UNCHANGED <<durFile, queue, persisted, last>>
  /\ UNCHANGED <<record, durRecord, baseline, durBaseline, index, live, conv,
                 prepared, known, gone, uuids, crashes, losses, acked>>

\* rollback_transcript_append: back to the length before the append, synced;
\* a file the append created is removed, durably.
CutNothing(f) == IF prepared.existed THEN [f EXCEPT !.tail = "clean"] ELSE NoFile
CutAll(f) == NoFile

Cut(f) == IF prepared.existed
          THEN [f EXCEPT !.lines = SubSeq(@, 1, prepared.len), !.tail = "clean"]
          ELSE NoFile

RolledBack == /\ file' = Cut(file)
              /\ durFile' = IF prepared.existed
                            THEN [durFile EXCEPT !.lines = Cut(file).lines,
                                                 !.tail = "clean"]
                            ELSE NoFile

\* A failed rollback changed nothing, or changed the file without syncing it.
RollbackFails == file' \in {file, Cut(file)} /\ UNCHANGED durFile

Rollback ==
  /\ at \in {"rollback", "rollback2"}
  /\ \/ /\ RolledBack
        /\ NoFault
        /\ Goto("withdraw")
        /\ UNCHANGED uncertain
     \/ /\ Fault
        /\ RollbackFails
        /\ IF at = "rollback" THEN Goto("recheck") /\ UNCHANGED uncertain
           ELSE Return /\ uncertain' = TRUE
  /\ UNCHANGED <<record, durRecord, baseline, durBaseline, index, live,
                 persisted, last, queue, conv, prepared, known, gone, uuids,
                 crashes, losses, acked>>

\* recover_complete_transcript_append: if exactly the line is there after all,
\* sync it, and the directory of a new file, and count the append as done.
LineComplete == /\ file.exists
                /\ file.tail = "clean"
                /\ Len(file.lines) = prepared.len + 1
                /\ file.lines[Len(file.lines)] = NextLine

Recheck ==
  /\ at = "recheck"
  /\ \/ /\ LineComplete
        /\ durFile' = file
        /\ NoFault
        /\ Appended
     \/ /\ ~LineComplete
        /\ NoFault
        /\ Goto("rollback2")
        /\ UNCHANGED <<durFile, queue, persisted, last>>
     \/ /\ Fault
        /\ Goto("rollback2")
        /\ UNCHANGED <<durFile, queue, persisted, last>>
  /\ UNCHANGED <<file, record, durRecord, baseline, durBaseline, index, live,
                 uncertain, conv, prepared, known, gone, uuids, crashes,
                 losses, acked>>

\* The append did not happen: its intent is removed and the error returned.
\* If the intent cannot be removed it stays queued, to be resolved later.
Withdraw ==
  /\ at = "withdraw"
  /\ IF Removable(FrontRecord, FALSE)
     THEN \/ RemoveRecord /\ Pop /\ NoFault
          \/ RemoveFails(FrontRecord) /\ UNCHANGED queue
     ELSE UNCHANGED <<record, durRecord, queue, faults>>
  /\ Return
  /\ UNCHANGED <<file, durFile, baseline, durBaseline, index, live, persisted,
                 last, uncertain, conv, prepared, known, gone, uuids, crashes,
                 losses, acked>>

-----------------------------------------------------------------------------
(* publish_pending_index_record and the removal of the record: the tail of  *)
(* drain_pending_index and of the recovery alike.                           *)

\* The record that is published: the one in hand.
Published == IF op = "persist" THEN FrontRecord ELSE record

SaveRow == /\ at = "row"
           /\ index' = [index EXCEPT !.row = TRUE]
           /\ Goto("message")
           /\ UNCHANGED <<disk, handle, prepared, known, gone, bounds, acked>>

SaveMessage ==
  /\ at = "message"
  /\ index' = [index EXCEPT !.msgs = @ \cup {Published.uuid}]
  /\ Goto("retire")
  /\ UNCHANGED <<disk, handle, prepared, known, gone, bounds, acked>>

RetirePopsFirst ==
  /\ at = "retire"
  /\ IF op = "persist" THEN Pop ELSE UNCHANGED queue
  /\ \/ /\ RemoveRecord
        /\ NoFault
        /\ IF op = "persist" THEN Goto("drain") ELSE AfterRecovery
     \/ RemoveFails(Published) /\ Return
  /\ UNCHANGED <<file, durFile, baseline, durBaseline, index, live, persisted,
                 last, uncertain, conv, prepared, known, gone, uuids, crashes,
                 losses, acked>>

\* persist_new accepts that the record is gone, the recovery does not.
Retire ==
  /\ at = "retire"
  /\ IF Removable(Published, op = "persist")
     THEN \/ /\ RemoveRecord
             /\ NoFault
             /\ IF op = "persist" THEN Pop /\ Goto("drain")
                ELSE AfterRecovery /\ UNCHANGED queue
          \/ RemoveFails(Published) /\ Return /\ UNCHANGED queue
     ELSE UNCHANGED <<record, durRecord, queue, faults>> /\ Return
  /\ UNCHANGED <<file, durFile, baseline, durBaseline, index, live, persisted,
                 last, uncertain, conv, prepared, known, gone, uuids, crashes,
                 losses, acked>>

-----------------------------------------------------------------------------
(* recover_storage_unlocked, the first thing list_sessions and resume do    *)

BeginRecovery(goal) ==
  /\ op = "none"
  /\ op' = goal /\ at' = "preflight"
  /\ UNCHANGED <<disk, index, handle, prepared, known, gone, bounds, acked>>

Unpublished == index.row /\ index.msgs = {}

\* preflight_storage_recovery: the records first; a session an older version
\* left (no record, no baseline, unknown to this process, nothing indexed) is
\* a candidate for the zero-count migration.  The index store is opened here.
Preflight ==
  /\ at = "preflight"
  /\ CheckedIndexStore
  /\ IF record # NoRecord THEN Goto("find")
     ELSE IF Unpublished /\ index.exists /\ ~known /\ ~baseline
     THEN Goto("legacy")
     ELSE AfterRecovery
  /\ UNCHANGED <<disk, handle, prepared, known, gone, bounds, acked>>

RecordPresentAssumed == file.exists

RecordPresent == file.exists /\ record.uuid \in UuidsOf(file)
NoMessagesOfRecord == ~RecordPresent

NoMessages == ~file.exists \/ file.lines = <<>>

AbsentLeft == Return

\* A message the transcript lacks was never appended: its record is dropped.
Absent == Goto("retire")

\* find_pending_index_record_in_transcript and the choice recover_pending_-
\* index_plan, classify_absent_pending_index_recovery and recover_legacy_-
\* pending_reconciliation make from it.
FindRecord ==
  /\ at = "find"
  /\ RepairTail
  /\ IF record.kind = "legacy"
     THEN IF RecordPresent THEN Goto("legacyIntent") ELSE Return
     ELSE IF RecordPresent THEN Goto("row")
     ELSE IF NoMessages /\ Unpublished THEN Goto("expunge")
     ELSE Absent
  /\ UNCHANGED <<record, durRecord, baseline, durBaseline, index, handle,
                 prepared, known, gone, bounds, acked>>

\* begin_session_deletion_and_tombstone and cleanup_session_artifacts, taken
\* as one step here (SessionLifecycle takes them apart): nothing is left.
Expunge ==
  /\ at = "expunge"
  /\ file' = NoFile /\ durFile' = NoFile
  /\ record' = NoRecord /\ durRecord' = NoRecord
  /\ baseline' = FALSE /\ durBaseline' = FALSE
  /\ index' = [index EXCEPT !.row = FALSE, !.msgs = {}]
  /\ gone' = TRUE /\ known' = TRUE
  /\ AfterRecovery
  /\ UNCHANGED <<handle, prepared, bounds, acked>>

\* recover_legacy_zero_count_candidate
InspectLegacy ==
  /\ at = "legacy"
  /\ IF NoMessages
     THEN Goto("expunge") /\ UNCHANGED <<file, durFile>>
     ELSE Goto("legacyIntent") /\ RepairTail
  /\ UNCHANGED <<record, durRecord, baseline, durBaseline, index, handle,
                 prepared, known, gone, bounds, acked>>

\* reconcile_legacy_zero_count_candidate: a record naming the first message
\* is published (or the one there is synced) before the rows are rebuilt.
LegacyRecord == [uuid |-> file.lines[1].uuid, kind |-> "legacy"]

LegacyIntent ==
  /\ at = "legacyIntent"
  /\ IF record \in {NoRecord, LegacyRecord}
     THEN \/ InstallRecord(LegacyRecord) /\ NoFault /\ Goto("legacyReset")
          \/ InstallFails(LegacyRecord) /\ Fault /\ Return
     ELSE UNCHANGED <<record, durRecord, faults>> /\ Return
  /\ UNCHANGED <<file, durFile, baseline, durBaseline, index, handle, prepared,
                 known, gone, uuids, crashes, losses, acked>>

LegacyReset ==
  /\ at = "legacyReset"
  /\ index' = EmptyIndex
  /\ Goto("legacyRow")
  /\ UNCHANGED <<disk, handle, prepared, known, gone, bounds, acked>>

\* The row of the session, as the legacy migration and resume save it.
RebuildRow ==
  /\ at \in {"legacyRow", "resumeRow"}
  /\ index' = [index EXCEPT !.row = TRUE]
  /\ Goto(IF at = "legacyRow" THEN "legacyFill"
          ELSE IF baseline THEN "attach" ELSE "resumeFill")
  /\ UNCHANGED <<disk, handle, prepared, known, gone, bounds, acked>>

\* reconcile_loaded_transcript: save_message for every line in order; saving
\* one that is there changes nothing, so the next is the first that is not.
Unindexed == {i \in DOMAIN file.lines : file.lines[i].uuid \notin index.msgs}

Fill ==
  /\ at \in {"legacyFill", "resumeFill"}
  /\ IF Unindexed = {}
     THEN /\ Goto(IF at = "legacyFill" THEN "legacyBaseline"
                  ELSE "resumeBaseline")
          /\ UNCHANGED index
     ELSE /\ \E i \in Unindexed :
               /\ \A j \in Unindexed : i <= j
               /\ index' = [index EXCEPT !.msgs = @ \cup {file.lines[i].uuid}]
          /\ UNCHANGED <<op, at>>
  /\ UNCHANGED <<disk, handle, prepared, known, gone, bounds, acked>>

\* write_index_baseline: from here on the index is known to be complete.
WriteBaseline ==
  /\ at \in {"legacyBaseline", "resumeBaseline"}
  /\ \/ /\ baseline' = TRUE /\ durBaseline' = TRUE
        /\ NoFault
        /\ Goto(IF at = "legacyBaseline" THEN "retire" ELSE "attach")
     \/ /\ Fault
        /\ baseline' \in {baseline, TRUE}
        /\ UNCHANGED durBaseline
        /\ Return
  /\ UNCHANGED <<file, durFile, record, durRecord, index, handle, prepared,
                 known, gone, uuids, crashes, losses, acked>>

-----------------------------------------------------------------------------
(* resume, after the recovery *)

\* A deleted session, one that is open already and one without a transcript
\* are refused.
Load ==
  /\ at = "load"
  /\ IF gone \/ live \/ ~file.exists
     THEN Return /\ UNCHANGED <<file, durFile>>
     ELSE Goto("resumeRow") /\ RepairTail
  /\ UNCHANGED <<record, durRecord, baseline, durBaseline, index, handle,
                 prepared, known, gone, bounds, acked>>

AttachShort ==
  /\ at = "attach"
  /\ live' = TRUE /\ known' = TRUE
  /\ persisted' = Len(file.lines) - 1
  /\ conv' = Len(file.lines)
  /\ last' = LastUuid(file)
  /\ queue' = <<>>
  /\ uncertain' = FALSE
  /\ Return
  /\ UNCHANGED <<disk, index, prepared, gone, bounds, acked>>

Attach ==
  /\ at = "attach"
  /\ live' = TRUE /\ known' = TRUE
  /\ persisted' = Len(file.lines)
  /\ conv' = Len(file.lines)
  /\ last' = LastUuid(file)
  /\ queue' = <<>>
  /\ uncertain' = FALSE
  /\ Return
  /\ UNCHANGED <<disk, index, prepared, gone, bounds, acked>>

-----------------------------------------------------------------------------
(* The environment *)

HandleGone == /\ live' = FALSE
              /\ persisted' = 0
              /\ last' = NoUuid
              /\ queue' = <<>>
              /\ uncertain' = FALSE
              /\ conv' = 0

\* The ChatSession is dropped: the writer lease with it.
Close ==
  /\ op = "none" /\ live
  /\ HandleGone
  /\ UNCHANGED <<disk, index, prepared, known, gone, op, at, bounds, acked>>

\* index.sqlite is removed between two operations.
LoseIndex ==
  /\ op = "none" /\ index.exists
  /\ losses < MaxLosses /\ losses' = losses + 1
  /\ index' = LostIndex
  /\ UNCHANGED <<disk, handle, prepared, known, gone, op, at, uuids, faults,
                 crashes, acked>>

Crash(kind) ==
  /\ kind \in CrashKinds
  /\ crashes < MaxCrashes /\ crashes' = crashes + 1
  /\ HandleGone
  /\ known' = FALSE
  /\ prepared' = [existed |-> FALSE, len |-> 0]
  /\ Return
  /\ UNCHANGED <<index, gone, uuids, faults, losses, acked>>

\* The process dies, the system lives on.
ProcessCrash == Crash("process") /\ UNCHANGED disk

\* The system may write back on its own what a call has changed: the content of
\* the transcript, its directory entry, the record, the baseline.
WriteBack ==
  /\ "power" \in CrashKinds /\ crashes < MaxCrashes
  /\ \/ /\ file.exists
        /\ durFile' = [durFile EXCEPT !.lines = file.lines, !.tail = file.tail]
        /\ UNCHANGED <<durRecord, durBaseline>>
     \/ /\ durFile' = IF file.exists THEN [durFile EXCEPT !.exists = TRUE]
                      ELSE NoFile
        /\ UNCHANGED <<durRecord, durBaseline>>
     \/ durRecord' = record /\ UNCHANGED <<durFile, durBaseline>>
     \/ durBaseline' = baseline /\ UNCHANGED <<durFile, durRecord>>
  /\ UNCHANGED <<file, record, baseline, index, handle, prepared, known, gone,
                 op, at, bounds, acked>>

\* The system goes down and comes back with what is on stable storage; of lines
\* that were appended and not written back a piece may be there.
SurvivingFiles ==
  IF ~durFile.exists THEN {NoFile}
  ELSE {durFile} \cup {f \in {[durFile EXCEPT !.tail = "torn"]} :
                         Len(file.lines) > Len(durFile.lines)}

PowerLoss ==
  /\ Crash("power")
  /\ file' \in SurvivingFiles /\ durFile' = file'
  /\ record' = durRecord /\ UNCHANGED durRecord
  /\ baseline' = durBaseline /\ UNCHANGED durBaseline

-----------------------------------------------------------------------------
Persist == \/ Resolve \/ Discard \/ InvalidateBaselines \/ OpenIndex
           \/ Drain \/ PublishIntent \/ WriteLine \/ SyncLine
           \/ SyncNewFile \/ Rollback \/ Recheck \/ Withdraw

Publish == SaveRow \/ SaveMessage \/ Retire

Recover == \/ Preflight \/ FindRecord \/ Expunge \/ InspectLegacy
           \/ LegacyIntent \/ LegacyReset \/ RebuildRow \/ Fill
           \/ WriteBaseline

\* The operation that holds the lock takes its next step.
Proceed == \/ Persist \/ Publish \/ Recover \/ Load \/ Attach
           \/ FailClean \/ FailLoading

Next == \/ \E n \in conv..MaxMessages : BeginPersist(n)
        \/ \E goal \in {"list", "resume"} : BeginRecovery(goal)
        \/ Proceed
        \/ Close \/ LoseIndex \/ ProcessCrash \/ WriteBack \/ PowerLoss

Spec == Init /\ [][Next]_vars

\* An operation that runs gets on; the app lists its sessions when it is
\* started and whenever the browser is shown.
FairSpec == /\ Spec
            /\ WF_vars(Proceed)
            /\ WF_vars(BeginRecovery("list"))

-----------------------------------------------------------------------------
(* Properties *)

\* Every variable has its type: what the files, the handle and the control of
\* the protocol can hold.
FileType == file \in Transcript /\ durFile \in Transcript

SlotType == record \in Record \cup {NoRecord} /\ durRecord \in Record \cup {NoRecord}

IndexType == /\ baseline \in BOOLEAN /\ durBaseline \in BOOLEAN
             /\ index \in [exists : BOOLEAN, row : BOOLEAN, msgs : SUBSET Uuid]

HandleType == /\ live \in BOOLEAN /\ uncertain \in BOOLEAN
              /\ persisted \in Nat /\ conv \in Nat
              /\ last \in Uuid \cup {NoUuid}
              /\ queue \in Seq(Work)
              /\ prepared \in [existed : BOOLEAN, len : Nat]

ControlType == /\ known \in BOOLEAN /\ gone \in BOOLEAN
               /\ op \in Ops /\ at \in Steps
               /\ uuids \in Nat /\ faults \in Nat /\ crashes \in Nat
               /\ losses \in Nat /\ acked \in Nat

TypeOK == FileType /\ SlotType /\ IndexType /\ HandleType /\ ControlType

\* The queue of a handle never holds more than one intent, and while an append
\* is between its intent and its outcome the record on disk is that intent's:
\* no crash in between can leave a line nothing on disk tells of.
OneIntent ==
  /\ Len(queue) <= 1
  /\ at \in {"write", "sync", "link", "rollback", "recheck", "rollback2",
             "withdraw"} => queue # <<>> /\ record = FrontRecord

\* When persist_new comes to publish the next intent nothing is queued, and no
\* single failure has left a record in the slot.  Two in one publication (the
\* write, and the look at what it left) can: the intent is then refused, and
\* what is in the slot names no message of the transcript or the index, so that
\* the recovery that drops it loses nothing.
SlotFreeOrStray ==
  at = "intent" =>
    /\ queue = <<>>
    /\ record # NoRecord =>
         faults > 1 /\ record.uuid \notin UuidsOf(file) \cup index.msgs

\* A baseline promises a complete index: every line of the transcript is
\* indexed, or the pending record names it, or says that the rows are being
\* rebuilt.  Resume relies on it and does not look at the lines again.
BaselineCovers ==
  index.exists /\ baseline =>
    \/ record.kind = "legacy"
    \/ \A u \in UuidsOf(file) : u \in index.msgs \/ u = record.uuid

\* The transcript is the conversation: message i on line i, no message twice,
\* no UUID twice, every line naming the one before as its parent.
TranscriptFaithful ==
  \A i \in DOMAIN file.lines :
    /\ file.lines[i].msg = i
    /\ file.lines[i].parent = (IF i = 1 THEN NoUuid ELSE file.lines[i - 1].uuid)
    /\ \A j \in DOMAIN file.lines :
         file.lines[i].uuid = file.lines[j].uuid => i = j

\* append_transcript_entry writes after a complete line, at the place the
\* handle believes the conversation has reached.
CleanAppend ==
  at = "write" => /\ file.tail = "clean"
                  /\ Len(file.lines) = persisted
                  /\ last = LastUuid(file)
                  /\ prepared = [existed |-> file.exists, len |-> persisted]

\* What persist_new has answered Ok for is on stable storage.
AckedDurable ==
  gone \/ acked = 0 \/ (durFile.exists /\ acked <= Len(durFile.lines))

\* The index has no message the transcript lacks.
IndexSound == index.msgs \subseteq UuidsOf(file)

\* The index has no message whose line, or whose file, a power loss could still
\* take away.
PublishedIsSynced ==
  index.msgs = {} \/ (durFile.exists /\ index.msgs \subseteq UuidsOf(durFile))

\* The sessions recovery deletes on its own (an intent, or a row without
\* messages, over an empty transcript) are none of which persist_new has
\* answered Ok for a message.
ExpungesUnacked == at = "expunge" => acked = 0

\* No step of the program, a crash between any two included, takes a message
\* back that persist_new has answered Ok for.
AckedStays ==
  [][~gone' => \A i \in 1..acked : i \in DOMAIN file.lines =>
       i \in DOMAIN file'.lines /\ file'.lines[i] = file.lines[i]]_vars

\* A pending record does not stay: some recovery or the next persist resolves
\* it, whatever failed before.
Heals == record # NoRecord ~> record = NoRecord
=============================================================================
