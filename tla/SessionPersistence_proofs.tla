---------------------- MODULE SessionPersistence_proofs ----------------------
(***************************************************************************)
(* Theorems about SessionPersistence, for every value of the bounds and    *)
(* every number of messages and crashes; those about stable storage state   *)
(* which faults they allow.                                                 *)
(***************************************************************************)
EXTENDS SessionPersistence, SequenceTheorems, TLAPS

(* The inductive invariants *)

LegacySteps == {"legacy", "legacyIntent", "legacyReset", "legacyRow",
                "legacyFill", "legacyBaseline"}
AppendSteps == {"write", "sync", "link", "rollback", "recheck", "rollback2",
                "withdraw"}
AfterLoad == {"resumeRow", "resumeFill", "resumeBaseline", "attach"}

\* Which operation may be at which step.
ControlOK ==
  /\ op = "none" <=> at = "idle"
  /\ at \in PersistSteps => op = "persist"
  /\ at \in RecoverSteps => op \in {"list", "resume"}
  /\ at \in ResumeSteps => op = "resume"
  /\ op = "persist" => live

\* Who owns the slot of the pending record: while there is a handle the intent it
\* has queued, or an intent whose publication failed and could not be inspected.
SlotOK ==
  /\ live => known
  /\ queue # <<>> => live /\ Len(queue) = 1
  /\ live /\ record # NoRecord => record.kind = "append"
  /\ live /\ record # NoRecord /\ queue # <<>> => record = FrontRecord
  /\ at \in ResumeSteps => record = NoRecord
  /\ at = "legacy" => ~known
  /\ at \in LegacySteps \cup AfterLoad => ~live
  /\ at \in AppendSteps => queue # <<>> /\ record = FrontRecord
  /\ at = "intent" => queue = <<>>
  /\ at = "discard" => queue # <<>>
  /\ op = "persist" /\ at \in PublishSteps => queue # <<>>
  /\ at = "find" => record # NoRecord
  /\ op # "persist" /\ at \in {"row", "message"} => record.kind = "append"
  /\ at = "legacyIntent" => file.lines # <<>>
  /\ ~file.exists => file.lines = <<>>
  /\ at \in {"write", "sync", "rollback", "recheck", "rollback2"} =>
       /\ prepared.len <= Len(file.lines)
       /\ ~prepared.existed => prepared.len = 0

SlotInv == TypeOK /\ ControlOK /\ SlotOK

-----------------------------------------------------------------------------
(* What the data helpers return *)

\* An absent transcript is a transcript.
LEMMA NoFileType == NoFile \in Transcript
BY DEF NoFile, Transcript, Tails

\* The steps an action goes to are steps.
LEMMA StepsType ==
  /\ {"idle", "resolve", "discard", "open", "drain", "intent", "write", "sync",
      "link", "rollback", "recheck", "rollback2", "withdraw"} \subseteq Steps
  /\ {"row", "message", "retire", "preflight", "find", "expunge", "legacy",
      "legacyIntent", "legacyReset", "legacyRow", "legacyFill",
      "legacyBaseline"} \subseteq Steps
  /\ {"load", "resumeRow", "resumeFill", "resumeBaseline", "attach"}
      \subseteq Steps
BY DEF Steps, PersistSteps, PublishSteps, RecoverSteps, ResumeSteps

\* A repaired file has its lines.
LEMMA RepairedType ==
  \A f \in Transcript : /\ Repaired(f) \in Transcript
                        /\ Repaired(f).lines = f.lines
                        /\ Repaired(f).exists = f.exists
BY DEF Repaired, Transcript, Tails

\* Repairing the tail keeps the files well-typed and touches no complete line.
LEMMA RepairTailType ==
  ASSUME FileType, RepairTail
  PROVE  FileType' /\ file'.lines = file.lines /\ file'.exists = file.exists
<1>1. file' \in Transcript /\ file'.lines = file.lines /\ file'.exists = file.exists
  BY RepairedType DEF FileType, RepairTail
<1>2. durFile' \in Transcript
  BY DEF FileType, RepairTail, Transcript, Tails
<1> QED
  BY <1>1, <1>2 DEF FileType

\* A line has a UUID, and so has a file that ends in one.
LEMMA LineType ==
  ASSUME FileType
  PROVE  /\ DOMAIN file.lines = 1..Len(file.lines)
         /\ \A i \in DOMAIN file.lines : file.lines[i].uuid \in Uuid
<1>1. file.lines \in Seq(Entry)
  BY DEF FileType, Transcript
<1>2. DOMAIN file.lines = 1..Len(file.lines)
  BY <1>1, LenProperties
<1>3. \A i \in DOMAIN file.lines : file.lines[i] \in Entry
  BY <1>1, <1>2, ElementOfSeq
<1> QED
  BY <1>2, <1>3 DEF Entry

\* The last line of a file, if it has one, names the parent of the next.
LEMMA LastUuidType ==
  ASSUME FileType
  PROVE  /\ Len(file.lines) \in Nat
         /\ LastUuid(file) \in Uuid \cup {NoUuid}
<1>1. file.lines \in Seq(Entry)
  BY DEF FileType, Transcript
<1>2. Len(file.lines) \in Nat
  BY <1>1, LenProperties
<1>3. CASE file.lines = <<>>
  BY <1>2, <1>3 DEF LastUuid
<1>4. CASE file.lines # <<>>
  <2>1. Len(file.lines) \in 1..Len(file.lines)
    BY <1>1, <1>4, EmptySeq
  <2>2. file.lines[Len(file.lines)].uuid \in Uuid
    BY <2>1, LineType
  <2> QED
    BY <1>2, <1>4, <2>2 DEF LastUuid
<1> QED
  BY <1>3, <1>4

\* A reconciliation record of a file with lines is a record.
LEMMA LegacyRecordType ==
  ASSUME FileType, file.lines # <<>>
  PROVE  LegacyRecord \in Record
<1>1. 1 \in DOMAIN file.lines
  <2>1. file.lines \in Seq(Entry)
    BY DEF FileType, Transcript
  <2>2. Len(file.lines) \in Nat \ {0}
    BY <2>1, EmptySeq
  <2> QED
    BY <2>2, LineType
<1> QED
  BY <1>1, LineType DEF LegacyRecord, Record

\* A cut at a length the file reaches leaves a transcript.
LEMMA CutType ==
  ASSUME FileType, HandleType, prepared.len <= Len(file.lines)
  PROVE  /\ Cut(file) \in Transcript
         /\ Len(Cut(file).lines) = (IF prepared.existed THEN prepared.len ELSE 0)
         /\ \A i \in DOMAIN Cut(file).lines :
              i \in DOMAIN file.lines /\ Cut(file).lines[i] = file.lines[i]
<1>1. file.lines \in Seq(Entry) /\ prepared.len \in Nat
  BY DEF FileType, HandleType, Transcript
<1>2. Len(file.lines) \in Nat
  BY <1>1, LenProperties
<1>3. \A i \in 1..prepared.len : file.lines[i] \in Entry
  BY <1>1, <1>2, ElementOfSeq
<1>4. /\ SubSeq(file.lines, 1, prepared.len) \in Seq(Entry)
      /\ Len(SubSeq(file.lines, 1, prepared.len)) = prepared.len
      /\ \A i \in 1..prepared.len :
           SubSeq(file.lines, 1, prepared.len)[i] = file.lines[i]
  BY <1>1, <1>3, SubSeqProperties
<1>5. DOMAIN SubSeq(file.lines, 1, prepared.len) = 1..prepared.len
  BY <1>4, LenProperties
<1>6. CASE prepared.existed
  <2>1. Cut(file) = [file EXCEPT !.lines = SubSeq(@, 1, prepared.len),
                                 !.tail = "clean"]
    BY <1>6 DEF Cut
  <2>2. Cut(file).lines = SubSeq(file.lines, 1, prepared.len)
    BY <2>1 DEF FileType, Transcript
  <2>3. Cut(file) \in Transcript
    BY <2>1, <1>4 DEF FileType, Transcript, Tails
  <2>4. \A i \in 1..prepared.len : i \in 1..Len(file.lines)
    BY <1>1, <1>2
  <2> QED
    BY <1>4, <1>5, <1>6, <2>2, <2>3, <2>4, LineType
<1>7. CASE ~prepared.existed
  <2>1. Cut(file) = NoFile
    BY <1>7 DEF Cut
  <2>2. Len(NoFile.lines) = 0 /\ DOMAIN NoFile.lines = {}
    BY DEF NoFile
  <2> QED
    BY <1>7, <2>1, <2>2, NoFileType
<1> QED
  BY <1>6, <1>7

\* The queue of one intent: taking it off empties the queue, marking it keeps
\* its UUID.
LEMMA QueueOfOne ==
  ASSUME HandleType, queue # <<>>, Len(queue) = 1
  PROVE  /\ Front \in Work /\ Front.uuid \in Uuid
         /\ Tail(queue) = <<>>
         /\ FrontRecord \in Record
         /\ [queue EXCEPT ![1].appended = TRUE] \in Seq(Work)
         /\ Len([queue EXCEPT ![1].appended = TRUE]) = 1
         /\ [queue EXCEPT ![1].appended = TRUE] # <<>>
         /\ [queue EXCEPT ![1].appended = TRUE][1].uuid = Front.uuid
<1> DEFINE e == [queue[1] EXCEPT !.appended = TRUE]
           marked == [queue EXCEPT ![1] = e]
<1>1. queue \in Seq(Work) /\ 1 \in 1..Len(queue)
  BY DEF HandleType
<1>2. Front \in Work
  BY <1>1, ElementOfSeq DEF Front
<1>3. Tail(queue) = <<>>
  <2>1. Tail(queue) \in Seq(Work) /\ Len(Tail(queue)) = Len(queue) - 1
    BY <1>1, HeadTailProperties
  <2>2. Len(Tail(queue)) = 0
    BY <2>1
  <2> QED
    BY <2>1, <2>2, EmptySeq
<1>4. Front.uuid \in Uuid /\ FrontRecord \in Record
  BY <1>2 DEF FrontRecord, Record, Work
<1>5. e \in Work /\ e.uuid = Front.uuid
  BY <1>2 DEF Front, Work
<1>6. marked \in Seq(Work) /\ Len(marked) = 1 /\ marked[1] = e
  <2> HIDE DEF e
  <2> QED
    BY <1>1, <1>5, ExceptSeq
<1>7. marked # <<>>
  <2> HIDE DEF marked
  <2> QED
    BY <1>6, EmptySeq
<1>8. marked = [queue EXCEPT ![1].appended = TRUE]
  OBVIOUS
<1> HIDE DEF marked, e
<1>9. marked[1].uuid = Front.uuid
  BY <1>5, <1>6
<1> QED
  BY <1>2, <1>3, <1>4, <1>6, <1>7, <1>8, <1>9

\* The line an append writes.
LEMMA NextLineType ==
  ASSUME HandleType, queue # <<>>, Len(queue) = 1
  PROVE  NextLine \in Entry /\ NextLine.uuid = Front.uuid
<1>1. Front.uuid \in Uuid
  BY QueueOfOne
<1> QED
  BY <1>1 DEF NextLine, Entry, HandleType

\* The record that is published is a record.
LEMMA PublishedType ==
  ASSUME SlotType, HandleType, SlotOK, ControlOK, at \in {"row", "message"}
  PROVE  Published \in Record
<1>1. CASE op = "persist"
  <2>1. queue # <<>> /\ Len(queue) = 1
    BY <1>1 DEF SlotOK, PublishSteps
  <2> QED
    BY <1>1, <2>1, QueueOfOne DEF Published
<1>2. CASE op # "persist"
  BY <1>2 DEF Published, SlotOK, SlotType, NoRecord
<1> QED
  BY <1>1, <1>2

\* Counting an I/O error or a crash keeps the control well-typed.
LEMMA FaultType ==
  ASSUME ControlType
  PROVE  /\ Fault => faults' \in Nat
         /\ Faults(2) => faults' \in Nat
         /\ UNCHANGED faults => faults' \in Nat
BY DEF ControlType, Fault, Faults

\* A crash of either kind keeps the control and the handle well-typed.
LEMMA CrashType ==
  ASSUME ControlType, NEW kind, Crash(kind)
  PROVE  ControlType' /\ HandleType'
<1>1. op' \in Ops /\ at' \in Steps /\ known' \in BOOLEAN /\ gone' \in BOOLEAN
  BY StepsType DEF Crash, ControlType, Return, Ops
<1>2. /\ uuids' \in Nat /\ faults' \in Nat /\ crashes' \in Nat
      /\ losses' \in Nat /\ acked' \in Nat
  BY DEF Crash, ControlType
<1>3. HandleType'
  BY EmptySeq DEF Crash, HandleGone, HandleType
<1> QED
  BY <1>1, <1>2, <1>3 DEF ControlType

\* The append that counts moves the handle on by one message.
LEMMA AppendedType ==
  ASSUME HandleType, queue # <<>>, Len(queue) = 1, Appended
  PROVE  /\ queue' = [queue EXCEPT ![1].appended = TRUE]
         /\ queue' \in Seq(Work) /\ queue' # <<>> /\ Len(queue') = 1
         /\ FrontRecord' = FrontRecord
         /\ persisted' \in Nat
         /\ last' \in Uuid
<1>1. queue' = [queue EXCEPT ![1].appended = TRUE] /\ last' = Front.uuid
  BY DEF Appended, Front
<1>2. persisted' \in Nat
  BY DEF Appended, HandleType
<1>3. queue' \in Seq(Work) /\ queue' # <<>> /\ Len(queue') = 1
  BY <1>1, QueueOfOne
<1>4. FrontRecord' = FrontRecord
  BY <1>1, QueueOfOne DEF FrontRecord, Front
<1> QED
  BY <1>1, <1>2, <1>3, <1>4, QueueOfOne

-----------------------------------------------------------------------------
(* Type correctness *)

\* Every step of the program, of a crash or of the system's write-back keeps
\* the types.
LEMMA TypeNext ==
  ASSUME FileType, SlotType, IndexType, HandleType, ControlType,
         ControlOK, SlotOK, Next
  PROVE  TypeOK'
<1>1. ASSUME NEW n \in conv..MaxMessages, BeginPersist(n)
      PROVE  TypeOK'
  <2>1. FileType' /\ SlotType' /\ IndexType'
    BY <1>1 DEF BeginPersist, FileType, SlotType, IndexType, disk
  <2>2. HandleType'
    BY <1>1, BoundsAssumption DEF BeginPersist, HandleType
  <2>3. ControlType'
    BY <1>1, StepsType, BoundsAssumption DEF BeginPersist, ControlType, Ops,
       bounds, HandleType
  <2> QED
    BY <2>1, <2>2, <2>3 DEF TypeOK
<1>2. ASSUME NEW goal \in {"list", "resume"}, BeginRecovery(goal)
      PROVE  TypeOK'
  <2>1. FileType' /\ SlotType' /\ IndexType' /\ HandleType'
    BY <1>2 DEF BeginRecovery, FileType, SlotType, IndexType, HandleType, disk,
       handle
  <2>2. ControlType'
    BY <1>2, StepsType DEF BeginRecovery, ControlType, Ops, bounds
  <2> QED
    BY <2>1, <2>2 DEF TypeOK
<1>3. CASE Resolve
  <2>1. queue # <<>> => /\ Front.uuid \in Uuid
                        /\ [queue EXCEPT ![1].appended = TRUE] \in Seq(Work)
    BY QueueOfOne DEF SlotOK
  <2>2. queue' \in Seq(Work)
    BY <1>3, <2>1 DEF Resolve, HandleType
  <2>3. persisted' \in Nat
    BY <1>3 DEF Resolve, HandleType
  <2>4. last' \in Uuid \cup {NoUuid}
    BY <1>3, <2>1 DEF Resolve, HandleType
  <2>5. SlotType' /\ IndexType'
    BY <1>3 DEF Resolve, SlotType, IndexType
  <2>6. FileType'
    BY <1>3, RepairTailType DEF Resolve, FileType
  <2>7. HandleType'
    BY <1>3, <2>2, <2>3, <2>4 DEF Resolve, HandleType
  <2>8. ControlType'
    BY <1>3, StepsType DEF Resolve, ControlType, Ops, Goto, bounds
  <2> QED
    BY <2>5, <2>6, <2>7, <2>8 DEF TypeOK
<1>4. CASE Discard
  <2>1. /\ queue # <<>> => FrontRecord \in Record
        /\ queue # <<>> /\ Tail(queue) \in Seq(Work)
    BY <1>4, QueueOfOne, EmptySeq DEF Discard, SlotOK
  <2>2. FileType' /\ IndexType'
    BY <1>4 DEF Discard, FileType, IndexType
  <2>3. SlotType'
    BY <1>4, <2>1 DEF Discard, SlotType, RemoveRecord, RemoveFails,
       InstallRecord
  <2>4. HandleType'
    BY <1>4, <2>1 DEF Discard, HandleType, Pop
  <2>5. op' \in Ops /\ at' \in Steps
    BY <1>4, StepsType DEF Discard, ControlType, Ops, Goto, Return
  <2>6. faults' \in Nat
    BY <1>4, FaultType DEF Discard, RemoveFails, NoFault
  <2>7. ControlType'
    BY <1>4, <2>5, <2>6 DEF Discard, ControlType
  <2> QED
    BY <2>2, <2>3, <2>4, <2>5, <2>6, <2>7 DEF TypeOK
<1>5. CASE InvalidateBaselines
  <2>1. FileType' /\ SlotType' /\ HandleType'
    BY <1>5 DEF InvalidateBaselines, FileType, SlotType, HandleType, handle
  <2>2. IndexType'
    BY <1>5 DEF InvalidateBaselines, IndexType
  <2>3. op' \in Ops /\ at' \in Steps
    BY <1>5, StepsType DEF InvalidateBaselines, ControlType, Ops, Return
  <2>4. faults' \in Nat
    BY <1>5, FaultType DEF InvalidateBaselines, NoFault
  <2>5. ControlType'
    BY <1>5, <2>3, <2>4 DEF InvalidateBaselines, ControlType
  <2> QED
    BY <2>1, <2>2, <2>3, <2>4, <2>5 DEF TypeOK
<1>6. CASE OpenIndex
  <2>1. FileType' /\ SlotType' /\ HandleType'
    BY <1>6 DEF OpenIndex, FileType, SlotType, HandleType, disk, handle
  <2>2. IndexType'
    BY <1>6 DEF OpenIndex, IndexType, CheckedIndexStore, disk
  <2>3. ControlType'
    BY <1>6, StepsType DEF OpenIndex, ControlType, Ops, Goto, bounds
  <2> QED
    BY <2>1, <2>2, <2>3 DEF TypeOK
<1>7. CASE Drain
  <2>1. FileType' /\ SlotType' /\ IndexType' /\ HandleType'
    BY <1>7 DEF Drain, FileType, SlotType, IndexType, HandleType, disk, handle
  <2>2. ControlType'
    BY <1>7, StepsType DEF Drain, ControlType, Ops, Goto, Return, bounds,
       HandleType
  <2> QED
    BY <2>1, <2>2 DEF TypeOK
<1>8. CASE PublishIntent
  <2>1. /\ [uuid |-> uuids + 1, kind |-> "append"] \in Record
        /\ [uuid |-> uuids + 1, appended |-> FALSE] \in Work
    BY DEF ControlType, Record, Work, Uuid, NoUuid
  <2>2. /\ Append(queue, [uuid |-> uuids + 1, appended |-> FALSE]) \in Seq(Work)
        /\ [existed |-> file.exists, len |-> Len(file.lines)] \in
              [existed : BOOLEAN, len : Nat]
    BY <2>1, AppendProperties, LenProperties DEF HandleType, FileType,
       Transcript
  <2>3. FileType' /\ IndexType'
    BY <1>8 DEF PublishIntent, FileType, IndexType
  <2>4. SlotType'
    BY <1>8, <2>1 DEF PublishIntent, SlotType, InstallRecord, InstallFails
  <2>5. HandleType'
    BY <1>8, <2>1, <2>2 DEF PublishIntent, HandleType
  <2>6. op' \in Ops /\ at' \in Steps
    BY <1>8, StepsType DEF PublishIntent, ControlType, Ops, Goto, Return
  <2>7. faults' \in Nat
    BY <1>8, FaultType DEF PublishIntent, NoFault
  <2>8. ControlType'
    BY <1>8, <2>6, <2>7 DEF PublishIntent, ControlType
  <2> QED
    BY <2>3, <2>4, <2>5, <2>6, <2>7, <2>8 DEF TypeOK
<1>9. CASE WriteLine
  <2>1. Append(file.lines, NextLine) \in Seq(Entry)
    BY <1>9, NextLineType, AppendProperties DEF FileType, Transcript, WriteLine,
       SlotOK, AppendSteps
  <2>2. /\ WithLine(file, "open") \in Transcript
        /\ WithLine(file, "clean") \in Transcript
    BY <2>1 DEF WithLine, Transcript, Tails
  <2>3. SlotType' /\ IndexType' /\ HandleType'
    BY <1>9 DEF WriteLine, SlotType, IndexType, HandleType, handle
  <2>4. FileType'
    BY <1>9, <2>2 DEF WriteLine, FileType, Transcript, Tails
  <2>5. op' \in Ops /\ at' \in Steps
    BY <1>9, StepsType DEF WriteLine, ControlType, Ops, Goto
  <2>6. faults' \in Nat
    BY <1>9, FaultType DEF WriteLine, NoFault
  <2>7. ControlType'
    BY <1>9, <2>5, <2>6 DEF WriteLine, ControlType
  <2> QED
    BY <2>3, <2>4, <2>5, <2>6, <2>7 DEF TypeOK
<1>10. CASE SyncLine
  <2>1. Appended => /\ queue' \in Seq(Work)
                   /\ persisted' \in Nat
                   /\ last' \in Uuid
    BY <1>10, AppendedType DEF SyncLine, SlotOK, AppendSteps
  <2>2. SlotType' /\ IndexType'
    BY <1>10 DEF SyncLine, SlotType, IndexType
  <2>3. FileType'
    BY <1>10 DEF SyncLine, FileType, Transcript, Tails
  <2>4. HandleType'
    BY <1>10, <2>1 DEF SyncLine, HandleType
  <2>5. op' \in Ops /\ at' \in Steps
    BY <1>10, StepsType DEF SyncLine, ControlType, Ops, Goto, Appended
  <2>6. faults' \in Nat
    BY <1>10, FaultType DEF SyncLine, NoFault
  <2>7. ControlType'
    BY <1>10, <2>5, <2>6 DEF SyncLine, ControlType
  <2> QED
    BY <2>2, <2>3, <2>4, <2>5, <2>6, <2>7 DEF TypeOK
<1>11. CASE SyncNewFile
  <2>1. Appended => /\ queue' \in Seq(Work)
                   /\ persisted' \in Nat
                   /\ last' \in Uuid
    BY <1>11, AppendedType DEF SyncNewFile, SlotOK, AppendSteps
  <2>2. SlotType' /\ IndexType'
    BY <1>11 DEF SyncNewFile, SlotType, IndexType
  <2>3. FileType'
    BY <1>11, NoFileType DEF SyncNewFile, FileType, Transcript, Tails
  <2>4. HandleType'
    BY <1>11, <2>1 DEF SyncNewFile, HandleType
  <2>5. ControlType'
    BY <1>11, StepsType, BoundsAssumption DEF SyncNewFile, ControlType, Ops,
       Goto, Return, Appended, Fault, Faults, NoFault
  <2> QED
    BY <2>2, <2>3, <2>4, <2>5 DEF TypeOK
<1>12. CASE Rollback
  <2>1. Cut(file) \in Transcript
    BY <1>12, CutType DEF Rollback, SlotOK
  <2>2. SlotType' /\ IndexType' /\ HandleType'
    BY <1>12 DEF Rollback, SlotType, IndexType, HandleType
  <2>3. FileType'
    BY <1>12, <2>1, NoFileType DEF Rollback, FileType, Transcript, Tails,
       RolledBack, RollbackFails
  <2>4. op' \in Ops /\ at' \in Steps
    BY <1>12, StepsType DEF Rollback, ControlType, Ops, Goto, Return
  <2>5. faults' \in Nat
    BY <1>12, FaultType DEF Rollback, NoFault
  <2>6. ControlType'
    BY <1>12, <2>4, <2>5 DEF Rollback, ControlType
  <2> QED
    BY <2>2, <2>3, <2>4, <2>5, <2>6 DEF TypeOK
<1>13. CASE Recheck
  <2>1. Appended => /\ queue' \in Seq(Work)
                   /\ persisted' \in Nat
                   /\ last' \in Uuid
    BY <1>13, AppendedType DEF Recheck, SlotOK, AppendSteps
  <2>2. SlotType' /\ IndexType'
    BY <1>13 DEF Recheck, SlotType, IndexType
  <2>3. FileType'
    BY <1>13 DEF Recheck, FileType, Transcript, Tails
  <2>4. HandleType'
    BY <1>13, <2>1 DEF Recheck, HandleType
  <2>5. op' \in Ops /\ at' \in Steps
    BY <1>13, StepsType DEF Recheck, ControlType, Ops, Goto, Appended
  <2>6. faults' \in Nat
    BY <1>13, FaultType DEF Recheck, NoFault
  <2>7. ControlType'
    BY <1>13, <2>5, <2>6 DEF Recheck, ControlType
  <2> QED
    BY <2>2, <2>3, <2>4, <2>5, <2>6, <2>7 DEF TypeOK
<1>14. CASE Withdraw
  <2>1. /\ FrontRecord \in Record
        /\ queue # <<>> /\ Tail(queue) \in Seq(Work)
    BY <1>14, QueueOfOne, EmptySeq DEF Withdraw, SlotOK, AppendSteps
  <2>2. FileType' /\ IndexType'
    BY <1>14 DEF Withdraw, FileType, IndexType
  <2>3. SlotType'
    BY <1>14, <2>1 DEF Withdraw, SlotType, RemoveRecord, RemoveFails,
       InstallRecord
  <2>4. HandleType'
    BY <1>14, <2>1 DEF Withdraw, HandleType, Pop
  <2>5. op' \in Ops /\ at' \in Steps
    BY <1>14, StepsType DEF Withdraw, ControlType, Ops, Return
  <2>6. faults' \in Nat
    BY <1>14, FaultType DEF Withdraw, RemoveFails, NoFault
  <2>7. ControlType'
    BY <1>14, <2>5, <2>6 DEF Withdraw, ControlType
  <2> QED
    BY <2>2, <2>3, <2>4, <2>5, <2>6, <2>7 DEF TypeOK
<1>15. CASE SaveRow
  <2>1. FileType' /\ SlotType' /\ HandleType'
    BY <1>15 DEF SaveRow, FileType, SlotType, HandleType, disk, handle
  <2>2. IndexType'
    BY <1>15 DEF SaveRow, IndexType, disk
  <2>3. ControlType'
    BY <1>15, StepsType DEF SaveRow, ControlType, Ops, Goto, bounds
  <2> QED
    BY <2>1, <2>2, <2>3 DEF TypeOK
<1>16. CASE SaveMessage
  <2>1. Published \in Record
    BY <1>16, PublishedType DEF SaveMessage
  <2>2. FileType' /\ SlotType' /\ HandleType'
    BY <1>16 DEF SaveMessage, FileType, SlotType, HandleType, disk, handle
  <2>3. IndexType'
    BY <1>16, <2>1 DEF SaveMessage, IndexType, disk, Record
  <2>4. ControlType'
    BY <1>16, StepsType DEF SaveMessage, ControlType, Ops, Goto, bounds
  <2> QED
    BY <2>2, <2>3, <2>4 DEF TypeOK
<1>17. CASE Retire
  <2>1. op = "persist" => Tail(queue) \in Seq(Work)
    BY <1>17, QueueOfOne, EmptySeq DEF Retire, SlotOK, PublishSteps
  <2>2. FileType' /\ IndexType'
    BY <1>17 DEF Retire, FileType, IndexType
  <2>3. SlotType'
    BY <1>17 DEF Retire, SlotType, RemoveRecord, RemoveFails, InstallRecord,
       Removable
  <2>4. HandleType'
    BY <1>17, <2>1 DEF Retire, HandleType, Pop
  <2>5. op' \in Ops /\ at' \in Steps
    BY <1>17, StepsType DEF Retire, ControlType, Ops, Goto, Return,
       AfterRecovery
  <2>6. faults' \in Nat
    BY <1>17, FaultType DEF Retire, RemoveFails, NoFault
  <2>7. ControlType'
    BY <1>17, <2>5, <2>6 DEF Retire, ControlType
  <2> QED
    BY <2>2, <2>3, <2>4, <2>5, <2>6, <2>7 DEF TypeOK
<1>18. CASE Preflight
  <2>1. FileType' /\ SlotType' /\ HandleType'
    BY <1>18 DEF Preflight, FileType, SlotType, HandleType, disk, handle
  <2>2. IndexType'
    BY <1>18 DEF Preflight, IndexType, CheckedIndexStore, disk
  <2>3. ControlType'
    BY <1>18, StepsType DEF Preflight, ControlType, Ops, Goto, Return, bounds,
       AfterRecovery
  <2> QED
    BY <2>1, <2>2, <2>3 DEF TypeOK
<1>19. CASE FindRecord
  <2>1. SlotType' /\ IndexType' /\ HandleType'
    BY <1>19 DEF FindRecord, SlotType, IndexType, HandleType, handle
  <2>2. FileType'
    BY <1>19, RepairTailType DEF FindRecord, FileType
  <2>3. ControlType'
    BY <1>19, StepsType DEF FindRecord, ControlType, Ops, Goto, Return, bounds,
       Absent
  <2> QED
    BY <2>1, <2>2, <2>3 DEF TypeOK
<1>20. CASE Expunge
  <2>1. HandleType'
    BY <1>20 DEF Expunge, HandleType, handle
  <2>2. FileType'
    BY <1>20, NoFileType DEF Expunge, FileType
  <2>3. SlotType'
    BY <1>20 DEF Expunge, SlotType
  <2>4. IndexType'
    BY <1>20 DEF Expunge, IndexType
  <2>5. ControlType'
    BY <1>20, StepsType DEF Expunge, ControlType, Ops, Goto, Return, bounds,
       AfterRecovery
  <2> QED
    BY <2>1, <2>2, <2>3, <2>4, <2>5 DEF TypeOK
<1>21. CASE InspectLegacy
  <2>1. SlotType' /\ IndexType' /\ HandleType'
    BY <1>21 DEF InspectLegacy, SlotType, IndexType, HandleType, handle
  <2>2. FileType'
    BY <1>21, RepairTailType DEF InspectLegacy, FileType
  <2>3. ControlType'
    BY <1>21, StepsType DEF InspectLegacy, ControlType, Ops, Goto, bounds
  <2> QED
    BY <2>1, <2>2, <2>3 DEF TypeOK
<1>22. CASE LegacyIntent
  <2>1. LegacyRecord \in Record
    BY <1>22, LegacyRecordType DEF LegacyIntent, SlotOK
  <2>2. FileType' /\ IndexType' /\ HandleType'
    BY <1>22 DEF LegacyIntent, FileType, IndexType, HandleType, handle
  <2>3. SlotType'
    BY <1>22, <2>1 DEF LegacyIntent, SlotType, InstallRecord, InstallFails
  <2>4. op' \in Ops /\ at' \in Steps
    BY <1>22, StepsType DEF LegacyIntent, ControlType, Ops, Goto, Return
  <2>5. faults' \in Nat
    BY <1>22, FaultType DEF LegacyIntent, NoFault
  <2>6. ControlType'
    BY <1>22, <2>4, <2>5 DEF LegacyIntent, ControlType
  <2> QED
    BY <2>2, <2>3, <2>4, <2>5, <2>6 DEF TypeOK
<1>23. CASE LegacyReset
  <2>1. FileType' /\ SlotType' /\ HandleType'
    BY <1>23 DEF LegacyReset, FileType, SlotType, HandleType, disk, handle
  <2>2. IndexType'
    BY <1>23 DEF LegacyReset, IndexType, EmptyIndex, disk
  <2>3. ControlType'
    BY <1>23, StepsType DEF LegacyReset, ControlType, Ops, Goto, bounds
  <2> QED
    BY <2>1, <2>2, <2>3 DEF TypeOK
<1>24. CASE RebuildRow
  <2>1. FileType' /\ SlotType' /\ HandleType'
    BY <1>24 DEF RebuildRow, FileType, SlotType, HandleType, disk, handle
  <2>2. IndexType'
    BY <1>24 DEF RebuildRow, IndexType, disk
  <2>3. ControlType'
    BY <1>24, StepsType DEF RebuildRow, ControlType, Ops, Goto, bounds
  <2> QED
    BY <2>1, <2>2, <2>3 DEF TypeOK
<1>25. CASE Fill
  <2>1. \A i \in DOMAIN file.lines : file.lines[i].uuid \in Uuid
    BY LineType
  <2>2. FileType' /\ SlotType' /\ HandleType'
    BY <1>25 DEF Fill, FileType, SlotType, HandleType, disk, handle
  <2>3. IndexType'
    BY <1>25, <2>1 DEF Fill, IndexType, disk, Unindexed
  <2>4. ControlType'
    BY <1>25, StepsType DEF Fill, ControlType, Ops, Goto, bounds
  <2> QED
    BY <2>2, <2>3, <2>4 DEF TypeOK
<1>26. CASE WriteBaseline
  <2>1. FileType' /\ SlotType' /\ HandleType'
    BY <1>26 DEF WriteBaseline, FileType, SlotType, HandleType, handle
  <2>2. IndexType'
    BY <1>26 DEF WriteBaseline, IndexType
  <2>3. op' \in Ops /\ at' \in Steps
    BY <1>26, StepsType DEF WriteBaseline, ControlType, Ops, Goto, Return
  <2>4. faults' \in Nat
    BY <1>26, FaultType DEF WriteBaseline, NoFault
  <2>5. ControlType'
    BY <1>26, <2>3, <2>4 DEF WriteBaseline, ControlType
  <2> QED
    BY <2>1, <2>2, <2>3, <2>4, <2>5 DEF TypeOK
<1>27. CASE Load
  <2>1. SlotType' /\ IndexType' /\ HandleType'
    BY <1>27 DEF Load, SlotType, IndexType, HandleType, handle
  <2>2. FileType'
    BY <1>27, RepairTailType DEF Load, FileType
  <2>3. ControlType'
    BY <1>27, StepsType DEF Load, ControlType, Ops, Goto, Return, bounds
  <2> QED
    BY <2>1, <2>2, <2>3 DEF TypeOK
<1>28. CASE Attach
  <2>1. Len(file.lines) \in Nat /\ LastUuid(file) \in Uuid \cup {NoUuid}
    BY LastUuidType
  <2>2. FileType' /\ SlotType' /\ IndexType'
    BY <1>28 DEF Attach, FileType, SlotType, IndexType, disk
  <2>3. HandleType'
    BY <1>28, <2>1, EmptySeq DEF Attach, HandleType
  <2>4. ControlType'
    BY <1>28, StepsType DEF Attach, ControlType, Ops, Return, bounds
  <2> QED
    BY <2>2, <2>3, <2>4 DEF TypeOK
<1>29. CASE FailClean
  <2>1. FileType' /\ SlotType' /\ IndexType' /\ HandleType'
    BY <1>29 DEF FailClean, FileType, SlotType, IndexType, HandleType, disk,
       handle
  <2>2. ControlType'
    BY <1>29, StepsType, BoundsAssumption DEF FailClean, ControlType, Ops,
       Return, Fault, Faults
  <2> QED
    BY <2>1, <2>2 DEF TypeOK
<1>30. CASE FailLoading
  <2>1. SlotType' /\ IndexType' /\ HandleType'
    BY <1>30 DEF FailLoading, SlotType, IndexType, HandleType, handle
  <2>2. FileType'
    BY <1>30, RepairedType DEF FailLoading, FileType
  <2>3. ControlType'
    BY <1>30, StepsType, BoundsAssumption DEF FailLoading, ControlType, Ops,
       Return, Fault, Faults
  <2> QED
    BY <2>1, <2>2, <2>3 DEF TypeOK
<1>31. CASE Close
  <2>1. FileType' /\ SlotType' /\ IndexType'
    BY <1>31 DEF Close, FileType, SlotType, IndexType, disk
  <2>2. HandleType'
    BY <1>31, EmptySeq DEF Close, HandleType, HandleGone
  <2>3. ControlType'
    BY <1>31, StepsType DEF Close, ControlType, Ops, bounds
  <2> QED
    BY <2>1, <2>2, <2>3 DEF TypeOK
<1>32. CASE LoseIndex
  <2>1. FileType' /\ SlotType' /\ HandleType'
    BY <1>32 DEF LoseIndex, FileType, SlotType, HandleType, disk, handle
  <2>2. IndexType'
    BY <1>32 DEF LoseIndex, IndexType, LostIndex, disk
  <2>3. ControlType'
    BY <1>32, BoundsAssumption DEF LoseIndex, ControlType, Ops
  <2> QED
    BY <2>1, <2>2, <2>3 DEF TypeOK
<1>33. CASE ProcessCrash
  <2>1. FileType' /\ SlotType' /\ IndexType'
    BY <1>33 DEF ProcessCrash, FileType, SlotType, IndexType, disk, Crash
  <2>2. HandleType'
    BY <1>33, CrashType DEF ProcessCrash
  <2>3. ControlType'
    BY <1>33, CrashType DEF ProcessCrash
  <2> QED
    BY <2>1, <2>2, <2>3 DEF TypeOK
<1>34. CASE WriteBack
  <2>1. HandleType'
    BY <1>34 DEF WriteBack, HandleType, handle
  <2>2. FileType'
    BY <1>34, NoFileType DEF WriteBack, FileType, Transcript, Tails
  <2>3. SlotType'
    BY <1>34 DEF WriteBack, SlotType
  <2>4. IndexType'
    BY <1>34 DEF WriteBack, IndexType
  <2>5. ControlType'
    BY <1>34 DEF WriteBack, ControlType, Ops, bounds
  <2> QED
    BY <2>1, <2>2, <2>3, <2>4, <2>5 DEF TypeOK
<1>35. CASE PowerLoss
  <2>1. SlotType' /\ IndexType'
    BY <1>35 DEF PowerLoss, SlotType, IndexType, Crash
  <2>2. FileType'
    BY <1>35, NoFileType DEF PowerLoss, FileType, Transcript, Tails,
       SurvivingFiles
  <2>3. HandleType'
    BY <1>35, CrashType DEF PowerLoss
  <2>4. ControlType'
    BY <1>35, CrashType DEF PowerLoss
  <2> QED
    BY <2>1, <2>2, <2>3, <2>4 DEF TypeOK
<1> QED
  BY <1>1, <1>2, <1>3, <1>4, <1>5, <1>6, <1>7, <1>8, <1>9, <1>10, <1>11, <1>12,
     <1>13, <1>14, <1>15, <1>16, <1>17, <1>18, <1>19, <1>20, <1>21, <1>22,
     <1>23, <1>24, <1>25, <1>26, <1>27, <1>28, <1>29, <1>30, <1>31, <1>32,
     <1>33, <1>34, <1>35 DEF Next, Proceed, Persist, Publish, Recover

-----------------------------------------------------------------------------
(* Control and the slot *)

\* Every step keeps the operation, its step and the pending record in accord:
\* the strengthening that makes OneIntent inductive.
LEMMA SlotNext ==
  ASSUME FileType, SlotType, IndexType, HandleType, ControlType,
         ControlOK, SlotOK, Next
  PROVE  ControlOK' /\ SlotOK'
<1>1. ASSUME NEW n \in conv..MaxMessages, BeginPersist(n)
      PROVE  ControlOK' /\ SlotOK'
  <2>1. ControlOK'
    BY <1>1 DEF BeginPersist, ControlOK, PersistSteps, PublishSteps,
       RecoverSteps, ResumeSteps
  <2>2. SlotOK'
    BY <1>1 DEF BeginPersist, SlotOK, ControlOK, disk, FrontRecord, Front,
       PersistSteps, PublishSteps, RecoverSteps, ResumeSteps, LegacySteps,
       AppendSteps, AfterLoad
  <2> QED
    BY <2>1, <2>2
<1>2. ASSUME NEW goal \in {"list", "resume"}, BeginRecovery(goal)
      PROVE  ControlOK' /\ SlotOK'
  <2>1. ControlOK'
    BY <1>2 DEF BeginRecovery, ControlOK, handle, PersistSteps, PublishSteps,
       RecoverSteps, ResumeSteps
  <2>2. SlotOK'
    BY <1>2 DEF BeginRecovery, SlotOK, ControlOK, disk, handle, FrontRecord,
       Front, PersistSteps, PublishSteps, RecoverSteps, ResumeSteps,
       LegacySteps, AppendSteps, AfterLoad
  <2> QED
    BY <2>1, <2>2
<1>3. CASE Resolve
  <2>1. queue # <<>> => /\ [queue EXCEPT ![1].appended = TRUE] # <<>>
                       /\ Len([queue EXCEPT ![1].appended = TRUE]) = 1
                       /\ [queue EXCEPT ![1].appended = TRUE][1].uuid = Front.uuid
    BY QueueOfOne DEF SlotOK
  <2>2. ControlOK'
    BY <1>3 DEF Resolve, ControlOK, Goto, PersistSteps, PublishSteps,
       RecoverSteps, ResumeSteps
  <2>3. SlotOK'
    BY <1>3, RepairTailType, <2>1 DEF Resolve, SlotOK, ControlOK, Goto,
       FrontRecord, Front, PersistSteps, PublishSteps, RecoverSteps,
       ResumeSteps, LegacySteps, AppendSteps, AfterLoad
  <2> QED
    BY <2>2, <2>3
<1>4. CASE Discard
  <2>1. Tail(queue) = <<>>
    BY <1>4, QueueOfOne DEF Discard, SlotOK
  <2>2. ControlOK'
    BY <1>4 DEF Discard, ControlOK, Goto, Return, PersistSteps, PublishSteps,
       RecoverSteps, ResumeSteps
  <2>3. SlotOK'
    BY <1>4, <2>1 DEF Discard, SlotOK, ControlOK, Goto, Return, Pop,
       RemoveRecord, RemoveFails, InstallRecord, Removable, FrontRecord, Front,
       PersistSteps, PublishSteps, RecoverSteps, ResumeSteps, LegacySteps,
       AppendSteps, AfterLoad
  <2> QED
    BY <2>2, <2>3
<1>5. CASE InvalidateBaselines
  <2>1. ControlOK'
    BY <1>5 DEF InvalidateBaselines, ControlOK, Return, handle, PersistSteps,
       PublishSteps, RecoverSteps, ResumeSteps
  <2>2. SlotOK'
    BY <1>5 DEF InvalidateBaselines, SlotOK, ControlOK, Return, handle,
       FrontRecord, Front, PersistSteps, PublishSteps, RecoverSteps,
       ResumeSteps, LegacySteps, AppendSteps, AfterLoad
  <2> QED
    BY <2>1, <2>2
<1>6. CASE OpenIndex
  <2>1. ControlOK'
    BY <1>6 DEF OpenIndex, ControlOK, Goto, handle, PersistSteps, PublishSteps,
       RecoverSteps, ResumeSteps
  <2>2. SlotOK'
    BY <1>6 DEF OpenIndex, SlotOK, ControlOK, Goto, disk, handle, FrontRecord,
       Front, PersistSteps, PublishSteps, RecoverSteps, ResumeSteps,
       LegacySteps, AppendSteps, AfterLoad
  <2> QED
    BY <2>1, <2>2
<1>7. CASE Drain
  <2>1. ControlOK'
    BY <1>7 DEF Drain, ControlOK, Goto, Return, handle, PersistSteps,
       PublishSteps, RecoverSteps, ResumeSteps
  <2>2. SlotOK'
    BY <1>7 DEF Drain, SlotOK, ControlOK, Goto, Return, disk, handle,
       FrontRecord, Front, PersistSteps, PublishSteps, RecoverSteps,
       ResumeSteps, LegacySteps, AppendSteps, AfterLoad
  <2> QED
    BY <2>1, <2>2
<1>8. CASE PublishIntent
  <2>1. queue = <<>>
    BY <1>8 DEF PublishIntent, SlotOK
  <2>2. /\ Append(queue, [uuid |-> uuids + 1, appended |-> FALSE]) # <<>>
        /\ Len(Append(queue, [uuid |-> uuids + 1, appended |-> FALSE])) = 1
        /\ Append(queue, [uuid |-> uuids + 1, appended |-> FALSE])[1].uuid = uuids + 1
    BY <2>1
  <2>3. prepared' = [existed |-> file.exists, len |-> Len(file.lines)]
        /\ Len(file.lines) \in Nat /\ UNCHANGED file
        /\ ~file.exists => Len(file.lines) = 0
    BY <1>8, LastUuidType DEF PublishIntent, SlotOK
  <2>4. ControlOK'
    BY <1>8 DEF PublishIntent, ControlOK, Goto, Return, PersistSteps,
       PublishSteps, RecoverSteps, ResumeSteps
  <2>5. SlotOK'
    BY <1>8, <2>2, <2>3 DEF PublishIntent, SlotOK, ControlOK, Goto, Return,
       InstallRecord, InstallFails, FrontRecord, Front, PersistSteps,
       PublishSteps, RecoverSteps, ResumeSteps, LegacySteps, AppendSteps,
       AfterLoad
  <2> QED
    BY <2>4, <2>5
<1>9. CASE WriteLine
  <2>1. Len(Append(file.lines, NextLine)) = Len(file.lines) + 1
    BY <1>9, NextLineType, AppendProperties DEF FileType, Transcript, WriteLine,
       SlotOK, AppendSteps
  <2>2. Len(file.lines) \in Nat /\ prepared.len \in Nat
    BY LastUuidType DEF HandleType
  <2>3. file' \in {file, [file EXCEPT !.exists = TRUE, !.tail = "torn"],
                   [file EXCEPT !.exists = TRUE],
                   WithLine(file, "open"), WithLine(file, "clean")}
    BY <1>9 DEF WriteLine
  <2>4. \A f \in {[file EXCEPT !.exists = TRUE, !.tail = "torn"],
                   [file EXCEPT !.exists = TRUE]} : f.exists /\ f.lines = file.lines
    BY DEF FileType, Transcript
  <2>5. \A f \in {WithLine(file, "open"), WithLine(file, "clean")} :
           f.exists /\ f.lines = Append(file.lines, NextLine)
    BY DEF WithLine
  <2>6. /\ file'.lines \in {file.lines, Append(file.lines, NextLine)}
        /\ file'.exists \/ UNCHANGED file
    BY <2>3, <2>4, <2>5
  <2>7. /\ at = "write" /\ at' \in {"sync", "rollback", "withdraw"}
        /\ UNCHANGED <<op, record, handle, prepared, known>>
    BY <1>9 DEF WriteLine, Goto
  <2>8. ControlOK'
    BY <1>9 DEF WriteLine, ControlOK, Goto, handle, PersistSteps, PublishSteps,
       RecoverSteps, ResumeSteps
  <2>9. SlotOK'
    BY <1>9, <2>1, <2>2, <2>6, <2>7 DEF handle, SlotOK, ControlOK, FrontRecord,
       Front, PersistSteps, PublishSteps, RecoverSteps, ResumeSteps,
       LegacySteps, AppendSteps, AfterLoad
  <2> QED
    BY <2>8, <2>9
<1>10. CASE SyncLine
  <2>1. Appended => /\ queue' # <<>> /\ Len(queue') = 1
                   /\ FrontRecord' = FrontRecord
    BY <1>10, AppendedType DEF SyncLine, SlotOK, AppendSteps
  <2>2. ControlOK'
    BY <1>10 DEF SyncLine, ControlOK, Goto, Appended, PersistSteps,
       PublishSteps, RecoverSteps, ResumeSteps
  <2>3. SlotOK'
    BY <1>10, <2>1 DEF SyncLine, SlotOK, ControlOK, Goto, FrontRecord, Front,
       Appended, PersistSteps, PublishSteps, RecoverSteps, ResumeSteps,
       LegacySteps, AppendSteps, AfterLoad
  <2> QED
    BY <2>2, <2>3
<1>11. CASE SyncNewFile
  <2>1. Appended => /\ queue' # <<>> /\ Len(queue') = 1
                   /\ FrontRecord' = FrontRecord
    BY <1>11, AppendedType DEF SyncNewFile, SlotOK, AppendSteps
  <2>2. ControlOK'
    BY <1>11 DEF SyncNewFile, ControlOK, Goto, Return, Appended, PersistSteps,
       PublishSteps, RecoverSteps, ResumeSteps
  <2>3. SlotOK'
    BY <1>11, <2>1 DEF SyncNewFile, SlotOK, ControlOK, NoFile, Goto, Return,
       FrontRecord, Front, Appended, PersistSteps, PublishSteps, RecoverSteps,
       ResumeSteps, LegacySteps, AppendSteps, AfterLoad
  <2> QED
    BY <2>2, <2>3
<1>12. CASE Rollback
  <2>1. /\ prepared.len <= Len(file.lines)
        /\ ~prepared.existed => prepared.len = 0
        /\ prepared.len \in Nat
    BY <1>12 DEF Rollback, SlotOK, HandleType
  <2>2. /\ Cut(file).lines \in Seq(Entry)
        /\ Len(Cut(file).lines) = prepared.len
    BY <2>1, CutType DEF Transcript
  <2>3. ~Cut(file).exists => Cut(file).lines = <<>>
    <3>1. CASE prepared.existed /\ ~file.exists
      <4>1. file.lines = <<>>
        BY <3>1 DEF SlotOK
      <4>2. Len(Cut(file).lines) = 0
        BY <2>1, <2>2, <4>1
      <4> QED
        BY <2>2, <4>2, EmptySeq
    <3>2. CASE prepared.existed /\ file.exists
      BY <3>2 DEF Cut, FileType, Transcript
    <3>3. CASE ~prepared.existed
      BY <3>3 DEF Cut, NoFile
    <3> QED
      BY <3>1, <3>2, <3>3
  <2>4. ControlOK'
    BY <1>12 DEF Rollback, ControlOK, Goto, Return, PersistSteps, PublishSteps,
       RecoverSteps, ResumeSteps
  <2>5. SlotOK'
    BY <1>12, <2>1, <2>2, <2>3 DEF Rollback, SlotOK, ControlOK, Goto, Return,
       FrontRecord, Front, RolledBack, RollbackFails, PersistSteps,
       PublishSteps, RecoverSteps, ResumeSteps, LegacySteps, AppendSteps,
       AfterLoad
  <2> QED
    BY <2>4, <2>5
<1>13. CASE Recheck
  <2>1. Appended => /\ queue' # <<>> /\ Len(queue') = 1
                   /\ FrontRecord' = FrontRecord
    BY <1>13, AppendedType DEF Recheck, SlotOK, AppendSteps
  <2>2. ControlOK'
    BY <1>13 DEF Recheck, ControlOK, Goto, Appended, PersistSteps, PublishSteps,
       RecoverSteps, ResumeSteps
  <2>3. SlotOK'
    BY <1>13, <2>1 DEF Recheck, SlotOK, ControlOK, Goto, FrontRecord, Front,
       Appended, PersistSteps, PublishSteps, RecoverSteps, ResumeSteps,
       LegacySteps, AppendSteps, AfterLoad
  <2> QED
    BY <2>2, <2>3
<1>14. CASE Withdraw
  <2>1. Tail(queue) = <<>>
    BY <1>14, QueueOfOne DEF Withdraw, SlotOK, AppendSteps
  <2>2. ControlOK'
    BY <1>14 DEF Withdraw, ControlOK, Return, PersistSteps, PublishSteps,
       RecoverSteps, ResumeSteps
  <2>3. SlotOK'
    BY <1>14, <2>1 DEF Withdraw, SlotOK, ControlOK, Return, Pop, RemoveRecord,
       RemoveFails, InstallRecord, Removable, FrontRecord, Front, PersistSteps,
       PublishSteps, RecoverSteps, ResumeSteps, LegacySteps, AppendSteps,
       AfterLoad
  <2> QED
    BY <2>2, <2>3
<1>15. CASE SaveRow
  <2>1. ControlOK'
    BY <1>15 DEF SaveRow, ControlOK, Goto, handle, PersistSteps, PublishSteps,
       RecoverSteps, ResumeSteps
  <2>2. SlotOK'
    BY <1>15 DEF SaveRow, SlotOK, ControlOK, Goto, disk, handle, FrontRecord,
       Front, PersistSteps, PublishSteps, RecoverSteps, ResumeSteps,
       LegacySteps, AppendSteps, AfterLoad
  <2> QED
    BY <2>1, <2>2
<1>16. CASE SaveMessage
  <2>1. ControlOK'
    BY <1>16 DEF SaveMessage, ControlOK, Goto, handle, PersistSteps,
       PublishSteps, RecoverSteps, ResumeSteps
  <2>2. SlotOK'
    BY <1>16 DEF SaveMessage, SlotOK, ControlOK, Goto, disk, handle,
       FrontRecord, Front, PersistSteps, PublishSteps, RecoverSteps,
       ResumeSteps, LegacySteps, AppendSteps, AfterLoad
  <2> QED
    BY <2>1, <2>2
<1>17. CASE Retire
  <2>1. op = "persist" => Tail(queue) = <<>>
    BY <1>17, QueueOfOne DEF Retire, SlotOK, PublishSteps
  <2>2. ControlOK'
    BY <1>17 DEF Retire, ControlOK, Goto, Return, AfterRecovery, PersistSteps,
       PublishSteps, RecoverSteps, ResumeSteps
  <2>3. SlotOK'
    BY <1>17, <2>1 DEF Retire, SlotOK, ControlOK, Goto, Return, AfterRecovery,
       Pop, RemoveRecord, RemoveFails, InstallRecord, Removable, Published,
       FrontRecord, Front, PersistSteps, PublishSteps, RecoverSteps,
       ResumeSteps, LegacySteps, AppendSteps, AfterLoad
  <2> QED
    BY <2>2, <2>3
<1>18. CASE Preflight
  <2>1. ControlOK'
    BY <1>18 DEF Preflight, ControlOK, Goto, Return, AfterRecovery, handle,
       PersistSteps, PublishSteps, RecoverSteps, ResumeSteps
  <2>2. SlotOK'
    BY <1>18 DEF Preflight, SlotOK, ControlOK, Goto, Return, AfterRecovery,
       disk, handle, FrontRecord, Front, PersistSteps, PublishSteps,
       RecoverSteps, ResumeSteps, LegacySteps, AppendSteps, AfterLoad
  <2> QED
    BY <2>1, <2>2
<1>19. CASE FindRecord
  <2>1. RecordPresent => file.lines # <<>>
    BY DEF RecordPresent, UuidsOf
  <2>2. record.kind \in {"append", "legacy"}
    BY <1>19 DEF FindRecord, SlotOK, SlotType, Record
  <2>3. ControlOK'
    BY <1>19 DEF FindRecord, ControlOK, Goto, Return, Absent, handle,
       PersistSteps, PublishSteps, RecoverSteps, ResumeSteps
  <2>4. SlotOK'
    BY <1>19, RepairTailType, <2>1, <2>2 DEF FindRecord, SlotOK, ControlOK,
       Goto, Return, Absent, handle, FrontRecord, Front, PersistSteps,
       PublishSteps, RecoverSteps, ResumeSteps, LegacySteps, AppendSteps,
       AfterLoad
  <2> QED
    BY <2>3, <2>4
<1>20. CASE Expunge
  <2>1. ControlOK'
    BY <1>20 DEF Expunge, ControlOK, Goto, Return, AfterRecovery, handle,
       PersistSteps, PublishSteps, RecoverSteps, ResumeSteps
  <2>2. SlotOK'
    BY <1>20 DEF Expunge, SlotOK, ControlOK, NoFile, Goto, Return,
       AfterRecovery, handle, FrontRecord, Front, PersistSteps, PublishSteps,
       RecoverSteps, ResumeSteps, LegacySteps, AppendSteps, AfterLoad
  <2> QED
    BY <2>1, <2>2
<1>21. CASE InspectLegacy
  <2>1. ControlOK'
    BY <1>21 DEF InspectLegacy, ControlOK, Goto, handle, PersistSteps,
       PublishSteps, RecoverSteps, ResumeSteps
  <2>2. SlotOK'
    BY <1>21, RepairTailType DEF InspectLegacy, SlotOK, ControlOK, Goto, handle,
       FrontRecord, Front, NoMessages, PersistSteps, PublishSteps, RecoverSteps,
       ResumeSteps, LegacySteps, AppendSteps, AfterLoad
  <2> QED
    BY <2>1, <2>2
<1>22. CASE LegacyIntent
  <2>1. ControlOK'
    BY <1>22 DEF LegacyIntent, ControlOK, Goto, Return, handle, PersistSteps,
       PublishSteps, RecoverSteps, ResumeSteps
  <2>2. SlotOK'
    BY <1>22 DEF LegacyIntent, SlotOK, ControlOK, Goto, Return, handle,
       FrontRecord, Front, InstallRecord, InstallFails, PersistSteps,
       PublishSteps, RecoverSteps, ResumeSteps, LegacySteps, AppendSteps,
       AfterLoad
  <2> QED
    BY <2>1, <2>2
<1>23. CASE LegacyReset
  <2>1. ControlOK'
    BY <1>23 DEF LegacyReset, ControlOK, Goto, handle, PersistSteps,
       PublishSteps, RecoverSteps, ResumeSteps
  <2>2. SlotOK'
    BY <1>23 DEF LegacyReset, SlotOK, ControlOK, Goto, disk, handle,
       FrontRecord, Front, PersistSteps, PublishSteps, RecoverSteps,
       ResumeSteps, LegacySteps, AppendSteps, AfterLoad
  <2> QED
    BY <2>1, <2>2
<1>24. CASE RebuildRow
  <2>1. ControlOK'
    BY <1>24 DEF RebuildRow, ControlOK, Goto, handle, PersistSteps,
       PublishSteps, RecoverSteps, ResumeSteps
  <2>2. SlotOK'
    BY <1>24 DEF RebuildRow, SlotOK, ControlOK, Goto, disk, handle, FrontRecord,
       Front, PersistSteps, PublishSteps, RecoverSteps, ResumeSteps,
       LegacySteps, AppendSteps, AfterLoad
  <2> QED
    BY <2>1, <2>2
<1>25. CASE Fill
  <2>1. ControlOK'
    BY <1>25 DEF Fill, ControlOK, Goto, handle, PersistSteps, PublishSteps,
       RecoverSteps, ResumeSteps
  <2>2. SlotOK'
    BY <1>25 DEF Fill, SlotOK, ControlOK, Goto, disk, handle, FrontRecord,
       Front, PersistSteps, PublishSteps, RecoverSteps, ResumeSteps,
       LegacySteps, AppendSteps, AfterLoad
  <2> QED
    BY <2>1, <2>2
<1>26. CASE WriteBaseline
  <2>1. ControlOK'
    BY <1>26 DEF WriteBaseline, ControlOK, Goto, Return, handle, PersistSteps,
       PublishSteps, RecoverSteps, ResumeSteps
  <2>2. SlotOK'
    BY <1>26 DEF WriteBaseline, SlotOK, ControlOK, Goto, Return, handle,
       FrontRecord, Front, PersistSteps, PublishSteps, RecoverSteps,
       ResumeSteps, LegacySteps, AppendSteps, AfterLoad
  <2> QED
    BY <2>1, <2>2
<1>27. CASE Load
  <2>1. ControlOK'
    BY <1>27 DEF Load, ControlOK, Goto, Return, handle, PersistSteps,
       PublishSteps, RecoverSteps, ResumeSteps
  <2>2. SlotOK'
    BY <1>27, RepairTailType DEF Load, SlotOK, ControlOK, Goto, Return, handle,
       FrontRecord, Front, PersistSteps, PublishSteps, RecoverSteps,
       ResumeSteps, LegacySteps, AppendSteps, AfterLoad
  <2> QED
    BY <2>1, <2>2
<1>28. CASE Attach
  <2>1. ControlOK'
    BY <1>28 DEF Attach, ControlOK, Return, PersistSteps, PublishSteps,
       RecoverSteps, ResumeSteps
  <2>2. SlotOK'
    BY <1>28 DEF Attach, SlotOK, ControlOK, Return, disk, FrontRecord, Front,
       PersistSteps, PublishSteps, RecoverSteps, ResumeSteps, LegacySteps,
       AppendSteps, AfterLoad
  <2> QED
    BY <2>1, <2>2
<1>29. CASE FailClean
  <2>1. ControlOK'
    BY <1>29 DEF FailClean, ControlOK, Return, handle, PersistSteps,
       PublishSteps, RecoverSteps, ResumeSteps
  <2>2. SlotOK'
    BY <1>29 DEF FailClean, SlotOK, ControlOK, Return, disk, handle,
       FrontRecord, Front, PersistSteps, PublishSteps, RecoverSteps,
       ResumeSteps, LegacySteps, AppendSteps, AfterLoad
  <2> QED
    BY <2>1, <2>2
<1>30. CASE FailLoading
  <2>1. ControlOK'
    BY <1>30 DEF FailLoading, ControlOK, Return, handle, PersistSteps,
       PublishSteps, RecoverSteps, ResumeSteps
  <2>2. SlotOK'
    BY <1>30, RepairedType DEF FailLoading, SlotOK, ControlOK, Return, handle,
       FrontRecord, Front, FileType, PersistSteps, PublishSteps, RecoverSteps,
       ResumeSteps, LegacySteps, AppendSteps, AfterLoad
  <2> QED
    BY <2>1, <2>2
<1>31. CASE Close
  <2>1. ControlOK'
    BY <1>31 DEF Close, ControlOK, HandleGone, PersistSteps, PublishSteps,
       RecoverSteps, ResumeSteps
  <2>2. SlotOK'
    BY <1>31 DEF Close, SlotOK, ControlOK, HandleGone, disk, PersistSteps,
       PublishSteps, RecoverSteps, ResumeSteps, LegacySteps, AppendSteps,
       AfterLoad
  <2> QED
    BY <2>1, <2>2
<1>32. CASE LoseIndex
  <2>1. ControlOK'
    BY <1>32 DEF LoseIndex, ControlOK, handle, PersistSteps, PublishSteps,
       RecoverSteps, ResumeSteps
  <2>2. SlotOK'
    BY <1>32 DEF LoseIndex, SlotOK, ControlOK, disk, handle, FrontRecord, Front,
       PersistSteps, PublishSteps, RecoverSteps, ResumeSteps, LegacySteps,
       AppendSteps, AfterLoad
  <2> QED
    BY <2>1, <2>2
<1>33. CASE ProcessCrash
  <2>1. ControlOK'
    BY <1>33 DEF ProcessCrash, ControlOK, Crash, Return, HandleGone,
       PersistSteps, PublishSteps, RecoverSteps, ResumeSteps
  <2>2. SlotOK'
    BY <1>33 DEF ProcessCrash, SlotOK, ControlOK, Crash, Return, HandleGone,
       disk, PersistSteps, PublishSteps, RecoverSteps, ResumeSteps, LegacySteps,
       AppendSteps, AfterLoad
  <2> QED
    BY <2>1, <2>2
<1>34. CASE WriteBack
  <2>1. ControlOK'
    BY <1>34 DEF WriteBack, ControlOK, handle, PersistSteps, PublishSteps,
       RecoverSteps, ResumeSteps
  <2>2. SlotOK'
    BY <1>34 DEF WriteBack, SlotOK, ControlOK, handle, FrontRecord, Front,
       PersistSteps, PublishSteps, RecoverSteps, ResumeSteps, LegacySteps,
       AppendSteps, AfterLoad
  <2> QED
    BY <2>1, <2>2
<1>35. CASE PowerLoss
  <2>1. ~file'.exists => file'.lines = <<>>
    BY <1>35 DEF PowerLoss, SurvivingFiles, NoFile, FileType, Transcript
  <2>2. ControlOK'
    BY <1>35 DEF PowerLoss, ControlOK, Crash, Return, HandleGone, PersistSteps,
       PublishSteps, RecoverSteps, ResumeSteps
  <2>3. SlotOK'
    BY <1>35, <2>1 DEF PowerLoss, SlotOK, ControlOK, Crash, Return, HandleGone,
       PersistSteps, PublishSteps, RecoverSteps, ResumeSteps, LegacySteps,
       AppendSteps, AfterLoad
  <2> QED
    BY <2>2, <2>3
<1> QED
  BY <1>1, <1>2, <1>3, <1>4, <1>5, <1>6, <1>7, <1>8, <1>9, <1>10, <1>11, <1>12,
     <1>13, <1>14, <1>15, <1>16, <1>17, <1>18, <1>19, <1>20, <1>21, <1>22,
     <1>23, <1>24, <1>25, <1>26, <1>27, <1>28, <1>29, <1>30, <1>31, <1>32,
     <1>33, <1>34, <1>35 DEF Next, Proceed, Persist, Publish, Recover

-----------------------------------------------------------------------------
(* The theorems *)

\* A step that changes nothing changes nothing here.
LEMMA SlotStutter ==
  ASSUME SlotInv, UNCHANGED vars
  PROVE  SlotInv'
<1>1. /\ FileType' /\ SlotType' /\ IndexType' /\ HandleType' /\ ControlType'
  BY DEF SlotInv, TypeOK, FileType, SlotType, IndexType, HandleType,
       ControlType, vars, disk, handle, bounds
<1>2. ControlOK' /\ SlotOK'
  BY DEF SlotInv, ControlOK, SlotOK, FrontRecord, Front, vars, disk, handle
<1> QED
  BY <1>1, <1>2 DEF SlotInv, TypeOK

\* A created session and a session of an older version start in accord.
LEMMA SlotInit == Init => SlotInv
<1> SUFFICES ASSUME Init
             PROVE  SlotInv
  OBVIOUS
<1>1. file \in Transcript \cup {NoFile}
  <2>1. CASE Created
    BY <2>1 DEF Created
  <2>2. ASSUME NEW n \in Nat, NEW tail \in Tails, NEW indexed,
               Legacy(n, tail, indexed)
        PROVE  file \in Transcript /\ file.exists
    <3>1. \A i \in 1..n :
             [uuid |-> i, parent |-> i - 1, msg |-> i] \in Entry
      BY DEF Entry, Uuid, NoUuid
    <3>2. LegacyLines(n) \in Seq(Entry)
      BY <3>1, IsASeq DEF LegacyLines
    <3> QED
      BY <2>2, <3>2 DEF Legacy, Transcript
  <2> QED
    BY <2>1, <2>2, BoundsAssumption DEF Init
<1>2. FileType
  BY <1>1, NoFileType DEF Init, FileType
<1>3. SlotType /\ IndexType
  <2>1. CASE Created
    BY <2>1 DEF Init, Created, Idle, EmptyIndex, SlotType, IndexType
  <2>2. ASSUME NEW n \in Nat, NEW tail \in Tails, NEW indexed \in SUBSET (1..n),
               Legacy(n, tail, indexed)
        PROVE  IndexType
    <3>1. indexed \in SUBSET Uuid
      BY DEF Uuid, NoUuid
    <3> QED
      BY <2>2, <3>1 DEF Init, Legacy, IndexType
  <2>3. SlotType
    BY DEF Init, Idle, SlotType
  <2> QED
    BY <2>1, <2>2, <2>3, BoundsAssumption DEF Init
<1>4. HandleType
  BY EmptySeq DEF Init, Idle, HandleType, Created, Legacy
<1>5. ControlType
  <2>1. uuids \in Nat /\ known \in BOOLEAN
    <3>1. CASE Created
      BY <3>1 DEF Created
    <3>2. ASSUME NEW n \in Nat, NEW tail \in Tails, NEW indexed,
                 Legacy(n, tail, indexed)
          PROVE  uuids \in Nat /\ known \in BOOLEAN
      BY <3>2 DEF Legacy
    <3> QED
      BY <3>1, <3>2, BoundsAssumption DEF Init
  <2> QED
    BY <2>1, StepsType DEF Init, Idle, ControlType, Ops
<1>6. ControlOK
  BY DEF Init, Idle, ControlOK, PersistSteps, RecoverSteps, ResumeSteps
<1>7. SlotOK
  BY <1>1 DEF Init, Idle, Created, Legacy, NoFile, SlotOK, PublishSteps,
       ResumeSteps, LegacySteps, AppendSteps, AfterLoad
<1> QED
  BY <1>2, <1>3, <1>4, <1>5, <1>6, <1>7 DEF SlotInv, TypeOK

\* The invariant is inductive.
LEMMA SlotStep == SlotInv /\ [Next]_vars => SlotInv'
<1>1. ASSUME SlotInv, Next PROVE SlotInv'
  BY <1>1, TypeNext, SlotNext DEF SlotInv, TypeOK
<1> QED
  BY <1>1, SlotStutter

\* Whatever calls fail and wherever crashes and power losses fall, the running
\* operation, its step and the pending-index record fit together.
THEOREM SlotInvariant == Spec => []SlotInv
BY SlotInit, SlotStep, PTL DEF Spec

\* Every variable of the append protocol keeps its type, for any number of
\* messages, failing calls, crashes and power losses.
THEOREM TypeCorrect == Spec => []TypeOK
<1>1. SlotInv => TypeOK
  BY DEF SlotInv
<1> QED
  BY <1>1, SlotInvariant, PTL

\* A handle never has more than one intent queued, and between publishing the
\* intent of an append and settling the append the record on disk is that
\* intent: wherever a crash falls, the next recovery finds what to look for.
THEOREM OneIntentAlways == Spec => []OneIntent
<1>1. SlotInv => OneIntent
  <2> SUFFICES ASSUME SlotInv
               PROVE  OneIntent
    OBVIOUS
  <2>1. Len(queue) <= 1
    <3>1. CASE queue = <<>>
      BY <3>1
    <3>2. CASE queue # <<>>
      BY <3>2 DEF SlotInv, SlotOK
    <3> QED
      BY <3>1, <3>2
  <2> QED
    BY <2>1 DEF SlotInv, SlotOK, OneIntent, AppendSteps
<1> QED
  BY <1>1, SlotInvariant, PTL

-----------------------------------------------------------------------------
(* The transcript and the place the handle has in it *)

\* Message i on line i, the line before as its parent, and UUIDs that grow up
\* to n: a fresh one is drawn for every append.
Chained(lines, n) ==
  \A i \in DOMAIN lines :
    /\ lines[i].msg = i
    /\ lines[i].parent = (IF i = 1 THEN NoUuid ELSE lines[i - 1].uuid)
    /\ lines[i].uuid <= n
    /\ \A j \in DOMAIN lines : j < i => lines[j].uuid < lines[i].uuid

ChainOK == Chained(file.lines, uuids) /\ Chained(durFile.lines, uuids)

\* The transcript ends where the handle believes it does.
AtEnd == Len(file.lines) = persisted /\ last = LastUuid(file)

\* The queued intent is younger than every line.
Fresh == \A i \in DOMAIN file.lines : file.lines[i].uuid < Front.uuid

\* The line of the queued intent is the last one.
OneMore == /\ Len(file.lines) = persisted + 1
           /\ file.lines[persisted + 1] = NextLine

\* Whether the append of the queued intent has reached the file is open.
MayEnd == (AtEnd /\ Fresh) \/ OneMore

Settled == queue = <<>> \/ Front.appended

PlaceOK ==
  /\ op = "persist" => ~uncertain /\ ~gone
  /\ queue # <<>> => Front.uuid <= uuids
  /\ live /\ ~uncertain /\ ~gone /\ at \notin AppendSteps =>
       IF Settled THEN AtEnd /\ file.tail = "clean" ELSE MayEnd
  /\ op = "persist" /\ at \in PublishSteps => Settled
  /\ at \in {"discard", "write", "withdraw"} => AtEnd /\ Fresh /\ file.tail = "clean"
  /\ at = "write" => prepared = [existed |-> file.exists, len |-> persisted]
  /\ at \in {"sync", "rollback", "recheck", "rollback2"} =>
       prepared.len = persisted /\ MayEnd
  /\ at \in {"sync", "link"} => OneMore /\ file.tail = "clean"
  /\ at = "link" => persisted = 0
  /\ at \in AfterLoad => file.tail = "clean"

FileInv == SlotInv /\ ChainOK /\ PlaceOK

(* Chains of lines *)

LEMMA ChainGrows ==
  ASSUME NEW s \in Seq(Entry), NEW n \in Nat, NEW m \in Nat, Chained(s, n), n <= m
  PROVE  Chained(s, m)
<1>1. \A i \in DOMAIN s : s[i] \in Entry
  BY ElementOfSeq, LenProperties
<1>2. \A i \in DOMAIN s : s[i].uuid \in Nat
  BY <1>1 DEF Entry, Uuid
<1> QED
  BY <1>2 DEF Chained

\* No line, no break.
LEMMA ChainEmpty == \A n \in Nat : Chained(<<>>, n)
BY DEF Chained

\* A line that names the last one as its parent and is younger continues it.
LEMMA ChainAppend ==
  ASSUME NEW s \in Seq(Entry), NEW n \in Nat, Chained(s, n), NEW e \in Entry,
         e.msg = Len(s) + 1,
         e.parent = (IF s = <<>> THEN NoUuid ELSE s[Len(s)].uuid),
         e.uuid <= n, \A i \in DOMAIN s : s[i].uuid < e.uuid
  PROVE  Chained(Append(s, e), n)
<1> DEFINE t == Append(s, e)
<1>1. /\ Len(s) \in Nat /\ DOMAIN s = 1..Len(s)
      /\ Len(t) = Len(s) + 1 /\ DOMAIN t = 1..Len(t)
      /\ t[Len(s) + 1] = e /\ \A i \in 1..Len(s) : t[i] = s[i]
  BY AppendProperties, LenProperties
<1>2. s = <<>> <=> Len(s) = 0
  BY EmptySeq
<1> HIDE DEF t
<1>3. ASSUME NEW i \in DOMAIN t
      PROVE  /\ t[i].msg = i
             /\ t[i].parent = (IF i = 1 THEN NoUuid ELSE t[i - 1].uuid)
             /\ t[i].uuid <= n
             /\ \A j \in DOMAIN t : j < i => t[j].uuid < t[i].uuid
  <2>1. CASE i = Len(s) + 1
    <3>1. t[i].parent = (IF i = 1 THEN NoUuid ELSE t[i - 1].uuid)
      <4>1. CASE Len(s) = 0
        BY <1>1, <1>2, <2>1, <4>1
      <4>2. CASE Len(s) # 0
        BY <1>1, <1>2, <2>1, <4>2
      <4> QED
        BY <4>1, <4>2
    <3>2. \A j \in DOMAIN t : j < i => j \in DOMAIN s /\ t[j] = s[j]
      BY <1>1, <2>1
    <3> QED
      BY <1>1, <2>1, <3>1, <3>2
  <2>2. CASE i \in 1..Len(s)
    <3>1. i \in DOMAIN s /\ t[i] = s[i] /\ (i # 1 => i - 1 \in DOMAIN s /\ t[i - 1] = s[i - 1])
      BY <1>1, <2>2
    <3>2. \A j \in DOMAIN t : j < i => j \in DOMAIN s /\ t[j] = s[j]
      BY <1>1, <2>2
    <3> QED
      BY <3>1, <3>2 DEF Chained
  <2> QED
    BY <1>1, <1>3, <2>1, <2>2
<1>4. Chained(t, n)
  BY <1>3 DEF Chained
<1> QED
  BY <1>4 DEF t

\* What a chain begins with is a chain.
LEMMA ChainPrefix ==
  ASSUME NEW s \in Seq(Entry), NEW n \in Nat, Chained(s, n),
         NEW t \in Seq(Entry), Len(t) <= Len(s), \A i \in 1..Len(t) : t[i] = s[i]
  PROVE  Chained(t, n)
<1>1. /\ Len(s) \in Nat /\ DOMAIN s = 1..Len(s) /\ Len(t) \in Nat /\ DOMAIN t = 1..Len(t)
  BY LenProperties
<1>2. \A i \in DOMAIN t : i \in DOMAIN s /\ t[i] = s[i] /\ (i # 1 => i - 1 \in DOMAIN t)
  BY <1>1
<1> QED
  BY <1>2 DEF Chained


\* The rollback of an append leaves what was there before it.
LEMMA CutBack ==
  ASSUME FileType, HandleType, ChainOK, MayEnd, queue # <<>>, Len(queue) = 1,
         prepared.len = persisted, ~prepared.existed => prepared.len = 0
  PROVE  /\ Cut(file) \in Transcript /\ Cut(file).tail = "clean"
         /\ Len(Cut(file).lines) = persisted
         /\ last = LastUuid(Cut(file))
         /\ \A i \in DOMAIN Cut(file).lines : Cut(file).lines[i].uuid < Front.uuid
         /\ \A i \in 1..persisted :
              i \in DOMAIN file.lines /\ Cut(file).lines[i] = file.lines[i]
<1> DEFINE c == Cut(file)
<1>1. /\ file.lines \in Seq(Entry) /\ Len(file.lines) \in Nat
      /\ DOMAIN file.lines = 1..Len(file.lines)
      /\ persisted \in Nat /\ prepared.len <= Len(file.lines)
  BY LenProperties DEF FileType, HandleType, Transcript, MayEnd, AtEnd, OneMore
<1>2. /\ c \in Transcript
      /\ Len(c.lines) = persisted
      /\ \A i \in DOMAIN c.lines : i \in DOMAIN file.lines /\ c.lines[i] = file.lines[i]
  BY <1>1, CutType
<1>3. c.tail = "clean"
  BY DEF Cut, NoFile, FileType, Transcript
<1>4. c.lines \in Seq(Entry) /\ DOMAIN c.lines = 1..persisted
  BY <1>1, <1>2, LenProperties DEF Transcript
<1>5. c.lines = <<>> <=> persisted = 0
  BY <1>2, <1>4, EmptySeq
<1> HIDE DEF c
<1>6. LastUuid(c) = (IF persisted = 0 THEN NoUuid ELSE file.lines[persisted].uuid)
  <2>1. persisted # 0 => persisted \in DOMAIN c.lines
    BY <1>1, <1>4
  <2> QED
    BY <1>2, <1>5, <2>1 DEF LastUuid
<1>7. CASE AtEnd /\ Fresh
  <2>1. file.lines = <<>> <=> persisted = 0
    BY <1>1, <1>7, EmptySeq DEF AtEnd
  <2>2. last = LastUuid(c)
    BY <1>6, <1>7, <2>1 DEF AtEnd, LastUuid
  <2>3. \A i \in DOMAIN c.lines : c.lines[i].uuid < Front.uuid
    BY <1>2, <1>7 DEF Fresh
  <2> QED
    BY <1>2, <1>3, <1>4, <2>2, <2>3 DEF c
<1>8. CASE OneMore
  <2> DEFINE n == persisted + 1
  <2>1. n \in DOMAIN file.lines /\ file.lines[n] = NextLine /\ (n = 1 <=> persisted = 0)
        /\ n - 1 = persisted
    BY <1>1, <1>8 DEF OneMore
  <2>2. file.lines[n].parent = (IF n = 1 THEN NoUuid ELSE file.lines[n - 1].uuid)
        /\ \A j \in DOMAIN file.lines : j < n => file.lines[j].uuid < file.lines[n].uuid
    BY <2>1 DEF ChainOK, Chained
  <2>3. NextLine.parent = last /\ NextLine.uuid = Front.uuid
    BY DEF NextLine
  <2> HIDE DEF n
  <2>4. last = LastUuid(c)
    BY <1>6, <2>1, <2>2, <2>3
  <2>5. \A i \in DOMAIN c.lines : i \in DOMAIN file.lines /\ i < n
    BY <1>1, <1>2, <1>4 DEF n
  <2>6. \A i \in DOMAIN c.lines : c.lines[i].uuid < Front.uuid
    BY <1>2, <2>1, <2>2, <2>3, <2>5
  <2> QED
    BY <1>2, <1>3, <1>4, <2>4, <2>6 DEF c
<1> QED
  BY <1>7, <1>8 DEF MayEnd

(* The steps on the two files *)

Kept == {file.lines, durFile.lines, <<>>}

\* Files that keep to the lines of before keep to their chains.
LEMMA ChainKept ==
  ASSUME FileType, ControlType, ChainOK, file'.lines \in Kept, durFile'.lines \in Kept,
         uuids' \in {uuids, uuids + 1}
  PROVE  ChainOK'
<1>1. \A s \in Kept : s \in Seq(Entry) /\ Chained(s, uuids)
  BY ChainEmpty, EmptySeq DEF Kept, FileType, Transcript, ControlType, ChainOK
<1>2. uuids \in Nat /\ uuids' \in Nat /\ uuids <= uuids'
  BY DEF ControlType
<1>3. \A s \in Kept : Chained(s, uuids')
  BY <1>1, <1>2, ChainGrows
<1> QED
  BY <1>3 DEF ChainOK

\* What the actions that write no line do to the two files.
LEMMA RepairLines ==
  ASSUME FileType, RepairTail
  PROVE  file'.lines = file.lines /\ durFile'.lines \in Kept /\ file'.tail = "clean"
BY DEF RepairTail, Repaired, FileType, Transcript, Kept

\* Every step but a write, a cut and a copy to stable storage leaves both files
\* with lines they had.
LEMMA LinesKept ==
  ASSUME FileType, Next, ~WriteLine, ~Rollback
  PROVE  file'.lines \in Kept /\ durFile'.lines \in Kept
<1>1. CASE UNCHANGED <<file, durFile>>
  BY <1>1 DEF Kept
<1>2. CASE RepairTail
  BY <1>2, RepairLines DEF Kept
<1>3. CASE FailLoading
  BY <1>3 DEF FailLoading, Repaired, FileType, Transcript, Kept
<1>4. CASE SyncLine
  BY <1>4 DEF SyncLine, FileType, Transcript, Kept
<1>5. CASE SyncNewFile
  BY <1>5 DEF SyncNewFile, NoFile, FileType, Transcript, Kept
<1>6. CASE Recheck
  BY <1>6 DEF Recheck, Kept
<1>7. CASE Expunge
  BY <1>7 DEF Expunge, NoFile, Kept
<1>8. CASE WriteBack
  <2>1. CASE durFile' = [durFile EXCEPT !.lines = file.lines, !.tail = file.tail]
    BY <1>8, <2>1 DEF WriteBack, FileType, Transcript, Kept
  <2>2. CASE durFile' = (IF file.exists THEN [durFile EXCEPT !.exists = TRUE] ELSE NoFile)
    BY <1>8, <2>2 DEF WriteBack, NoFile, FileType, Transcript, Kept
  <2>3. CASE UNCHANGED durFile
    BY <1>8, <2>3 DEF WriteBack, Kept
  <2> QED
    BY <1>8, <2>1, <2>2, <2>3 DEF WriteBack
<1>9. CASE PowerLoss
  <2>1. file' \in SurvivingFiles /\ durFile' = file'
    BY <1>9 DEF PowerLoss
  <2>2. \A f \in SurvivingFiles : f.lines \in {durFile.lines, <<>>}
    BY DEF SurvivingFiles, NoFile, FileType, Transcript
  <2> QED
    BY <2>1, <2>2 DEF Kept
<1>10. UNCHANGED <<file, durFile>> \/ RepairTail \/ FailLoading \/ SyncLine \/ SyncNewFile
         \/ Recheck \/ Expunge \/ WriteBack \/ PowerLoss
  <2>1. ASSUME NEW n \in conv..MaxMessages, BeginPersist(n) PROVE UNCHANGED <<file, durFile>>
    BY <2>1 DEF BeginPersist, disk
  <2>2. ASSUME NEW goal \in {"list", "resume"}, BeginRecovery(goal)
        PROVE  UNCHANGED <<file, durFile>>
    BY <2>2 DEF BeginRecovery, disk
  <2>3. CASE Discard \/ InvalidateBaselines \/ OpenIndex \/ Drain \/ PublishIntent \/ Withdraw
    BY <2>3 DEF Discard, InvalidateBaselines, OpenIndex, Drain, PublishIntent, Withdraw, disk
  <2>4. CASE Publish \/ Preflight \/ LegacyIntent \/ LegacyReset \/ RebuildRow \/ Fill
             \/ WriteBaseline \/ Attach \/ FailClean
    BY <2>4 DEF Publish, SaveRow, SaveMessage, Retire, Preflight, LegacyIntent, LegacyReset,
       RebuildRow, Fill, WriteBaseline, Attach, FailClean, disk
  <2>5. CASE Close \/ LoseIndex \/ ProcessCrash
    BY <2>5 DEF Close, LoseIndex, ProcessCrash, disk
  <2>6. CASE Resolve \/ FindRecord \/ InspectLegacy \/ Load
    BY <2>6 DEF Resolve, FindRecord, InspectLegacy, Load
  <2> QED
    BY <2>1, <2>2, <2>3, <2>4, <2>5, <2>6 DEF Next, Proceed, Persist, Recover
<1> QED
  BY <1>1, <1>2, <1>3, <1>4, <1>5, <1>6, <1>7, <1>8, <1>9, <1>10

\* UUIDs are drawn one at a time.
LEMMA UuidsGrow ==
  ASSUME Next
  PROVE  uuids' \in {uuids, uuids + 1}
<1>1. ASSUME NEW n \in conv..MaxMessages, BeginPersist(n) PROVE UNCHANGED uuids
  BY <1>1 DEF BeginPersist, bounds
<1>2. ASSUME NEW goal \in {"list", "resume"}, BeginRecovery(goal) PROVE UNCHANGED uuids
  BY <1>2 DEF BeginRecovery, bounds
<1>3. CASE PublishIntent
  BY <1>3 DEF PublishIntent
<1>4. CASE Resolve \/ Discard \/ InvalidateBaselines \/ OpenIndex \/ Drain \/ WriteLine
           \/ SyncLine \/ SyncNewFile \/ Rollback \/ Recheck \/ Withdraw
  BY <1>4 DEF Resolve, Discard, InvalidateBaselines, OpenIndex, Drain, WriteLine, SyncLine,
     SyncNewFile, Rollback, Recheck, Withdraw, bounds
<1>5. CASE Publish \/ Recover
  BY <1>5 DEF Publish, SaveRow, SaveMessage, Retire, Recover, Preflight, FindRecord, Expunge,
     InspectLegacy, LegacyIntent, LegacyReset, RebuildRow, Fill, WriteBaseline, bounds
<1>6. CASE Load \/ Attach \/ FailClean \/ FailLoading
  BY <1>6 DEF Load, Attach, FailClean, FailLoading, bounds
<1>7. CASE Close \/ LoseIndex \/ ProcessCrash \/ WriteBack \/ PowerLoss
  BY <1>7 DEF Close, LoseIndex, ProcessCrash, WriteBack, PowerLoss, Crash, bounds
<1> QED
  BY <1>1, <1>2, <1>3, <1>4, <1>5, <1>6, <1>7 DEF Next, Proceed, Persist

\* A write leaves the lines as they are or adds the one it is about; only a
\* whole write ends in a newline for sure.
LEMMA WrittenLines ==
  ASSUME FileType, WriteLine
  PROVE  /\ file'.lines \in {file.lines, Append(file.lines, NextLine)}
         /\ at' = "sync" => file'.lines = Append(file.lines, NextLine) /\ file'.tail = "clean"
         /\ at' = "withdraw" => UNCHANGED file
         /\ at' \in {"sync", "rollback", "withdraw"}
<1>1. \A f \in {[file EXCEPT !.exists = TRUE, !.tail = "torn"],
                 [file EXCEPT !.exists = TRUE]} : f.lines = file.lines
  BY DEF FileType, Transcript
<1>2. \A tail : /\ WithLine(file, tail).lines = Append(file.lines, NextLine)
                /\ WithLine(file, tail).tail = tail
  BY DEF WithLine
<1> QED
  BY <1>1, <1>2 DEF WriteLine, Goto

\* The line an append writes continues the chain.
LEMMA WriteChains ==
  ASSUME SlotInv, ChainOK, PlaceOK, WriteLine
  PROVE  /\ Append(file.lines, NextLine) \in Seq(Entry)
         /\ Chained(Append(file.lines, NextLine), uuids)
         /\ Len(Append(file.lines, NextLine)) = persisted + 1
         /\ Append(file.lines, NextLine)[persisted + 1] = NextLine
<1>1. /\ at = "write" /\ queue # <<>> /\ Len(queue) = 1 /\ Front.uuid <= uuids
      /\ AtEnd /\ Fresh /\ uuids \in Nat /\ file.lines \in Seq(Entry)
  BY DEF WriteLine, SlotInv, SlotOK, AppendSteps, PlaceOK, TypeOK, ControlType, FileType,
     Transcript
<1>2. NextLine \in Entry /\ NextLine.uuid = Front.uuid
  BY <1>1, NextLineType DEF SlotInv, TypeOK
<1>3. NextLine.msg = Len(file.lines) + 1 /\ NextLine.parent = LastUuid(file)
  BY <1>1 DEF NextLine, AtEnd
<1>4. \A i \in DOMAIN file.lines : file.lines[i].uuid < NextLine.uuid
  BY <1>1, <1>2 DEF Fresh
<1>5. Chained(Append(file.lines, NextLine), uuids)
  BY <1>1, <1>2, <1>3, <1>4, ChainAppend DEF ChainOK, LastUuid
<1> QED
  BY <1>1, <1>2, <1>5, AppendProperties DEF AtEnd

\* Every step leaves two chains.
LEMMA ChainNext ==
  ASSUME SlotInv, ChainOK, PlaceOK, Next
  PROVE  ChainOK'
<1>1. FileType /\ ControlType /\ HandleType /\ uuids' \in {uuids, uuids + 1}
  BY UuidsGrow DEF SlotInv, TypeOK
<1>2. CASE WriteLine
  <2>1. /\ file'.lines \in {file.lines, Append(file.lines, NextLine)}
        /\ UNCHANGED <<durFile, uuids>>
    BY <1>1, <1>2, WrittenLines DEF WriteLine
  <2> QED
    BY <2>1, <1>2, WriteChains DEF ChainOK
<1>3. CASE Rollback
  <2>1. /\ at \in {"rollback", "rollback2"} /\ queue # <<>> /\ Len(queue) = 1 /\ MayEnd
        /\ prepared.len = persisted /\ (~prepared.existed => prepared.len = 0)
        /\ prepared.len <= Len(file.lines)
    BY <1>3 DEF Rollback, SlotInv, SlotOK, AppendSteps, PlaceOK
  <2>2. /\ Cut(file) \in Transcript
        /\ Len(Cut(file).lines) = persisted
        /\ \A i \in 1..persisted : i \in DOMAIN file.lines /\ Cut(file).lines[i] = file.lines[i]
    BY <1>1, <2>1, CutBack
  <2>3. Chained(Cut(file).lines, uuids)
    <3>1. file.lines \in Seq(Entry) /\ Cut(file).lines \in Seq(Entry) /\ uuids \in Nat
      BY <1>1, <2>2 DEF FileType, Transcript, ControlType
    <3> QED
      BY <2>1, <2>2, <3>1, ChainPrefix DEF ChainOK
  <2>4. file'.lines \in {file.lines, Cut(file).lines}
    BY <1>3 DEF Rollback, RolledBack, RollbackFails
  <2>5. durFile'.lines \in {durFile.lines, Cut(file).lines}
    BY <1>1, <1>3 DEF Rollback, RolledBack, RollbackFails, FileType, Transcript, Cut, NoFile
  <2>6. UNCHANGED uuids
    BY <1>3 DEF Rollback
  <2> QED
    BY <2>3, <2>4, <2>5, <2>6 DEF ChainOK
<1>4. CASE ~WriteLine /\ ~Rollback
  BY <1>1, <1>4, LinesKept, ChainKept
<1> QED
  BY <1>2, <1>3, <1>4

(* The place of the handle, step by step *)

\* Marking the queued intent settles it.
LEMMA MarkedSettles ==
  ASSUME HandleType, queue # <<>>, Len(queue) = 1
  PROVE  [queue EXCEPT ![1].appended = TRUE][1].appended = TRUE
<1>1. queue \in Seq(Work) /\ 1 \in DOMAIN queue
  BY LenProperties DEF HandleType
<1>2. queue[1] \in Work
  BY <1>1, LenProperties, ElementOfSeq
<1> QED
  BY <1>1, <1>2 DEF Work

\* The line of the queued intent, once it is the last, is where the handle
\* moves on to; before it, it is not in the file.
LEMMA OneMoreLast ==
  ASSUME SlotInv, OneMore
  PROVE  /\ LastUuid(file) = Front.uuid
         /\ Front.uuid \in UuidsOf(file)
         /\ file.exists
<1>1. /\ file.lines \in Seq(Entry) /\ persisted \in Nat
      /\ Len(file.lines) = persisted + 1
      /\ file.lines[persisted + 1].uuid = Front.uuid
  BY DEF SlotInv, TypeOK, FileType, Transcript, HandleType, OneMore, NextLine
<1>2. persisted + 1 \in DOMAIN file.lines /\ file.lines # <<>>
  BY <1>1, LenProperties, EmptySeq
<1> QED
  BY <1>1, <1>2 DEF LastUuid, UuidsOf, SlotInv, SlotOK

LEMMA FreshAbsent ==
  ASSUME FileType, Fresh
  PROVE  Front.uuid \notin UuidsOf(file)
<1>1. \A i \in DOMAIN file.lines : file.lines[i].uuid \in Nat
  BY LineType DEF Uuid
<1>2. \A i \in DOMAIN file.lines :
        file.lines[i].uuid < Front.uuid => file.lines[i].uuid # Front.uuid
  BY <1>1
<1> QED
  BY <1>2 DEF Fresh, UuidsOf

\* A step that takes the operation neither into nor out of an append, and
\* leaves the lines and the handle as they are.
LEMMA PlaceStays ==
  ASSUME SlotInv, PlaceOK, uuids' = uuids,
         file'.lines = file.lines, file'.tail \in {file.tail, "clean"},
         UNCHANGED <<live, persisted, last, queue, uncertain, gone>>,
         at \notin AppendSteps, at' \notin AppendSteps \cup {"discard"},
         op' = "persist" => ~uncertain /\ ~gone,
         op' = "persist" /\ at' \in PublishSteps => Settled,
         at' \in AfterLoad => file'.tail = "clean"
  PROVE  PlaceOK'
<1>1. UNCHANGED <<Settled, AtEnd, Fresh, OneMore, MayEnd>>
  BY DEF Settled, AtEnd, Fresh, OneMore, MayEnd, Front, NextLine, LastUuid
<1>2. (queue # <<>> => Front.uuid <= uuids)'
  BY DEF PlaceOK, Front
<1>3. live' /\ ~uncertain' /\ ~gone' /\ at' \notin AppendSteps =>
         IF Settled' THEN AtEnd' /\ file'.tail = "clean" ELSE MayEnd'
  BY <1>1 DEF PlaceOK
<1> QED
  BY <1>1, <1>2, <1>3 DEF PlaceOK, AppendSteps

\* The handle is gone: nobody believes anything.
LEMMA PlaceGone ==
  ASSUME ~live', queue' = <<>>, op' # "persist", at' = "idle"
  PROVE  PlaceOK'
BY DEF PlaceOK, Settled, AppendSteps, AfterLoad, PublishSteps

\* Nothing moves.
LEMMA PlaceSame ==
  ASSUME PlaceOK, UNCHANGED <<file, live, persisted, last, queue, uncertain, prepared, gone,
                              op, at, uuids>>
  PROVE  PlaceOK'
BY DEF PlaceOK, Settled, AtEnd, Fresh, OneMore, MayEnd, Front, NextLine, LastUuid

\* The steps around an append: what persist_new does before and after it, the
\* recovery, resume.
LEMMA PlaceAround ==
  ASSUME SlotInv, PlaceOK,
         \/ OpenIndex \/ InvalidateBaselines \/ Drain \/ SaveRow \/ SaveMessage \/ Preflight
         \/ FindRecord \/ InspectLegacy \/ LegacyIntent \/ LegacyReset \/ RebuildRow \/ Fill
         \/ WriteBaseline \/ Load \/ FailClean \/ FailLoading
  PROVE  PlaceOK'
<1>1. uuids' = uuids /\ UNCHANGED <<live, persisted, last, queue, uncertain, gone>>
  BY DEF OpenIndex, InvalidateBaselines, Drain, SaveRow, SaveMessage, Preflight, FindRecord,
     InspectLegacy, LegacyIntent, LegacyReset, RebuildRow, Fill, WriteBaseline, Load,
     FailClean, FailLoading, handle, bounds
<1>2. file'.lines = file.lines /\ file'.tail \in {file.tail, "clean"}
  <2>1. CASE UNCHANGED file
    BY <2>1
  <2>2. CASE RepairTail
    BY <2>2, RepairLines DEF SlotInv, TypeOK
  <2>3. CASE FailLoading
    BY <2>3 DEF FailLoading, Repaired, SlotInv, TypeOK, FileType, Transcript
  <2> QED
    BY <2>1, <2>2, <2>3 DEF OpenIndex, InvalidateBaselines, Drain, SaveRow, SaveMessage,
       Preflight, FindRecord, InspectLegacy, LegacyIntent, LegacyReset, RebuildRow, Fill,
       WriteBaseline, Load, FailClean, disk
<1>3. at \notin AppendSteps /\ at' \notin AppendSteps \cup {"discard"}
  BY DEF OpenIndex, InvalidateBaselines, Drain, SaveRow, SaveMessage, Preflight, FindRecord,
     InspectLegacy, LegacyIntent, LegacyReset, RebuildRow, Fill, WriteBaseline, Load,
     FailClean, FailLoading, CleanSteps, LoadingSteps, AppendSteps, Goto, Return,
     AfterRecovery, Absent
<1>4. op' = "persist" => op = "persist"
  BY DEF OpenIndex, InvalidateBaselines, Drain, SaveRow, SaveMessage, Preflight, FindRecord,
     InspectLegacy, LegacyIntent, LegacyReset, RebuildRow, Fill, WriteBaseline, Load,
     FailClean, FailLoading, Goto, Return, AfterRecovery, Absent
<1>5. op' = "persist" /\ at' \in PublishSteps => Settled
  <2>1. op = "persist" => at \in {"open", "drain", "row", "message"} \/ at' = "idle"
    BY DEF OpenIndex, InvalidateBaselines, Drain, SaveRow, SaveMessage, Preflight, FindRecord,
       InspectLegacy, LegacyIntent, LegacyReset, RebuildRow, Fill, WriteBaseline, Load,
       FailClean, FailLoading, CleanSteps, LoadingSteps, SlotInv, ControlOK, PersistSteps,
       PublishSteps, RecoverSteps, ResumeSteps, Return
  <2>2. CASE op = "persist" /\ at \in {"row", "message"}
    BY <2>2 DEF PlaceOK, PublishSteps
  <2>3. CASE op = "persist" /\ at \in {"open", "drain"}
    BY <2>3 DEF OpenIndex, InvalidateBaselines, Drain, SaveRow, SaveMessage, Preflight,
       FindRecord, InspectLegacy, LegacyIntent, LegacyReset, RebuildRow, Fill, WriteBaseline,
       Load, FailClean, FailLoading, LoadingSteps, Settled, PublishSteps, Goto, Return
  <2> QED
    BY <1>4, <2>1, <2>2, <2>3 DEF PublishSteps
<1>6. at' \in AfterLoad => file'.tail = "clean"
  <2>1. CASE Load
    BY <2>1, RepairLines DEF Load, SlotInv, TypeOK, Return, AfterLoad
  <2>2. CASE at \in AfterLoad
    BY <1>2, <2>2 DEF PlaceOK
  <2>3. CASE ~Load /\ at \notin AfterLoad
    BY <2>3 DEF OpenIndex, InvalidateBaselines, Drain, SaveRow, SaveMessage, Preflight,
       FindRecord, InspectLegacy, LegacyIntent, LegacyReset, RebuildRow, Fill, WriteBaseline,
       FailClean, FailLoading, AfterLoad, Goto, Return, AfterRecovery, Absent
  <2> QED
    BY <2>1, <2>2, <2>3
<1>7. op' = "persist" => ~uncertain /\ ~gone
  BY <1>4 DEF PlaceOK
<1> HIDE DEF Settled, AppendSteps, PublishSteps, AfterLoad
<1> QED
  BY <1>1, <1>2, <1>3, <1>5, <1>6, <1>7, PlaceStays

\* Looking the queued intent up in the transcript settles whether it got there.
LEMMA PlaceResolve ==
  ASSUME SlotInv, PlaceOK, Resolve
  PROVE  PlaceOK'
<1>1. /\ op = "persist" /\ live /\ ~uncertain /\ ~gone /\ at = "resolve" /\ uuids' = uuids
      /\ FileType /\ HandleType /\ UNCHANGED <<op, live, uncertain, gone, prepared>>
      /\ at' \in {"open", "discard"}
  BY DEF Resolve, SlotInv, ControlOK, PersistSteps, PlaceOK, TypeOK, bounds, Goto
<1>2. CASE Settled
  <2>1. file' = file /\ UNCHANGED <<persisted, last, queue>> /\ at' = "open"
    BY <1>2 DEF Resolve, Settled, Goto
  <2> QED
    BY <1>1, <1>2, <2>1, PlaceStays DEF AppendSteps, PublishSteps, AfterLoad
<1>3. CASE ~Settled
  <2>1. queue # <<>> /\ Len(queue) = 1 /\ MayEnd /\ RepairTail
    BY <1>1, <1>3 DEF PlaceOK, Settled, AppendSteps, SlotInv, SlotOK, Resolve
  <2>2. file'.lines = file.lines /\ file'.tail = "clean"
    BY <1>1, <2>1, RepairLines
  <2>3. CASE file.exists /\ Front.uuid \in UuidsOf(file)
    <3>1. OneMore
      BY <1>1, <2>1, <2>3, FreshAbsent DEF MayEnd
    <3>2. /\ queue' = [queue EXCEPT ![1].appended = TRUE]
          /\ persisted' = persisted + 1 /\ last' = Front.uuid /\ at' = "open"
      BY <1>3, <2>1, <2>3 DEF Resolve, Settled, Goto
    <3>3. Settled' /\ Front'.uuid = Front.uuid
      BY <1>1, <2>1, <3>2, MarkedSettles, QueueOfOne DEF Settled, Front
    <3>4. AtEnd'
      BY <2>2, <3>1, <3>2, OneMoreLast DEF AtEnd, OneMore, LastUuid
    <3> QED
      BY <1>1, <2>1, <2>2, <3>2, <3>3, <3>4 DEF PlaceOK, AppendSteps, PublishSteps, AfterLoad
  <2>4. CASE ~(file.exists /\ Front.uuid \in UuidsOf(file))
    <3>1. AtEnd /\ Fresh
      BY <2>1, <2>4, OneMoreLast DEF MayEnd
    <3>2. UNCHANGED <<persisted, last, queue>> /\ at' = "discard"
      BY <1>3, <2>4 DEF Resolve, Settled, Goto
    <3>3. AtEnd' /\ Fresh' /\ MayEnd' /\ ~Settled' /\ (queue # <<>> => Front.uuid <= uuids)'
      BY <1>1, <1>3, <2>2, <3>1, <3>2 DEF AtEnd, Fresh, MayEnd, LastUuid, Front, Settled,
         PlaceOK
    <3> QED
      BY <1>1, <2>2, <3>2, <3>3 DEF PlaceOK, AppendSteps, PublishSteps, AfterLoad
  <2> QED
    BY <2>3, <2>4
<1> QED
  BY <1>2, <1>3

\* An intent without its line leaves the handle at the end of the transcript,
\* whether it could be removed or stays queued.
LEMMA PlaceDropped ==
  ASSUME SlotInv, PlaceOK, Discard \/ Withdraw
  PROVE  PlaceOK'
<1>1. /\ op = "persist" /\ ~uncertain /\ ~gone /\ uuids' = uuids /\ at' \in {"idle", "resolve"}
      /\ AtEnd /\ Fresh /\ file.tail = "clean" /\ queue # <<>> /\ Len(queue) = 1
      /\ UNCHANGED <<file, live, persisted, last, uncertain, gone>> /\ HandleType
      /\ (queue' = queue \/ queue' = Tail(queue))
  BY DEF Discard, Withdraw, SlotInv, SlotOK, AppendSteps, ControlOK, PersistSteps, PlaceOK,
     Goto, Return, Pop, TypeOK
<1>2. AtEnd'
  BY <1>1 DEF AtEnd, LastUuid
<1>3. CASE queue' = queue
  <2>1. Fresh' /\ MayEnd' /\ (Front.uuid <= uuids)'
    BY <1>1, <1>2, <1>3 DEF Fresh, MayEnd, Front, PlaceOK
  <2> QED
    BY <1>1, <1>2, <2>1 DEF PlaceOK, AppendSteps, PublishSteps, AfterLoad
<1>4. CASE queue' = Tail(queue)
  <2>1. queue' = <<>>
    BY <1>1, <1>4, QueueOfOne
  <2> QED
    BY <1>1, <1>2, <2>1 DEF PlaceOK, Settled, AppendSteps, PublishSteps, AfterLoad
<1> QED
  BY <1>1, <1>3, <1>4

\* The published intent is younger than every line, and the append it is for is
\* prepared at the end of the transcript.
LEMMA PlaceIntent ==
  ASSUME SlotInv, ChainOK, PlaceOK, PublishIntent
  PROVE  PlaceOK'
<1> DEFINE work == [uuid |-> uuids + 1, appended |-> FALSE]
<1>1. /\ op = "persist" /\ live /\ ~uncertain /\ ~gone /\ queue = <<>> /\ at = "intent"
      /\ uuids' = uuids + 1 /\ uuids \in Nat /\ file.lines \in Seq(Entry)
      /\ UNCHANGED <<file, live, persisted, last, uncertain, gone>>
      /\ prepared' = [existed |-> file.exists, len |-> Len(file.lines)]
      /\ queue' = queue \/ queue' = Append(queue, work)
      /\ at' \in {"idle", "write"} /\ (at' = "idle" => op' = "none")
      /\ (at' = "write" => op' = op /\ queue' = Append(queue, work))
  BY DEF PublishIntent, SlotInv, SlotOK, ControlOK, PersistSteps, PlaceOK, Goto, Return,
     TypeOK, ControlType, FileType, Transcript
<1>2. AtEnd /\ file.tail = "clean"
  BY <1>1 DEF PlaceOK, Settled, AppendSteps
<1>3. AtEnd' /\ file'.tail = "clean"
  BY <1>1, <1>2 DEF AtEnd, LastUuid
<1>4. CASE queue' = queue
  BY <1>1, <1>3, <1>4 DEF PlaceOK, Settled, AppendSteps, PublishSteps, AfterLoad
<1>5. CASE queue' = Append(queue, work)
  <2>1. queue' # <<>> /\ Front' = work
    BY <1>1, <1>5 DEF Front
  <2>2. Fresh'
    <3>1. \A i \in DOMAIN file.lines : file.lines[i].uuid <= uuids
      BY DEF ChainOK, Chained
    <3>2. \A i \in DOMAIN file.lines : file.lines[i].uuid \in Nat
      BY LineType DEF Uuid, SlotInv, TypeOK
    <3>3. \A i \in DOMAIN file.lines : file.lines[i].uuid < uuids + 1
      BY <1>1, <3>1, <3>2
    <3> QED
      BY <1>1, <2>1, <3>3 DEF Fresh
  <2>3. Front'.uuid <= uuids' /\ ~Settled' /\ MayEnd'
    BY <1>1, <1>3, <2>1, <2>2 DEF Settled, MayEnd
  <2>4. at' = "write" => prepared' = [existed |-> file'.exists, len |-> persisted']
    BY <1>1, <1>2 DEF AtEnd
  <2> QED
    BY <1>1, <1>3, <2>2, <2>3, <2>4 DEF PlaceOK, AppendSteps, PublishSteps, AfterLoad
<1> QED
  BY <1>1, <1>4, <1>5

\* A write leaves the handle at the end or one line behind it.
LEMMA PlaceWrite ==
  ASSUME SlotInv, ChainOK, PlaceOK, WriteLine
  PROVE  PlaceOK'
<1>1. /\ op = "persist" /\ ~uncertain /\ ~gone /\ queue # <<>> /\ Len(queue) = 1 /\ at = "write"
      /\ AtEnd /\ Fresh /\ file.tail = "clean" /\ prepared.len = persisted
      /\ Front.uuid <= uuids
      /\ uuids' = uuids
      /\ UNCHANGED <<op, live, persisted, last, queue, uncertain, gone, prepared>>
  BY DEF WriteLine, SlotInv, SlotOK, AppendSteps, ControlOK, PersistSteps, PlaceOK, Goto, handle
<1>2. /\ file'.lines \in {file.lines, Append(file.lines, NextLine)}
      /\ at' = "sync" => file'.lines = Append(file.lines, NextLine) /\ file'.tail = "clean"
      /\ at' = "withdraw" => UNCHANGED file
      /\ at' \in {"sync", "rollback", "withdraw"}
  BY WrittenLines DEF SlotInv, TypeOK
<1>3. NextLine' = NextLine /\ Front' = Front
  BY <1>1 DEF NextLine, Front
<1>4. file'.lines = Append(file.lines, NextLine) => OneMore'
  BY <1>1, <1>3, WriteChains DEF OneMore
<1>5. file'.lines = file.lines => AtEnd' /\ Fresh'
  BY <1>1, <1>3 DEF AtEnd, Fresh, LastUuid
<1>6. MayEnd' /\ (at' = "sync" => OneMore' /\ file'.tail = "clean")
      /\ (at' = "withdraw" => AtEnd' /\ Fresh' /\ file'.tail = "clean")
  BY <1>1, <1>2, <1>4, <1>5 DEF MayEnd
<1> QED
  BY <1>1, <1>2, <1>3, <1>6 DEF PlaceOK, AppendSteps, PublishSteps, AfterLoad

\* An append that counts moves the handle to the end of the transcript.
LEMMA PlaceAppended ==
  ASSUME SlotInv, PlaceOK, at \in {"sync", "link", "recheck"}, OneMore, file.tail = "clean",
         Appended, UNCHANGED <<file, live, uncertain, gone, uuids>>
  PROVE  PlaceOK'
<1>1. /\ op = "persist" /\ ~uncertain /\ ~gone /\ queue # <<>> /\ Len(queue) = 1
      /\ HandleType /\ Front.uuid <= uuids
  BY DEF SlotInv, SlotOK, AppendSteps, ControlOK, PersistSteps, PlaceOK, TypeOK
<1>2. /\ queue' = [queue EXCEPT ![1].appended = TRUE] /\ persisted' = persisted + 1
      /\ last' = Front.uuid /\ at' = "drain" /\ op' = "persist"
  BY <1>1 DEF Appended, Front, Goto
<1>3. Settled' /\ Front'.uuid = Front.uuid
  BY <1>1, <1>2, MarkedSettles, QueueOfOne DEF Settled, Front
<1>4. AtEnd'
  BY <1>2, OneMoreLast DEF AtEnd, OneMore, LastUuid
<1> QED
  BY <1>1, <1>2, <1>3, <1>4 DEF PlaceOK, AppendSteps, PublishSteps, AfterLoad

\* A line that is durable, or a rollback that begins, is still the last one.
LEMMA PlaceSync ==
  ASSUME SlotInv, PlaceOK, SyncLine
  PROVE  PlaceOK'
<1>1. /\ op = "persist" /\ ~uncertain /\ ~gone /\ queue # <<>> /\ at = "sync"
      /\ OneMore /\ file.tail = "clean" /\ prepared.len = persisted /\ MayEnd
      /\ (~prepared.existed => persisted = 0) /\ (queue # <<>> => Front.uuid <= uuids)
      /\ UNCHANGED <<file, live, uncertain, gone, uuids, prepared>>
  BY DEF SyncLine, SlotInv, SlotOK, AppendSteps, ControlOK, PersistSteps, PlaceOK
<1>2. CASE Appended
  BY <1>1, <1>2, PlaceAppended
<1>3. CASE ~Appended
  <2>1. /\ UNCHANGED <<op, queue, persisted, last>>
        /\ at' = "rollback" \/ (at' = "link" /\ persisted = 0)
    BY <1>1, <1>3 DEF SyncLine, Goto
  <2>2. MayEnd' /\ OneMore' /\ (queue # <<>> => Front.uuid <= uuids)'
    BY <1>1, <2>1 DEF MayEnd, AtEnd, Fresh, OneMore, LastUuid, Front, NextLine
  <2> QED
    BY <1>1, <2>1, <2>2 DEF PlaceOK, AppendSteps, PublishSteps, AfterLoad
<1> QED
  BY <1>2, <1>3

\* A new file whose directory entry cannot be made durable is taken away again,
\* or the outcome is left uncertain.
LEMMA PlaceNewFile ==
  ASSUME SlotInv, ChainOK, PlaceOK, SyncNewFile
  PROVE  PlaceOK'
<1>1. /\ op = "persist" /\ ~uncertain /\ ~gone /\ queue # <<>> /\ at = "link"
      /\ OneMore /\ file.tail = "clean" /\ persisted = 0 /\ Front.uuid <= uuids
      /\ UNCHANGED <<live, gone, uuids, prepared>>
  BY DEF SyncNewFile, SlotInv, SlotOK, AppendSteps, ControlOK, PersistSteps, PlaceOK
<1>2. CASE Appended
  BY <1>1, <1>2, PlaceAppended DEF SyncNewFile, Goto, Return, Appended
<1>3. CASE file' = NoFile /\ at' = "withdraw"
  <2>1. UNCHANGED <<queue, persisted, last, uncertain, op>>
    BY <1>3 DEF SyncNewFile, Goto, Return, Appended
  <2>2. last = NoUuid
    <3>1. 1 \in DOMAIN file.lines /\ file.lines[1].parent = last
      BY <1>1, LineType DEF OneMore, NextLine, SlotInv, TypeOK
    <3> QED
      BY <3>1 DEF ChainOK, Chained
  <2>3. AtEnd' /\ Fresh'
    BY <1>1, <1>3, <2>1, <2>2 DEF AtEnd, Fresh, LastUuid, NoFile
  <2>4. (queue # <<>> => Front.uuid <= uuids)' /\ file'.tail = "clean"
    BY <1>1, <1>3, <2>1 DEF Front, NoFile
  <2> QED
    BY <1>1, <1>3, <2>1, <2>3, <2>4 DEF PlaceOK, AppendSteps, PublishSteps, AfterLoad
<1>4. CASE uncertain' /\ at' = "idle"
  <2>1. UNCHANGED <<queue, persisted, last>> /\ op' = "none"
    BY <1>1, <1>4 DEF SyncNewFile, Goto, Return, Appended
  <2> QED
    BY <1>1, <1>4, <2>1 DEF PlaceOK, Front, AppendSteps, PublishSteps, AfterLoad
<1> QED
  BY <1>2, <1>3, <1>4 DEF SyncNewFile, Goto, Return

\* A rollback leaves the handle at the end again; one that fails leaves the
\* question open.
LEMMA PlaceRollback ==
  ASSUME SlotInv, ChainOK, PlaceOK, Rollback
  PROVE  PlaceOK'
<1>1. /\ op = "persist" /\ ~uncertain /\ ~gone /\ queue # <<>> /\ Len(queue) = 1
      /\ at \in {"rollback", "rollback2"} /\ FileType /\ HandleType
      /\ prepared.len = persisted /\ MayEnd /\ Front.uuid <= uuids
      /\ (~prepared.existed => prepared.len = 0)
      /\ UNCHANGED <<live, persisted, last, queue, gone, uuids, prepared>>
  BY DEF Rollback, SlotInv, SlotOK, AppendSteps, ControlOK, PersistSteps, PlaceOK, TypeOK
<1>2. /\ Cut(file).tail = "clean" /\ Len(Cut(file).lines) = persisted
      /\ last = LastUuid(Cut(file))
      /\ \A i \in DOMAIN Cut(file).lines : Cut(file).lines[i].uuid < Front.uuid
  BY <1>1, CutBack
<1>3. file' = Cut(file) => AtEnd' /\ Fresh' /\ file'.tail = "clean"
  BY <1>1, <1>2 DEF AtEnd, Fresh, Front
<1>4. CASE at' = "withdraw"
  <2>1. UNCHANGED <<op, uncertain>> /\ file' = Cut(file)
    BY <1>1, <1>4 DEF Rollback, RolledBack, Goto, Return
  <2> QED
    BY <1>1, <1>3, <1>4, <2>1 DEF PlaceOK, Front, AppendSteps, PublishSteps, AfterLoad
<1>5. CASE at' = "recheck"
  <2>1. UNCHANGED <<op, uncertain>> /\ file' \in {file, Cut(file)}
    BY <1>1, <1>5 DEF Rollback, RollbackFails, Goto, Return
  <2>2. MayEnd'
    BY <1>1, <1>3, <2>1 DEF MayEnd, AtEnd, Fresh, OneMore, LastUuid, Front, NextLine
  <2> QED
    BY <1>1, <1>5, <2>1, <2>2 DEF PlaceOK, Front, AppendSteps, PublishSteps, AfterLoad
<1>6. CASE at' = "idle"
  <2>1. op' = "none" /\ uncertain'
    BY <1>1, <1>6 DEF Rollback, Goto, Return
  <2> QED
    BY <1>1, <1>6, <2>1 DEF PlaceOK, Front, AppendSteps, PublishSteps, AfterLoad
<1> QED
  BY <1>4, <1>5, <1>6 DEF Rollback, Goto, Return

\* The second look at a line whose rollback failed.
LEMMA PlaceRecheck ==
  ASSUME SlotInv, PlaceOK, Recheck
  PROVE  PlaceOK'
<1>1. /\ op = "persist" /\ ~uncertain /\ ~gone /\ queue # <<>> /\ at = "recheck"
      /\ prepared.len = persisted /\ MayEnd /\ Front.uuid <= uuids
      /\ UNCHANGED <<file, live, uncertain, gone, uuids, prepared>>
  BY DEF Recheck, SlotInv, SlotOK, AppendSteps, ControlOK, PersistSteps, PlaceOK
<1>2. CASE Appended
  <2>1. LineComplete
    BY <1>1, <1>2 DEF Recheck, Appended, Goto
  <2>2. OneMore /\ file.tail = "clean"
    BY <1>1, <2>1 DEF LineComplete, OneMore
  <2> QED
    BY <1>1, <1>2, <2>2, PlaceAppended
<1>3. CASE ~Appended
  <2>1. UNCHANGED <<op, queue, persisted, last>> /\ at' = "rollback2"
    BY <1>1, <1>3 DEF Recheck, Goto
  <2>2. MayEnd' /\ (Front.uuid <= uuids)'
    BY <1>1, <2>1 DEF MayEnd, AtEnd, Fresh, OneMore, LastUuid, Front, NextLine
  <2> QED
    BY <1>1, <2>1, <2>2 DEF PlaceOK, AppendSteps, PublishSteps, AfterLoad
<1> QED
  BY <1>2, <1>3

\* The intent of an append that counts is retired with the handle at the end.
LEMMA PlaceRetire ==
  ASSUME SlotInv, PlaceOK, Retire
  PROVE  PlaceOK'
<1>1. /\ at = "retire" /\ uuids' = uuids
      /\ UNCHANGED <<file, live, persisted, last, uncertain, gone>>
      /\ at' \in {"idle", "drain", "load"} /\ (op' = "persist" => op = "persist")
      /\ (queue' = queue \/ (op = "persist" /\ queue' = Tail(queue)))
  BY DEF Retire, Goto, Return, AfterRecovery, Pop
<1>2. CASE queue' = queue
  BY <1>1, <1>2, PlaceStays DEF PlaceOK, AppendSteps, PublishSteps, AfterLoad
<1>3. CASE op = "persist" /\ queue' = Tail(queue)
  <2>1. queue # <<>> /\ Len(queue) = 1 /\ HandleType /\ live /\ ~uncertain /\ ~gone /\ Settled
    BY <1>1, <1>3 DEF SlotInv, SlotOK, ControlOK, TypeOK, PlaceOK, PublishSteps
  <2>2. queue' = <<>>
    BY <1>3, <2>1, QueueOfOne
  <2>3. AtEnd' /\ file'.tail = "clean"
    BY <1>1, <2>1 DEF PlaceOK, AtEnd, LastUuid, AppendSteps
  <2> QED
    BY <1>1, <2>1, <2>2, <2>3 DEF PlaceOK, Settled, AppendSteps, PublishSteps, AfterLoad
<1> QED
  BY <1>1, <1>2, <1>3

\* A deleted session has no place to be at.
LEMMA PlaceExpunge ==
  ASSUME SlotInv, PlaceOK, Expunge
  PROVE  PlaceOK'
<1>1. /\ gone' /\ uuids' = uuids /\ queue' = queue /\ at' \in {"idle", "load"}
      /\ op' # "persist"
  BY DEF Expunge, handle, bounds, AfterRecovery, Goto, Return, SlotInv, ControlOK, RecoverSteps
<1> QED
  BY <1>1 DEF PlaceOK, Front, AppendSteps, PublishSteps, AfterLoad

\* A resumed handle starts at the end of the transcript.
LEMMA PlaceAttach ==
  ASSUME SlotInv, PlaceOK, Attach
  PROVE  PlaceOK'
<1>1. /\ file.tail = "clean" /\ UNCHANGED <<file, gone>> /\ at' = "idle" /\ op' = "none"
      /\ queue' = <<>> /\ persisted' = Len(file.lines) /\ last' = LastUuid(file)
  BY DEF Attach, PlaceOK, AfterLoad, Return, disk
<1>2. AtEnd'
  BY <1>1 DEF AtEnd, LastUuid
<1> QED
  BY <1>1, <1>2 DEF PlaceOK, Settled, AppendSteps, PublishSteps, AfterLoad

\* Every step of the program, of a crash and of the system keeps the handle and
\* the transcript in accord.
LEMMA PlaceNext ==
  ASSUME SlotInv, ChainOK, PlaceOK, Next
  PROVE  PlaceOK'
<1>1. ASSUME NEW n \in conv..MaxMessages, BeginPersist(n) PROVE PlaceOK'
  <2>1. /\ UNCHANGED <<file, live, persisted, last, queue, uncertain, gone, prepared, uuids>>
        /\ ~uncertain /\ ~gone /\ at = "idle"
        /\ UNCHANGED <<op, at>> \/ at' = "resolve"
    BY <1>1 DEF BeginPersist, disk, bounds, SlotInv, ControlOK
  <2>2. CASE UNCHANGED <<op, at>>
    BY <2>1, <2>2, PlaceSame
  <2>3. CASE at' = "resolve"
    BY <2>1, <2>3, PlaceStays DEF AppendSteps, PublishSteps, AfterLoad
  <2> QED
    BY <2>1, <2>2, <2>3
<1>2. ASSUME NEW goal \in {"list", "resume"}, BeginRecovery(goal) PROVE PlaceOK'
  <2>1. /\ UNCHANGED <<file, live, persisted, last, queue, uncertain, gone, uuids>>
        /\ at = "idle" /\ op' # "persist" /\ at' = "preflight"
    BY <1>2 DEF BeginRecovery, disk, handle, bounds, SlotInv, ControlOK
  <2> QED
    BY <2>1, PlaceStays DEF AppendSteps, AfterLoad
<1>3. CASE Resolve \/ Discard \/ Withdraw \/ PublishIntent \/ WriteLine \/ SyncLine
           \/ SyncNewFile \/ Rollback \/ Recheck
  BY <1>3, PlaceResolve, PlaceDropped, PlaceIntent, PlaceWrite, PlaceSync, PlaceNewFile,
     PlaceRollback, PlaceRecheck
<1>4. CASE Retire \/ Expunge \/ Attach
  BY <1>4, PlaceRetire, PlaceExpunge, PlaceAttach
<1>5. CASE Close \/ ProcessCrash \/ PowerLoss
  <2>1. ~live' /\ queue' = <<>> /\ op' # "persist" /\ at' = "idle"
    BY <1>5 DEF Close, ProcessCrash, PowerLoss, Crash, HandleGone, Return, SlotInv, ControlOK
  <2> QED
    BY <2>1, PlaceGone
<1>6. CASE LoseIndex \/ WriteBack
  <2>1. UNCHANGED <<file, live, persisted, last, queue, uncertain, prepared, gone, op, at,
                    uuids>>
    BY <1>6 DEF LoseIndex, WriteBack, disk, handle, bounds
  <2> QED
    BY <2>1, PlaceSame
<1> QED
  BY <1>1, <1>2, <1>3, <1>4, <1>5, <1>6, PlaceAround
  DEF Next, Proceed, Persist, Publish, Recover

\* A new session has no line; the transcript of an older version is taken as one
\* that was written in order.
LEMMA FileInit == Init => FileInv
<1> SUFFICES ASSUME Init PROVE FileInv
  OBVIOUS
<1>1. SlotInv
  BY SlotInit
<1>2. CASE Created
  <2>1. Chained(file.lines, uuids) /\ durFile = file
    BY <1>2, ChainEmpty DEF Init, Created, NoFile
  <2>2. AtEnd /\ file.tail = "clean"
    BY <1>2 DEF Init, Created, NoFile, Idle, AtEnd, LastUuid
  <2>3. PlaceOK
    BY <2>2 DEF Init, Idle, PlaceOK, Settled, AppendSteps, PublishSteps, AfterLoad
  <2> QED
    BY <1>1, <2>1, <2>3 DEF FileInv, ChainOK
<1>3. ASSUME NEW n \in Nat, NEW tail \in Tails, NEW indexed, Legacy(n, tail, indexed)
      PROVE  FileInv
  <2>1. file.lines = LegacyLines(n) /\ uuids = n /\ durFile = file /\ ~live
    BY <1>3 DEF Init, Legacy
  <2>2. Chained(LegacyLines(n), n)
    <3> DEFINE s == LegacyLines(n)
    <3>1. /\ DOMAIN s = 1..n
          /\ \A i \in 1..n : s[i].msg = i /\ s[i].parent = i - 1 /\ s[i].uuid = i
      BY DEF LegacyLines
    <3> HIDE DEF s
    <3>2. \A i \in 1..n : i # 1 => i - 1 \in 1..n
      OBVIOUS
    <3>3. \A i \in 1..n : s[i].parent = (IF i = 1 THEN NoUuid ELSE s[i - 1].uuid)
      BY <3>1, <3>2 DEF NoUuid
    <3>4. \A i, j \in 1..n : s[i].uuid <= n /\ (j < i => s[j].uuid < s[i].uuid)
      BY <3>1
    <3>5. Chained(s, n)
      BY <3>1, <3>3, <3>4 DEF Chained
    <3> QED
      BY <3>5 DEF s
  <2>3. PlaceOK
    BY <2>1 DEF Init, Idle, PlaceOK, Settled, AppendSteps, PublishSteps, AfterLoad
  <2> QED
    BY <1>1, <2>1, <2>2, <2>3 DEF FileInv, ChainOK
<1> QED
  BY <1>2, <1>3, BoundsAssumption DEF Init

\* The three parts together.
LEMMA FileStep == FileInv /\ [Next]_vars => FileInv'
<1>1. ASSUME FileInv, Next PROVE FileInv'
  BY <1>1, SlotStep, ChainNext, PlaceNext DEF FileInv
<1>2. ASSUME FileInv, UNCHANGED vars PROVE FileInv'
  <2>1. SlotInv'
    BY <1>2, SlotStutter DEF FileInv
  <2>2. ChainOK'
    BY <1>2 DEF FileInv, ChainOK, vars, disk, bounds
  <2>3. PlaceOK'
    BY <1>2, PlaceSame DEF FileInv, vars, disk, handle, bounds
  <2> QED
    BY <2>1, <2>2, <2>3 DEF FileInv
<1> QED
  BY <1>1, <1>2

\* The handle's view of the transcript (how many messages, the last UUID, which
\* intent is open) agrees with the file at every step of the append protocol,
\* whatever calls fail and wherever crashes and power losses fall.
THEOREM FileInvariant == Spec => []FileInv
BY FileInit, FileStep, PTL DEF Spec

\* The transcript is the conversation, message by message, each once: no retry,
\* rollback, recovery or crash leaves a line twice, out of order or without its
\* parent.
THEOREM TranscriptFaithfulAlways == Spec => []TranscriptFaithful
<1>1. FileInv => TranscriptFaithful
  <2> SUFFICES ASSUME FileInv PROVE TranscriptFaithful
    OBVIOUS
  <2>1. Chained(file.lines, uuids)
    BY DEF FileInv, ChainOK
  <2>2. /\ DOMAIN file.lines = 1..Len(file.lines)
        /\ \A i \in DOMAIN file.lines : file.lines[i].uuid \in Nat
    BY LineType DEF FileInv, SlotInv, TypeOK, Uuid
  <2>3. \A i, j \in DOMAIN file.lines : file.lines[i].uuid = file.lines[j].uuid => i = j
    <3>1. \A i, j \in DOMAIN file.lines : i = j \/ i < j \/ j < i
      BY <2>2
    <3>2. \A i, j \in DOMAIN file.lines :
            j < i => file.lines[j].uuid < file.lines[i].uuid
      BY <2>1 DEF Chained
    <3>3. \A i, j \in DOMAIN file.lines :
            j < i => file.lines[j].uuid # file.lines[i].uuid
      BY <2>2, <3>2
    <3> QED
      BY <3>1, <3>3
  <2> QED
    BY <2>1, <2>3 DEF TranscriptFaithful, Chained
<1> QED
  BY <1>1, FileInvariant, PTL

\* append_transcript_entry is only reached with a transcript that ends in a
\* complete line and where the handle believes it ends.
THEOREM CleanAppendAlways == Spec => []CleanAppend
<1>1. FileInv => CleanAppend
  BY DEF FileInv, PlaceOK, AtEnd, CleanAppend
<1> QED
  BY <1>1, FileInvariant, PTL

-----------------------------------------------------------------------------
(* The transcript, the index and what was answered, as long as the system   *)
(* keeps its power: nothing a call has written is taken away but by a call. *)

\* The index follows the transcript: an append in progress is not in it, and
\* what is published next is in the transcript.
IndexOK ==
  /\ IndexSound
  /\ at \in AppendSteps => Front.uuid \notin index.msgs
  /\ queue # <<>> /\ Front.appended => last = Front.uuid
  /\ op # "persist" /\ at \in {"row", "message"} => record.uuid \in UuidsOf(file)

\* The baseline marks an index that holds, or is about to hold, every line.
Rebuilding == {"legacyReset", "legacyRow", "legacyFill", "legacyBaseline"}

CoverOK ==
  /\ BaselineCovers
  /\ at = "retire" /\ index.exists /\ baseline => UuidsOf(file) \subseteq index.msgs
  /\ at \in {"legacyBaseline", "resumeBaseline"} => UuidsOf(file) \subseteq index.msgs
  /\ at \in Rebuilding => record.kind = "legacy"

\* What was answered is in the transcript, below the place a rollback cuts at.
AckedOK ==
  /\ acked <= Len(file.lines)
  /\ live => acked <= persisted
  /\ gone => acked = 0
  /\ at = "expunge" => NoMessages

StoreInv == FileInv /\ IndexOK /\ CoverOK /\ AckedOK

(* What the steps do to the transcript and to the index *)

\* Only an append, its rollback and the deletion of the session touch the
\* lines, as long as the system has power.
LEMMA LinesStay ==
  ASSUME FileType, Next, ~WriteLine, ~SyncNewFile, ~Rollback, ~Expunge, ~PowerLoss
  PROVE  file'.lines = file.lines
<1>1. CASE RepairTail
  BY <1>1, RepairLines
<1>2. CASE FailLoading
  BY <1>2 DEF FailLoading, Repaired, FileType, Transcript
<1>3. UNCHANGED file \/ RepairTail \/ FailLoading
  <2>1. ASSUME NEW n \in conv..MaxMessages, BeginPersist(n) PROVE UNCHANGED file
    BY <2>1 DEF BeginPersist, disk
  <2>2. ASSUME NEW goal \in {"list", "resume"}, BeginRecovery(goal) PROVE UNCHANGED file
    BY <2>2 DEF BeginRecovery, disk
  <2>3. CASE Discard \/ InvalidateBaselines \/ OpenIndex \/ Drain \/ PublishIntent \/ Withdraw
             \/ SyncLine \/ Recheck
    BY <2>3 DEF Discard, InvalidateBaselines, OpenIndex, Drain, PublishIntent, Withdraw,
       SyncLine, Recheck, disk
  <2>4. CASE Publish \/ Preflight \/ LegacyIntent \/ LegacyReset \/ RebuildRow \/ Fill
             \/ WriteBaseline \/ Attach \/ FailClean
    BY <2>4 DEF Publish, SaveRow, SaveMessage, Retire, Preflight, LegacyIntent, LegacyReset,
       RebuildRow, Fill, WriteBaseline, Attach, FailClean, disk
  <2>5. CASE Close \/ LoseIndex \/ ProcessCrash \/ WriteBack
    BY <2>5 DEF Close, LoseIndex, ProcessCrash, WriteBack, disk
  <2>6. CASE Resolve \/ FindRecord \/ InspectLegacy \/ Load
    BY <2>6 DEF Resolve, FindRecord, InspectLegacy, Load
  <2> QED
    BY <2>1, <2>2, <2>3, <2>4, <2>5, <2>6 DEF Next, Proceed, Persist, Recover
<1> QED
  BY <1>1, <1>2, <1>3

\* Only publishing a record and filling the index add a message to it.
LEMMA MessagesStay ==
  ASSUME IndexType, Next, ~SaveMessage, ~Fill
  PROVE  index'.msgs \in {index.msgs, {}}
<1>1. ASSUME NEW n \in conv..MaxMessages, BeginPersist(n) PROVE UNCHANGED index
  BY <1>1 DEF BeginPersist
<1>2. ASSUME NEW goal \in {"list", "resume"}, BeginRecovery(goal) PROVE UNCHANGED index
  BY <1>2 DEF BeginRecovery
<1>3. CASE Resolve \/ Discard \/ InvalidateBaselines \/ Drain \/ PublishIntent \/ WriteLine
           \/ SyncLine \/ SyncNewFile \/ Rollback \/ Recheck \/ Withdraw \/ Retire
           \/ FindRecord \/ InspectLegacy \/ LegacyIntent \/ WriteBaseline \/ Load \/ Attach
           \/ FailClean \/ FailLoading \/ Close \/ ProcessCrash \/ WriteBack \/ PowerLoss
  BY <1>3 DEF Resolve, Discard, InvalidateBaselines, Drain, PublishIntent, WriteLine, SyncLine,
     SyncNewFile, Rollback, Recheck, Withdraw, Retire, FindRecord, InspectLegacy, LegacyIntent,
     WriteBaseline, Load, Attach, FailClean, FailLoading, Close, ProcessCrash, WriteBack,
     PowerLoss, Crash
<1>4. CASE OpenIndex \/ Preflight \/ SaveRow \/ RebuildRow \/ Expunge
  BY <1>4 DEF OpenIndex, Preflight, CheckedIndexStore, SaveRow, RebuildRow, Expunge, IndexType
<1>5. CASE LegacyReset \/ LoseIndex
  BY <1>5 DEF LegacyReset, LoseIndex, EmptyIndex, LostIndex
<1> QED
  BY <1>1, <1>2, <1>3, <1>4, <1>5 DEF Next, Proceed, Persist, Publish, Recover

\* An append, settled or rolled back, adds and takes away its own line only.
LEMMA OwnLine ==
  ASSUME FileInv, WriteLine \/ SyncNewFile \/ Rollback
  PROVE  /\ UuidsOf(file') \subseteq UuidsOf(file) \cup {Front.uuid}
         /\ UuidsOf(file) \subseteq UuidsOf(file') \cup {Front.uuid}
         /\ \A i \in 1..persisted :
              /\ i \in DOMAIN file.lines /\ i \in DOMAIN file'.lines
              /\ file'.lines[i] = file.lines[i]
         /\ persisted <= Len(file'.lines)
<1>1. /\ SlotInv /\ ChainOK /\ PlaceOK /\ FileType /\ HandleType /\ persisted \in Nat
      /\ file.lines \in Seq(Entry) /\ Len(file.lines) \in Nat
      /\ DOMAIN file.lines = 1..Len(file.lines)
  BY LenProperties DEF FileInv, SlotInv, TypeOK, FileType, Transcript, HandleType
<1>2. CASE WriteLine
  <2>1. file'.lines \in {file.lines, Append(file.lines, NextLine)} /\ Len(file.lines) = persisted
        /\ NextLine.uuid = Front.uuid
    BY <1>1, <1>2, WrittenLines DEF WriteLine, PlaceOK, AtEnd, NextLine
  <2>2. CASE file'.lines = file.lines
    BY <1>1, <2>1, <2>2 DEF UuidsOf
  <2>3. CASE file'.lines = Append(file.lines, NextLine)
    <3> DEFINE t == Append(file.lines, NextLine)
    <3>1. /\ DOMAIN t = 1..(persisted + 1) /\ Len(t) = persisted + 1
          /\ t[persisted + 1] = NextLine /\ \A i \in 1..persisted : t[i] = file.lines[i]
      <4>1. NextLine \in Entry
        BY <1>1, <1>2, NextLineType DEF WriteLine, SlotInv, SlotOK, AppendSteps
      <4> QED
        BY <1>1, <2>1, <4>1, AppendProperties, LenProperties
    <3> HIDE DEF t
    <3>2. DOMAIN file'.lines = 1..(persisted + 1) /\ file'.lines = t
      BY <2>3, <3>1 DEF t
    <3>3. \A i \in DOMAIN file'.lines : i = persisted + 1 \/ i \in 1..persisted
      BY <1>1, <3>2
    <3>4. \A i \in 1..persisted : i \in DOMAIN file'.lines /\ i \in DOMAIN file.lines
      BY <1>1, <2>1, <3>2
    <3>5. \A i \in DOMAIN file'.lines : file'.lines[i].uuid \in UuidsOf(file) \cup {Front.uuid}
      BY <2>1, <3>1, <3>2, <3>3, <3>4 DEF UuidsOf
    <3>6. \A i \in DOMAIN file.lines : i \in DOMAIN file'.lines /\ file'.lines[i] = file.lines[i]
      BY <1>1, <2>1, <3>1, <3>2
    <3> QED
      BY <1>1, <3>1, <3>2, <3>4, <3>5, <3>6 DEF UuidsOf
  <2> QED
    BY <2>1, <2>2, <2>3
<1>3. CASE SyncNewFile
  <2>1. Len(file.lines) = persisted + 1 /\ file.lines[persisted + 1].uuid = Front.uuid
        /\ persisted = 0
    BY <1>1, <1>3 DEF SyncNewFile, PlaceOK, OneMore, NextLine
  <2>2. UuidsOf(file) = {Front.uuid} /\ UuidsOf(NoFile) = {} /\ Len(NoFile.lines) = 0
    BY <1>1, <2>1 DEF UuidsOf, NoFile
  <2>3. file' \in {file, NoFile}
    BY <1>3 DEF SyncNewFile
  <2>4. 1..persisted = {}
    BY <2>1
  <2> QED
    BY <1>1, <2>1, <2>2, <2>3, <2>4
<1>4. CASE Rollback
  <2>1. /\ queue # <<>> /\ Len(queue) = 1 /\ MayEnd /\ prepared.len = persisted
        /\ (~prepared.existed => prepared.len = 0)
    BY <1>1, <1>4 DEF Rollback, SlotInv, SlotOK, AppendSteps, PlaceOK
  <2>2. /\ Cut(file) \in Transcript /\ Len(Cut(file).lines) = persisted
        /\ \A i \in 1..persisted : i \in DOMAIN file.lines /\ Cut(file).lines[i] = file.lines[i]
    BY <1>1, <2>1, CutBack
  <2>3. DOMAIN Cut(file).lines = 1..persisted
    BY <2>2, LenProperties DEF Transcript
  <2>4. UuidsOf(Cut(file)) \subseteq UuidsOf(file)
    BY <2>2, <2>3 DEF UuidsOf
  <2>5. \A i \in DOMAIN file.lines : i \in 1..persisted \/ file.lines[i].uuid = Front.uuid
    BY <1>1, <2>1 DEF MayEnd, AtEnd, OneMore, NextLine
  <2>6. UuidsOf(file) \subseteq UuidsOf(Cut(file)) \cup {Front.uuid}
    BY <2>2, <2>3, <2>5 DEF UuidsOf
  <2>7. persisted <= Len(file.lines)
    BY <1>1, <2>1 DEF MayEnd, AtEnd, OneMore
  <2>8. file' \in {file, Cut(file)}
    BY <1>4 DEF Rollback, RolledBack, RollbackFails
  <2>9. CASE file' = Cut(file)
    BY <1>1, <2>2, <2>3, <2>4, <2>6, <2>9
  <2>10. CASE file' = file
    BY <1>1, <2>2, <2>7, <2>10
  <2> QED
    BY <2>8, <2>9, <2>10
<1> QED
  BY <1>2, <1>3, <1>4

\* What these three leave alone.
LEMMA OwnLineFrame ==
  ASSUME FileInv, WriteLine \/ SyncNewFile \/ Rollback
  PROVE  /\ at \in AppendSteps /\ op = "persist" /\ live
         /\ UNCHANGED <<index, record, baseline, acked, live, gone>>
         /\ at' \in {"sync", "rollback", "withdraw", "drain", "recheck", "idle"}
         /\ (at' \in AppendSteps => UNCHANGED queue)
BY DEF FileInv, SlotInv, ControlOK, PersistSteps, AppendSteps, WriteLine, SyncNewFile, Rollback,
   Appended, Goto, Return, handle

\* persist_new publishes a record whose line is the last of the transcript.
LEMMA PublishedPresent ==
  ASSUME FileInv, IndexOK, at \in PublishSteps, op = "persist"
  PROVE  Front.uuid \in UuidsOf(file)
<1>1. /\ queue # <<>> /\ Len(queue) = 1 /\ Settled /\ AtEnd /\ HandleType
      /\ file.lines \in Seq(Entry)
  BY DEF FileInv, SlotInv, SlotOK, ControlOK, TypeOK, PlaceOK, AppendSteps, PublishSteps,
     FileType, Transcript
<1>2. LastUuid(file) = Front.uuid /\ Front.uuid # NoUuid
  BY <1>1, QueueOfOne DEF Settled, AtEnd, IndexOK, Uuid
<1>3. file.lines # <<>>
  BY <1>2 DEF LastUuid
<1>4. Len(file.lines) \in DOMAIN file.lines
  BY <1>1, <1>3, EmptySeq, LenProperties
<1> QED
  BY <1>2, <1>3, <1>4 DEF LastUuid, UuidsOf

\* The index never gets ahead of the transcript.
LEMMA SoundNext ==
  ASSUME FileInv, IndexOK, Next, ~PowerLoss
  PROVE  IndexSound'
<1>1. FileType /\ IndexType /\ index.msgs \subseteq UuidsOf(file)
  BY DEF FileInv, SlotInv, TypeOK, IndexOK, IndexSound
<1>2. CASE SaveMessage
  <2>1. file' = file /\ index'.msgs = index.msgs \cup {Published.uuid} /\ at = "message"
    BY <1>1, <1>2 DEF SaveMessage, IndexType, disk
  <2>2. Published.uuid \in UuidsOf(file)
    <3>1. CASE op = "persist"
      BY <2>1, <3>1, PublishedPresent DEF Published, FrontRecord, PublishSteps
    <3>2. CASE op # "persist"
      BY <2>1, <3>2 DEF Published, IndexOK
    <3> QED
      BY <3>1, <3>2
  <2> QED
    BY <1>1, <2>1, <2>2 DEF IndexSound
<1>3. CASE Fill
  <2>1. file' = file /\ index'.msgs \subseteq index.msgs \cup UuidsOf(file)
    BY <1>1, <1>3 DEF Fill, Unindexed, UuidsOf, IndexType, disk
  <2> QED
    BY <1>1, <2>1 DEF IndexSound
<1>4. CASE WriteLine \/ SyncNewFile \/ Rollback
  <2>1. Front.uuid \notin index.msgs /\ index' = index
    BY <1>4, OwnLineFrame DEF IndexOK
  <2> QED
    BY <1>1, <1>4, <2>1, OwnLine DEF IndexSound
<1>5. CASE Expunge
  <2>1. index'.msgs = {}
    BY <1>1, <1>5 DEF Expunge, IndexType
  <2> QED
    BY <2>1 DEF IndexSound
<1>6. CASE ~(SaveMessage \/ Fill \/ WriteLine \/ SyncNewFile \/ Rollback \/ Expunge)
  <2>1. file'.lines = file.lines /\ index'.msgs \in {index.msgs, {}}
    BY <1>1, <1>6, LinesStay, MessagesStay
  <2> QED
    BY <1>1, <2>1 DEF IndexSound, UuidsOf
<1> QED
  BY <1>2, <1>3, <1>4, <1>5, <1>6

\* Where an append begins, and what its steps keep.
LEMMA AppendFrame ==
  ASSUME SlotInv, Next, at' \in AppendSteps
  PROVE  PublishIntent \/ (at \in AppendSteps /\ UNCHANGED <<queue, index>>)
<1>1. ASSUME NEW n \in conv..MaxMessages, BeginPersist(n) PROVE FALSE
  BY <1>1 DEF BeginPersist, SlotInv, ControlOK, AppendSteps
<1>2. ASSUME NEW goal \in {"list", "resume"}, BeginRecovery(goal) PROVE FALSE
  BY <1>2 DEF BeginRecovery, AppendSteps
<1>3. CASE Resolve \/ Discard \/ InvalidateBaselines \/ OpenIndex \/ Drain
  BY <1>3 DEF Resolve, Discard, InvalidateBaselines, OpenIndex, Drain, Goto, Return, AppendSteps
<1>4. CASE PublishIntent
  BY <1>4
<1>5. CASE WriteLine \/ SyncLine \/ SyncNewFile \/ Rollback \/ Recheck \/ Withdraw
  BY <1>5 DEF WriteLine, SyncLine, SyncNewFile, Rollback, Recheck, Withdraw, Appended, Goto,
     Return, AppendSteps, handle
<1>6. CASE Publish
  BY <1>6 DEF Publish, SaveRow, SaveMessage, Retire, Goto, Return, AfterRecovery, AppendSteps
<1>7. CASE Recover
  BY <1>7 DEF Recover, Preflight, FindRecord, Expunge, InspectLegacy, LegacyIntent, LegacyReset,
     RebuildRow, Fill, WriteBaseline, Absent, Goto, Return, AfterRecovery, AppendSteps
<1>8. CASE Load \/ Attach \/ FailClean \/ FailLoading
  BY <1>8 DEF Load, Attach, FailClean, FailLoading, Goto, Return, AppendSteps
<1>9. CASE Close \/ LoseIndex \/ ProcessCrash \/ WriteBack \/ PowerLoss
  <2>1. CASE WriteBack
    BY <2>1 DEF WriteBack, handle
  <2>2. CASE ~WriteBack
    BY <1>9, <2>2 DEF Close, LoseIndex, ProcessCrash, PowerLoss, Crash, Return, AppendSteps,
       SlotInv, ControlOK
  <2> QED
    BY <2>1, <2>2
<1> QED
  BY <1>1, <1>2, <1>3, <1>4, <1>5, <1>6, <1>7, <1>8, <1>9 DEF Next, Proceed, Persist

\* How the handle changes: it stays, its intent is marked, taken off or queued,
\* or the handle itself is new or gone.
LEMMA QueueFrame ==
  ASSUME SlotInv, Next
  PROVE  \/ UNCHANGED <<queue, last>>
         \/ queue # <<>> /\ last' = Front.uuid /\ queue' # <<>> /\ Front'.uuid = Front.uuid
         \/ queue' = <<>>
         \/ PublishIntent
<1>1. ASSUME NEW n \in conv..MaxMessages, BeginPersist(n) PROVE UNCHANGED <<queue, last>>
  BY <1>1 DEF BeginPersist
<1>2. ASSUME NEW goal \in {"list", "resume"}, BeginRecovery(goal) PROVE UNCHANGED <<queue, last>>
  BY <1>2 DEF BeginRecovery, handle
<1>3. CASE Resolve
  <2>1. queue # <<>> => /\ [queue EXCEPT ![1].appended = TRUE] # <<>>
                        /\ [queue EXCEPT ![1].appended = TRUE][1].uuid = Front.uuid
    BY QueueOfOne DEF SlotInv, SlotOK, TypeOK
  <2> QED
    BY <1>3, <2>1 DEF Resolve, Front
<1>4. CASE Discard \/ Withdraw \/ Retire
  <2>1. queue' = queue \/ (queue' = Tail(queue) /\ queue # <<>> /\ Len(queue) = 1)
    BY <1>4 DEF Discard, Withdraw, Retire, Pop, SlotInv, SlotOK, AppendSteps, PublishSteps
  <2>2. UNCHANGED last
    BY <1>4 DEF Discard, Withdraw, Retire
  <2> QED
    BY <2>1, <2>2, QueueOfOne DEF SlotInv, TypeOK
<1>5. CASE SyncLine \/ SyncNewFile \/ Recheck
  <2>1. CASE Appended
    <3>1. queue # <<>> /\ Len(queue) = 1 /\ HandleType
      BY <1>5 DEF SyncLine, SyncNewFile, Recheck, SlotInv, SlotOK, AppendSteps, TypeOK
    <3>2. queue' = [queue EXCEPT ![1].appended = TRUE] /\ last' = Front.uuid
      BY <2>1, <3>1 DEF Appended, Front
    <3> QED
      BY <3>1, <3>2, QueueOfOne DEF Front
  <2>2. CASE ~Appended
    BY <1>5, <2>2 DEF SyncLine, SyncNewFile, Recheck
  <2> QED
    BY <2>1, <2>2
<1>6. CASE WriteLine \/ Rollback \/ InvalidateBaselines \/ OpenIndex \/ Drain \/ SaveRow
           \/ SaveMessage \/ Recover \/ Load \/ FailClean \/ FailLoading \/ LoseIndex
           \/ WriteBack
  BY <1>6 DEF WriteLine, Rollback, InvalidateBaselines, OpenIndex, Drain, SaveRow, SaveMessage,
     Recover, Preflight, FindRecord, Expunge, InspectLegacy, LegacyIntent, LegacyReset,
     RebuildRow, Fill, WriteBaseline, Load, FailClean, FailLoading, LoseIndex, WriteBack, handle
<1>7. CASE Attach \/ Close \/ ProcessCrash \/ PowerLoss
  BY <1>7 DEF Attach, Close, ProcessCrash, PowerLoss, Crash, HandleGone
<1> QED
  BY <1>1, <1>2, <1>3, <1>4, <1>5, <1>6, <1>7 DEF Next, Proceed, Persist, Publish

\* An append in progress is in no index.
LEMMA IndexNext ==
  ASSUME FileInv, IndexOK, Next, ~PowerLoss
  PROVE  IndexOK'
<1>1. IndexSound'
  BY SoundNext
<1>2. SlotInv /\ ChainOK /\ FileType
  BY DEF FileInv, SlotInv, TypeOK
<1> DEFINE work == [uuid |-> uuids + 1, appended |-> FALSE]
<1>3. PublishIntent => /\ index' = index /\ queue = <<>>
                       /\ queue' \in {queue, Append(queue, work)}
                       /\ (at' \in AppendSteps => queue' = Append(queue, work))
  BY <1>2 DEF PublishIntent, Goto, Return, AppendSteps, SlotInv, SlotOK
<1>4. queue = <<>> /\ queue' = Append(queue, work) => Front' = work
  BY DEF Front
<1>5. at' \in AppendSteps => Front'.uuid \notin index'.msgs
  <2>1. CASE PublishIntent
    <3>1. \A i \in DOMAIN file.lines : file.lines[i].uuid <= uuids /\ file.lines[i].uuid \in Nat
      BY <1>2, LineType DEF ChainOK, Chained, Uuid
    <3>2. uuids + 1 \notin UuidsOf(file)
      <4>1. uuids \in Nat
        BY <1>2 DEF SlotInv, TypeOK, ControlType
      <4>2. \A i \in DOMAIN file.lines : file.lines[i].uuid # uuids + 1
        BY <3>1, <4>1
      <4> QED
        BY <4>2 DEF UuidsOf
    <3>3. uuids + 1 \notin index.msgs
      BY <3>2 DEF IndexOK, IndexSound
    <3> QED
      BY <1>3, <1>4, <2>1, <3>3
  <2>2. CASE at \in AppendSteps /\ UNCHANGED <<queue, index>>
    BY <2>2 DEF IndexOK, Front
  <2> QED
    BY <1>2, <2>1, <2>2, AppendFrame
<1>6. (queue # <<>> /\ Front.appended => last = Front.uuid)'
  <2>1. CASE UNCHANGED <<queue, last>>
    BY <2>1 DEF IndexOK, Front
  <2>2. CASE PublishIntent
    BY <1>3, <1>4, <2>2
  <2> QED
    BY <1>2, <2>1, <2>2, QueueFrame
<1>7. op' # "persist" /\ at' \in {"row", "message"} => record'.uuid \in UuidsOf(file')
  <2>1. CASE FindRecord
    BY <1>2, <2>1, RepairLines DEF FindRecord, RecordPresent, UuidsOf, Goto, Return, Absent
  <2>2. CASE SaveRow
    BY <2>2 DEF SaveRow, IndexOK, Goto, disk
  <2>3. CASE WriteBack \/ LoseIndex
    BY <2>3 DEF WriteBack, LoseIndex, IndexOK, disk, SlotInv, ControlOK
  <2>4. CASE ~(FindRecord \/ SaveRow \/ WriteBack \/ LoseIndex)
    <3>1. ASSUME NEW n \in conv..MaxMessages, BeginPersist(n)
          PROVE  ~(op' # "persist" /\ at' \in {"row", "message"})
      BY <1>2, <3>1 DEF BeginPersist, SlotInv, ControlOK
    <3>2. ASSUME NEW goal \in {"list", "resume"}, BeginRecovery(goal)
          PROVE  ~(op' # "persist" /\ at' \in {"row", "message"})
      BY <3>2 DEF BeginRecovery
    <3>3. CASE Persist
      BY <1>2, <3>3 DEF Persist, Resolve, Discard, InvalidateBaselines, OpenIndex, Drain,
         PublishIntent, WriteLine, SyncLine, SyncNewFile, Rollback, Recheck, Withdraw,
         Appended, Goto, Return, SlotInv, ControlOK, PersistSteps
    <3>4. CASE SaveMessage \/ Retire
      BY <3>4 DEF SaveMessage, Retire, Goto, Return, AfterRecovery
    <3>5. CASE Recover \/ Load \/ Attach \/ FailClean \/ FailLoading
      BY <2>4, <3>5 DEF Recover, Preflight, Expunge, InspectLegacy, LegacyIntent, LegacyReset,
         RebuildRow, Fill, WriteBaseline, Load, Attach, FailClean, FailLoading, Goto, Return,
         AfterRecovery
    <3>6. CASE Close \/ ProcessCrash
      BY <1>2, <3>6 DEF Close, ProcessCrash, Crash, Return, SlotInv, ControlOK
    <3> QED
      BY <2>4, <3>1, <3>2, <3>3, <3>4, <3>5, <3>6 DEF Next, Proceed, Publish
  <2> QED
    BY <2>1, <2>2, <2>3, <2>4
<1> QED
  BY <1>1, <1>5, <1>6, <1>7 DEF IndexOK

\* The steps of the recovery that rest on what was found before are reached in
\* one way only.
LEMMA Reached ==
  ASSUME SlotInv, Next, ~PowerLoss
  PROVE  /\ at' = "retire" => SaveMessage \/ FindRecord \/ WriteBaseline \/ WriteBack
         /\ at' \in {"legacyBaseline", "resumeBaseline"} => Fill \/ WriteBack
         /\ at' \in Rebuilding =>
              LegacyIntent \/ LegacyReset \/ RebuildRow \/ Fill \/ WriteBack
         /\ at' = "expunge" => FindRecord \/ InspectLegacy \/ WriteBack
<1> DEFINE Late == {"retire", "legacyBaseline", "resumeBaseline", "expunge"} \cup Rebuilding
<1>1. ASSUME NEW n \in conv..MaxMessages, BeginPersist(n) PROVE at' \notin Late
  BY <1>1 DEF BeginPersist, SlotInv, ControlOK, Rebuilding
<1>2. ASSUME NEW goal \in {"list", "resume"}, BeginRecovery(goal) PROVE at' \notin Late
  BY <1>2 DEF BeginRecovery, Rebuilding
<1>3. CASE Persist
  BY <1>3 DEF Persist, Resolve, Discard, InvalidateBaselines, OpenIndex, Drain, PublishIntent,
     WriteLine, SyncLine, SyncNewFile, Rollback, Recheck, Withdraw, Appended, Goto, Return,
     Rebuilding
<1>4. CASE SaveRow \/ Retire \/ Preflight \/ Expunge \/ Load \/ Attach \/ FailClean
           \/ FailLoading
  BY <1>4 DEF SaveRow, Retire, Preflight, Expunge, Load, Attach, FailClean, FailLoading, Goto,
     Return, AfterRecovery, Rebuilding
<1>5. CASE SaveMessage \/ FindRecord \/ InspectLegacy \/ LegacyIntent \/ LegacyReset
           \/ RebuildRow \/ Fill \/ WriteBaseline
  BY <1>5 DEF SaveMessage, FindRecord, InspectLegacy, LegacyIntent, LegacyReset, RebuildRow,
     Fill, WriteBaseline, Absent, Goto, Return, Rebuilding
<1>6. CASE Close \/ LoseIndex \/ ProcessCrash
  BY <1>6 DEF Close, LoseIndex, ProcessCrash, Crash, Return, SlotInv, ControlOK, Rebuilding
<1>7. CASE WriteBack
  BY <1>7
<1> QED
  BY <1>1, <1>2, <1>3, <1>4, <1>5, <1>6, <1>7 DEF Next, Proceed, Publish, Recover

\* A cover stays while the lines and the record do and the index does not
\* shrink.
LEMMA CoverStays ==
  ASSUME BaselineCovers, file'.lines = file.lines, record' = record,
         index'.exists /\ baseline' =>
           index.exists /\ baseline /\ index.msgs \subseteq index'.msgs
  PROVE  BaselineCovers'
BY DEF BaselineCovers, UuidsOf

\* The steps that leave lines and record alone.
LEMMA CoverQuiet ==
  ASSUME FileInv, CoverOK, Next, ~PowerLoss,
         ~(\/ Discard \/ Withdraw \/ Retire \/ PublishIntent \/ WriteLine \/ SyncNewFile
           \/ Rollback \/ Expunge \/ LegacyReset \/ LegacyIntent \/ WriteBaseline)
  PROVE  BaselineCovers'
<1>1. FileType /\ IndexType
  BY DEF FileInv, SlotInv, TypeOK
<1>2. file'.lines = file.lines
  BY <1>1, LinesStay
<1>3. record' = record /\
      (index'.exists /\ baseline' => index.exists /\ baseline /\ index.msgs \subseteq index'.msgs)
  <2>1. ASSUME NEW n \in conv..MaxMessages, BeginPersist(n)
        PROVE  UNCHANGED <<record, index, baseline>>
    BY <2>1 DEF BeginPersist, disk
  <2>2. ASSUME NEW goal \in {"list", "resume"}, BeginRecovery(goal)
        PROVE  UNCHANGED <<record, index, baseline>>
    BY <2>2 DEF BeginRecovery, disk
  <2>3. CASE Resolve \/ Drain \/ SyncLine \/ Recheck \/ FindRecord \/ InspectLegacy \/ Load
             \/ Attach \/ FailClean \/ FailLoading \/ Close \/ ProcessCrash \/ WriteBack
    BY <2>3 DEF Resolve, Drain, SyncLine, Recheck, FindRecord, InspectLegacy, Load, Attach,
       FailClean, FailLoading, Close, ProcessCrash, Crash, WriteBack, disk
  <2>4. CASE InvalidateBaselines
    BY <2>4 DEF InvalidateBaselines, Stale
  <2>5. CASE OpenIndex \/ Preflight
    BY <1>1, <2>5 DEF OpenIndex, Preflight, CheckedIndexStore, Stale, IndexType, disk
  <2>6. CASE SaveRow \/ SaveMessage \/ RebuildRow \/ Fill
    BY <1>1, <2>6 DEF SaveRow, SaveMessage, RebuildRow, Fill, IndexType, disk
  <2>7. CASE LoseIndex
    BY <2>7 DEF LoseIndex, LostIndex, disk
  <2> QED
    BY <2>1, <2>2, <2>3, <2>4, <2>5, <2>6, <2>7
    DEF Next, Proceed, Persist, Publish, Recover
<1> QED
  BY <1>2, <1>3, CoverStays DEF CoverOK

\* The baseline keeps its promise.
LEMMA CoverNext ==
  ASSUME FileInv, IndexOK, CoverOK, Next, ~PowerLoss
  PROVE  CoverOK'
<1>1. /\ SlotInv /\ FileType /\ IndexType /\ HandleType /\ PlaceOK
      /\ \A u \in UuidsOf(file) : u # NoUuid
  BY LineType DEF FileInv, SlotInv, TypeOK, UuidsOf, Uuid
<1>2. BaselineCovers'
  <2>1. CASE Discard \/ Withdraw
    <3>1. /\ Front.uuid \notin UuidsOf(file)
          /\ UNCHANGED <<file, index, baseline>>
          /\ record' \in {record, NoRecord}
          /\ (record' # record => record = FrontRecord)
      BY <1>1, <2>1, FreshAbsent DEF Discard, Withdraw, PlaceOK, RemoveRecord, RemoveFails,
         InstallRecord, Removable
    <3>2. CASE record' = record
      BY <3>1, <3>2, CoverStays DEF CoverOK
    <3>3. CASE record = FrontRecord
      BY <3>1, <3>3 DEF CoverOK, BaselineCovers, UuidsOf, FrontRecord
    <3> QED
      BY <3>1, <3>2, <3>3
  <2>2. CASE Retire
    <3>1. at = "retire" /\ UNCHANGED <<file, index, baseline>>
      BY <2>2 DEF Retire
    <3>2. index.exists /\ baseline => UuidsOf(file) \subseteq index.msgs
      BY <3>1 DEF CoverOK
    <3> QED
      BY <3>1, <3>2 DEF BaselineCovers
  <2>3. CASE PublishIntent
    <3>1. UNCHANGED <<file, index, baseline>> /\ (record = NoRecord \/ record' = record)
      BY <2>3 DEF PublishIntent
    <3>2. CASE record' = record
      BY <3>1, <3>2, CoverStays DEF CoverOK
    <3>3. CASE record = NoRecord
      BY <1>1, <3>1, <3>3 DEF CoverOK, BaselineCovers, NoRecord
    <3> QED
      BY <3>1, <3>2, <3>3
  <2>4. CASE WriteLine \/ SyncNewFile \/ Rollback
    <3>1. /\ record = FrontRecord /\ UNCHANGED <<record, index, baseline>>
          /\ UuidsOf(file') \subseteq UuidsOf(file) \cup {Front.uuid}
      BY <1>1, <2>4, OwnLineFrame, OwnLine DEF SlotInv, SlotOK
    <3> QED
      BY <3>1 DEF CoverOK, BaselineCovers, FrontRecord
  <2>5. CASE Expunge
    BY <2>5 DEF Expunge, BaselineCovers
  <2>6. CASE LegacyReset
    BY <2>6 DEF LegacyReset, CoverOK, Rebuilding, BaselineCovers, disk
  <2>7. CASE LegacyIntent
    <3>1. UNCHANGED <<file, index, baseline>> /\ record' \in {record, LegacyRecord}
      BY <2>7 DEF LegacyIntent, InstallRecord, InstallFails
    <3>2. CASE record' = record
      BY <3>1, <3>2, CoverStays DEF CoverOK
    <3>3. CASE record' = LegacyRecord
      BY <3>3 DEF BaselineCovers, LegacyRecord
    <3> QED
      BY <3>1, <3>2, <3>3
  <2>8. CASE WriteBaseline
    BY <2>8 DEF WriteBaseline, CoverOK, BaselineCovers
  <2> QED
    BY <2>1, <2>2, <2>3, <2>4, <2>5, <2>6, <2>7, <2>8, CoverQuiet
<1>3. WriteBack => UNCHANGED <<file, index, record, baseline, at>>
  BY DEF WriteBack
<1>4. at' = "retire" /\ index'.exists /\ baseline' => UuidsOf(file') \subseteq index'.msgs
  <2>1. CASE SaveMessage
    <3>1. UNCHANGED <<file, record, baseline>> /\ at = "message" /\ index'.exists = index.exists
          /\ index'.msgs = index.msgs \cup {Published.uuid}
      BY <1>1, <2>1 DEF SaveMessage, disk, IndexType
    <3>2. record.kind # "legacy" /\ (record = NoRecord \/ record.uuid = Published.uuid)
      BY <1>1, <3>1 DEF SlotInv, SlotOK, ControlOK, PublishSteps, Published, FrontRecord,
         NoRecord
    <3> QED
      BY <1>1, <3>1, <3>2 DEF CoverOK, BaselineCovers, NoRecord
  <2>2. CASE FindRecord /\ at' = "retire"
    <3>1. /\ UNCHANGED <<record, index, baseline>> /\ file'.lines = file.lines
          /\ record.kind # "legacy" /\ ~RecordPresent
      BY <1>1, <2>2, RepairLines DEF FindRecord, Goto, Return
    <3>2. record.uuid \notin UuidsOf(file)
      BY <1>1, <3>1 DEF RecordPresent, UuidsOf, SlotInv, SlotOK
    <3> QED
      BY <3>1, <3>2 DEF CoverOK, BaselineCovers, UuidsOf
  <2>3. CASE WriteBaseline
    BY <2>3 DEF WriteBaseline, CoverOK
  <2>4. CASE WriteBack
    BY <1>3, <2>4 DEF CoverOK
  <2> QED
    BY <1>1, <2>1, <2>2, <2>3, <2>4, Reached
<1>5. at' \in {"legacyBaseline", "resumeBaseline"} => UuidsOf(file') \subseteq index'.msgs
  <2>1. CASE Fill
    BY <2>1 DEF Fill, Unindexed, UuidsOf, Goto, disk
  <2>2. CASE WriteBack
    BY <1>3, <2>2 DEF CoverOK
  <2> QED
    BY <1>1, <2>1, <2>2, Reached
<1>6. at' \in Rebuilding => record'.kind = "legacy"
  <2>1. CASE LegacyIntent
    BY <2>1 DEF LegacyIntent, InstallRecord, LegacyRecord, Goto, Return, Rebuilding
  <2>2. CASE LegacyReset \/ RebuildRow \/ Fill
    BY <2>2 DEF LegacyReset, RebuildRow, Fill, Goto, Rebuilding, CoverOK, disk
  <2>3. CASE WriteBack
    BY <1>3, <2>3 DEF CoverOK
  <2> QED
    BY <1>1, <2>1, <2>2, <2>3, Reached
<1> QED
  BY <1>2, <1>4, <1>5, <1>6 DEF CoverOK

(* What was answered *)

\* An answer is given with the handle at the end of the transcript.
LEMMA Answered ==
  ASSUME FileInv, Next
  PROVE  \/ acked' = acked
         \/ /\ live /\ ~gone /\ acked' \in Nat /\ acked' <= persisted
            /\ persisted = Len(file.lines)
            /\ UNCHANGED <<file, persisted, live, gone>> /\ at' # "expunge"
<1>1. SlotInv /\ PlaceOK /\ persisted \in Nat /\ conv \in Nat
  BY DEF FileInv, SlotInv, TypeOK, HandleType
<1>2. ASSUME NEW n \in conv..MaxMessages, BeginPersist(n), acked' # acked
      PROVE  /\ live /\ ~gone /\ acked' \in Nat /\ acked' <= persisted
             /\ persisted = Len(file.lines)
             /\ UNCHANGED <<file, persisted, live, gone>> /\ at' # "expunge"
  <2>1. /\ op = "none" /\ live /\ ~gone /\ ~uncertain /\ queue = <<>> /\ n <= persisted
        /\ acked' = n /\ UNCHANGED <<file, persisted, live, gone, at>>
    BY <1>2 DEF BeginPersist, disk
  <2>2. at = "idle" /\ AtEnd
    BY <1>1, <2>1 DEF SlotInv, ControlOK, PlaceOK, Settled, AppendSteps
  <2>3. n \in Nat
    BY <1>1, BoundsAssumption
  <2> QED
    BY <2>1, <2>2, <2>3 DEF AtEnd
<1>3. CASE Drain /\ acked' # acked
  <2>1. /\ at = "drain" /\ queue = <<>> /\ conv <= persisted /\ acked' = conv /\ at' = "idle"
        /\ UNCHANGED <<file, persisted, live, gone>>
    BY <1>3 DEF Drain, Return, disk, handle
  <2>2. op = "persist" /\ live /\ ~gone /\ ~uncertain /\ AtEnd
    BY <1>1, <2>1 DEF SlotInv, ControlOK, PersistSteps, PlaceOK, Settled, AppendSteps
  <2> QED
    BY <1>1, <2>1, <2>2 DEF AtEnd
<1>4. ASSUME NEW goal \in {"list", "resume"}, BeginRecovery(goal) PROVE acked' = acked
  BY <1>4 DEF BeginRecovery
<1>5. CASE Resolve \/ Discard \/ InvalidateBaselines \/ OpenIndex \/ PublishIntent \/ WriteLine
           \/ SyncLine \/ SyncNewFile \/ Rollback \/ Recheck \/ Withdraw
  BY <1>5 DEF Resolve, Discard, InvalidateBaselines, OpenIndex, PublishIntent, WriteLine,
     SyncLine, SyncNewFile, Rollback, Recheck, Withdraw
<1>6. CASE Publish \/ Recover
  BY <1>6 DEF Publish, SaveRow, SaveMessage, Retire, Recover, Preflight, FindRecord, Expunge,
     InspectLegacy, LegacyIntent, LegacyReset, RebuildRow, Fill, WriteBaseline
<1>7. CASE Load \/ Attach \/ FailClean \/ FailLoading \/ Close \/ LoseIndex \/ ProcessCrash
           \/ WriteBack \/ PowerLoss
  BY <1>7 DEF Load, Attach, FailClean, FailLoading, Close, LoseIndex, ProcessCrash, WriteBack,
     PowerLoss, Crash
<1> QED
  BY <1>2, <1>3, <1>4, <1>5, <1>6, <1>7 DEF Next, Proceed, Persist

\* The handle moves on by one message, or is set up at the end of the
\* transcript, or is gone.
LEMMA HandleMoves ==
  ASSUME FileInv, Next
  PROVE  \/ live' = live /\ persisted' \in {persisted, persisted + 1}
         \/ ~live'
         \/ file' = file /\ persisted' = Len(file.lines)
<1>1. ASSUME NEW n \in conv..MaxMessages, BeginPersist(n) PROVE UNCHANGED <<live, persisted>>
  BY <1>1 DEF BeginPersist
<1>2. ASSUME NEW goal \in {"list", "resume"}, BeginRecovery(goal)
      PROVE  UNCHANGED <<live, persisted>>
  BY <1>2 DEF BeginRecovery, handle
<1>3. CASE Persist
  BY <1>3 DEF Persist, Resolve, Discard, InvalidateBaselines, OpenIndex, Drain, PublishIntent,
     WriteLine, SyncLine, SyncNewFile, Rollback, Recheck, Withdraw, Appended, handle
<1>4. CASE Publish \/ Recover
  BY <1>4 DEF Publish, SaveRow, SaveMessage, Retire, Recover, Preflight, FindRecord, Expunge,
     InspectLegacy, LegacyIntent, LegacyReset, RebuildRow, Fill, WriteBaseline, handle
<1>5. CASE Load \/ FailClean \/ FailLoading \/ LoseIndex \/ WriteBack
  BY <1>5 DEF Load, FailClean, FailLoading, LoseIndex, WriteBack, handle
<1>6. CASE Close \/ ProcessCrash \/ PowerLoss
  BY <1>6 DEF Close, ProcessCrash, PowerLoss, Crash, HandleGone
<1>7. CASE Attach
  BY <1>7 DEF Attach, disk
<1> QED
  BY <1>1, <1>2, <1>3, <1>4, <1>5, <1>6, <1>7 DEF Next, Proceed

\* What was answered stays below the place a rollback cuts at.
LEMMA AckedNext ==
  ASSUME FileInv, AckedOK, Next, ~PowerLoss
  PROVE  AckedOK'
<1>1. /\ SlotInv /\ FileType /\ acked \in Nat /\ persisted \in Nat
      /\ Len(file.lines) \in Nat /\ Len(<<>>) = 0
  BY LastUuidType DEF FileInv, SlotInv, TypeOK, ControlType, HandleType
<1>2. CASE acked' # acked
  <2>1. /\ live /\ ~gone /\ acked' \in Nat /\ acked' <= persisted
        /\ persisted = Len(file.lines)
        /\ UNCHANGED <<file, persisted, live, gone>> /\ at' # "expunge"
    BY <1>2, Answered
  <2> QED
    BY <2>1 DEF AckedOK
<1>3. CASE acked' = acked
  <2>1. acked <= Len(file'.lines)
    <3>1. CASE WriteLine \/ SyncNewFile \/ Rollback
      <4>1. acked <= persisted /\ persisted <= Len(file'.lines)
        BY <3>1, OwnLine, OwnLineFrame DEF AckedOK
      <4>2. Len(file'.lines) \in Nat
        BY <1>1, SlotStep, LastUuidType DEF SlotInv, TypeOK
      <4> QED
        BY <1>1, <4>1, <4>2
    <3>2. CASE Expunge
      <4>1. file'.lines = <<>> /\ file.lines = <<>>
        BY <1>1, <3>2 DEF Expunge, NoFile, AckedOK, NoMessages, SlotInv, SlotOK
      <4> QED
        BY <4>1 DEF AckedOK
    <3>3. CASE ~(WriteLine \/ SyncNewFile \/ Rollback \/ Expunge)
      BY <1>1, <3>3, LinesStay DEF AckedOK
    <3> QED
      BY <3>1, <3>2, <3>3
  <2>2. live' => acked <= persisted'
    <3>1. CASE live' = live /\ persisted' \in {persisted, persisted + 1}
      <4>1. live => acked <= persisted
        BY DEF AckedOK
      <4> QED
        BY <1>1, <3>1, <4>1
    <3>2. CASE file' = file /\ persisted' = Len(file.lines)
      BY <3>2 DEF AckedOK
    <3> QED
      BY <3>1, <3>2, HandleMoves
  <2>3. gone' => acked = 0
    <3>1. CASE Expunge
      <4>1. file.lines = <<>>
        BY <1>1, <3>1 DEF Expunge, AckedOK, NoMessages, SlotInv, SlotOK
      <4> QED
        BY <1>1, <4>1 DEF AckedOK
    <3>2. CASE ~Expunge
      <4>1. gone' = gone
        <5>1. ASSUME NEW n \in conv..MaxMessages, BeginPersist(n) PROVE gone' = gone
          BY <5>1 DEF BeginPersist
        <5>2. ASSUME NEW goal \in {"list", "resume"}, BeginRecovery(goal) PROVE gone' = gone
          BY <5>2 DEF BeginRecovery
        <5>3. CASE Persist
          BY <5>3 DEF Persist, Resolve, Discard, InvalidateBaselines, OpenIndex, Drain,
             PublishIntent, WriteLine, SyncLine, SyncNewFile, Rollback, Recheck, Withdraw
        <5>4. CASE Publish \/ Recover
          BY <3>2, <5>4 DEF Publish, SaveRow, SaveMessage, Retire, Recover, Preflight,
             FindRecord, InspectLegacy, LegacyIntent, LegacyReset, RebuildRow, Fill,
             WriteBaseline
        <5>5. CASE Load \/ Attach \/ FailClean \/ FailLoading \/ Close \/ LoseIndex
                   \/ ProcessCrash \/ WriteBack
          BY <5>5 DEF Load, Attach, FailClean, FailLoading, Close, LoseIndex, ProcessCrash,
             WriteBack, Crash
        <5> QED
          BY <5>1, <5>2, <5>3, <5>4, <5>5 DEF Next, Proceed
      <4> QED
        BY <4>1 DEF AckedOK
    <3> QED
      BY <3>1, <3>2
  <2>4. at' = "expunge" => NoMessages'
    <3>1. CASE (FindRecord \/ InspectLegacy) /\ at' = "expunge"
      <4>1. NoMessages /\ (RepairTail \/ UNCHANGED file)
        BY <3>1 DEF FindRecord, InspectLegacy, Absent, Goto, Return
      <4>2. file.lines = <<>> /\ file'.lines = file.lines
        BY <1>1, <4>1, RepairLines DEF NoMessages, SlotInv, SlotOK
      <4> QED
        BY <4>2 DEF NoMessages
    <3>2. CASE WriteBack
      BY <3>2 DEF WriteBack, AckedOK, NoMessages
    <3> QED
      BY <1>1, <3>1, <3>2, Reached
  <2> QED
    BY <1>3, <2>1, <2>2, <2>3, <2>4 DEF AckedOK
<1> QED
  BY <1>2, <1>3

\* No step but a power loss takes back a message that was answered.
LEMMA LinesKeptByStep ==
  ASSUME FileInv, AckedOK, Next, ~PowerLoss, ~gone'
  PROVE  \A i \in 1..acked : i \in DOMAIN file.lines =>
           i \in DOMAIN file'.lines /\ file'.lines[i] = file.lines[i]
<1>1. FileType /\ acked \in Nat /\ persisted \in Nat
  BY DEF FileInv, SlotInv, TypeOK, ControlType, HandleType
<1>2. CASE WriteLine \/ SyncNewFile \/ Rollback
  <2>1. acked <= persisted
    BY <1>2, OwnLineFrame DEF AckedOK
  <2>2. \A i \in 1..acked : i \in 1..persisted
    BY <1>1, <2>1
  <2> QED
    BY <1>2, <2>2, OwnLine
<1>3. CASE Expunge
  BY <1>3 DEF Expunge
<1>4. CASE ~(WriteLine \/ SyncNewFile \/ Rollback \/ Expunge)
  BY <1>1, <1>4, LinesStay
<1> QED
  BY <1>2, <1>3, <1>4

\* Nothing has been written, or only what an older version left.
LEMMA StoreInit == Init => StoreInv
<1> SUFFICES ASSUME Init PROVE StoreInv
  OBVIOUS
<1>1. FileInv /\ SlotInv /\ FileType /\ at = "idle" /\ queue = <<>> /\ acked = 0 /\ persisted = 0
  BY FileInit DEF FileInv, SlotInv, TypeOK, Init, Idle
<1>2. IndexSound /\ BaselineCovers
  <2>1. CASE Created
    BY <2>1 DEF Created, EmptyIndex, NoFile, IndexSound, BaselineCovers, UuidsOf
  <2>2. ASSUME NEW n \in Nat, NEW tail \in Tails, NEW indexed \in SUBSET (1..n),
               Legacy(n, tail, indexed)
        PROVE  IndexSound /\ BaselineCovers
    <3>1. ~baseline /\ index.msgs \subseteq 1..n /\ file.lines = LegacyLines(n)
      BY <2>2 DEF Legacy
    <3>2. 1..n \subseteq UuidsOf(file)
      BY <3>1 DEF UuidsOf, LegacyLines
    <3> QED
      BY <3>1, <3>2 DEF IndexSound, BaselineCovers
  <2> QED
    BY <2>1, <2>2, BoundsAssumption DEF Init
<1>3. Len(file.lines) \in Nat
  BY <1>1, LastUuidType
<1>4. IndexOK /\ CoverOK
  BY <1>1, <1>2 DEF IndexOK, CoverOK, AppendSteps, Rebuilding
<1>5. AckedOK
  BY <1>1, <1>3 DEF AckedOK
<1> QED
  BY <1>1, <1>4, <1>5 DEF StoreInv

\* Every step but a power loss keeps the store in accord.
LEMMA StoreNext ==
  ASSUME StoreInv, Next, ~PowerLoss
  PROVE  StoreInv'
BY FileStep, IndexNext, CoverNext, AckedNext DEF StoreInv

\* So does a step of something else.
LEMMA StoreStutter ==
  ASSUME StoreInv, UNCHANGED vars
  PROVE  StoreInv'
<1>1. FileInv'
  BY FileStep DEF StoreInv
<1>2. IndexOK' /\ CoverOK' /\ AckedOK'
  BY DEF StoreInv, IndexOK, IndexSound, CoverOK, BaselineCovers, AckedOK, NoMessages, UuidsOf,
     Front, vars, disk, handle, bounds
<1> QED
  BY <1>1, <1>2 DEF StoreInv

-----------------------------------------------------------------------------
(* What a failed publication leaves in the slot *)

\* A record in the slot that the handle knows nothing of.
Stray == live /\ queue = <<>> /\ record # NoRecord

\* A record, on disk or on stable storage, and an indexed message have a UUID that
\* was drawn; a recovery publishes a line of the transcript; a stray record is
\* left by two failures and names no message.
StrayOK ==
  /\ record.uuid <= uuids /\ durRecord.uuid <= uuids
  /\ \A m \in index.msgs : m <= uuids
  /\ op # "persist" /\ at \in {"row", "message"} => record.uuid \in UuidsOf(file)
  /\ Stray => faults > 1 /\ record.uuid \notin UuidsOf(file) \cup index.msgs

StrayInv == FileInv /\ StrayOK

\* The budget of I/O errors is only ever used up.
LEMMA FaultsStay ==
  ASSUME ControlType, Next
  PROVE  faults' \in Nat /\ faults <= faults'
<1>1. faults' \in {faults, faults + 1, faults + 2}
  <2>1. ASSUME NEW n \in conv..MaxMessages, BeginPersist(n) PROVE UNCHANGED faults
    BY <2>1 DEF BeginPersist, bounds
  <2>2. ASSUME NEW goal \in {"list", "resume"}, BeginRecovery(goal) PROVE UNCHANGED faults
    BY <2>2 DEF BeginRecovery, bounds
  <2>3. CASE Resolve \/ InvalidateBaselines \/ OpenIndex \/ Drain \/ PublishIntent
    BY <2>3 DEF Resolve, InvalidateBaselines, OpenIndex, Drain, PublishIntent, NoFault,
       Fault, Faults, bounds
  <2>4. CASE Discard \/ Withdraw \/ Retire
    BY <2>4 DEF Discard, Withdraw, Retire, RemoveFails, NoFault, Fault, Faults
  <2>5. CASE WriteLine \/ SyncLine \/ SyncNewFile \/ Rollback \/ Recheck
    BY <2>5 DEF WriteLine, SyncLine, SyncNewFile, Rollback, Recheck, NoFault, Fault, Faults
  <2>6. CASE SaveRow \/ SaveMessage \/ Recover
    BY <2>6 DEF SaveRow, SaveMessage, Recover, Preflight, FindRecord, Expunge, InspectLegacy,
       LegacyIntent, LegacyReset, RebuildRow, Fill, WriteBaseline, NoFault, Fault, Faults,
       bounds
  <2>7. CASE Load \/ Attach \/ FailClean \/ FailLoading
    BY <2>7 DEF Load, Attach, FailClean, FailLoading, Fault, Faults, bounds
  <2>8. CASE Close \/ LoseIndex \/ ProcessCrash \/ WriteBack \/ PowerLoss
    BY <2>8 DEF Close, LoseIndex, ProcessCrash, WriteBack, PowerLoss, Crash, bounds
  <2> QED
    BY <2>1, <2>2, <2>3, <2>4, <2>5, <2>6, <2>7, <2>8 DEF Next, Proceed, Persist, Publish
<1> QED
  BY <1>1 DEF ControlType

\* What a step makes of the record, on disk and on stable storage.
LEMMA RecordFrame ==
  ASSUME Next, ~PublishIntent, ~LegacyIntent
  PROVE  /\ record' \in {record, durRecord, NoRecord}
         /\ durRecord' \in {record, durRecord, NoRecord}
<1>1. ASSUME NEW n \in conv..MaxMessages, BeginPersist(n)
      PROVE  UNCHANGED <<record, durRecord>>
  BY <1>1 DEF BeginPersist, disk
<1>2. ASSUME NEW goal \in {"list", "resume"}, BeginRecovery(goal)
      PROVE  UNCHANGED <<record, durRecord>>
  BY <1>2 DEF BeginRecovery, disk
<1>3. CASE Discard \/ Withdraw \/ Retire
  BY <1>3 DEF Discard, Withdraw, Retire, RemoveRecord, RemoveFails, InstallRecord
<1>4. CASE Resolve \/ InvalidateBaselines \/ OpenIndex \/ Drain \/ WriteLine \/ SyncLine
           \/ SyncNewFile \/ Rollback \/ Recheck
  BY <1>4 DEF Resolve, InvalidateBaselines, OpenIndex, Drain, WriteLine, SyncLine,
     SyncNewFile, Rollback, Recheck, disk
<1>5. CASE SaveRow \/ SaveMessage \/ Preflight \/ FindRecord \/ InspectLegacy \/ LegacyReset
           \/ RebuildRow \/ Fill \/ WriteBaseline \/ Load \/ Attach \/ FailClean \/ FailLoading
  BY <1>5 DEF SaveRow, SaveMessage, Preflight, FindRecord, InspectLegacy, LegacyReset,
     RebuildRow, Fill, WriteBaseline, Load, Attach, FailClean, FailLoading, disk
<1>6. CASE Expunge \/ Close \/ LoseIndex \/ ProcessCrash \/ WriteBack \/ PowerLoss
  BY <1>6 DEF Expunge, Close, LoseIndex, ProcessCrash, WriteBack, PowerLoss, disk
<1> QED
  BY <1>1, <1>2, <1>3, <1>4, <1>5, <1>6 DEF Next, Proceed, Persist, Publish, Recover

\* Only a publication leaves a stray record: what is one after any other step was
\* one before.
LEMMA StrayStays ==
  ASSUME SlotInv, Next, ~PublishIntent, Stray'
  PROVE  Stray /\ UNCHANGED record
<1>1. /\ HandleType /\ SlotOK /\ ControlOK
      /\ live' /\ queue' = <<>> /\ record' # NoRecord
  BY DEF SlotInv, TypeOK, Stray
<1>2. ASSUME NEW n \in conv..MaxMessages, BeginPersist(n)
      PROVE  Stray /\ UNCHANGED record
  BY <1>1, <1>2 DEF BeginPersist, disk, Stray
<1>3. ASSUME NEW goal \in {"list", "resume"}, BeginRecovery(goal)
      PROVE  Stray /\ UNCHANGED record
  BY <1>1, <1>3 DEF BeginRecovery, disk, handle, Stray
<1>4. CASE Resolve
  <2>1. queue # <<>> => [queue EXCEPT ![1].appended = TRUE] # <<>>
    BY <1>1, QueueOfOne DEF SlotOK
  <2> QED
    BY <1>1, <1>4, <2>1 DEF Resolve, Stray
<1>5. CASE Discard \/ Withdraw
  BY <1>1, <1>5 DEF Discard, Withdraw, RemoveRecord, SlotOK, AppendSteps
<1>6. CASE Retire
  <2>1. ~(queue # <<>> /\ op = "persist")
    BY <1>1, <1>6 DEF Retire, RemoveRecord
  <2>2. op = "persist" => queue # <<>>
    BY <1>1, <1>6 DEF Retire, SlotOK, PublishSteps
  <2>3. op # "persist"
    BY <2>1, <2>2
  <2> QED
    BY <1>1, <1>6, <2>3 DEF Retire, RemoveRecord, RemoveFails, InstallRecord, Stray
<1>7. CASE WriteLine \/ SyncLine \/ SyncNewFile \/ Rollback \/ Recheck
  <2>1. queue # <<>> /\ Len(queue) = 1
    BY <1>1, <1>7 DEF WriteLine, SyncLine, SyncNewFile, Rollback, Recheck, SlotOK, AppendSteps
  <2>2. Appended => queue' # <<>>
    BY <1>1, <2>1, AppendedType
  <2> QED
    BY <1>1, <1>7, <2>1, <2>2 DEF WriteLine, SyncLine, SyncNewFile, Rollback, Recheck, handle
<1>8. CASE InvalidateBaselines \/ OpenIndex \/ Drain \/ SaveRow \/ SaveMessage \/ Preflight
           \/ FindRecord \/ InspectLegacy \/ LegacyReset \/ RebuildRow \/ Fill
           \/ WriteBaseline \/ Load \/ FailClean \/ FailLoading \/ LoseIndex \/ WriteBack
  BY <1>1, <1>8 DEF InvalidateBaselines, OpenIndex, Drain, SaveRow, SaveMessage, Preflight,
     FindRecord, InspectLegacy, LegacyReset, RebuildRow, Fill, WriteBaseline, Load, FailClean,
     FailLoading, LoseIndex, WriteBack, disk, handle, Stray
<1>9. CASE LegacyIntent \/ Attach
  <2>1. LegacyIntent => ~live /\ live' = live
    BY <1>1 DEF LegacyIntent, SlotOK, LegacySteps, handle
  <2>2. Attach => record' = record /\ record = NoRecord
    BY <1>1 DEF Attach, SlotOK, ResumeSteps, disk
  <2> QED
    BY <1>1, <1>9, <2>1, <2>2
<1>10. CASE Expunge \/ Close \/ ProcessCrash \/ PowerLoss
  BY <1>1, <1>10 DEF Expunge, Close, ProcessCrash, PowerLoss, Crash, HandleGone
<1> QED
  BY <1>2, <1>3, <1>4, <1>5, <1>6, <1>7, <1>8, <1>9, <1>10
     DEF Next, Proceed, Persist, Publish, Recover

\* UUIDs on disk and in the index were drawn.
LEMMA DrawnNext ==
  ASSUME StrayInv, Next
  PROVE  /\ record'.uuid <= uuids' /\ durRecord'.uuid <= uuids'
         /\ \A m \in index'.msgs : m <= uuids'
<1>1. /\ FileType /\ SlotType /\ IndexType /\ HandleType /\ SlotOK /\ ControlOK /\ PlaceOK
      /\ Chained(file.lines, uuids) /\ uuids \in Nat
      /\ record.uuid \in Nat /\ durRecord.uuid \in Nat
      /\ record.uuid <= uuids /\ durRecord.uuid <= uuids /\ NoRecord.uuid = 0
      /\ \A m \in index.msgs : m <= uuids /\ m \in Nat
  BY DEF StrayInv, StrayOK, FileInv, SlotInv, TypeOK, ControlType, ChainOK, SlotType, Record,
     NoRecord, NoUuid, Uuid, IndexType
<1>2. uuids' \in {uuids, uuids + 1}
  BY UuidsGrow
<1>3. \A u \in UuidsOf(file) : u \in Nat /\ u <= uuids
  BY <1>1, LineType DEF Chained, UuidsOf, Uuid
<1>4. record'.uuid <= uuids' /\ durRecord'.uuid <= uuids'
  <2>1. CASE PublishIntent
    <3>1. uuids' = uuids + 1
      BY <2>1 DEF PublishIntent
    <3>2. /\ record'.uuid \in {record.uuid, uuids + 1}
          /\ durRecord'.uuid \in {durRecord.uuid, uuids + 1}
      BY <2>1 DEF PublishIntent, InstallRecord, InstallFails
    <3> QED
      BY <1>1, <3>1, <3>2
  <2>2. CASE LegacyIntent
    <3>1. LegacyRecord.uuid \in UuidsOf(file)
      <4>1. file.lines # <<>> /\ file.lines \in Seq(Entry)
        BY <1>1, <2>2 DEF LegacyIntent, SlotOK, FileType, Transcript
      <4>2. 1 \in DOMAIN file.lines
        BY <4>1, EmptySeq, LenProperties
      <4> QED
        BY <4>2 DEF LegacyRecord, UuidsOf
    <3>2. /\ record' \in {record, LegacyRecord}
          /\ durRecord' \in {durRecord, LegacyRecord}
      BY <2>2 DEF LegacyIntent, InstallRecord, InstallFails
    <3> QED
      BY <1>1, <1>2, <1>3, <3>1, <3>2
  <2>3. CASE ~PublishIntent /\ ~LegacyIntent
    <3>1. /\ record' \in {record, durRecord, NoRecord}
          /\ durRecord' \in {record, durRecord, NoRecord}
      BY <2>3, RecordFrame
    <3> QED
      BY <1>1, <1>2, <3>1
  <2> QED
    BY <2>1, <2>2, <2>3
<1>5. \A m \in index'.msgs : m <= uuids'
  <2>1. CASE SaveMessage
    <3>1. Published.uuid <= uuids
      <4>1. op = "persist" => queue # <<>>
        BY <1>1, <2>1 DEF SaveMessage, SlotOK, PublishSteps
      <4> QED
        BY <1>1, <4>1 DEF Published, FrontRecord, PlaceOK
    <3>2. index'.msgs = index.msgs \cup {Published.uuid} /\ uuids' = uuids
      BY <1>1, <2>1 DEF SaveMessage, IndexType, bounds
    <3> QED
      BY <1>1, <3>1, <3>2
  <2>2. CASE Fill
    <3>1. index'.msgs \subseteq index.msgs \cup UuidsOf(file)
      BY <1>1, <2>2 DEF Fill, Unindexed, UuidsOf, IndexType
    <3> QED
      BY <1>1, <1>2, <1>3, <3>1
  <2>3. CASE ~SaveMessage /\ ~Fill
    <3>1. index'.msgs \in {index.msgs, {}}
      BY <1>1, <2>3, MessagesStay
    <3> QED
      BY <1>1, <1>2, <3>1
  <2> QED
    BY <2>1, <2>2, <2>3
<1> QED
  BY <1>4, <1>5

\* What a recovery publishes stays in the transcript while it does.
LEMMA RecoveredNext ==
  ASSUME StrayInv, Next
  PROVE  op' # "persist" /\ at' \in {"row", "message"} => record'.uuid \in UuidsOf(file')
<1>1. SUFFICES ASSUME op' # "persist", at' \in {"row", "message"}
               PROVE  record'.uuid \in UuidsOf(file')
  OBVIOUS
<1>2. /\ FileType /\ ControlOK
      /\ op # "persist" /\ at \in {"row", "message"} => record.uuid \in UuidsOf(file)
  BY DEF StrayInv, StrayOK, FileInv, SlotInv, TypeOK
<1>3. CASE FindRecord
  <2>1. RecordPresent /\ file'.lines = file.lines /\ record' = record
    BY <1>1, <1>2, <1>3, RepairLines DEF FindRecord, Goto, Return, Absent
  <2> QED
    BY <2>1 DEF RecordPresent, UuidsOf
<1>4. CASE SaveRow \/ WriteBack
  BY <1>1, <1>2, <1>4 DEF SaveRow, WriteBack, Goto, disk
<1>5. CASE Drain
  BY <1>1, <1>2, <1>5 DEF Drain, Goto, Return, ControlOK, PersistSteps
<1>6. ASSUME NEW n \in conv..MaxMessages, BeginPersist(n) PROVE FALSE
  BY <1>1, <1>2, <1>6 DEF BeginPersist, ControlOK
<1>7. ASSUME NEW goal \in {"list", "resume"}, BeginRecovery(goal) PROVE FALSE
  BY <1>1, <1>7 DEF BeginRecovery
<1>8. CASE Resolve \/ Discard \/ InvalidateBaselines \/ OpenIndex \/ PublishIntent \/ WriteLine
           \/ SyncLine \/ SyncNewFile \/ Rollback \/ Recheck \/ Withdraw
  BY <1>1, <1>8 DEF Resolve, Discard, InvalidateBaselines, OpenIndex, PublishIntent, WriteLine,
     SyncLine, SyncNewFile, Rollback, Recheck, Withdraw, Appended, Goto, Return
<1>9. CASE SaveMessage \/ Retire \/ Preflight \/ Expunge \/ InspectLegacy \/ LegacyIntent
           \/ LegacyReset \/ RebuildRow \/ Fill \/ WriteBaseline
  BY <1>1, <1>9 DEF SaveMessage, Retire, Preflight, Expunge, InspectLegacy, LegacyIntent,
     LegacyReset, RebuildRow, Fill, WriteBaseline, Goto, Return, AfterRecovery
<1>10. CASE Load \/ Attach \/ FailClean \/ FailLoading
  BY <1>1, <1>10 DEF Load, Attach, FailClean, FailLoading, Goto, Return
<1>11. CASE Close \/ LoseIndex
  BY <1>1, <1>2, <1>11 DEF Close, LoseIndex, ControlOK
<1>12. CASE ProcessCrash \/ PowerLoss
  BY <1>1, <1>12 DEF ProcessCrash, PowerLoss, Crash, Return
<1> QED
  BY <1>3, <1>4, <1>5, <1>6, <1>7, <1>8, <1>9, <1>10, <1>11, <1>12
     DEF Next, Proceed, Persist, Publish, Recover

\* A stray record stays one that names nothing: whatever writes the transcript or
\* the index has a queued intent of its own, or another record in the slot.
LEMMA StrayNext ==
  ASSUME StrayInv, Next, Stray'
  PROVE  faults' > 1 /\ record'.uuid \notin UuidsOf(file') \cup index'.msgs
<1>1. /\ SlotInv /\ FileType /\ IndexType /\ HandleType /\ ControlType /\ SlotOK
      /\ Chained(file.lines, uuids) /\ uuids \in Nat /\ faults \in Nat
      /\ \A m \in index.msgs : m <= uuids /\ m \in Nat
      /\ Stray => faults > 1 /\ record.uuid \notin UuidsOf(file) \cup index.msgs
      /\ live' /\ queue' = <<>> /\ record' # NoRecord
  BY DEF StrayInv, StrayOK, FileInv, SlotInv, TypeOK, ControlType, ChainOK, IndexType, Uuid,
     Stray
<1>2. CASE PublishIntent
  <2>1. at = "intent" /\ queue = <<>> /\ live = live' /\ UNCHANGED <<file, index>>
    BY <1>1, <1>2 DEF PublishIntent, SlotOK
  <2>2. CASE UNCHANGED record
    <3>1. Stray
      BY <1>1, <2>1, <2>2 DEF Stray
    <3>2. faults' \in Nat /\ faults <= faults'
      BY <1>1, FaultsStay
    <3> QED
      BY <1>1, <2>1, <2>2, <3>1, <3>2
  <2>3. CASE ~UNCHANGED record
    <3>1. record'.uuid = uuids + 1 /\ Faults(2)
      BY <1>1, <1>2, <2>1, <2>3 DEF PublishIntent, InstallRecord, InstallFails
    <3>2. faults' > 1
      BY <1>1, <3>1 DEF Faults
    <3>3. \A u \in UuidsOf(file) : u \in Nat /\ u <= uuids
      BY <1>1, LineType DEF Chained, UuidsOf, Uuid
    <3>4. \A u \in UuidsOf(file) \cup index.msgs : u # uuids + 1
      BY <1>1, <3>3
    <3> QED
      BY <2>1, <3>1, <3>2, <3>4
  <2> QED
    BY <2>2, <2>3
<1>3. CASE ~PublishIntent
  <2>1. Stray /\ record' = record
    BY <1>1, <1>3, StrayStays
  <2>2. faults' > 1
    BY <1>1, <2>1, FaultsStay
  <2>3. ~WriteLine /\ ~SyncNewFile /\ ~Rollback
    BY <1>1, <2>1 DEF Stray, WriteLine, SyncNewFile, Rollback, SlotOK, AppendSteps
  <2>4. ~Expunge /\ ~PowerLoss
    BY <1>1 DEF Expunge, PowerLoss, Crash, HandleGone
  <2>5. file'.lines = file.lines
    BY <1>1, <2>3, <2>4, LinesStay
  <2>6. ~SaveMessage
    <3>1. op = "persist" /\ at = "message" => FALSE
      BY <1>1, <2>1 DEF Stray, SlotOK, PublishSteps
    <3>2. op # "persist" /\ at = "message" => FALSE
      BY <1>1, <2>1 DEF StrayInv, StrayOK
    <3> QED
      BY <3>1, <3>2 DEF SaveMessage
  <2>7. ~Fill
    BY <1>1, <2>1 DEF Stray, Fill, SlotOK, LegacySteps, AfterLoad
  <2>8. index'.msgs \in {index.msgs, {}}
    BY <1>1, <2>6, <2>7, MessagesStay
  <2> QED
    BY <1>1, <2>1, <2>2, <2>5, <2>8 DEF UuidsOf
<1> QED
  BY <1>2, <1>3

\* Nothing is in the slot at first, and an older version drew its UUIDs too.
LEMMA StrayInit == Init => StrayInv
<1> SUFFICES ASSUME Init PROVE StrayInv
  OBVIOUS
<1>1. FileInv /\ uuids \in Nat /\ at = "idle" /\ record = NoRecord /\ durRecord = NoRecord
  BY FileInit DEF FileInv, SlotInv, TypeOK, ControlType, Init, Idle
<1>2. \A m \in index.msgs : m <= uuids
  <2>1. CASE Created
    BY <2>1 DEF Created, EmptyIndex
  <2>2. ASSUME NEW n \in Nat, NEW tail \in Tails, NEW indexed \in SUBSET (1..n),
               Legacy(n, tail, indexed)
        PROVE  \A m \in index.msgs : m <= uuids
    BY <2>2 DEF Legacy
  <2> QED
    BY <2>1, <2>2, BoundsAssumption DEF Init
<1> QED
  BY <1>1, <1>2 DEF StrayInv, StrayOK, Stray, NoRecord, NoUuid

\* The invariant is inductive.
LEMMA StrayStep == StrayInv /\ [Next]_vars => StrayInv'
<1>1. ASSUME StrayInv, Next PROVE StrayInv'
  BY <1>1, FileStep, DrawnNext, RecoveredNext, StrayNext DEF StrayInv, StrayOK
<1>2. ASSUME StrayInv, UNCHANGED vars PROVE StrayInv'
  <2>1. FileInv'
    BY <1>2, FileStep DEF StrayInv
  <2>2. StrayOK'
    BY <1>2 DEF StrayInv, StrayOK, Stray, UuidsOf, vars, disk, handle, bounds
  <2> QED
    BY <2>1, <2>2 DEF StrayInv
<1> QED
  BY <1>1, <1>2

\* A record the handle has not queued was left by two failures of one publication,
\* and no line and no indexed message has its UUID, whatever else fails and
\* wherever crashes and power losses fall.
THEOREM StrayInvariant == Spec => []StrayInv
BY StrayInit, StrayStep, PTL DEF Spec

\* When persist_new comes to publish an intent nothing is queued, one failure
\* leaves the slot free, and what two leave there names no message.
THEOREM SlotFreeOrStrayAlways == Spec => []SlotFreeOrStray
<1>1. StrayInv => SlotFreeOrStray
  <2> SUFFICES ASSUME StrayInv, at = "intent"
               PROVE  /\ queue = <<>>
                      /\ record # NoRecord =>
                           faults > 1 /\ record.uuid \notin UuidsOf(file) \cup index.msgs
    BY DEF SlotFreeOrStray
  <2>1. op = "persist" /\ live
    BY DEF StrayInv, FileInv, SlotInv, ControlOK, PersistSteps
  <2>2. queue = <<>>
    BY DEF StrayInv, FileInv, SlotInv, SlotOK
  <2> QED
    BY <2>1, <2>2 DEF StrayInv, StrayOK, Stray
<1> QED
  BY <1>1, StrayInvariant, PTL

-----------------------------------------------------------------------------
(* Stable storage, when the system may lose its power and at most one call  *)
(* fails                                                                    *)

PowerKept == "power" \notin CrashKinds
OneFault == "process" \notin CrashKinds /\ MaxFaults <= 1

\* Stable storage has the lines the file has, or all but the one that is being
\* appended.
Synced == durFile.lines = file.lines /\ durFile.exists = file.exists

OneBehind == /\ OneMore
             /\ Len(durFile.lines) = persisted
             /\ \A i \in 1..persisted : durFile.lines[i] = file.lines[i]

Unsynced == {"sync", "link", "rollback"}

\* A call fails once at most: a rollback succeeds, and no append is uncertain.
SyncOK ==
  /\ ~uncertain
  /\ at \notin {"recheck", "rollback2"}
  /\ at \in {"rollback", "withdraw"} => faults = MaxFaults
  /\ at \notin Unsynced => Synced
  /\ at \in Unsynced => durFile.lines = file.lines \/ OneBehind
  /\ at = "link" => durFile.lines = file.lines
  /\ at \in Unsynced /\ prepared.existed => file.exists /\ durFile.exists

\* What the baseline promises holds whichever of record and baseline has been
\* written back.
Covered(r) ==
  \/ r.kind = "legacy"
  \/ \A u \in UuidsOf(file) : u \in index.msgs \/ u = r.uuid

Promised == index.exists /\ (baseline \/ durBaseline)

DurCoverOK ==
  /\ Promised => Covered(record) /\ Covered(durRecord)
  /\ at = "retire" /\ Promised => UuidsOf(file) \subseteq index.msgs
  /\ at \in Rebuilding => durRecord.kind = "legacy"
  /\ at \in AppendSteps => durRecord = record

PowerInv == StoreInv /\ SyncOK /\ DurCoverOK

\* A call that has failed is the only one that does.
LEMMA LastFault ==
  ASSUME OneFault, ControlType
  PROVE  /\ ~Faults(2)
         /\ Fault => faults' = MaxFaults
         /\ faults = MaxFaults => ~Fault
<1>1. MaxFaults \in Nat /\ faults \in Nat
  BY BoundsAssumption DEF ControlType
<1> QED
  BY <1>1 DEF OneFault, Fault, Faults

\* Stable storage is never ahead of the file.
LEMMA SyncedBehind ==
  ASSUME FileInv, SyncOK
  PROVE  /\ UuidsOf(durFile) \subseteq UuidsOf(file)
         /\ UuidsOf(file) \subseteq UuidsOf(durFile) \cup {Front.uuid}
         /\ at \notin AppendSteps => UuidsOf(durFile) = UuidsOf(file)
<1>1. /\ persisted \in Nat /\ durFile.lines \in Seq(Entry) /\ file.lines \in Seq(Entry)
      /\ DOMAIN file.lines = 1..Len(file.lines) /\ DOMAIN durFile.lines = 1..Len(durFile.lines)
  BY LenProperties DEF FileInv, SlotInv, TypeOK, HandleType, FileType, Transcript
<1>2. CASE durFile.lines = file.lines
  BY <1>2 DEF UuidsOf
<1>3. CASE OneBehind /\ at \in Unsynced
  <2>1. /\ DOMAIN file.lines = 1..(persisted + 1) /\ DOMAIN durFile.lines = 1..persisted
        /\ file.lines[persisted + 1].uuid = Front.uuid
        /\ \A i \in 1..persisted : durFile.lines[i] = file.lines[i]
    BY <1>1, <1>3 DEF OneBehind, OneMore, NextLine
  <2>2. \A i \in 1..persisted : i \in 1..(persisted + 1)
    BY <1>1
  <2>3. \A i \in 1..(persisted + 1) : i \in 1..persisted \/ i = persisted + 1
    BY <1>1
  <2>4. at \in AppendSteps
    BY <1>3 DEF Unsynced, AppendSteps
  <2> QED
    BY <2>1, <2>2, <2>3, <2>4 DEF UuidsOf
<1> QED
  BY <1>2, <1>3 DEF SyncOK, Synced

\* The steps that leave both files alone, outside an append.
LEMMA SyncQuiet ==
  ASSUME SyncOK, UNCHANGED <<file, durFile>>, at \notin Unsynced,
         at' \notin Unsynced \cup {"recheck", "rollback2", "withdraw"},
         uncertain' = uncertain \/ ~uncertain'
  PROVE  SyncOK'
<1>1. Synced' /\ ~uncertain'
  BY DEF SyncOK, Synced
<1> QED
  BY <1>1 DEF SyncOK, Unsynced

\* A repaired tail is written to both files.
LEMMA SyncRepair ==
  ASSUME FileInv, SyncOK, RepairTail \/ FailLoading, at \notin Unsynced,
         at' \notin Unsynced \cup {"recheck", "rollback2", "withdraw"},
         uncertain' = uncertain
  PROVE  SyncOK'
<1>1. FileType /\ Synced
  BY DEF FileInv, SlotInv, TypeOK, SyncOK
<1>2. CASE RepairTail
  <2>1. file'.lines = file.lines /\ file'.exists = file.exists
    BY <1>1, <1>2, RepairTailType
  <2>2. durFile'.lines = file.lines /\ durFile'.exists = durFile.exists
    BY <1>1, <1>2 DEF RepairTail, FileType, Transcript, Synced
  <2> QED
    BY <1>1, <2>1, <2>2 DEF SyncOK, Synced, Unsynced
<1>3. CASE FailLoading
  <2>1. file'.lines = file.lines /\ file'.exists = file.exists /\ durFile' = durFile
    BY <1>1, <1>3, RepairedType DEF FailLoading, FileType
  <2> QED
    BY <1>1, <2>1 DEF SyncOK, Synced, Unsynced
<1> QED
  BY <1>2, <1>3

\* The line that is written is the only one stable storage lacks.
LEMMA SyncWrite ==
  ASSUME OneFault, FileInv, SyncOK, WriteLine
  PROVE  SyncOK'
<1>1. /\ SlotInv /\ ChainOK /\ PlaceOK /\ FileType /\ ControlType /\ at = "write"
      /\ AtEnd /\ Synced /\ prepared.existed = file.exists
      /\ UNCHANGED <<durFile, prepared, uncertain, persisted>> /\ ~uncertain
      /\ persisted \in Nat /\ file.lines \in Seq(Entry)
      /\ DOMAIN file.lines = 1..Len(file.lines)
  BY LenProperties DEF WriteLine, FileInv, SlotInv, TypeOK, PlaceOK, SyncOK, Unsynced, handle,
     HandleType, FileType, Transcript
<1>2. /\ file'.lines \in {file.lines, Append(file.lines, NextLine)}
      /\ at' = "sync" => file'.lines = Append(file.lines, NextLine)
      /\ at' = "withdraw" => UNCHANGED file
      /\ at' \in {"sync", "rollback", "withdraw"}
  BY <1>1, WrittenLines
<1>3. NextLine' = NextLine
  BY <1>1 DEF WriteLine, handle, NextLine, Front
<1>4. file'.lines = Append(file.lines, NextLine) => OneBehind'
  <2>1. NextLine \in Entry
    BY <1>1, NextLineType DEF SlotInv, SlotOK, AppendSteps, TypeOK
  <2>2. /\ Len(file.lines) = persisted
        /\ \A i \in 1..persisted : Append(file.lines, NextLine)[i] = file.lines[i]
    BY <1>1, <2>1, AppendProperties DEF AtEnd
  <2>3. file'.lines = Append(file.lines, NextLine) => OneMore'
    BY <1>1, <1>3, WriteChains DEF OneMore
  <2> QED
    BY <1>1, <2>2, <2>3 DEF OneBehind, Synced
<1>5. at' \in {"rollback", "withdraw"} => faults' = MaxFaults
  <2>1. at' \in {"rollback", "withdraw"} => Fault
    BY DEF WriteLine, Goto
  <2> QED
    BY <1>1, <2>1, LastFault
<1>6. file.exists => file'.exists
  <2>1. \A f \in {[file EXCEPT !.exists = TRUE, !.tail = "torn"],
                  [file EXCEPT !.exists = TRUE]} : f.exists
    BY <1>1 DEF FileType, Transcript
  <2>2. \A tail : WithLine(file, tail).exists
    BY DEF WithLine
  <2> QED
    BY <2>1, <2>2 DEF WriteLine
<1>7. durFile'.lines = file'.lines \/ OneBehind'
  BY <1>1, <1>2, <1>4 DEF Synced
<1>8. at' = "withdraw" => Synced'
  BY <1>1, <1>2 DEF Synced
<1> QED
  BY <1>1, <1>2, <1>5, <1>6, <1>7, <1>8 DEF SyncOK, Unsynced, Synced

\* fsync of the transcript: both files are equal, or the call failed.
LEMMA SyncSync ==
  ASSUME OneFault, FileInv, SyncOK, SyncLine
  PROVE  SyncOK'
<1>1. /\ FileType /\ ControlType /\ at = "sync" /\ OneMore /\ file.exists
      /\ UNCHANGED <<file, prepared, uncertain>> /\ ~uncertain
      /\ prepared.existed => durFile.exists
      /\ durFile.lines = file.lines \/ OneBehind
  BY OneMoreLast DEF SyncLine, FileInv, SlotInv, TypeOK, PlaceOK, SyncOK, Unsynced
<1>2. CASE durFile' = [durFile EXCEPT !.lines = file.lines, !.tail = file.tail] /\ NoFault
  <2>1. durFile'.lines = file'.lines /\ durFile'.exists = durFile.exists
    BY <1>1, <1>2 DEF FileType, Transcript
  <2>2. at' = "link" \/ (at' = "drain" /\ prepared.existed) \/ at' = "rollback"
    BY DEF SyncLine, Appended, Goto
  <2>3. CASE at' = "drain" /\ prepared.existed
    BY <1>1, <2>1, <2>3 DEF SyncOK, Synced, Unsynced
  <2>4. CASE at' = "link"
    BY <1>1, <2>1, <2>4 DEF SyncOK, Synced, Unsynced
  <2>5. CASE at' = "rollback"
    <3>1. faults' = MaxFaults
      BY <1>1, <2>5, LastFault DEF SyncLine, Appended, Goto
    <3> QED
      BY <1>1, <2>1, <2>5, <3>1 DEF SyncOK, Synced, Unsynced
  <2> QED
    BY <2>2, <2>3, <2>4, <2>5
<1>3. CASE Fault /\ at' = "rollback" /\ UNCHANGED <<durFile, queue, persisted, last>>
  <2>1. faults' = MaxFaults
    BY <1>1, <1>3, LastFault
  <2>2. OneBehind => OneBehind'
    BY <1>1, <1>3 DEF OneBehind, OneMore, NextLine, Front
  <2> QED
    BY <1>1, <1>3, <2>1, <2>2 DEF SyncOK, Synced, Unsynced
<1> QED
  BY <1>2, <1>3 DEF SyncLine, Goto

\* fsync of the directory.
LEMMA SyncLink ==
  ASSUME OneFault, FileInv, SyncOK, SyncNewFile
  PROVE  SyncOK'
<1>1. /\ FileType /\ ControlType /\ at = "link" /\ file.exists /\ ~uncertain
      /\ durFile.lines = file.lines
  BY OneMoreLast DEF SyncNewFile, FileInv, SlotInv, TypeOK, PlaceOK, SyncOK, Unsynced
<1>2. CASE /\ durFile' = [durFile EXCEPT !.exists = TRUE] /\ Appended
           /\ UNCHANGED <<file, uncertain>>
  <2>1. Synced' /\ at' = "drain" /\ ~uncertain'
    BY <1>1, <1>2 DEF FileType, Transcript, Synced, Appended, Goto
  <2> QED
    BY <2>1 DEF SyncOK, Unsynced
<1>3. CASE Fault /\ file' = NoFile /\ durFile' = NoFile /\ at' = "withdraw"
           /\ UNCHANGED uncertain
  <2>1. Synced' /\ faults' = MaxFaults /\ ~uncertain'
    BY <1>1, <1>3, LastFault DEF Synced
  <2> QED
    BY <1>3, <2>1 DEF SyncOK, Unsynced
<1> QED
  BY <1>1, <1>2, <1>3, LastFault DEF SyncNewFile, Goto

\* A rollback takes the line away from both files, if it was in both.
LEMMA SyncRollback ==
  ASSUME OneFault, FileInv, SyncOK, Rollback
  PROVE  SyncOK'
<1>1. /\ FileType /\ ControlType /\ at = "rollback" /\ ~uncertain /\ faults = MaxFaults
      /\ prepared.existed => file.exists /\ durFile.exists
  BY DEF Rollback, FileInv, SlotInv, TypeOK, SyncOK, Unsynced
<1>2. RolledBack /\ NoFault /\ at' = "withdraw" /\ UNCHANGED uncertain
  BY <1>1, LastFault DEF Rollback, Goto
<1>3. Synced'
  <2>1. CASE prepared.existed
    <3>1. file'.exists /\ file'.lines = Cut(file).lines
      BY <1>1, <1>2, <2>1 DEF RolledBack, Cut, FileType, Transcript
    <3>2. durFile'.exists /\ durFile'.lines = Cut(file).lines
      BY <1>1, <1>2, <2>1 DEF RolledBack, FileType, Transcript
    <3>3. file'.exists = TRUE /\ durFile'.exists = TRUE
      BY <1>1, <1>2, <2>1 DEF RolledBack, Cut, FileType, Transcript
    <3> QED
      BY <3>1, <3>2, <3>3 DEF Synced
  <2>2. CASE ~prepared.existed
    BY <1>2, <2>2 DEF RolledBack, Cut, Synced
  <2> QED
    BY <2>1, <2>2
<1> QED
  BY <1>1, <1>2, <1>3 DEF SyncOK, Unsynced, NoFault

\* What the system writes back on its own only brings stable storage nearer.
LEMMA SyncWriteBack ==
  ASSUME FileInv, SyncOK, WriteBack
  PROVE  SyncOK'
<1>1. /\ FileType /\ (~file.exists => file.lines = <<>>)
      /\ UNCHANGED <<file, at, faults, prepared, uncertain, persisted, queue, last>>
  BY DEF WriteBack, FileInv, SlotInv, TypeOK, SlotOK, handle, bounds
<1>2. CASE durFile' = durFile
  BY <1>1, <1>2 DEF SyncOK, Synced, OneBehind, OneMore, NextLine, Front
<1>3. CASE durFile' = [durFile EXCEPT !.lines = file.lines, !.tail = file.tail]
  <2>1. durFile'.lines = file.lines /\ durFile'.exists = durFile.exists
    BY <1>1, <1>3 DEF FileType, Transcript
  <2> QED
    BY <1>1, <2>1 DEF SyncOK, Synced
<1>4. CASE file.exists /\ durFile' = [durFile EXCEPT !.exists = TRUE]
  <2>1. durFile'.lines = durFile.lines /\ durFile'.exists = TRUE /\ file.exists = TRUE
    BY <1>1, <1>4 DEF FileType, Transcript
  <2>2. OneBehind => OneBehind'
    BY <1>1, <2>1 DEF OneBehind, OneMore, NextLine, Front
  <2> QED
    BY <1>1, <2>1, <2>2 DEF SyncOK, Synced
<1>5. CASE ~file.exists /\ durFile' = NoFile
  <2>1. durFile'.lines = file.lines /\ durFile'.exists = FALSE /\ file.exists = FALSE
    BY <1>1, <1>5 DEF NoFile, FileType, Transcript
  <2> QED
    BY <1>1, <2>1 DEF SyncOK, Synced
<1> QED
  BY <1>2, <1>3, <1>4, <1>5 DEF WriteBack

\* Every step keeps stable storage at most one line behind.
LEMMA SyncNext ==
  ASSUME OneFault, FileInv, SyncOK, Next
  PROVE  SyncOK'
<1>1. SlotInv
  BY DEF FileInv
<1> DEFINE Out == Unsynced \cup {"recheck", "rollback2", "withdraw"}
<1>2. ASSUME NEW n \in conv..MaxMessages, BeginPersist(n) PROVE SyncOK'
  <2>1. UNCHANGED <<file, durFile, uncertain>> /\ at = "idle" /\ at' \in {"idle", "resolve"}
    BY <1>1, <1>2 DEF BeginPersist, SlotInv, ControlOK, disk
  <2> QED
    BY <2>1, SyncQuiet DEF Unsynced
<1>3. ASSUME NEW goal \in {"list", "resume"}, BeginRecovery(goal) PROVE SyncOK'
  <2>1. UNCHANGED <<file, durFile, uncertain>> /\ at = "idle" /\ at' = "preflight"
    BY <1>1, <1>3 DEF BeginRecovery, SlotInv, ControlOK, disk, handle
  <2> QED
    BY <2>1, SyncQuiet DEF Unsynced
<1>4. CASE Resolve \/ FindRecord \/ InspectLegacy \/ Load \/ FailLoading
  <2>1. /\ at \notin Unsynced /\ at' \notin Out /\ uncertain' = uncertain
        /\ RepairTail \/ FailLoading \/ UNCHANGED <<file, durFile>>
    BY <1>4 DEF Resolve, FindRecord, InspectLegacy, Load, FailLoading, LoadingSteps, Absent,
       Goto, Return, Unsynced, handle
  <2> QED
    BY <2>1, SyncQuiet, SyncRepair
<1>5. CASE Discard \/ InvalidateBaselines \/ OpenIndex \/ Drain \/ PublishIntent \/ Withdraw
  <2>1. /\ at \notin Unsynced /\ at' \notin Out /\ uncertain' = uncertain
        /\ UNCHANGED <<file, durFile>>
    BY <1>5 DEF Discard, InvalidateBaselines, OpenIndex, Drain, PublishIntent, Withdraw, Goto,
       Return, Unsynced, disk, handle
  <2> QED
    BY <2>1, SyncQuiet
<1>6. CASE Publish \/ Preflight \/ LegacyIntent \/ LegacyReset \/ RebuildRow \/ Fill
           \/ WriteBaseline \/ FailClean
  <2>1. /\ at \notin Unsynced /\ at' \notin Out /\ uncertain' = uncertain
        /\ UNCHANGED <<file, durFile>>
    BY <1>6 DEF Publish, SaveRow, SaveMessage, Retire, Preflight, LegacyIntent, LegacyReset,
       RebuildRow, Fill, WriteBaseline, FailClean, CleanSteps, Goto, Return, AfterRecovery,
       Unsynced, disk, handle
  <2> QED
    BY <2>1, SyncQuiet
<1>7. CASE Attach \/ Close \/ LoseIndex
  <2>1. /\ at \notin Unsynced /\ at' \notin Out /\ (uncertain' = uncertain \/ ~uncertain')
        /\ UNCHANGED <<file, durFile>>
    BY <1>1, <1>7 DEF Attach, Close, LoseIndex, HandleGone, Return, Unsynced, disk, handle,
       SlotInv, ControlOK
  <2> QED
    BY <2>1, SyncQuiet
<1>8. CASE WriteLine \/ SyncLine \/ SyncNewFile \/ Rollback \/ WriteBack
  BY <1>8, SyncWrite, SyncSync, SyncLink, SyncRollback, SyncWriteBack
<1>9. CASE Recheck
  BY <1>9 DEF Recheck, SyncOK
<1>10. CASE Expunge
  BY <1>10 DEF Expunge, SyncOK, Synced, Unsynced, AfterRecovery, Goto, Return, handle
<1>11. CASE ProcessCrash
  BY <1>11 DEF ProcessCrash, Crash, OneFault
<1>12. CASE PowerLoss
  BY <1>12 DEF PowerLoss, Crash, HandleGone, Return, SyncOK, Synced, Unsynced
<1> QED
  BY <1>2, <1>3, <1>4, <1>5, <1>6, <1>7, <1>8, <1>9, <1>10, <1>11, <1>12
  DEF Next, Proceed, Persist, Recover

\* What is covered stays so while no line is added and the index does not
\* shrink.
LEMMA CoveredStays ==
  ASSUME NEW r, NEW s, Covered(r), s = r, UuidsOf(file') \subseteq UuidsOf(file),
         index.msgs \subseteq index'.msgs
  PROVE  Covered(s)'
BY DEF Covered

\* The steps that add no line and leave the record alone.
LEMMA PromiseQuiet ==
  ASSUME FileInv, DurCoverOK, Next, ~PowerLoss,
         ~(\/ Discard \/ Withdraw \/ Retire \/ PublishIntent \/ WriteLine \/ SyncNewFile
           \/ Rollback \/ Expunge \/ LegacyReset \/ LegacyIntent \/ WriteBaseline)
  PROVE  Promised' => Covered(record)' /\ Covered(durRecord)'
<1>1. FileType /\ IndexType
  BY DEF FileInv, SlotInv, TypeOK
<1>2. UuidsOf(file') = UuidsOf(file)
  BY <1>1, LinesStay DEF UuidsOf
<1>3. /\ record' = record /\ durRecord' \in {durRecord, record}
      /\ Promised' => Promised /\ index.msgs \subseteq index'.msgs
  <2>1. ASSUME NEW n \in conv..MaxMessages, BeginPersist(n)
        PROVE  UNCHANGED <<record, durRecord, index, baseline, durBaseline>>
    BY <2>1 DEF BeginPersist, disk
  <2>2. ASSUME NEW goal \in {"list", "resume"}, BeginRecovery(goal)
        PROVE  UNCHANGED <<record, durRecord, index, baseline, durBaseline>>
    BY <2>2 DEF BeginRecovery, disk
  <2>3. CASE Resolve \/ Drain \/ SyncLine \/ Recheck \/ FindRecord \/ InspectLegacy \/ Load
             \/ Attach \/ FailClean \/ FailLoading \/ Close \/ ProcessCrash
    BY <2>3 DEF Resolve, Drain, SyncLine, Recheck, FindRecord, InspectLegacy, Load, Attach,
       FailClean, FailLoading, Close, ProcessCrash, Crash, disk, Promised
  <2>4. CASE InvalidateBaselines
    BY <2>4 DEF InvalidateBaselines, Stale, Promised
  <2>5. CASE OpenIndex \/ Preflight
    BY <1>1, <2>5 DEF OpenIndex, Preflight, CheckedIndexStore, Stale, IndexType, disk, Promised
  <2>6. CASE SaveRow \/ SaveMessage \/ RebuildRow \/ Fill
    BY <1>1, <2>6 DEF SaveRow, SaveMessage, RebuildRow, Fill, IndexType, disk, Promised
  <2>7. CASE LoseIndex
    BY <2>7 DEF LoseIndex, LostIndex, disk, Promised
  <2>8. CASE WriteBack
    BY <2>8 DEF WriteBack, Promised
  <2> QED
    BY <2>1, <2>2, <2>3, <2>4, <2>5, <2>6, <2>7, <2>8
    DEF Next, Proceed, Persist, Publish, Recover, Promised
<1> QED
  BY <1>2, <1>3, CoveredStays DEF DurCoverOK, Covered

\* What covers the lines does so whichever record a power loss leaves.
LEMMA PromiseNext ==
  ASSUME OneFault, StoreInv, SyncOK, DurCoverOK, Next
  PROVE  Promised' => Covered(record)' /\ Covered(durRecord)'
<1>1. /\ FileInv /\ SlotInv /\ FileType /\ IndexType /\ ControlType /\ PlaceOK
      /\ \A u \in UuidsOf(file) : u # NoUuid
  BY LineType DEF StoreInv, FileInv, SlotInv, TypeOK, UuidsOf, Uuid
<1>2. \A r : UuidsOf(file) \subseteq index.msgs /\ UuidsOf(file') \subseteq UuidsOf(file)
               /\ index' = index => Covered(r)'
  BY DEF Covered
<1>3. CASE Discard \/ Withdraw
  <2>1. /\ Front.uuid \notin UuidsOf(file)
        /\ UNCHANGED <<file, index, baseline, durBaseline>>
        /\ UNCHANGED <<record, durRecord>>
           \/ (record' = record /\ durRecord' = record)
           \/ (record' = NoRecord /\ durRecord' = NoRecord /\ record \in {FrontRecord, NoRecord})
    BY <1>1, <1>3, LastFault, FreshAbsent DEF Discard, Withdraw, PlaceOK, RemoveRecord,
       RemoveFails, InstallRecord, Removable
  <2>2. CASE record' = NoRecord /\ record \in {FrontRecord, NoRecord}
    <3>1. Promised => UuidsOf(file) \subseteq index.msgs
      BY <1>1, <2>1, <2>2 DEF DurCoverOK, Covered, FrontRecord, NoRecord
    <3> QED
      BY <1>2, <2>1, <3>1 DEF Promised, Covered
  <2>3. CASE record' = record /\ durRecord' \in {durRecord, record}
    BY <2>1, <2>3, CoveredStays DEF DurCoverOK, Promised, Covered
  <2> QED
    BY <2>1, <2>2, <2>3
<1>4. CASE Retire
  <2>1. at = "retire" /\ UNCHANGED <<file, index, baseline, durBaseline>>
    BY <1>4 DEF Retire
  <2>2. Promised => UuidsOf(file) \subseteq index.msgs
    BY <2>1 DEF DurCoverOK
  <2> QED
    BY <2>1, <2>2 DEF Promised, Covered
<1>5. CASE PublishIntent
  <2>1. /\ UNCHANGED <<file, index, baseline, durBaseline>>
        /\ record = NoRecord \/ UNCHANGED <<record, durRecord>>
    BY <1>5 DEF PublishIntent
  <2>2. CASE UNCHANGED <<record, durRecord>>
    BY <2>1, <2>2 DEF DurCoverOK, Promised, Covered
  <2>3. CASE record = NoRecord
    <3>1. Promised => UuidsOf(file) \subseteq index.msgs
      BY <1>1, <2>3 DEF DurCoverOK, Covered, NoRecord
    <3> QED
      BY <2>1, <3>1 DEF Promised, Covered
  <2> QED
    BY <2>1, <2>2, <2>3
<1>6. CASE WriteLine \/ SyncNewFile \/ Rollback
  <2>1. /\ record = FrontRecord /\ durRecord = record
        /\ UNCHANGED <<record, durRecord, index, baseline, durBaseline>>
        /\ UuidsOf(file') \subseteq UuidsOf(file) \cup {Front.uuid}
    <3>1. at \in AppendSteps /\ UNCHANGED <<durRecord, durBaseline>>
      BY <1>1, <1>6, OwnLineFrame DEF WriteLine, SyncNewFile, Rollback
    <3> QED
      BY <1>1, <1>6, <3>1, OwnLineFrame, OwnLine DEF SlotInv, SlotOK, DurCoverOK
  <2> QED
    BY <2>1 DEF DurCoverOK, Promised, Covered, FrontRecord
<1>7. CASE Expunge
  BY <1>7 DEF Expunge, Promised
<1>8. CASE LegacyReset
  BY <1>8 DEF LegacyReset, StoreInv, CoverOK, DurCoverOK, Rebuilding, Covered, disk
<1>9. CASE LegacyIntent
  <2>1. /\ UNCHANGED <<file, index, baseline, durBaseline>>
        /\ record' \in {record, LegacyRecord} /\ durRecord' \in {durRecord, LegacyRecord}
    BY <1>9 DEF LegacyIntent, InstallRecord, InstallFails
  <2>2. LegacyRecord.kind = "legacy"
    BY DEF LegacyRecord
  <2> QED
    BY <2>1, <2>2 DEF DurCoverOK, Promised, Covered
<1>10. CASE WriteBaseline
  <2>1. UuidsOf(file) \subseteq index.msgs /\ UNCHANGED <<file, index>>
    BY <1>10 DEF WriteBaseline, StoreInv, CoverOK
  <2> QED
    BY <2>1 DEF Covered
<1>11. CASE PowerLoss
  <2>1. /\ UuidsOf(file') \subseteq UuidsOf(durFile)
        /\ index' = index /\ record' = durRecord /\ durRecord' = durRecord
        /\ baseline' = durBaseline /\ durBaseline' = durBaseline
    <3>1. \A f \in SurvivingFiles : f.lines = durFile.lines \/ f.lines = <<>>
      BY <1>1 DEF SurvivingFiles, NoFile, FileType, Transcript
    <3>2. file' \in SurvivingFiles
      BY <1>11 DEF PowerLoss
    <3> QED
      BY <1>11, <3>1, <3>2 DEF PowerLoss, Crash, UuidsOf
  <2>2. UuidsOf(file') \subseteq UuidsOf(file)
    BY <1>1, <2>1, SyncedBehind
  <2> QED
    BY <2>1, <2>2 DEF DurCoverOK, Promised, Covered
<1> QED
  BY <1>1, <1>3, <1>4, <1>5, <1>6, <1>7, <1>8, <1>9, <1>10, <1>11, PromiseQuiet

\* The baseline keeps its promise on stable storage too.
LEMMA DurCoverNext ==
  ASSUME OneFault, StoreInv, SyncOK, DurCoverOK, Next
  PROVE  DurCoverOK'
<1>1. FileInv /\ SlotInv /\ FileType /\ IndexType /\ ControlType
      /\ \A u \in UuidsOf(file) : u # NoUuid
  BY LineType DEF StoreInv, FileInv, SlotInv, TypeOK, UuidsOf, Uuid
<1>2. WriteBack => /\ UNCHANGED <<file, index, record, baseline, at>>
                   /\ durRecord' \in {durRecord, record} /\ (Promised' => Promised)
  BY DEF WriteBack, Promised
<1>3. PowerLoss => at' = "idle"
  BY DEF PowerLoss, Crash, Return
<1>4. at' = "retire" /\ Promised' => UuidsOf(file') \subseteq index'.msgs
  <2>1. CASE SaveMessage
    <3>1. UNCHANGED <<file, record>> /\ at = "message" /\ Promised' = Promised
          /\ index'.msgs = index.msgs \cup {Published.uuid}
      BY <1>1, <2>1 DEF SaveMessage, disk, IndexType, Promised
    <3>2. record.kind # "legacy" /\ (record = NoRecord \/ record.uuid = Published.uuid)
      BY <1>1, <3>1 DEF SlotInv, SlotOK, ControlOK, PublishSteps, Published, FrontRecord,
         NoRecord
    <3> QED
      BY <1>1, <3>1, <3>2 DEF DurCoverOK, Covered, NoRecord
  <2>2. CASE FindRecord /\ at' = "retire"
    <3>1. /\ UNCHANGED <<record, index>> /\ file'.lines = file.lines /\ (Promised' => Promised)
          /\ record.kind # "legacy" /\ ~RecordPresent
      BY <1>1, <2>2, RepairLines DEF FindRecord, Goto, Return, Promised
    <3>2. record.uuid \notin UuidsOf(file)
      BY <1>1, <3>1 DEF RecordPresent, UuidsOf, SlotInv, SlotOK
    <3> QED
      BY <3>1, <3>2 DEF DurCoverOK, Covered, UuidsOf
  <2>3. CASE WriteBaseline
    BY <2>3 DEF WriteBaseline, StoreInv, CoverOK
  <2>4. CASE WriteBack
    BY <1>2, <2>4 DEF DurCoverOK
  <2> QED
    BY <1>1, <1>3, <2>1, <2>2, <2>3, <2>4, Reached
<1>5. at' \in Rebuilding => durRecord'.kind = "legacy"
  <2>1. CASE LegacyIntent
    BY <2>1 DEF LegacyIntent, InstallRecord, LegacyRecord, Goto, Return, Rebuilding
  <2>2. CASE LegacyReset \/ RebuildRow \/ Fill
    BY <2>2 DEF LegacyReset, RebuildRow, Fill, Goto, Rebuilding, DurCoverOK, disk
  <2>3. CASE WriteBack
    BY <1>2, <2>3 DEF DurCoverOK, StoreInv, CoverOK
  <2>4. PowerLoss => at' \notin Rebuilding
    BY <1>3 DEF Rebuilding
  <2> QED
    BY <1>1, <2>1, <2>2, <2>3, <2>4, Reached
<1>6. at' \in AppendSteps => durRecord' = record'
  <2>1. CASE PublishIntent
    BY <2>1 DEF PublishIntent, InstallRecord, Goto, Return, AppendSteps
  <2>2. CASE WriteBack
    BY <1>2, <2>2 DEF DurCoverOK
  <2>3. CASE at \in AppendSteps /\ ~WriteBack
    <3>1. WriteLine \/ SyncLine \/ SyncNewFile \/ Rollback \/ Recheck \/ Withdraw
            \/ at' \notin AppendSteps
      <4>1. ASSUME NEW n \in conv..MaxMessages, BeginPersist(n) PROVE FALSE
        BY <1>1, <2>3, <4>1 DEF BeginPersist, SlotInv, ControlOK, AppendSteps
      <4>2. ASSUME NEW goal \in {"list", "resume"}, BeginRecovery(goal) PROVE FALSE
        BY <1>1, <2>3, <4>2 DEF BeginRecovery, SlotInv, ControlOK, AppendSteps
      <4>3. CASE Resolve \/ Discard \/ InvalidateBaselines \/ OpenIndex \/ Drain \/ PublishIntent
                 \/ Publish \/ Recover \/ Load \/ Attach \/ FailClean \/ FailLoading
        BY <2>3, <4>3 DEF Resolve, Discard, InvalidateBaselines, OpenIndex, Drain, PublishIntent,
           Publish, SaveRow, SaveMessage, Retire, Recover, Preflight, FindRecord, Expunge,
           InspectLegacy, LegacyIntent, LegacyReset, RebuildRow, Fill, WriteBaseline, Load,
           Attach, FailClean, CleanSteps, FailLoading, LoadingSteps, AppendSteps
      <4>4. CASE Close \/ LoseIndex
        BY <1>1, <2>3, <4>4 DEF Close, LoseIndex, SlotInv, ControlOK, AppendSteps
      <4>5. CASE ProcessCrash \/ PowerLoss
        BY <4>5 DEF ProcessCrash, PowerLoss, Crash, Return, AppendSteps
      <4> QED
        BY <2>3, <4>1, <4>2, <4>3, <4>4, <4>5 DEF Next, Proceed, Persist
    <3>2. CASE WriteLine \/ SyncLine \/ SyncNewFile \/ Rollback \/ Recheck
      BY <2>3, <3>2 DEF WriteLine, SyncLine, SyncNewFile, Rollback, Recheck, DurCoverOK
    <3>3. CASE Withdraw
      BY <3>3 DEF Withdraw, Return, AppendSteps
    <3> QED
      BY <3>1, <3>2, <3>3
  <2> QED
    BY <1>1, <2>1, <2>2, <2>3, AppendFrame
<1> QED
  BY <1>4, <1>5, <1>6, PromiseNext DEF DurCoverOK

\* While nothing is at stake in an append, what is indexed or answered is on
\* stable storage; during one, the line that is not is neither.
LEMMA StableEnd ==
  ASSUME StoreInv, SyncOK
  PROVE  /\ index.msgs # {} => durFile.exists
         /\ index.msgs \subseteq UuidsOf(durFile)
         /\ acked # 0 => durFile.exists
         /\ acked <= Len(durFile.lines)
         /\ \A i \in 1..acked : i \in DOMAIN durFile.lines /\ durFile.lines[i] = file.lines[i]
<1>1. /\ FileInv /\ SlotInv /\ PlaceOK /\ acked \in Nat /\ persisted \in Nat
      /\ file.lines \in Seq(Entry) /\ durFile.lines \in Seq(Entry)
      /\ index.msgs \subseteq UuidsOf(file) /\ acked <= Len(file.lines)
      /\ (~file.exists => file.lines = <<>>)
  BY DEF StoreInv, FileInv, SlotInv, SlotOK, TypeOK, ControlType, HandleType, FileType,
     Transcript, IndexOK, IndexSound, AckedOK
<1>2. /\ DOMAIN file.lines = 1..Len(file.lines) /\ Len(file.lines) \in Nat
      /\ DOMAIN durFile.lines = 1..Len(durFile.lines) /\ Len(durFile.lines) \in Nat
  BY <1>1, LenProperties
<1>3. CASE at \notin Unsynced
  <2>1. durFile.lines = file.lines /\ durFile.exists = file.exists
    BY <1>3 DEF SyncOK, Synced
  <2>2. ~file.exists => UuidsOf(file) = {} /\ acked = 0
    BY <1>1, <1>2 DEF UuidsOf
  <2>3. \A i \in 1..acked : i \in 1..Len(file.lines)
    BY <1>1, <1>2
  <2> QED
    BY <1>1, <1>2, <2>1, <2>2, <2>3 DEF UuidsOf
<1>4. CASE at \in Unsynced
  <2>1. /\ live /\ acked <= persisted /\ Front.uuid \notin index.msgs
    BY <1>1, <1>4 DEF SlotInv, ControlOK, PersistSteps, Unsynced, StoreInv, AckedOK, IndexOK,
       AppendSteps
  <2>2. /\ persisted <= Len(file.lines)
        /\ persisted = 0 => UuidsOf(file) \subseteq {Front.uuid}
    <3>1. MayEnd \/ OneMore
      BY <1>1, <1>4 DEF PlaceOK, Unsynced
    <3>2. NextLine.uuid = Front.uuid
      BY DEF NextLine
    <3>3. \/ Len(file.lines) = persisted
          \/ /\ Len(file.lines) = persisted + 1
             /\ file.lines[persisted + 1].uuid = Front.uuid
      BY <3>1, <3>2 DEF MayEnd, AtEnd, OneMore
    <3> QED
      BY <1>1, <1>2, <3>3 DEF UuidsOf
  <2>3. durFile.lines = file.lines \/ OneBehind
    BY <1>4 DEF SyncOK
  <2>4. /\ persisted <= Len(durFile.lines)
        /\ \A i \in 1..persisted : durFile.lines[i] = file.lines[i]
    BY <1>1, <1>2, <2>2, <2>3 DEF OneBehind
  <2>5. persisted # 0 => durFile.exists
    BY <1>1, <1>4 DEF PlaceOK, SlotInv, SlotOK, SyncOK, Unsynced
  <2>6. index.msgs \subseteq UuidsOf(durFile)
    BY <1>1, <2>1, SyncedBehind
  <2>7. index.msgs # {} => persisted # 0
    BY <1>1, <2>1, <2>2
  <2>8. acked <= Len(durFile.lines) /\ (acked # 0 => persisted # 0)
        /\ \A i \in 1..acked : i \in 1..persisted /\ i \in 1..Len(durFile.lines)
    BY <1>1, <1>2, <2>1, <2>4
  <2> QED
    BY <1>2, <2>4, <2>5, <2>6, <2>7, <2>8
<1> QED
  BY <1>3, <1>4

\* What is left after a power loss.
LEMMA Survives ==
  ASSUME FileType, PowerLoss, durFile.exists
  PROVE  file'.lines = durFile.lines
<1>1. \A f \in SurvivingFiles : f.lines = durFile.lines
  BY DEF SurvivingFiles, FileType, Transcript
<1> QED
  BY <1>1 DEF PowerLoss

\* A power loss takes away nothing that was indexed or answered.
LEMMA PowerLossKeeps ==
  ASSUME OneFault, PowerInv, PowerLoss, Next
  PROVE  /\ StoreInv'
         /\ \A i \in 1..acked : i \in DOMAIN file'.lines /\ file'.lines[i] = file.lines[i]
<1>1. /\ StoreInv /\ SyncOK /\ DurCoverOK /\ FileInv /\ FileType /\ acked \in Nat
      /\ index.msgs # {} => durFile.exists
      /\ index.msgs \subseteq UuidsOf(durFile)
      /\ acked # 0 => durFile.exists
      /\ acked <= Len(durFile.lines)
      /\ \A i \in 1..acked : i \in DOMAIN durFile.lines /\ durFile.lines[i] = file.lines[i]
  BY StableEnd DEF PowerInv, StoreInv, FileInv, SlotInv, TypeOK, ControlType
<1>2. /\ at' = "idle" /\ queue' = <<>> /\ ~live' /\ UNCHANGED <<index, acked, gone>>
  BY DEF PowerLoss, Crash, HandleGone, Return
<1>3. durFile.exists => file'.lines = durFile.lines
  BY <1>1, Survives
<1>4. FileInv'
  BY <1>1, FileStep
<1>5. IndexSound'
  BY <1>1, <1>2, <1>3 DEF IndexSound, UuidsOf
<1>6. IndexOK'
  BY <1>2, <1>5 DEF IndexOK, AppendSteps
<1>7. Promised' => Covered(record)'
  BY <1>1, PromiseNext
<1>8. CoverOK'
  <2>1. BaselineCovers'
    BY <1>7 DEF BaselineCovers, Promised, Covered
  <2> QED
    BY <1>2, <2>1 DEF CoverOK, Rebuilding
<1>9. AckedOK'
  <2>1. acked <= Len(file'.lines)
    <3>1. CASE acked = 0
      <4>1. Len(file'.lines) \in Nat
        BY <1>4, LastUuidType DEF FileInv, SlotInv, TypeOK
      <4> QED
        BY <3>1, <4>1
    <3>2. CASE acked # 0
      BY <1>1, <1>3, <3>2
    <3> QED
      BY <3>1, <3>2
  <2> QED
    BY <1>1, <1>2, <2>1 DEF AckedOK, StoreInv
<1>10. \A i \in 1..acked : i \in DOMAIN file'.lines /\ file'.lines[i] = file.lines[i]
  <2>1. acked = 0 => 1..acked = {}
    OBVIOUS
  <2> QED
    BY <1>1, <1>3, <2>1
<1> QED
  BY <1>4, <1>6, <1>8, <1>9, <1>10 DEF StoreInv

LEMMA PowerInit == Init => PowerInv
<1> SUFFICES ASSUME Init PROVE PowerInv
  OBVIOUS
<1>1. StoreInv /\ at = "idle" /\ ~uncertain /\ durFile = file
  BY StoreInit DEF Init, Idle
<1>2. SyncOK
  BY <1>1 DEF SyncOK, Synced, Unsynced
<1>3. DurCoverOK
  <2>1. CASE Created
    BY <1>1, <2>1 DEF Created, NoFile, Covered, UuidsOf, DurCoverOK, AppendSteps, Rebuilding
  <2>2. CASE ~baseline /\ ~durBaseline
    BY <1>1, <2>2 DEF DurCoverOK, Promised, AppendSteps, Rebuilding
  <2> QED
    BY <2>1, <2>2 DEF Init, Legacy
<1> QED
  BY <1>1, <1>2, <1>3 DEF PowerInv

LEMMA PowerStep ==
  ASSUME OneFault
  PROVE  PowerInv /\ [Next]_vars => PowerInv'
<1>1. ASSUME PowerInv, Next PROVE PowerInv'
  <2>1. StoreInv'
    BY <1>1, StoreNext, PowerLossKeeps DEF PowerInv
  <2>2. SyncOK' /\ DurCoverOK'
    BY <1>1, SyncNext, DurCoverNext DEF PowerInv, StoreInv
  <2> QED
    BY <2>1, <2>2 DEF PowerInv
<1>2. ASSUME PowerInv, UNCHANGED vars PROVE PowerInv'
  <2>1. StoreInv'
    BY <1>2, StoreStutter DEF PowerInv
  <2>2. SyncOK'
    BY <1>2 DEF PowerInv, SyncOK, Synced, OneBehind, OneMore, NextLine, Front, vars, disk,
       handle, bounds
  <2>3. DurCoverOK'
    BY <1>2 DEF PowerInv, DurCoverOK, Promised, Covered, UuidsOf, vars, disk
  <2> QED
    BY <2>1, <2>2, <2>3 DEF PowerInv
<1> QED
  BY <1>1, <1>2

LEMMA StoreStep ==
  ASSUME PowerKept
  PROVE  StoreInv /\ [Next]_vars => StoreInv'
<1>1. ~PowerLoss
  BY DEF PowerKept, PowerLoss, Crash
<1> QED
  BY <1>1, StoreNext, StoreStutter

\* While at most one call fails, the system may lose its power at any step, any
\* number of times: files, records, index and stable storage stay in accord.
THEOREM PowerInvariant ==
  ASSUME OneFault
  PROVE  Spec => []PowerInv
<1>1. PowerInv /\ [Next]_vars => PowerInv'
  BY PowerStep
<1> QED
  BY <1>1, PowerInit, PTL DEF Spec

\* Transcript, pending record, index, baseline and what was answered stay in
\* accord, whatever calls fail and wherever the process dies; and, with one
\* failing call at most, wherever the power is lost.
THEOREM StoreInvariant ==
  ASSUME PowerKept \/ OneFault
  PROVE  Spec => []StoreInv
<1>1. CASE PowerKept
  <2>1. StoreInv /\ [Next]_vars => StoreInv'
    BY <1>1, StoreStep
  <2> QED
    BY <2>1, StoreInit, PTL DEF Spec
<1>2. CASE OneFault
  <2>1. Spec => []PowerInv
    BY <1>2, PowerInvariant
  <2>2. PowerInv => StoreInv
    BY DEF PowerInv
  <2> QED
    BY <2>1, <2>2, PTL
<1> QED
  BY <1>1, <1>2

\* The index never names a message the transcript lacks.
THEOREM IndexSoundAlways ==
  ASSUME PowerKept \/ OneFault
  PROVE  Spec => []IndexSound
<1>1. Spec => []StoreInv
  BY StoreInvariant
<1>2. StoreInv => IndexSound
  BY DEF StoreInv, IndexOK
<1> QED
  BY <1>1, <1>2, PTL

\* An index with a baseline holds every line of the transcript, but for the one
\* the pending record names and a rebuild the record tells of: resume may trust
\* it.
THEOREM BaselineCoversAlways ==
  ASSUME PowerKept \/ OneFault
  PROVE  Spec => []BaselineCovers
<1>1. Spec => []StoreInv
  BY StoreInvariant
<1>2. StoreInv => BaselineCovers
  BY DEF StoreInv, CoverOK
<1> QED
  BY <1>1, <1>2, PTL

\* Recovery deletes no session on its own that persist_new has answered Ok for.
THEOREM ExpungesUnackedAlways ==
  ASSUME PowerKept \/ OneFault
  PROVE  Spec => []ExpungesUnacked
<1>1. Spec => []StoreInv
  BY StoreInvariant
<1>2. StoreInv => ExpungesUnacked
  <2> SUFFICES ASSUME StoreInv, at = "expunge" PROVE acked = 0
    BY DEF ExpungesUnacked
  <2>1. acked \in Nat /\ acked <= Len(file.lines) /\ file.lines = <<>>
    BY DEF StoreInv, FileInv, SlotInv, TypeOK, ControlType, SlotOK, AckedOK, NoMessages
  <2> QED
    BY <2>1
<1> QED
  BY <1>1, <1>2, PTL

\* No step, a crash between any two included, takes back or changes a message
\* that persist_new has answered Ok for.
THEOREM AckedStaysAlways ==
  ASSUME PowerKept \/ OneFault
  PROVE  Spec => AckedStays
<1> DEFINE Held(n) == \A i \in 1..n : i \in DOMAIN file.lines =>
                        i \in DOMAIN file'.lines /\ file'.lines[i] = file.lines[i]
<1>1. CASE PowerKept
  <2>1. StoreInv /\ [Next]_vars => [~gone' => Held(acked)]_vars
    <3>1. ~PowerLoss
      BY <1>1 DEF PowerKept, PowerLoss, Crash
    <3> QED
      BY <3>1, LinesKeptByStep DEF StoreInv
  <2>2. Spec => []StoreInv
    BY <1>1, StoreInvariant
  <2> QED
    BY <2>1, <2>2, PTL DEF Spec, AckedStays
<1>2. CASE OneFault
  <2>1. PowerInv /\ [Next]_vars => [~gone' => Held(acked)]_vars
    BY <1>2, LinesKeptByStep, PowerLossKeeps DEF PowerInv, StoreInv
  <2>2. Spec => []PowerInv
    BY <1>2, PowerInvariant
  <2> QED
    BY <2>1, <2>2, PTL DEF Spec, AckedStays
<1> QED
  BY <1>1, <1>2

\* With one failing call at most, what persist_new has answered Ok for is on
\* stable storage.
THEOREM AckedDurableAlways ==
  ASSUME OneFault
  PROVE  Spec => []AckedDurable
<1>1. Spec => []PowerInv
  BY PowerInvariant
<1>2. PowerInv => AckedDurable
  BY StableEnd DEF PowerInv, AckedDurable
<1> QED
  BY <1>1, <1>2, PTL

\* With one failing call at most, and unless the process dies on its own, the
\* index has no message a power loss could take away.
THEOREM PublishedIsSyncedAlways ==
  ASSUME OneFault
  PROVE  Spec => []PublishedIsSynced
<1>1. Spec => []PowerInv
  BY PowerInvariant
<1>2. PowerInv => PublishedIsSynced
  BY StableEnd DEF PowerInv, PublishedIsSynced
<1> QED
  BY <1>1, <1>2, PTL
=============================================================================
