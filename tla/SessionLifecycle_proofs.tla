----------------------- MODULE SessionLifecycle_proofs -----------------------
(***************************************************************************)
(* What create, resume, fork, delete, list and the recoveries before them  *)
(* keep of the stored sessions, for any sets of sessions, generations and  *)
(* handles and any number of errors, process deaths and power losses,      *)
(* unless a theorem says otherwise.                                        *)
(*                                                                         *)
(* An operation is a place in the code and a straight run of writes and    *)
(* removals it still has to make.  The argument has four parts, each an    *)
(* inductive invariant on top of the first:                                *)
(*   LifeInv     what run each place has, whose markers may be on disk,    *)
(*               what a cleanup has removed so far, that a new id is       *)
(*               nobody's, and that a session with a writer is not marked; *)
(*   DeletedInv  no operation writes for a deleted session;                *)
(*   AckedInv    what was answered for is neither being removed nor about  *)
(*               to be, which under a loss of power needs SeenOK: a marker *)
(*               on stable storage is visible or about to be again;        *)
(*   TracedInv   as long as nothing failed, each step of a run finds the   *)
(*               row, the record or the marker it rests on.                *)
(***************************************************************************)
EXTENDS SessionLifecycle, SequenceTheorems, TLAPS

-----------------------------------------------------------------------------
(* The shape of an operation                                                *)

Kinds == {"list", "create", "resume", "delete", "fork"}

CleanSteps == {"ensure", "records", "databases", "files", "restore", "cleaned"}
CreateSteps == {"create", "create.write", "create.undo", "failed"}
StageSteps == {"fork.publish", "fork.commit", "undo", "undo.index", "undo.files",
               "undo.mark", "undo.remark", "undone"}
ForkSteps == {"fork", "fork.id", "fork.stage"} \cup StageSteps

Places == {"idle", "preflight", "recover", "list", "delete", "deleted", "resume", "attach"}
            \cup CleanSteps \cup CreateSteps \cup ForkSteps

Steps == [verb : {"add", "remove", "index", "publish"}, what : SUBSET Artifacts,
          orelse : {"return", "collect"} \cup Places]

Named == Ids \cup {Nobody}

Ops == [kind : Kinds \cup {"none"}, at : Places, id : Named, src : Named, job : Named,
        mark : Markers \cup {"none"}, back : Places, todo : Seq(Steps), errs : BOOLEAN,
        published : SUBSET Artifacts, indexed : BOOLEAN, quarantined : BOOLEAN,
        dropped : BOOLEAN]

\* Who may be where.
PlaceOK ==
  /\ op.at = "idle" <=> op = NoOp
  /\ op.kind = "none" => op = NoOp
  /\ op.kind \in {"create", "resume", "delete", "fork"} => op.id \in Ids
  /\ op.kind = "fork" => op.src \in Ids /\ op.src # op.id
  /\ op.at \in CreateSteps => op.kind = "create"
  /\ op.at \in ForkSteps => op.kind = "fork"
  /\ op.at = "attach" => op.kind \in {"create", "resume"}
  /\ op.at = "resume" => op.kind = "resume"
  /\ op.at \in {"delete", "deleted"} => op.kind = "delete"
  /\ op.at \in CleanSteps =>
       /\ op.job \in Ids /\ op.mark \in Markers
       /\ op.back \in {"recover", "deleted", "create.write", "fork.stage"}
       /\ op.back # "recover" => op.mark = "delmark" /\ op.job = op.id
       /\ op.back = "deleted" => op.kind = "delete"
       /\ op.back = "create.write" => op.kind = "create"
       /\ op.back = "fork.stage" => op.kind = "fork"
  /\ op.todo # <<>> => op.job \in Ids
  /\ op.at \in StageSteps => op.job = op.id

Removals(A, orelse) == {Step("remove", B, orelse) : B \in SUBSET A}
Additions(A, orelse) == {Step("add", B, orelse) : B \in SUBSET A}

\* What is still to do is some of that.
Only(S) == op.todo \in Seq(S)

RecordArts == Slot \cup {"baseline", "model"}
IndexArts == {"row", "messages", "model", "baseline"}
FileArts == {"transcript", "familiar", "stage"}
Filed == FileArts \cup IF op.mark = "delmark" THEN {"forkmark"} ELSE {}

\* The straight runs of each place.
RunOK ==
  /\ op.at = "records" => Only(Removals(RecordArts, "collect"))
  /\ op.at = "databases" =>
       Only(Removals({"goal"}, "restore") \cup Removals({"row", "messages"}, "restore"))
  /\ op.at = "files" => Only(Removals(Filed, "collect"))
  /\ op.at = "cleaned" => Only(Removals({op.mark}, "restore"))
  /\ op.at = "recover" =>
       Only(Removals(RecordArts \cup {"row", "messages"}, "return")
              \cup Additions(RecordArts \cup {"row", "messages"}, "return"))
  /\ op.at = "attach" =>
       /\ op.todo # <<>> => op.job = op.id
       /\ op.kind = "create" =>
            Only(Removals({"familiar"}, "return") \cup Additions({"familiar"}, "return")
                   \cup Additions({"model", "baseline"}, "create.undo"))
       /\ op.kind = "resume" => Only(Additions(IndexArts, "return"))
  /\ op.at = "failed" =>
       /\ op.todo # <<>> => op.job = op.id
       /\ Only(Removals({"baseline", "model", "familiar"}, "collect"))
  /\ op.at = "fork.id" =>
       /\ op.todo # <<>> => op.job = op.src
       /\ Only(Additions(IndexArts, "return"))
  /\ op.at = "fork.publish" =>
       Only(Additions({"forkmark"}, "return") \cup Additions({"stage"}, "undo")
              \cup Removals({"stage"}, "undo")
              \cup {Step("publish", {"transcript"}, "undo"),
                    Step("publish", {"familiar"}, "undo")})
  /\ op.at = "fork.commit" =>
       Only(Additions({"model", "messages", "baseline"}, "undo")
              \cup {Step("index", {"row"}, "undo"), Step("remove", {"forkmark"}, "undo")})
  /\ op.at = "undo.index" => Only(Removals(RecordArts, "collect"))
  /\ op.at = "undo.files" =>
       Only({Step("add", {"forkmark"}, "collect"),
             Step("remove", {"row", "messages"}, "undone")})
  /\ op.at = "undo.mark" => Only(Removals(FileArts, "collect"))
  /\ op.at = "undone" =>
       Only({Step("remove", {"forkmark"}, "undo.remark"),
             Step("add", {"forkmark"}, "collect")})
  /\ op.at \notin {"records", "databases", "files", "cleaned", "recover", "attach", "failed",
                   "fork.id", "fork.publish", "fork.commit", "undo.index", "undo.files",
                   "undo.mark", "undone"} => op.todo = <<>>

OpOK == /\ op \in Ops /\ PlaceOK /\ RunOK
        /\ op.at # "idle" => FreshGens # {}

-----------------------------------------------------------------------------
(* Fences                                                                   *)

Marks(s) == disk[s] \cap Markers
Known(s) == disk[s] \cup dur[s]
ToGo == UNION {op.todo[i].what : i \in DOMAIN op.todo}

Fenced(s) == life[s] \in {Tombstone, Quarantine}

Recovering == op.at = "recover" \/ (op.at \in CleanSteps /\ op.back = "recover")

Quiet == {"list", "delete", "deleted", "resume", "attach", "fork", "fork.id", "fork.stage"}
           \cup CreateSteps

\* Whose markers may be there, and that memory knows of them.
MarksOK ==
  /\ Recovering => \A s \in Ids : Marks(s) # {} => Fenced(s)
  /\ op.at \in Quiet => \A s \in Ids : Marks(s) = {}
  /\ op.at \in CleanSteps => Fenced(op.job)
  /\ op.at \in CleanSteps /\ op.back # "recover" => \A s \in Ids \ {op.job} : Marks(s) = {}
  /\ op.at \in StageSteps =>
       /\ \A s \in Ids \ {op.id} : Marks(s) = {}
       /\ Marks(op.id) \subseteq {"forkmark"}

\* What a cleanup has removed so far.
CleanOK ==
  /\ op.at = "records" /\ ~op.errs => Known(op.job) \cap RecordArts \subseteq ToGo
  /\ op.at = "databases" => /\ Known(op.job) \cap RecordArts = {}
                            /\ Known(op.job) \cap {"row", "messages"} \subseteq ToGo
  /\ op.at = "files" =>
       /\ Known(op.job) \cap (RecordArts \cup {"row", "messages"}) = {}
       /\ ~op.errs => Known(op.job) \cap Filed \subseteq ToGo
  /\ op.at = "cleaned" =>
       /\ disk[op.job] \subseteq {"goal", op.mark}
       /\ Known(op.job) \subseteq {"goal"} \cup Markers
       /\ op.mark = "delmark" => "forkmark" \notin Known(op.job)
       /\ op.mark \in Known(op.job) => op.mark \in ToGo
  /\ op.at = "deleted" => Known(op.id) \subseteq {"goal"}

\* A new id is nobody's: nothing was ever stored under it, or all of it is gone.
Early == {"preflight", "create", "fork", "fork.id"}

NewOK ==
  /\ op.kind \in {"create", "fork"} /\ (op.at \in Early \/ Recovering) /\ life[op.id] = Nothing
       => /\ disk[op.id] \subseteq {"goal"}
          /\ op.at = "recover" /\ op.todo # <<>> => op.job # op.id
  /\ op.at \in {"create.write", "fork.stage"} => disk[op.id] \subseteq {"goal"}
  /\ op.at \in {"create.write", "create.undo", "failed"} => life[op.id] \in {Nothing, Tombstone}
  /\ op.at \in StageSteps => life[op.id] \in {Nothing, Quarantine}
  /\ op.at = "fork.stage" => life[op.id] = Nothing
  /\ op.at = "attach" /\ op.kind = "create" =>
       life[op.id] \in {Nothing, Tombstone} /\ disk[op.id] \cap {"row", "oversized"} = {}
  /\ op.at = "attach" /\ op.kind = "resume" =>
       ~Fenced(op.id) /\ ~Leased(op.id) /\ "transcript" \in disk[op.id]
  /\ op.at = "recover" /\ (\E i \in DOMAIN op.todo : op.todo[i].verb # "remove")
       => "transcript" \in disk[op.job]
  /\ op.at = "fork.id" => "transcript" \in disk[op.src]

\* A session somebody writes to is not marked, and its index rests on a
\* transcript.
LeaseOK ==
  \A s \in Ids : Leased(s) =>
    /\ Marks(s) = {}
    /\ "transcript" \in disk[s] \/ disk[s] \cap {"row", "oversized"} = {}

DatabasesOK == \A s \in Ids : dur[s] \cap Databases = disk[s] \cap Databases

StoreOK == /\ disk \in [Ids -> SUBSET Artifacts] /\ dur \in [Ids -> SUBSET Artifacts]
           /\ DatabasesOK

TypeInv == TypeOK /\ StoreOK /\ OpOK

LifeInv == TypeInv /\ MarksOK /\ CleanOK /\ NewOK /\ LeaseOK

-----------------------------------------------------------------------------
(* Deletions                                                                *)

\* No operation writes for a deleted session.
GoneOK ==
  /\ op.todo # <<>> /\ op.at \in {"recover", "attach", "failed", "fork.id"} \cup StageSteps
       => op.job \notin deleted
  /\ op.at \in CleanSteps /\ op.mark = "forkmark" => op.job \notin deleted
  /\ op.at \in {"create.write", "create.undo", "failed", "attach", "fork.stage"} \cup StageSteps
       => op.id \notin deleted
  /\ op.at \in CleanSteps /\ op.back \in {"create.write", "fork.stage"} => op.id \notin deleted
  /\ \A s \in Ids : Leased(s) => s \notin deleted
  /\ op.at = "deleted" => ~Leased(op.id)

DeletedInv == LifeInv /\ DeletedStays /\ GoneOK

-----------------------------------------------------------------------------
(* Answers                                                                  *)

PowerKept == "power" \notin CrashKinds
OneFault == "process" \notin CrashKinds /\ MaxFaults <= 1

\* What was answered for is neither being removed nor about to be.
AckedOK ==
  /\ \A s \in acked : Marks(s) = {} /\ ~Fenced(s)
  /\ op.at \in CleanSteps => op.job \notin acked
  /\ op.at \in {"fork.stage"} \cup StageSteps => op.id \notin acked
  /\ op.at = "fork.publish" =>
       "transcript" \in ToGo \/ "transcript" \in disk[op.id] \cap dur[op.id]
  /\ op.at = "fork.commit" => /\ "transcript" \in disk[op.id] \cap dur[op.id]
                              /\ "forkmark" \in disk[op.id] => "forkmark" \in ToGo

AckedInv == LifeInv /\ AckedStays /\ AckedOK

\* The fork's marker could not be removed and is about to be written again.
Remarking ==
  \/ op.at = "restore" /\ op.mark = "forkmark"
  \/ op.at \in {"undo", "undo.index"} /\ op.indexed
  \/ op.at = "undo.remark"
  \/ op.at \in {"undo.files", "undone"} /\ "forkmark" \in ToGo

\* With one failing call at most a marker that is on stable storage is seen,
\* or the operation that failed to remove it is about to write it again.
SeenOK ==
  /\ faults \in Nat
  /\ \A s \in Ids : "delmark" \in dur[s] =>
       "delmark" \in disk[s]
         \/ (op.at = "restore" /\ op.mark = "delmark" /\ s = op.job /\ faults = MaxFaults)
  /\ \A s \in Ids : "forkmark" \in dur[s] =>
       Marks(s) # {} \/ (Remarking /\ s = op.job /\ faults = MaxFaults)
  /\ op.at \in {"records", "databases", "files"} => op.mark \in disk[op.job]
  /\ op.at = "fork.commit" /\ ~op.indexed => op.todo \in {Publication, Tail(Publication)}

PowerInv == AckedInv /\ SeenOK

-----------------------------------------------------------------------------
(* Traces                                                                   *)

\* What a transcript is found, recovered or removed by.
Traced(s) == disk[s] \cap ({"row"} \cup Slot \cup Markers) # {}

Writes(step, A) == step.verb # "remove" /\ step.what \cap A # {}
Clears(step, A) == step.verb = "remove" /\ step.what \cap A # {}

\* When its k-th step is reached, the run finds some of A in a session that has D.
Held(todo, k, D, A) ==
  \/ D \cap A # {} /\ \A i \in 1..(k - 1) : ~Clears(todo[i], A)
  \/ \E i \in 1..(k - 1) : /\ Writes(todo[i], A)
                           /\ \A l \in (i + 1)..(k - 1) : ~Clears(todo[l], A)

\* Messages are written under a row, a record or a marker is removed once there
\* is one, and a row is removed, with its messages, under a record.
RunSafe(todo, D) ==
  \A k \in DOMAIN todo :
    /\ Writes(todo[k], {"messages"}) => Held(todo, k, D, {"row"})
    /\ Clears(todo[k], Slot \cup {"forkmark"}) => Held(todo, k, D, {"row"}) \/ "transcript" \notin D
    /\ Clears(todo[k], {"row"}) => Held(todo, k, D, Slot) /\ ~Clears(todo[k], Slot)

RowsWhole(todo) == \A k \in DOMAIN todo : Clears(todo[k], {"row"}) => "messages" \in todo[k].what

SafeRuns == {"recover", "attach", "fork.id", "fork.commit"}
Undoing == {"undo", "undo.index", "undo.files", "undo.mark", "undo.remark", "undone"}

MarkedOn ==
  /\ op.at \in {"records", "databases", "files"} => op.mark \in disk[op.job]
  /\ op.at = "fork.commit" /\ ~op.indexed => op.todo \in {Publication, Tail(Publication)}

\* As long as no call has failed.
TracedOK ==
  /\ dur = disk
  /\ \A s \in Ids : /\ "transcript" \in disk[s] => Traced(s)
                    /\ "messages" \in disk[s] => "row" \in disk[s]
                    /\ Fenced(s) => \/ Marks(s) # {} \/ "transcript" \notin disk[s]
                                    \/ op.at = "fork.commit" /\ s = op.id
  /\ op.at \notin Undoing
  /\ op.at = "fork.publish" =>
       "forkmark" \in disk[op.id] \/ op.todo \in {Staging(TRUE), Staging(FALSE)}
  /\ RowsWhole(op.todo)
  /\ op.at \in SafeRuns => op.todo = <<>> \/ RunSafe(op.todo, disk[op.job])

TracedInv == LifeInv /\ MarkedOn /\ faults \in Nat /\ (faults = 0 => TracedOK)

-----------------------------------------------------------------------------
(* Straight runs                                                            *)

WhatOf(todo) == UNION {todo[i].what : i \in DOMAIN todo}

LEMMA StepFields ==
  ASSUME NEW v, NEW A, NEW e
  PROVE  /\ Step(v, A, e).verb = v /\ Step(v, A, e).what = A /\ Step(v, A, e).orelse = e
BY DEF Step

\* What is left of a run when its first step has been taken.
LEMMA RunShrinks ==
  ASSUME NEW S, NEW todo \in Seq(S), todo # <<>>
  PROVE  /\ Head(todo) \in S /\ Tail(todo) \in Seq(S) /\ Head(todo) = todo[1]
         /\ WhatOf(todo) = Head(todo).what \cup WhatOf(Tail(todo))
         /\ \A i \in DOMAIN Tail(todo) : i + 1 \in DOMAIN todo /\ Tail(todo)[i] = todo[i + 1]
         /\ 1 \in DOMAIN todo
<1>1. /\ Len(todo) \in Nat /\ DOMAIN todo = 1..Len(todo) /\ Len(todo) # 0
  BY LenProperties, EmptySeq
<1>2. /\ Head(todo) \in S /\ Tail(todo) \in Seq(S) /\ Len(Tail(todo)) = Len(todo) - 1
      /\ \A i \in 1..Len(Tail(todo)) : Tail(todo)[i] = todo[i + 1]
  BY HeadTailProperties
<1>3. DOMAIN Tail(todo) = 1..(Len(todo) - 1)
  BY <1>2, LenProperties
<1>4. Head(todo) = todo[1]
  OBVIOUS
<1>5. \A i \in DOMAIN todo : i = 1 \/ (i - 1 \in DOMAIN Tail(todo) /\ todo[i] = Tail(todo)[i - 1])
  <2> SUFFICES ASSUME NEW i \in 1..Len(todo), i # 1
               PROVE  i - 1 \in 1..(Len(todo) - 1) /\ todo[i] = Tail(todo)[i - 1]
    BY <1>1, <1>3
  <2>1. i - 1 \in 1..(Len(todo) - 1) /\ (i - 1) + 1 = i
    BY <1>1
  <2>2. Tail(todo)[i - 1] = todo[(i - 1) + 1]
    BY <1>2, <2>1
  <2> QED
    BY <2>1, <2>2
<1>6. \A i \in DOMAIN Tail(todo) : i + 1 \in DOMAIN todo /\ Tail(todo)[i] = todo[i + 1]
  BY <1>1, <1>2, <1>3
<1>7. 1 \in DOMAIN todo
  BY <1>1
<1>8. WhatOf(todo) = Head(todo).what \cup WhatOf(Tail(todo))
  <2>1. ASSUME NEW a \in WhatOf(todo) PROVE a \in Head(todo).what \cup WhatOf(Tail(todo))
    <3>1. PICK i \in DOMAIN todo : a \in todo[i].what
      BY <2>1 DEF WhatOf
    <3> QED
      BY <1>4, <1>5, <3>1 DEF WhatOf
  <2>2. ASSUME NEW a \in WhatOf(Tail(todo)) PROVE a \in WhatOf(todo)
    <3>1. PICK i \in DOMAIN Tail(todo) : a \in Tail(todo)[i].what
      BY <2>2 DEF WhatOf
    <3> QED
      BY <1>6, <3>1 DEF WhatOf
  <2>3. Head(todo).what \subseteq WhatOf(todo)
    BY <1>4, <1>7 DEF WhatOf
  <2> QED
    BY <2>1, <2>2, <2>3
<1> QED
  BY <1>2, <1>4, <1>6, <1>7, <1>8

LEMMA Runs3 == ASSUME NEW S, NEW a \in S, NEW b \in S, NEW c \in S
  PROVE <<a, b, c>> \in Seq(S) /\ WhatOf(<<a, b, c>>) = a.what \cup b.what \cup c.what
<1>1. <<a, b, c>> \in Seq(S)
  OBVIOUS
<1>2. WhatOf(<<a, b, c>>) = a.what \cup b.what \cup c.what
  BY DEF WhatOf
<1> QED BY <1>1, <1>2
LEMMA RecordsRun ==
  /\ Records \in Seq(Removals(RecordArts, "collect"))
  /\ WhatOf(Records) = RecordArts
<1>1. Records \in Seq(Removals(RecordArts, "collect"))
  <2>1. /\ Step("remove", Slot, "collect") \in Removals(RecordArts, "collect")
        /\ Step("remove", {"baseline"}, "collect") \in Removals(RecordArts, "collect")
        /\ Step("remove", {"model"}, "collect") \in Removals(RecordArts, "collect")
     BY DEF Removals, RecordArts
  <2> QED BY <2>1 DEF Records
<1>2. WhatOf(Records) = RecordArts
  BY DEF Records, RecordArts, WhatOf, Step
<1> QED BY <1>1, <1>2

-----------------------------------------------------------------------------
(* What a write or a removal does                                           *)

OthersStay(s) == \A t \in Ids : t # s => disk'[t] = disk[t] /\ dur'[t] = dur[t]

Adds(s, A) == /\ OthersStay(s)
              /\ disk[s] \subseteq disk'[s] /\ disk'[s] \subseteq disk[s] \cup A
              /\ dur[s] \subseteq dur'[s] /\ dur'[s] \subseteq dur[s] \cup A

Removes(s, A) == /\ OthersStay(s)
                 /\ disk'[s] \subseteq disk[s] /\ disk[s] \ A \subseteq disk'[s]
                 /\ dur'[s] \subseteq dur[s] /\ dur[s] \ A \subseteq dur'[s]

LEMMA ChangesEffect ==
  ASSUME StoreOK, NEW s \in Ids, NEW D \in SUBSET Artifacts, NEW synced \in SUBSET Artifacts,
         Changes(s, D, synced)
  PROVE  /\ StoreOK' /\ OthersStay(s)
         /\ disk'[s] = D
         /\ dur'[s] = (dur[s] \ (synced \cup Databases)) \cup (D \cap (synced \cup Databases))
<1>1. disk' = [disk EXCEPT ![s] = D]
      /\ dur' = [dur EXCEPT ![s] = (dur[s] \ (synced \cup Databases))
                                     \cup (D \cap (synced \cup Databases))]
  BY DEF Changes
<1>2. (dur[s] \ (synced \cup Databases)) \cup (D \cap (synced \cup Databases)) \in SUBSET Artifacts
  BY DEF StoreOK
<1>3. /\ disk'[s] = D
      /\ dur'[s] = (dur[s] \ (synced \cup Databases)) \cup (D \cap (synced \cup Databases))
      /\ OthersStay(s)
      /\ disk' \in [Ids -> SUBSET Artifacts] /\ dur' \in [Ids -> SUBSET Artifacts]
  BY <1>1, <1>2 DEF StoreOK, OthersStay
<1>4. dur'[s] \cap Databases = disk'[s] \cap Databases
  BY <1>3
<1>5. DatabasesOK'
  BY <1>3, <1>4 DEF DatabasesOK, OthersStay, StoreOK
<1> QED
  BY <1>3, <1>5 DEF StoreOK

LEMMA AddEffect ==
  ASSUME StoreOK, NEW s \in Ids, NEW A \in SUBSET Artifacts, Add(s, A)
  PROVE  StoreOK' /\ Adds(s, A) /\ A \subseteq disk'[s] /\ A \subseteq dur'[s]
<1>1. disk[s] \cup A \in SUBSET Artifacts /\ disk[s] \in SUBSET Artifacts
      /\ dur[s] \in SUBSET Artifacts
  BY DEF StoreOK
<1>2. /\ StoreOK' /\ OthersStay(s) /\ disk'[s] = disk[s] \cup A
      /\ dur'[s] = (dur[s] \ (A \cup Databases))
                      \cup ((disk[s] \cup A) \cap (A \cup Databases))
  BY <1>1, ChangesEffect DEF Add
<1>3. dur[s] \cap Databases = disk[s] \cap Databases
  BY DEF StoreOK, DatabasesOK
<1> QED
  BY <1>2, <1>3 DEF Adds

LEMMA AddFailsEffect ==
  ASSUME StoreOK, NEW s \in Ids, NEW A \in SUBSET Artifacts, AddFails(s, A)
  PROVE  StoreOK' /\ Adds(s, A) /\ Fault
<1>1. disk[s] \in SUBSET Artifacts /\ dur[s] \in SUBSET Artifacts
  BY DEF StoreOK
<1>2. PICK some \in SUBSET A : Changes(s, disk[s] \cup some, {})
  BY DEF AddFails
<1>3. disk[s] \cup some \in SUBSET Artifacts
  BY <1>1
<1>4. /\ StoreOK' /\ OthersStay(s) /\ disk'[s] = disk[s] \cup some
      /\ dur'[s] = (dur[s] \ ({} \cup Databases))
                      \cup ((disk[s] \cup some) \cap ({} \cup Databases))
  BY <1>2, <1>3, ChangesEffect
<1>5. dur[s] \cap Databases = disk[s] \cap Databases
  BY DEF StoreOK, DatabasesOK
<1> QED
  BY <1>2, <1>4, <1>5 DEF Adds, AddFails

LEMMA RemoveEffect ==
  ASSUME StoreOK, NEW s \in Ids, NEW A \in SUBSET Artifacts, Remove(s, A)
  PROVE  StoreOK' /\ Removes(s, A) /\ A \cap disk'[s] = {} /\ A \cap dur'[s] = {}
<1>1. disk[s] \ A \in SUBSET Artifacts /\ disk[s] \in SUBSET Artifacts
      /\ dur[s] \in SUBSET Artifacts
  BY DEF StoreOK
<1>2. /\ StoreOK' /\ OthersStay(s) /\ disk'[s] = disk[s] \ A
      /\ dur'[s] = (dur[s] \ (A \cup Databases))
                      \cup ((disk[s] \ A) \cap (A \cup Databases))
  BY <1>1, ChangesEffect DEF Remove
<1>3. dur[s] \cap Databases = disk[s] \cap Databases
  BY DEF StoreOK, DatabasesOK
<1> QED
  BY <1>2, <1>3 DEF Removes

LEMMA RemoveFailsEffect ==
  ASSUME StoreOK, NEW s \in Ids, NEW A \in SUBSET Artifacts, RemoveFails(s, A)
  PROVE  StoreOK' /\ Removes(s, A) /\ Fault
<1>1. disk[s] \in SUBSET Artifacts /\ dur[s] \in SUBSET Artifacts
  BY DEF StoreOK
<1>2. PICK some \in SUBSET A : Changes(s, disk[s] \ some, {})
  BY DEF RemoveFails
<1>3. disk[s] \ some \in SUBSET Artifacts
  BY <1>1
<1>4. /\ StoreOK' /\ OthersStay(s) /\ disk'[s] = disk[s] \ some
      /\ dur'[s] = (dur[s] \ ({} \cup Databases))
                      \cup ((disk[s] \ some) \cap ({} \cup Databases))
  BY <1>2, <1>3, ChangesEffect
<1>5. dur[s] \cap Databases = disk[s] \cap Databases
  BY DEF StoreOK, DatabasesOK
<1> QED
  BY <1>2, <1>4, <1>5 DEF Removes, RemoveFails

-----------------------------------------------------------------------------
(* A step of a straight run                                                 *)

\* The operation goes on as it was.
Carried == /\ op'.kind = op.kind /\ op'.id = op.id /\ op'.src = op.src /\ op'.job = op.job
           /\ op'.mark = op.mark /\ op'.back = op.back
           /\ op'.quarantined = op.quarantined /\ op'.dropped = op.dropped

Taken(step) ==
  /\ Carried /\ op'.at = op.at /\ op'.todo = Tail(op.todo) /\ op'.errs = op.errs
  /\ op'.indexed = (op.indexed \/ step.verb = "index")
  /\ op'.published = op.published \cup IF step.verb = "publish" THEN step.what ELSE {}
  /\ IF step.verb = "remove"
     THEN step.what \cap Known(op.job)' = {}
     ELSE step.what \subseteq disk'[op.job] /\ step.what \subseteq dur'[op.job]
  /\ UNCHANGED faults

Collected(step) ==
  /\ step.orelse = "collect" /\ Fault /\ Carried
  /\ op'.at = op.at /\ op'.todo = Tail(op.todo) /\ op'.errs = TRUE

Diverted(step) ==
  /\ step.orelse \notin {"return", "collect"} /\ Fault /\ Carried
  /\ op'.at = step.orelse /\ op'.todo = <<>> /\ op'.errs = TRUE
  /\ op'.indexed = (op.indexed \/ step.verb = "index")

Returned(step) == step.orelse = "return" /\ Fault /\ op' = NoOp

LEMMA StepEffect ==
  ASSUME StoreOK, op \in Ops, op.job \in Ids, TakeStep
  PROVE  LET step == Head(op.todo)
         IN /\ op.todo # <<>> /\ step \in Steps
            /\ StoreOK' /\ op' \in Ops
            /\ UNCHANGED <<life, open, deleted, acked, crashes, late>>
            /\ IF step.verb = "remove" THEN Removes(op.job, step.what)
                                       ELSE Adds(op.job, step.what)
            /\ Taken(step) \/ Collected(step) \/ Diverted(step) \/ Returned(step)
<1> DEFINE step == Head(op.todo)
           after == [op EXCEPT !.todo = Tail(op.todo),
                               !.indexed = op.indexed \/ step.verb = "index",
                               !.published = op.published \cup
                                  IF step.verb = "publish" THEN step.what ELSE {}]
           failed == [after EXCEPT !.errs = TRUE,
                                   !.todo = IF step.orelse = "collect" THEN after.todo ELSE <<>>,
                                   !.at = IF step.orelse = "collect" THEN after.at
                                          ELSE step.orelse]
<1>1. op.todo # <<>> /\ op.todo \in Seq(Steps) /\ UNCHANGED <<life, open, deleted, acked, crashes, late>>
  BY DEF TakeStep, Ops, history
<1>2. step \in Steps /\ Tail(op.todo) \in Seq(Steps) /\ <<>> \in Seq(Steps)
  BY <1>1, RunShrinks, EmptySeq
<1>3. step.what \in SUBSET Artifacts /\ step.orelse \in {"return", "collect"} \cup Places
  BY <1>2 DEF Steps
<1>4. \/ /\ IF step.verb = "remove" THEN Remove(op.job, step.what) ELSE Add(op.job, step.what)
         /\ op' = after
         /\ UNCHANGED faults
      \/ /\ IF step.verb = "remove" THEN RemoveFails(op.job, step.what)
                                    ELSE AddFails(op.job, step.what)
         /\ IF step.orelse = "return" THEN Return
            ELSE op' = failed \/ (step.verb = "publish"
                                    /\ op' = [failed EXCEPT !.published = op.published])
  BY DEF TakeStep
<1>5. after \in Ops /\ after.todo = Tail(op.todo) /\ after.at = op.at
  <2>1. step.verb = "publish" => step.what \in SUBSET Artifacts
    BY <1>3
  <2>2. op.published \cup (IF step.verb = "publish" THEN step.what ELSE {}) \in SUBSET Artifacts
    BY <2>1 DEF Ops
  <2>3. (op.indexed \/ step.verb = "index") \in BOOLEAN
    OBVIOUS
  <2> HIDE DEF step
  <2> QED
    BY <1>2, <2>2, <2>3 DEF Ops
<1>6. NoOp \in Ops
  BY <1>2 DEF NoOp, Ops, Named, Places
<1>7. CASE /\ IF step.verb = "remove" THEN Remove(op.job, step.what) ELSE Add(op.job, step.what)
           /\ op' = after
           /\ UNCHANGED faults
  <2>1. StoreOK' /\ IF step.verb = "remove"
                    THEN Removes(op.job, step.what) /\ step.what \cap Known(op.job)' = {}
                    ELSE /\ Adds(op.job, step.what)
                         /\ step.what \subseteq disk'[op.job] /\ step.what \subseteq dur'[op.job]
    <3>1. CASE step.verb = "remove"
      <4>1. op.job' = op.job
        BY <1>7 DEF Ops
      <4>2. StoreOK' /\ Removes(op.job, step.what) /\ step.what \cap disk'[op.job] = {}
             /\ step.what \cap dur'[op.job] = {}
        BY <1>3, <1>7, <3>1, RemoveEffect
      <4> HIDE DEF step
      <4> QED
        BY <3>1, <4>1, <4>2 DEF Known
    <3>2. CASE step.verb # "remove"
      BY <1>3, <1>7, <3>2, AddEffect
    <3> QED
      BY <3>1, <3>2
  <2>2. Taken(step)
    <3> HIDE DEF step
    <3> QED
      BY <1>7, <2>1 DEF Taken, Carried, Ops
  <2> QED
    BY <1>1, <1>2, <1>5, <1>7, <2>1, <2>2
<1>8. CASE /\ IF step.verb = "remove" THEN RemoveFails(op.job, step.what)
                                      ELSE AddFails(op.job, step.what)
           /\ IF step.orelse = "return" THEN Return
              ELSE op' = failed \/ (step.verb = "publish"
                                      /\ op' = [failed EXCEPT !.published = op.published])
  <2>1. StoreOK' /\ Fault /\ IF step.verb = "remove" THEN Removes(op.job, step.what)
                             ELSE Adds(op.job, step.what)
    BY <1>3, <1>8, RemoveFailsEffect, AddFailsEffect
  <2>2. op' \in Ops /\ (Collected(step) \/ Diverted(step) \/ Returned(step))
    <3>1. CASE step.orelse = "return"
      BY <1>6, <1>8, <2>1, <3>1 DEF Returned, Return
    <3>2. CASE step.orelse # "return"
      <4>1. failed \in Ops
        <5> HIDE DEF step, after
        <5> QED
          BY <1>2, <1>3, <1>5, <3>2 DEF Ops
      <4>2. op.published \in SUBSET Artifacts
        BY DEF Ops
      <4>3. \/ op' = failed
            \/ op' = [failed EXCEPT !.published = op.published]
        BY <1>8, <3>2
      <4>4. op' \in Ops
        <5> HIDE DEF failed
        <5> QED
          BY <4>1, <4>2, <4>3 DEF Ops
      <4>5. /\ Carried /\ op'.errs = TRUE /\ op'.indexed = (op.indexed \/ step.verb = "index")
            /\ op'.todo = (IF step.orelse = "collect" THEN Tail(op.todo) ELSE <<>>)
            /\ op'.at = (IF step.orelse = "collect" THEN op.at ELSE step.orelse)
        <5> HIDE DEF step
        <5> QED
          BY <4>3, ZenonT(40) DEF Ops, Carried
      <4> QED
        BY <2>1, <3>2, <4>4, <4>5 DEF Collected, Diverted
    <3> QED
      BY <3>1, <3>2
  <2> QED
    BY <1>1, <1>2, <2>1, <2>2
<1> QED
  BY <1>4, <1>7, <1>8

RunPlaces == {"records", "databases", "files", "cleaned", "recover", "attach", "failed",
              "fork.id", "fork.publish", "fork.commit", "undo.index", "undo.files",
              "undo.mark", "undone"}

LEMMA RemovalFields ==
  ASSUME NEW A, NEW e, NEW st \in Removals(A, e)
  PROVE  st.verb = "remove" /\ st.what \subseteq A /\ st.orelse = e
BY DEF Removals, Step

LEMMA AdditionFields ==
  ASSUME NEW A, NEW e, NEW st \in Additions(A, e)
  PROVE  st.verb = "add" /\ st.what \subseteq A /\ st.orelse = e
BY DEF Additions, Step

\* The step that is next, by the place.
LEMMA FirstStep ==
  ASSUME op \in Ops, RunOK, op.todo # <<>>
  PROVE  LET step == Head(op.todo)
             removes(A, e) == step.verb = "remove" /\ step.what \subseteq A /\ step.orelse = e
             adds(A, e) == step.verb = "add" /\ step.what \subseteq A /\ step.orelse = e
             does(v, A, e) == step.verb = v /\ step.what = A /\ step.orelse = e
         IN /\ op.at \in RunPlaces
            /\ op.at = "records" => removes(RecordArts, "collect")
            /\ op.at = "databases" =>
                 removes({"goal"}, "restore") \/ removes({"row", "messages"}, "restore")
            /\ op.at = "files" => removes(Filed, "collect")
            /\ op.at = "cleaned" => removes({op.mark}, "restore")
            /\ op.at = "recover" => \/ removes(RecordArts \cup {"row", "messages"}, "return")
                                    \/ adds(RecordArts \cup {"row", "messages"}, "return")
            /\ op.at = "attach" =>
                 /\ op.kind = "create" => \/ removes({"familiar"}, "return")
                                          \/ adds({"familiar"}, "return")
                                          \/ adds({"model", "baseline"}, "create.undo")
                 /\ op.kind = "resume" => adds(IndexArts, "return")
            /\ op.at = "failed" => removes({"baseline", "model", "familiar"}, "collect")
            /\ op.at = "fork.id" => adds(IndexArts, "return")
            /\ op.at = "fork.publish" =>
                 \/ adds({"forkmark"}, "return") \/ adds({"stage"}, "undo")
                 \/ removes({"stage"}, "undo")
                 \/ does("publish", {"transcript"}, "undo")
                 \/ does("publish", {"familiar"}, "undo")
            /\ op.at = "fork.commit" =>
                 \/ adds({"model", "messages", "baseline"}, "undo")
                 \/ does("index", {"row"}, "undo") \/ does("remove", {"forkmark"}, "undo")
            /\ op.at = "undo.index" => removes(RecordArts, "collect")
            /\ op.at = "undo.files" => \/ does("add", {"forkmark"}, "collect")
                                       \/ does("remove", {"row", "messages"}, "undone")
            /\ op.at = "undo.mark" => removes(FileArts, "collect")
            /\ op.at = "undone" => \/ does("remove", {"forkmark"}, "undo.remark")
                                   \/ does("add", {"forkmark"}, "collect")
<1> DEFINE step == Head(op.todo)
<1>1. \A S : op.todo \in Seq(S) => step \in S
  BY RunShrinks
<1>2. op.at \in RunPlaces
  BY DEF RunOK, RunPlaces
<1> HIDE DEF step
<1>3. op.at = "records" => step \in Removals(RecordArts, "collect")
  BY <1>1 DEF RunOK, Only
<1>4. op.at = "databases" =>
        step \in Removals({"goal"}, "restore") \cup Removals({"row", "messages"}, "restore")
  BY <1>1 DEF RunOK, Only
<1>5. op.at = "files" => step \in Removals(Filed, "collect")
  BY <1>1 DEF RunOK, Only
<1>6. op.at = "cleaned" => step \in Removals({op.mark}, "restore")
  BY <1>1 DEF RunOK, Only
<1>7. op.at = "recover" =>
        step \in Removals(RecordArts \cup {"row", "messages"}, "return")
                   \cup Additions(RecordArts \cup {"row", "messages"}, "return")
  BY <1>1 DEF RunOK, Only
<1>8. op.at = "attach" =>
        /\ op.kind = "create" =>
             step \in Removals({"familiar"}, "return") \cup Additions({"familiar"}, "return")
                        \cup Additions({"model", "baseline"}, "create.undo")
        /\ op.kind = "resume" => step \in Additions(IndexArts, "return")
  BY <1>1 DEF RunOK, Only
<1>9. op.at = "failed" => step \in Removals({"baseline", "model", "familiar"}, "collect")
  BY <1>1 DEF RunOK, Only
<1>10. op.at = "fork.id" => step \in Additions(IndexArts, "return")
  BY <1>1 DEF RunOK, Only
<1>11. op.at = "fork.publish" =>
         step \in Additions({"forkmark"}, "return") \cup Additions({"stage"}, "undo")
                   \cup Removals({"stage"}, "undo")
                   \cup {Step("publish", {"transcript"}, "undo"),
                         Step("publish", {"familiar"}, "undo")}
  BY <1>1 DEF RunOK, Only
<1>12. op.at = "fork.commit" =>
         step \in Additions({"model", "messages", "baseline"}, "undo")
                   \cup {Step("index", {"row"}, "undo"), Step("remove", {"forkmark"}, "undo")}
  BY <1>1 DEF RunOK, Only
<1>13. op.at = "undo.index" => step \in Removals(RecordArts, "collect")
  BY <1>1 DEF RunOK, Only
<1>14. op.at = "undo.files" =>
         step \in {Step("add", {"forkmark"}, "collect"),
                   Step("remove", {"row", "messages"}, "undone")}
  BY <1>1 DEF RunOK, Only
<1>15. op.at = "undo.mark" => step \in Removals(FileArts, "collect")
  BY <1>1 DEF RunOK, Only
<1>16. op.at = "undone" =>
         step \in {Step("remove", {"forkmark"}, "undo.remark"),
                   Step("add", {"forkmark"}, "collect")}
  BY <1>1 DEF RunOK, Only
<1>17. /\ op.at = "records" =>
            step.verb = "remove" /\ step.what \subseteq RecordArts /\ step.orelse = "collect"
       /\ op.at = "files" =>
            step.verb = "remove" /\ step.what \subseteq Filed /\ step.orelse = "collect"
       /\ op.at = "cleaned" =>
            step.verb = "remove" /\ step.what \subseteq {op.mark} /\ step.orelse = "restore"
       /\ op.at = "failed" =>
            step.verb = "remove" /\ step.what \subseteq {"baseline", "model", "familiar"}
                               /\ step.orelse = "collect"
       /\ op.at = "undo.index" =>
            step.verb = "remove" /\ step.what \subseteq RecordArts /\ step.orelse = "collect"
       /\ op.at = "undo.mark" =>
            step.verb = "remove" /\ step.what \subseteq FileArts /\ step.orelse = "collect"
       /\ op.at = "fork.id" =>
            step.verb = "add" /\ step.what \subseteq IndexArts /\ step.orelse = "return"
  BY <1>3, <1>5, <1>6, <1>9, <1>10, <1>13, <1>15, RemovalFields, AdditionFields
<1>18. op.at = "databases" =>
         /\ step.verb = "remove" /\ step.orelse = "restore"
         /\ step.what \subseteq {"goal"} \/ step.what \subseteq {"row", "messages"}
  BY <1>4, RemovalFields
<1>19. op.at = "recover" => /\ step.verb \in {"remove", "add"} /\ step.orelse = "return"
                            /\ step.what \subseteq RecordArts \cup {"row", "messages"}
  BY <1>7, RemovalFields, AdditionFields
<1>20. op.at = "attach" =>
         /\ op.kind = "create" =>
              \/ step.verb = "remove" /\ step.what \subseteq {"familiar"} /\ step.orelse = "return"
              \/ step.verb = "add" /\ step.what \subseteq {"familiar"} /\ step.orelse = "return"
              \/ step.verb = "add" /\ step.what \subseteq {"model", "baseline"} /\ step.orelse = "create.undo"
         /\ op.kind = "resume" =>
              step.verb = "add" /\ step.what \subseteq IndexArts /\ step.orelse = "return"
  BY <1>8, RemovalFields, AdditionFields
<1>21. op.at = "fork.publish" =>
         \/ step.verb = "add" /\ step.what \subseteq {"forkmark"} /\ step.orelse = "return"
         \/ step.verb = "add" /\ step.what \subseteq {"stage"} /\ step.orelse = "undo"
         \/ step.verb = "remove" /\ step.what \subseteq {"stage"} /\ step.orelse = "undo"
         \/ step.verb = "publish" /\ step.what = {"transcript"} /\ step.orelse = "undo"
         \/ step.verb = "publish" /\ step.what = {"familiar"} /\ step.orelse = "undo"
  BY <1>11, RemovalFields, AdditionFields, StepFields
<1>22. op.at = "fork.commit" =>
         \/ step.verb = "add" /\ step.what \subseteq {"model", "messages", "baseline"} /\ step.orelse = "undo"
         \/ step.verb = "index" /\ step.what = {"row"} /\ step.orelse = "undo"
         \/ step.verb = "remove" /\ step.what = {"forkmark"} /\ step.orelse = "undo"
  BY <1>12, AdditionFields, StepFields
<1>23. /\ op.at = "undo.files" =>
            \/ step.verb = "add" /\ step.what = {"forkmark"} /\ step.orelse = "collect"
            \/ step.verb = "remove" /\ step.what = {"row", "messages"} /\ step.orelse = "undone"
       /\ op.at = "undone" =>
            \/ step.verb = "remove" /\ step.what = {"forkmark"} /\ step.orelse = "undo.remark"
            \/ step.verb = "add" /\ step.what = {"forkmark"} /\ step.orelse = "collect"
  BY <1>14, <1>16, StepFields
<1> QED
  BY <1>2, <1>17, <1>18, <1>19, <1>20, <1>21, <1>22, <1>23 DEF step

\* Generations are given back, never taken, but where a handle is returned.
LEMMA FreshStay ==
  ASSUME FreshGens # {},
         \A h \in Handles : open'[h] = open[h] \/ open'[h] = Closed,
         \A s \in Ids : life'[s] = life[s] \/ life'[s] \in {Nothing, Tombstone, Quarantine}
  PROVE  FreshGens' # {}
<1>1. PICK g \in FreshGens : TRUE
  OBVIOUS
<1>2. g \in Gens /\ g # NoGen
  BY <1>1, NamesAssumption DEF FreshGens
<1>3. \A h \in Handles : open'[h].gen # g
  BY <1>1, <1>2 DEF FreshGens, Closed
<1>4. \A s \in Ids : life'[s].gen # g
  BY <1>1, <1>2 DEF FreshGens, Nothing, Tombstone, Quarantine
<1>5. g \in FreshGens'
  BY <1>2, <1>3, <1>4 DEF FreshGens
<1> QED
  BY <1>5

LEMMA EmptyRun == <<>> \in Seq(Steps)
BY EmptySeq

LEMMA NoOpTyped == NoOp \in Ops /\ NoOp.at = "idle" /\ NoOp.todo = <<>> /\ NoOp.kind = "none"
BY EmptyRun DEF NoOp, Ops, Named, Places

\* An operation that has answered has the shape of none.
LEMMA ReturnShape == ASSUME op' = NoOp PROVE OpOK'
<1>1. op' \in Ops /\ op'.at = "idle" /\ op'.todo = <<>> /\ op'.kind = "none"
  BY NoOpTyped
<1>2. PlaceOK'
  BY <1>1 DEF PlaceOK, CreateSteps, ForkSteps, StageSteps, CleanSteps
<1>3. RunOK'
  BY <1>1 DEF RunOK
<1> QED
  BY <1>1, <1>2, <1>3 DEF OpOK

\* What is left of a run is a run of the same place.
LEMMA TailShape ==
  ASSUME OpOK, op.todo # <<>>, op' \in Ops, Carried, op'.at = op.at, op'.todo = Tail(op.todo),
         UNCHANGED <<life, open>>
  PROVE  OpOK'
<1>1. \A S : op.todo \in Seq(S) => Tail(op.todo) \in Seq(S)
  BY RunShrinks
<1>2. op.at \in RunPlaces /\ op.at # "idle" /\ op'.at # "idle" /\ op # NoOp /\ op' # NoOp
      /\ op'.kind # "none"
  BY FirstStep, NoOpTyped DEF OpOK, RunPlaces, PlaceOK, Carried
<1>3. PlaceOK'
  BY <1>2 DEF OpOK, PlaceOK, Carried
<1>4. RunOK'
  <2>1. Filed' = Filed
    BY DEF Filed, Carried
  <2> QED
    BY <1>1, <1>2, <2>1 DEF OpOK, RunOK, Only, Carried, RunPlaces
<1>5. FreshGens' = FreshGens
  BY DEF FreshGens
<1> QED
  BY <1>2, <1>3, <1>4, <1>5 DEF OpOK

LEMMA TakeStepShape ==
  ASSUME StoreOK, OpOK, TakeStep
  PROVE  OpOK'
<1> DEFINE step == Head(op.todo)
<1>1. op \in Ops /\ op.todo # <<>> /\ op.job \in Ids /\ RunOK /\ PlaceOK
  BY DEF OpOK, TakeStep, PlaceOK
<1>2. /\ op' \in Ops /\ UNCHANGED <<life, open>>
      /\ Taken(step) \/ Collected(step) \/ Diverted(step) \/ Returned(step)
  BY <1>1, StepEffect
<1>3. CASE Taken(step) \/ Collected(step)
  BY <1>1, <1>2, <1>3, TailShape DEF Taken, Collected
<1>4. CASE Diverted(step)
  <2>1. /\ op'.at = step.orelse /\ op'.todo = <<>> /\ Carried /\ step.orelse \notin {"return", "collect"}
    BY <1>4 DEF Diverted
  <2>2. \/ step.orelse = "restore" /\ op.at \in {"databases", "cleaned"}
        \/ step.orelse = "create.undo" /\ op.kind = "create" /\ op.at = "attach"
        \/ step.orelse = "undo" /\ op.at \in {"fork.publish", "fork.commit"}
        \/ step.orelse = "undone" /\ op.at = "undo.files"
        \/ step.orelse = "undo.remark" /\ op.at = "undone"
    <3>1. op.at = "attach" => op.kind \in {"create", "resume"}
      BY <1>1 DEF PlaceOK
    <3> QED
      BY <1>1, <2>1, <3>1, FirstStep DEF RunPlaces
  <2> HIDE DEF step
  <2>3. op'.at # "idle" /\ op' # NoOp /\ op # NoOp /\ op.kind # "none"
    BY <1>1, <2>1, <2>2, NoOpTyped DEF PlaceOK
  <2>4. PlaceOK'
    BY <1>1, <2>1, <2>2, <2>3 DEF PlaceOK, Carried, CreateSteps, ForkSteps, StageSteps, CleanSteps
  <2>5. \A S : <<>> \in Seq(S)
    BY EmptySeq
  <2>6. RunOK'
    BY <2>1, <2>2, <2>5 DEF RunOK, Only
  <2>7. FreshGens' # {}
    BY <1>1, <1>2, <2>3, NoOpTyped DEF OpOK, FreshGens, PlaceOK
  <2> QED
    BY <1>2, <2>4, <2>6, <2>7 DEF OpOK
<1>5. CASE Returned(step)
  BY <1>5, ReturnShape DEF Returned
<1> QED
  BY <1>2, <1>3, <1>4, <1>5

-----------------------------------------------------------------------------
(* The runs of the operations                                               *)

LEMMA RemovalStep ==
  ASSUME NEW A, NEW B \in SUBSET A, NEW e
  PROVE  Step("remove", B, e) \in Removals(A, e)
BY DEF Removals

LEMMA AdditionStep ==
  ASSUME NEW A, NEW B \in SUBSET A, NEW e
  PROVE  Step("add", B, e) \in Additions(A, e)
BY DEF Additions

LEMMA RemovalsTyped ==
  ASSUME NEW A \in SUBSET Artifacts, NEW e \in {"return", "collect"} \cup Places
  PROVE  Removals(A, e) \subseteq Steps
<1> SUFFICES ASSUME NEW st \in Removals(A, e) PROVE st \in Steps
  OBVIOUS
<1>1. PICK B \in SUBSET A : st = Step("remove", B, e)
  BY DEF Removals
<1>2. B \in SUBSET Artifacts
  OBVIOUS
<1> QED
  BY <1>1, <1>2 DEF Steps, Step

LEMMA AdditionsTyped ==
  ASSUME NEW A \in SUBSET Artifacts, NEW e \in {"return", "collect"} \cup Places
  PROVE  Additions(A, e) \subseteq Steps
<1> SUFFICES ASSUME NEW st \in Additions(A, e) PROVE st \in Steps
  OBVIOUS
<1>1. PICK B \in SUBSET A : st = Step("add", B, e)
  BY DEF Additions
<1>2. B \in SUBSET Artifacts
  OBVIOUS
<1> QED
  BY <1>1, <1>2 DEF Steps, Step

\* Two runs, one after the other.
LEMMA RunsJoin ==
  ASSUME NEW S, NEW r \in Seq(S), NEW t \in Seq(S)
  PROVE  /\ r \o t \in Seq(S)
         /\ WhatOf(r \o t) = WhatOf(r) \cup WhatOf(t)
         /\ r \o t = <<>> <=> r = <<>> /\ t = <<>>
<1>1. /\ r \o t \in Seq(S) /\ Len(r) \in Nat /\ Len(t) \in Nat
      /\ Len(r \o t) = Len(r) + Len(t)
      /\ DOMAIN (r \o t) = 1..(Len(r) + Len(t))
      /\ DOMAIN r = 1..Len(r) /\ DOMAIN t = 1..Len(t)
      /\ \A i \in 1..(Len(r) + Len(t)) :
            (r \o t)[i] = IF i <= Len(r) THEN r[i] ELSE t[i - Len(r)]
  <2>1. /\ r \o t \in Seq(S) /\ Len(r \o t) = Len(r) + Len(t)
        /\ \A i \in 1..(Len(r) + Len(t)) :
              (r \o t)[i] = IF i <= Len(r) THEN r[i] ELSE t[i - Len(r)]
    BY ConcatProperties
  <2> QED
    BY <2>1, LenProperties
<1>2. ASSUME NEW a \in WhatOf(r \o t) PROVE a \in WhatOf(r) \cup WhatOf(t)
  <2>1. PICK i \in 1..(Len(r) + Len(t)) : a \in (r \o t)[i].what
    BY <1>1, <1>2 DEF WhatOf
  <2>2. CASE i <= Len(r)
    <3>1. i \in 1..Len(r) /\ (r \o t)[i] = r[i]
      BY <1>1, <2>1, <2>2
    <3> QED
      BY <1>1, <2>1, <3>1 DEF WhatOf
  <2>3. CASE ~(i <= Len(r))
    <3>1. i - Len(r) \in 1..Len(t) /\ (r \o t)[i] = t[i - Len(r)]
      BY <1>1, <2>1, <2>3
    <3> QED
      BY <1>1, <2>1, <3>1 DEF WhatOf
  <2> QED
    BY <2>2, <2>3
<1>3. ASSUME NEW a \in WhatOf(r) PROVE a \in WhatOf(r \o t)
  <2>1. PICK i \in 1..Len(r) : a \in r[i].what
    BY <1>1, <1>3 DEF WhatOf
  <2>2. i \in 1..(Len(r) + Len(t)) /\ (r \o t)[i] = r[i]
    BY <1>1, <2>1
  <2> QED
    BY <1>1, <2>1, <2>2 DEF WhatOf
<1>4. ASSUME NEW a \in WhatOf(t) PROVE a \in WhatOf(r \o t)
  <2>1. PICK i \in 1..Len(t) : a \in t[i].what
    BY <1>1, <1>4 DEF WhatOf
  <2>2. i + Len(r) \in 1..(Len(r) + Len(t)) /\ ~(i + Len(r) <= Len(r))
        /\ (i + Len(r)) - Len(r) = i
    BY <1>1, <2>1
  <2>3. (r \o t)[i + Len(r)] = t[(i + Len(r)) - Len(r)]
    BY <1>1, <2>2
  <2>4. i + Len(r) \in DOMAIN (r \o t) /\ (r \o t)[i + Len(r)] = t[i]
    BY <1>1, <2>2, <2>3
  <2> QED
    BY <2>1, <2>4 DEF WhatOf
<1>5. r \o t = <<>> <=> r = <<>> /\ t = <<>>
  BY ConcatEqualIffEmpty
<1> QED
  BY <1>1, <1>2, <1>3, <1>4, <1>5

LEMMA ArtifactSets ==
  /\ RecordArts \in SUBSET Artifacts /\ IndexArts \in SUBSET Artifacts
  /\ FileArts \in SUBSET Artifacts /\ Filed \in SUBSET Artifacts
  /\ RecordArts \cup {"row", "messages"} \in SUBSET Artifacts
  /\ Markers \in SUBSET Artifacts /\ Databases \in SUBSET Artifacts /\ Slot \in SUBSET Artifacts
BY DEF RecordArts, IndexArts, FileArts, Filed, Artifacts, Slot, Databases, Markers

LEMMA PlacesTyped ==
  /\ {"records", "databases", "files", "restore", "cleaned", "ensure"} \subseteq Places
  /\ {"recover", "attach", "failed", "create.undo", "create.write", "deleted"} \subseteq Places
  /\ StageSteps \subseteq Places /\ ForkSteps \subseteq Places /\ CreateSteps \subseteq Places
  /\ Kinds \subseteq Places
BY DEF Places, CleanSteps, CreateSteps, ForkSteps, StageSteps, Kinds

\* What cleanup_session_artifacts removes, in three runs.
LEMMA CleanRuns ==
  /\ Records \in Seq(Removals(RecordArts, "collect")) /\ Records \in Seq(Steps)
  /\ WhatOf(Records) = RecordArts
  /\ DatabaseRows \in Seq(Removals({"goal"}, "restore") \cup Removals({"row", "messages"}, "restore"))
  /\ DatabaseRows \in Seq(Steps) /\ {"row", "messages"} \subseteq WhatOf(DatabaseRows)
  /\ Files(op.mark) \in Seq(Removals(Filed, "collect")) /\ Files(op.mark) \in Seq(Steps)
  /\ Filed \subseteq WhatOf(Files(op.mark))
<1>1. Removals(RecordArts, "collect") \subseteq Steps /\ Removals(Filed, "collect") \subseteq Steps
  BY ArtifactSets, RemovalsTyped
<1>2. Removals({"goal"}, "restore") \subseteq Steps /\ Removals({"row", "messages"}, "restore") \subseteq Steps
  <2>1. {"goal"} \in SUBSET Artifacts /\ {"row", "messages"} \in SUBSET Artifacts
    BY DEF Artifacts, Databases
  <2> QED
    BY <2>1, PlacesTyped, RemovalsTyped
<1>3. Records \in Seq(Removals(RecordArts, "collect")) /\ WhatOf(Records) = RecordArts
  BY RecordsRun
<1>4. /\ DatabaseRows \in Seq(Removals({"goal"}, "restore") \cup Removals({"row", "messages"}, "restore"))
      /\ {"row", "messages"} \subseteq WhatOf(DatabaseRows)
  <2>1. /\ Step("remove", {"goal"}, "restore") \in Removals({"goal"}, "restore")
        /\ Step("remove", {"row", "messages"}, "restore") \in Removals({"row", "messages"}, "restore")
    BY RemovalStep
  <2>2. DatabaseRows[2].what = {"row", "messages"} /\ 2 \in DOMAIN DatabaseRows
    BY DEF DatabaseRows, Step
  <2> QED
    BY <2>1, <2>2 DEF DatabaseRows, WhatOf
<1>5. Files(op.mark) \in Seq(Removals(Filed, "collect")) /\ Filed \subseteq WhatOf(Files(op.mark))
  <2> DEFINE f1 == Step("remove", {"transcript"}, "collect")
             f2 == Step("remove", {"familiar"}, "collect")
             f3 == Step("remove", {"stage"}, "collect")
             f4 == Step("remove", {"forkmark"}, "collect")
  <2>1. f1 \in Removals(Filed, "collect") /\ f2 \in Removals(Filed, "collect")
        /\ f3 \in Removals(Filed, "collect")
    BY RemovalStep DEF Filed, FileArts
  <2>2. f1.what = {"transcript"} /\ f2.what = {"familiar"} /\ f3.what = {"stage"}
        /\ f4.what = {"forkmark"}
    BY StepFields
  <2>3. Files(op.mark) = <<f1, f2, f3>> \o IF op.mark = "delmark" THEN <<f4>> ELSE <<>>
    BY DEF Files, When, Unmark
  <2>4. CASE op.mark = "delmark"
    <3>1. f4 \in Removals(Filed, "collect")
      BY <2>4, RemovalStep DEF Filed
    <3> HIDE DEF f1, f2, f3, f4
    <3>2. /\ <<f1, f2, f3>> \in Seq(Removals(Filed, "collect"))
          /\ <<f4>> \in Seq(Removals(Filed, "collect"))
          /\ WhatOf(<<f1, f2, f3>>) = f1.what \cup f2.what \cup f3.what
      BY <2>1, <3>1, Runs3
    <3>3. WhatOf(<<f4>>) = f4.what
      BY DEF WhatOf
    <3>4. Files(op.mark) = <<f1, f2, f3>> \o <<f4>>
      BY <2>3, <2>4
    <3>5. Filed = {"transcript", "familiar", "stage", "forkmark"}
      BY <2>4 DEF Filed, FileArts
    <3>6. /\ Files(op.mark) \in Seq(Removals(Filed, "collect"))
          /\ WhatOf(Files(op.mark)) = WhatOf(<<f1, f2, f3>>) \cup WhatOf(<<f4>>)
      <4> DEFINE a == <<f1, f2, f3>>
                 b == <<f4>>
      <4>1. a \in Seq(Removals(Filed, "collect")) /\ b \in Seq(Removals(Filed, "collect"))
            /\ Files(op.mark) = a \o b
        BY <3>2, <3>4
      <4> HIDE DEF a, b
      <4>2. /\ Files(op.mark) \in Seq(Removals(Filed, "collect"))
            /\ WhatOf(Files(op.mark)) = WhatOf(a) \cup WhatOf(b)
        BY <4>1, RunsJoin
      <4> QED
        BY <4>2 DEF a, b
    <3>7. WhatOf(Files(op.mark)) = {"transcript"} \cup {"familiar"} \cup {"stage"} \cup {"forkmark"}
      BY <2>2, <3>2, <3>3, <3>6
    <3> QED
      BY <3>5, <3>6, <3>7
  <2>5. CASE op.mark # "delmark"
    <3> HIDE DEF f1, f2, f3, f4
    <3>1. Files(op.mark) = <<f1, f2, f3>>
      <4>1. <<f1, f2, f3>> \in Seq(Removals(Filed, "collect"))
        BY <2>1
      <4>2. <<f1, f2, f3>> \o <<>> = <<f1, f2, f3>>
        BY <4>1, ConcatEmptySeq
      <4> QED
        BY <2>3, <2>5, <4>2
    <3>2. Filed = {"transcript", "familiar", "stage"}
      BY <2>5 DEF Filed, FileArts
    <3>3. /\ <<f1, f2, f3>> \in Seq(Removals(Filed, "collect"))
          /\ WhatOf(<<f1, f2, f3>>) = f1.what \cup f2.what \cup f3.what
      BY <2>1, Runs3
    <3> QED
      BY <2>2, <3>1, <3>2, <3>3
  <2> QED
    BY <2>4, <2>5
<1> QED
  BY <1>1, <1>2, <1>3, <1>4, <1>5, SeqMonotonic

\* The markers that go last.
LEMMA UnmarkRun ==
  ASSUME NEW m \in Markers, NEW e \in {"restore", "undo", "undo.remark"}
  PROVE  /\ Unmark(m, e) \in Seq(Removals({m}, e)) /\ Unmark(m, e) \in Seq(Steps)
         /\ Unmark(m, e) = <<Step("remove", {m}, e)>> /\ WhatOf(Unmark(m, e)) = {m}
         /\ Unmark(m, e) # <<>>
<1>1. Step("remove", {m}, e) \in Removals({m}, e)
  BY RemovalStep
<1>2. Removals({m}, e) \subseteq Steps
  <2>1. {m} \in SUBSET Artifacts /\ e \in Places
    BY DEF Artifacts, Markers, Places, CleanSteps, ForkSteps, StageSteps
  <2> QED
    BY <2>1, RemovalsTyped
<1>3. Step("remove", {m}, e).what = {m}
  BY StepFields
<1> DEFINE st == Step("remove", {m}, e)
<1>4. Unmark(m, e) = <<st>>
  BY DEF Unmark
<1> HIDE DEF st
<1>5. WhatOf(<<st>>) = st.what /\ <<st>> # <<>>
  BY DEF WhatOf
<1>6. <<st>> \in Seq(Removals({m}, e)) /\ <<st>> \in Seq(Steps)
  BY <1>1, <1>2 DEF st
<1> QED
  BY <1>3, <1>4, <1>5, <1>6 DEF st

\* What recovery does about a record: only a session with a transcript is
\* written to.
Repairs == Removals(RecordArts \cup {"row", "messages"}, "return")
             \cup Additions(RecordArts \cup {"row", "messages"}, "return")

LEMMA RepairRuns ==
  /\ {PublishRecord, DropRecord, Reconcile, Rebuild} \subseteq Seq(Repairs)
  /\ Seq(Repairs) \subseteq Seq(Steps)
  /\ \A i \in DOMAIN DropRecord : DropRecord[i].verb = "remove"
<1>1. Repairs \subseteq Steps
  BY ArtifactSets, RemovalsTyped, AdditionsTyped DEF Repairs
<1>2. \A B \in SUBSET (RecordArts \cup {"row", "messages"}) :
        Step("remove", B, "return") \in Repairs /\ Step("add", B, "return") \in Repairs
  BY RemovalStep, AdditionStep DEF Repairs
<1>3. /\ Slot \in SUBSET (RecordArts \cup {"row", "messages"})
      /\ {"baseline"} \in SUBSET (RecordArts \cup {"row", "messages"})
      /\ {"model"} \in SUBSET (RecordArts \cup {"row", "messages"})
      /\ {"reconciling"} \in SUBSET (RecordArts \cup {"row", "messages"})
      /\ {"row"} \in SUBSET (RecordArts \cup {"row", "messages"})
      /\ {"messages"} \in SUBSET (RecordArts \cup {"row", "messages"})
      /\ {"row", "messages"} \in SUBSET (RecordArts \cup {"row", "messages"})
  BY DEF RecordArts, Slot
<1>4. /\ Step("remove", Slot, "return") \in Repairs
      /\ Step("remove", {"baseline"}, "return") \in Repairs
      /\ Step("remove", {"row", "messages"}, "return") \in Repairs
      /\ Step("add", {"model"}, "return") \in Repairs
      /\ Step("add", {"baseline"}, "return") \in Repairs
      /\ Step("add", {"reconciling"}, "return") \in Repairs
      /\ Step("add", {"row"}, "return") \in Repairs
      /\ Step("add", {"messages"}, "return") \in Repairs
  BY <1>2, <1>3
<1>5. PublishRecord \in Seq(Repairs) /\ DropRecord \in Seq(Repairs)
  BY <1>4 DEF PublishRecord, DropRecord
<1>6. Reconcile \in Seq(Repairs) /\ Rebuild \in Seq(Repairs)
  BY <1>4 DEF Reconcile, Rebuild
<1>7. \A i \in DOMAIN DropRecord : DropRecord[i].verb = "remove"
  BY DEF DropRecord, Step
<1>8. Seq(Repairs) \subseteq Seq(Steps)
  BY <1>1, SeqMonotonic
<1> QED
  BY <1>5, <1>6, <1>7, <1>8

\* A run that may be empty.
LEMMA WhenRun ==
  ASSUME NEW S, NEW c \in BOOLEAN, NEW r \in Seq(S)
  PROVE  When(c, r) \in Seq(S) /\ (c => When(c, r) = r) /\ (~c => When(c, r) = <<>>)
BY EmptySeq DEF When

CreateRun == Removals({"familiar"}, "return") \cup Additions({"familiar"}, "return")
               \cup Additions({"model", "baseline"}, "create.undo")
UncreateRun == Removals({"baseline", "model", "familiar"}, "collect")
IndexRun == Additions(IndexArts, "return")

LEMMA CreateRuns ==
  /\ \A verb \in {"add", "remove"} : CreateFiles(verb) \in Seq(CreateRun)
  /\ Seq(CreateRun) \subseteq Seq(Steps) /\ Seq(UncreateRun) \subseteq Seq(Steps)
  /\ <<Step("remove", {"baseline"}, "collect"), Step("remove", {"model"}, "collect"),
       Step("remove", {"familiar"}, "collect")>> \in Seq(UncreateRun)
<1>1. CreateRun \subseteq Steps /\ UncreateRun \subseteq Steps
  <2>1. {"familiar"} \in SUBSET Artifacts /\ {"model", "baseline"} \in SUBSET Artifacts
        /\ {"baseline", "model", "familiar"} \in SUBSET Artifacts
    BY DEF Artifacts
  <2> QED
    BY <2>1, PlacesTyped, RemovalsTyped, AdditionsTyped DEF CreateRun, UncreateRun
<1>2. ASSUME NEW verb \in {"add", "remove"} PROVE CreateFiles(verb) \in Seq(CreateRun)
  <2> DEFINE a == <<Step(verb, {"familiar"}, "return")>>
             b == <<Step("add", {"model"}, "create.undo")>>
             c == <<Step("add", {"baseline"}, "create.undo")>>
  <2>1. /\ Step(verb, {"familiar"}, "return") \in CreateRun
        /\ Step("add", {"model"}, "create.undo") \in CreateRun
        /\ Step("add", {"baseline"}, "create.undo") \in CreateRun
    <3>1. /\ Step("add", {"familiar"}, "return") \in CreateRun
          /\ Step("remove", {"familiar"}, "return") \in CreateRun
          /\ Step("add", {"model"}, "create.undo") \in CreateRun
          /\ Step("add", {"baseline"}, "create.undo") \in CreateRun
      BY RemovalStep, AdditionStep DEF CreateRun
    <3> QED
      BY <1>2, <3>1
  <2>2. a \in Seq(CreateRun) /\ b \in Seq(CreateRun) /\ c \in Seq(CreateRun)
    BY <2>1
  <2>3. CreateFiles(verb) = (a \o b) \o c
    BY DEF CreateFiles, ModelRecord, Baseline
  <2> HIDE DEF a, b, c
  <2>4. a \o b \in Seq(CreateRun)
    BY <2>2, RunsJoin
  <2> QED
    BY <2>2, <2>3, <2>4, RunsJoin
<1>3. <<Step("remove", {"baseline"}, "collect"), Step("remove", {"model"}, "collect"),
        Step("remove", {"familiar"}, "collect")>> \in Seq(UncreateRun)
  <2>1. /\ Step("remove", {"baseline"}, "collect") \in UncreateRun
        /\ Step("remove", {"model"}, "collect") \in UncreateRun
        /\ Step("remove", {"familiar"}, "collect") \in UncreateRun
    BY RemovalStep DEF UncreateRun
  <2> QED
    BY <2>1
<1> QED
  BY <1>1, <1>2, <1>3, SeqMonotonic

\* resume and fork complete the index of a session.
LEMMA IndexRuns ==
  ASSUME NEW s
  PROVE  /\ ModelRecord("return") \o <<Step("add", {"row"}, "return")>> \o CatchUp(s)
              \in Seq(IndexRun)
         /\ ModelRecord("return")
              \o When("baseline" \notin disk[s],
                      <<Step("add", {"row"}, "return")>> \o CatchUp(s)) \in Seq(IndexRun)
         /\ Seq(IndexRun) \subseteq Seq(Steps)
<1> DEFINE m == <<Step("add", {"model"}, "return")>>
           r == <<Step("add", {"row"}, "return")>>
           g == <<Step("add", {"messages"}, "return")>>
           b == <<Step("add", {"baseline"}, "return")>>
           c == ("baseline" \notin disk[s])
<1>1. IndexRun \subseteq Steps
  BY ArtifactSets, AdditionsTyped DEF IndexRun
<1>2. m \in Seq(IndexRun) /\ r \in Seq(IndexRun) /\ g \in Seq(IndexRun) /\ b \in Seq(IndexRun)
  <2>1. /\ Step("add", {"model"}, "return") \in IndexRun
        /\ Step("add", {"row"}, "return") \in IndexRun
        /\ Step("add", {"messages"}, "return") \in IndexRun
        /\ Step("add", {"baseline"}, "return") \in IndexRun
    BY AdditionStep DEF IndexRun, IndexArts
  <2> QED
    BY <2>1
<1>3. CatchUp(s) = When(c, g \o b) /\ ModelRecord("return") = m
  BY DEF CatchUp, Baseline, ModelRecord
<1>4. c \in BOOLEAN
  OBVIOUS
<1> HIDE DEF m, r, g, b, c
<1>5. CatchUp(s) \in Seq(IndexRun)
  <2>1. g \o b \in Seq(IndexRun)
    BY <1>2, RunsJoin
  <2> QED
    BY <1>3, <1>4, <2>1, WhenRun, ZenonT(40)
<1>6. (m \o r) \o CatchUp(s) \in Seq(IndexRun)
  <2>1. m \o r \in Seq(IndexRun)
    BY <1>2, RunsJoin
  <2> QED
    BY <1>5, <2>1, RunsJoin
<1>7. m \o When(c, r \o CatchUp(s)) \in Seq(IndexRun)
  <2>1. r \o CatchUp(s) \in Seq(IndexRun)
    BY <1>2, <1>5, RunsJoin
  <2>2. When(c, r \o CatchUp(s)) \in Seq(IndexRun)
    BY <1>4, <2>1, WhenRun
  <2> QED
    BY <1>2, <2>2, RunsJoin
<1> QED
  BY <1>1, <1>3, <1>6, <1>7, SeqMonotonic DEF c, r

StagingRun == Additions({"forkmark"}, "return") \cup Additions({"stage"}, "undo")
                \cup Removals({"stage"}, "undo")
                \cup {Step("publish", {"transcript"}, "undo"),
                      Step("publish", {"familiar"}, "undo")}
PublicationRun == Additions({"model", "messages", "baseline"}, "undo")
                    \cup {Step("index", {"row"}, "undo"), Step("remove", {"forkmark"}, "undo")}

\* fork_session stages and publishes; its marker goes last.
LEMMA ForkRuns ==
  /\ \A familiar \in BOOLEAN : /\ Staging(familiar) \in Seq(StagingRun)
                               /\ "transcript" \in WhatOf(Staging(familiar))
  /\ Publication \in Seq(PublicationRun) /\ "forkmark" \in WhatOf(Publication)
  /\ Seq(StagingRun) \subseteq Seq(Steps) /\ Seq(PublicationRun) \subseteq Seq(Steps)
<1>1. StagingRun \subseteq Steps /\ PublicationRun \subseteq Steps
  <2>1. /\ {"forkmark"} \in SUBSET Artifacts /\ {"stage"} \in SUBSET Artifacts
        /\ {"transcript"} \in SUBSET Artifacts /\ {"familiar"} \in SUBSET Artifacts
        /\ {"row"} \in SUBSET Artifacts
        /\ {"model", "messages", "baseline"} \in SUBSET Artifacts
    BY DEF Artifacts, Markers, Databases
  <2>2. "undo" \in {"return", "collect"} \cup Places
    BY DEF Places, ForkSteps, StageSteps
  <2>3. /\ Step("publish", {"transcript"}, "undo") \in Steps
        /\ Step("publish", {"familiar"}, "undo") \in Steps
        /\ Step("index", {"row"}, "undo") \in Steps
        /\ Step("remove", {"forkmark"}, "undo") \in Steps
    BY <2>1, <2>2 DEF Step, Steps
  <2>4. /\ Additions({"forkmark"}, "return") \subseteq Steps
        /\ Additions({"stage"}, "undo") \subseteq Steps
        /\ Removals({"stage"}, "undo") \subseteq Steps
        /\ Additions({"model", "messages", "baseline"}, "undo") \subseteq Steps
    BY <2>1, <2>2, AdditionsTyped, RemovalsTyped
  <2> QED
    BY <2>3, <2>4 DEF StagingRun, PublicationRun
<1>2. ASSUME NEW familiar \in BOOLEAN
      PROVE  Staging(familiar) \in Seq(StagingRun) /\ "transcript" \in WhatOf(Staging(familiar))
  <2> DEFINE s1 == Step("add", {"forkmark"}, "return")
             s2 == Step("add", {"stage"}, "undo")
             s3 == Step("publish", {"transcript"}, "undo")
             f == <<Step("publish", {"familiar"}, "undo")>>
             z == <<Step("remove", {"stage"}, "undo")>>
             a == <<s1, s2, s3>>
  <2>1. s1 \in StagingRun /\ s2 \in StagingRun /\ s3 \in StagingRun
        /\ Step("publish", {"familiar"}, "undo") \in StagingRun
        /\ Step("remove", {"stage"}, "undo") \in StagingRun
    BY AdditionStep, RemovalStep DEF StagingRun
  <2>2. f \in Seq(StagingRun) /\ z \in Seq(StagingRun) /\ s3.what = {"transcript"}
    BY <2>1, StepFields
  <2>3. Staging(familiar) = (a \o When(familiar, f)) \o z
    BY DEF Staging
  <2> HIDE DEF s1, s2, s3, f, z
  <2>4. a \in Seq(StagingRun) /\ WhatOf(a) = s1.what \cup s2.what \cup s3.what
    BY <2>1, Runs3
  <2> HIDE DEF a
  <2>5. When(familiar, f) \in Seq(StagingRun)
    BY <2>2, WhenRun
  <2>6. /\ a \o When(familiar, f) \in Seq(StagingRun)
        /\ WhatOf(a \o When(familiar, f)) = WhatOf(a) \cup WhatOf(When(familiar, f))
    BY <2>4, <2>5, RunsJoin
  <2> DEFINE b == a \o When(familiar, f)
  <2>9. b \in Seq(StagingRun) /\ WhatOf(b) = WhatOf(a) \cup WhatOf(When(familiar, f))
        /\ Staging(familiar) = b \o z
    BY <2>3, <2>6
  <2> HIDE DEF b
  <2>7. b \o z \in Seq(StagingRun) /\ WhatOf(b \o z) = WhatOf(b) \cup WhatOf(z)
    BY <2>2, <2>9, RunsJoin
  <2>8. "transcript" \in WhatOf(Staging(familiar))
    BY <2>2, <2>4, <2>7, <2>9
  <2> QED
    BY <2>7, <2>8, <2>9
<1>3. Publication \in Seq(PublicationRun) /\ "forkmark" \in WhatOf(Publication)
  <2> DEFINE a == <<Step("add", {"model"}, "undo"), Step("index", {"row"}, "undo"),
                    Step("add", {"messages"}, "undo"), Step("add", {"baseline"}, "undo")>>
             z == Unmark("forkmark", "undo")
  <2>1. a \in Seq(PublicationRun)
    <3>1. /\ Step("add", {"model"}, "undo") \in PublicationRun
          /\ Step("index", {"row"}, "undo") \in PublicationRun
          /\ Step("add", {"messages"}, "undo") \in PublicationRun
          /\ Step("add", {"baseline"}, "undo") \in PublicationRun
      BY AdditionStep DEF PublicationRun
    <3> QED
      BY <3>1
  <2>2. z \in Seq(PublicationRun) /\ WhatOf(z) = {"forkmark"}
    <3>1. z = <<Step("remove", {"forkmark"}, "undo")>> /\ WhatOf(z) = {"forkmark"}
      BY UnmarkRun DEF Markers
    <3>2. Step("remove", {"forkmark"}, "undo") \in PublicationRun
      BY DEF PublicationRun
    <3> QED
      BY <3>1, <3>2
  <2>3. Publication = a \o z
    BY DEF Publication
  <2> HIDE DEF a, z
  <2> QED
    BY <2>1, <2>2, <2>3, RunsJoin
<1> QED
  BY <1>1, <1>2, <1>3, SeqMonotonic

UnindexRun == {Step("add", {"forkmark"}, "collect"), Step("remove", {"row", "messages"}, "undone")}
UnpublishRun == Removals(FileArts, "collect")
RemarkRun == {Step("remove", {"forkmark"}, "undo.remark"), Step("add", {"forkmark"}, "collect")}

Unindexing ==
  When(op.indexed, <<Step("add", {"forkmark"}, "collect"),
                     Step("remove", {"row", "messages"}, "undone")>>)
Unpublishing ==
  When("familiar" \in op.published, <<Step("remove", {"familiar"}, "collect")>>)
    \o When("transcript" \in op.published, <<Step("remove", {"transcript"}, "collect")>>)
    \o <<Step("remove", {"stage"}, "collect")>>

\* ForkStage::cleanup
LEMMA UndoRuns ==
  ASSUME op \in Ops
  PROVE  /\ Unindexing \in Seq(UnindexRun) /\ (op.indexed => "forkmark" \in WhatOf(Unindexing))
         /\ Unpublishing \in Seq(UnpublishRun)
         /\ When(~op.errs, Unmark("forkmark", "undo.remark")) \in Seq(RemarkRun)
         /\ <<Step("add", {"forkmark"}, "collect")>> \in Seq(RemarkRun)
         /\ WhatOf(<<Step("add", {"forkmark"}, "collect")>>) = {"forkmark"}
         /\ Seq(UnindexRun) \subseteq Seq(Steps) /\ Seq(UnpublishRun) \subseteq Seq(Steps)
         /\ Seq(RemarkRun) \subseteq Seq(Steps)
<1>1. UnindexRun \subseteq Steps /\ UnpublishRun \subseteq Steps /\ RemarkRun \subseteq Steps
  <2>1. {"forkmark"} \in SUBSET Artifacts /\ {"row", "messages"} \in SUBSET Artifacts
    BY DEF Artifacts, Markers, Databases
  <2>2. {"undone", "undo.remark"} \subseteq Places
    BY DEF Places, ForkSteps, StageSteps
  <2>3. UnpublishRun \subseteq Steps
    BY ArtifactSets, RemovalsTyped DEF UnpublishRun
  <2> QED
    BY <2>1, <2>2, <2>3 DEF UnindexRun, RemarkRun, Step, Steps
<1>2. op.indexed \in BOOLEAN /\ op.errs \in BOOLEAN
  BY DEF Ops
<1>3. Unindexing \in Seq(UnindexRun) /\ (op.indexed => "forkmark" \in WhatOf(Unindexing))
  <2> DEFINE s1 == Step("add", {"forkmark"}, "collect")
             s2 == Step("remove", {"row", "messages"}, "undone")
             a == <<s1, s2>>
  <2>1. s1 \in UnindexRun /\ s2 \in UnindexRun /\ s1.what = {"forkmark"}
    BY StepFields DEF UnindexRun
  <2>2. Unindexing = When(op.indexed, a)
    BY DEF Unindexing
  <2> HIDE DEF s1, s2
  <2>3. a \in Seq(UnindexRun) /\ WhatOf(a) = s1.what \cup s2.what
    BY <2>1 DEF WhatOf
  <2> HIDE DEF a
  <2> QED
    BY <1>2, <2>1, <2>2, <2>3, WhenRun
<1>4. Unpublishing \in Seq(UnpublishRun)
  <2> DEFINE f == <<Step("remove", {"familiar"}, "collect")>>
             t == <<Step("remove", {"transcript"}, "collect")>>
             z == <<Step("remove", {"stage"}, "collect")>>
  <2>1. f \in Seq(UnpublishRun) /\ t \in Seq(UnpublishRun) /\ z \in Seq(UnpublishRun)
    <3>1. /\ Step("remove", {"familiar"}, "collect") \in UnpublishRun
          /\ Step("remove", {"transcript"}, "collect") \in UnpublishRun
          /\ Step("remove", {"stage"}, "collect") \in UnpublishRun
      BY RemovalStep DEF UnpublishRun, FileArts
    <3> QED
      BY <3>1
  <2> DEFINE p == ("familiar" \in op.published)
             q == ("transcript" \in op.published)
  <2>2. Unpublishing = (When(p, f) \o When(q, t)) \o z /\ p \in BOOLEAN /\ q \in BOOLEAN
    BY DEF Unpublishing
  <2> HIDE DEF f, t, z, p, q
  <2>3. When(p, f) \in Seq(UnpublishRun) /\ When(q, t) \in Seq(UnpublishRun)
    BY <2>1, <2>2, WhenRun
  <2>4. When(p, f) \o When(q, t) \in Seq(UnpublishRun)
    BY <2>3, RunsJoin
  <2> QED
    BY <2>1, <2>2, <2>4, RunsJoin
<1>5. When(~op.errs, Unmark("forkmark", "undo.remark")) \in Seq(RemarkRun)
  <2>1. Unmark("forkmark", "undo.remark") = <<Step("remove", {"forkmark"}, "undo.remark")>>
    BY DEF Unmark
  <2>2. <<Step("remove", {"forkmark"}, "undo.remark")>> \in Seq(RemarkRun)
    BY DEF RemarkRun
  <2> DEFINE c == ~op.errs
  <2>3. c \in BOOLEAN
    OBVIOUS
  <2> HIDE DEF c
  <2>4. When(c, Unmark("forkmark", "undo.remark")) \in Seq(RemarkRun)
    BY <2>1, <2>2, <2>3, WhenRun
  <2> QED
    BY <2>4 DEF c
<1>6. <<Step("add", {"forkmark"}, "collect")>> \in Seq(RemarkRun)
  BY DEF RemarkRun
<1>7. WhatOf(<<Step("add", {"forkmark"}, "collect")>>) = {"forkmark"}
  BY DEF WhatOf, Step
<1> QED
  BY <1>1, <1>3, <1>4, <1>5, <1>6, <1>7, SeqMonotonic

-----------------------------------------------------------------------------
(* How an operation moves on                                                *)

\* It goes to a place with a run to take.
Goes(place, run) == /\ op' \in Ops /\ op'.at = place /\ op'.todo = run
                    /\ op'.kind = op.kind /\ op'.id = op.id /\ op'.src = op.src

LEMMA GotoFields ==
  ASSUME op \in Ops, NEW p \in Places, Goto(p)
  PROVE  Goes(p, op.todo) /\ Carried /\ op'.errs = op.errs /\ op'.indexed = op.indexed
         /\ op'.published = op.published
BY DEF Goto, Goes, Carried, Ops

LEMMA DoFields ==
  ASSUME op \in Ops, NEW s \in Named, NEW run \in Seq(Steps), NEW p \in Places, Do(s, run, p)
  PROVE  /\ Goes(p, run) /\ op'.job = s /\ op'.errs = FALSE /\ op'.mark = op.mark
         /\ op'.back = op.back /\ op'.quarantined = op.quarantined /\ op'.dropped = op.dropped
         /\ op'.indexed = op.indexed
BY DEF Do, Goes, Ops

LEMMA CleanFields ==
  ASSUME op \in Ops, NEW s \in Ids, NEW m \in Markers, NEW b \in Places, Clean(s, m, b)
  PROVE  /\ Goes("ensure", op.todo) /\ op'.job = s /\ op'.mark = m /\ op'.back = b
         /\ op'.quarantined = op.quarantined
<1>1. "ensure" \in Places /\ s \in Named /\ m \in Markers \cup {"none"}
  BY PlacesTyped DEF Named
<1> QED
  BY <1>1 DEF Clean, Goes, Ops

LEMMA ThenFields ==
  ASSUME op \in Ops, NEW run \in Seq(Steps), NEW p \in Places, Then(run, p)
  PROVE  Goes(p, run) /\ Carried /\ op'.errs = op.errs /\ op'.indexed = op.indexed
BY DEF Then, Goes, Carried, Ops

\* A place without a run.
LEMMA NoRun == ASSUME op'.todo = <<>> PROVE RunOK'
BY EmptySeq DEF RunOK, Only

LEMMA Named1 == ASSUME NEW s \in Ids PROVE s \in Named
BY DEF Named

LEMMA Working1 ==
  ASSUME OpOK, NEW p, At(p), p # "idle"
  PROVE  /\ op \in Ops /\ op.at = p /\ op.todo = <<>> /\ op # NoOp /\ op.kind \in Kinds
         /\ PlaceOK /\ FreshGens # {}
<1>1. op \in Ops /\ op.at = p /\ op.todo = <<>> /\ PlaceOK /\ FreshGens # {}
  BY DEF OpOK, At
<1>2. op # NoOp
  BY <1>1 DEF PlaceOK
<1>3. op.kind # "none" /\ op.kind \in Kinds \cup {"none"}
  BY <1>1, <1>2 DEF PlaceOK, Ops
<1> QED
  BY <1>1, <1>2, <1>3

\* The shape of an operation that has moved on, from its parts.
LEMMA MovedShape ==
  ASSUME op' \in Ops, op'.at # "idle", op'.kind \in Kinds, FreshGens' # {}, RunOK',
         (op.kind \in {"create", "resume", "delete", "fork"} => op.id \in Ids),
         (op.kind = "fork" => op.src \in Ids /\ op.src # op.id),
         op'.kind = op.kind, op'.id = op.id, op'.src = op.src,
         (op'.at \in CreateSteps => op.kind = "create"),
         (op'.at \in ForkSteps => op.kind = "fork"),
         (op'.at = "attach" => op.kind \in {"create", "resume"}),
         (op'.at = "resume" => op.kind = "resume"),
         (op'.at \in {"delete", "deleted"} => op.kind = "delete"),
         (op'.at \in CleanSteps =>
            /\ op'.job \in Ids /\ op'.mark \in Markers
            /\ op'.back \in {"recover", "deleted", "create.write", "fork.stage"}
            /\ op'.back # "recover" => op'.mark = "delmark" /\ op'.job = op'.id
            /\ op'.back = "deleted" => op'.kind = "delete"
            /\ op'.back = "create.write" => op'.kind = "create"
            /\ op'.back = "fork.stage" => op'.kind = "fork"),
         (op'.todo # <<>> => op'.job \in Ids),
         (op'.at \in StageSteps => op'.job = op'.id)
  PROVE  OpOK'
<1>1. op' # NoOp
  BY NoOpTyped
<1>2. PlaceOK'
  BY <1>1 DEF PlaceOK, Kinds
<1> QED
  BY <1>2 DEF OpOK

\* FreshGens when memory changes on the way.
LifeLoses == \A s \in Ids : life'[s] = life[s] \/ life'[s] \in {Nothing, Tombstone, Quarantine}

LEMMA CleanStepsShape ==
  ASSUME OpOK, EnsureMarker \/ RecordsGone \/ RowsGone \/ FilesGone \/ Restore
  PROVE  OpOK'
<1>1. op'= NoOp \/ (op' # NoOp /\ UNCHANGED <<life, open>>)
  BY DEF EnsureMarker, RecordsGone, RowsGone, FilesGone, Restore, Return
<1>2. CASE op' = NoOp
  BY <1>2, ReturnShape
<1>3. CASE op' # NoOp
  <2>1. PICK p \in {"ensure", "records", "databases", "files"} : At(p)
    BY <1>3 DEF EnsureMarker, RecordsGone, RowsGone, FilesGone, Restore, Return
  <2>2. /\ op \in Ops /\ op.at = p /\ op.todo = <<>> /\ op.kind \in Kinds /\ PlaceOK
        /\ op.at \in CleanSteps /\ FreshGens' # {}
    BY <1>1, <1>3, <2>1, Working1 DEF CleanSteps, FreshGens
  <2>3. op.job \in Ids /\ op.job \in Named /\ op.mark \in Markers
    BY <2>2, Named1 DEF PlaceOK
  <2>4. CASE Goto("restore")
    <3>1. Goes("restore", <<>>) /\ Carried
      BY <2>2, <2>4, GotoFields, PlacesTyped
    <3>2. RunOK'
      BY <3>1, NoRun DEF Goes
    <3> QED
      BY <2>2, <3>1, <3>2, MovedShape DEF Goes, Carried, PlaceOK, CleanSteps, CreateSteps, ForkSteps,
         StageSteps
  <2>5. ASSUME NEW run \in Seq(Steps), NEW q \in {"records", "databases", "files", "cleaned"},
               Do(op.job, run, q),
               q = "records" => run \in Seq(Removals(RecordArts, "collect")),
               q = "databases" => run \in Seq(Removals({"goal"}, "restore")
                                                \cup Removals({"row", "messages"}, "restore")),
               q = "files" => run \in Seq(Removals(Filed, "collect")),
               q = "cleaned" => run \in Seq(Removals({op.mark}, "restore"))
        PROVE  OpOK'
    <3>1. /\ Goes(q, run) /\ op'.job = op.job /\ op'.mark = op.mark /\ op'.back = op.back
      BY <2>2, <2>3, <2>5, DoFields, PlacesTyped
    <3>2. Filed' = Filed
      BY <3>1 DEF Filed
    <3>3. RunOK'
      BY <2>5, <3>1, <3>2 DEF RunOK, Only, Goes
    <3> QED
      BY <2>2, <2>3, <3>1, <3>3, MovedShape DEF Goes, PlaceOK, CleanSteps, CreateSteps, ForkSteps,
         StageSteps
  <2>6. \/ Goto("restore")
        \/ Do(op.job, Records, "records")
        \/ Do(op.job, DatabaseRows, "databases")
        \/ Do(op.job, Files(op.mark), "files")
        \/ Do(op.job, Unmark(op.mark, "restore"), "cleaned")
    BY <1>3 DEF EnsureMarker, RecordsGone, RowsGone, FilesGone, Restore, Return
  <2>7. CASE Do(op.job, Records, "records")
    BY <2>5, <2>7, CleanRuns
  <2>8. CASE Do(op.job, DatabaseRows, "databases")
    BY <2>5, <2>8, CleanRuns
  <2>9. CASE Do(op.job, Files(op.mark), "files")
    BY <2>5, <2>9, CleanRuns
  <2>10. CASE Do(op.job, Unmark(op.mark, "restore"), "cleaned")
    BY <2>3, <2>5, <2>10, UnmarkRun
  <2> QED
    BY <2>4, <2>6, <2>7, <2>8, <2>9, <2>10
<1> QED
  BY <1>2, <1>3

LEMMA CleanedShape == ASSUME TypeOK, OpOK, Cleaned PROVE OpOK'
<1>1. /\ op \in Ops /\ op.at = "cleaned" /\ op.todo = <<>> /\ op.kind \in Kinds /\ PlaceOK
      /\ FreshGens # {}
  BY Working1 DEF Cleaned
<1>2. /\ op.back \in {"recover", "deleted", "create.write", "fork.stage"}
      /\ op.back = "deleted" => op.kind = "delete"
      /\ op.back = "create.write" => op.kind = "create"
      /\ op.back = "fork.stage" => op.kind = "fork"
  BY <1>1 DEF PlaceOK, CleanSteps
<1>3. op.back \in Places
  BY <1>1 DEF Ops
<1>4. Goes(op.back, <<>>) /\ Carried
  BY <1>1, <1>3, GotoFields DEF Cleaned
<1>5. RunOK'
  BY <1>4, NoRun DEF Goes
<1>6. FreshGens' # {}
  <2>1. \A s \in Ids : life'[s] = life[s] \/ life'[s] \in {Nothing, Tombstone, Quarantine}
    BY <1>1 DEF Cleaned, Quarantine, Nothing, TypeOK
  <2> QED
    BY <1>1, <2>1, FreshStay DEF Cleaned
<1> QED
  BY <1>1, <1>2, <1>4, <1>5, <1>6, MovedShape DEF Goes, Carried, PlaceOK, CleanSteps, CreateSteps,
     ForkSteps, StageSteps

\* A deletion that begins, or is begun once more.
LEMMA DeletionShape ==
  ASSUME TypeOK, OpOK, op.at # "idle", op.todo = <<>>, NEW s \in Ids,
         NEW b \in {"recover", "deleted", "create.write", "fork.stage"},
         b # "recover" => s = op.id, b = "deleted" => op.kind = "delete",
         b = "create.write" => op.kind = "create", b = "fork.stage" => op.kind = "fork",
         \/ BeginDeletion(s, b) /\ UNCHANGED open
         \/ BeginReuse(s, b) /\ UNCHANGED <<life, open>>
  PROVE  OpOK'
<1>1. Clean(s, "delmark", b) \/ Return
  BY DEF BeginDeletion, BeginReuse
<1>2. CASE Return
  BY <1>2, ReturnShape DEF Return
<1>3. CASE Clean(s, "delmark", b)
  <2>1. op \in Ops /\ op.kind \in Kinds /\ PlaceOK /\ FreshGens # {}
    BY Working1 DEF OpOK, At
  <2>2. Goes("ensure", <<>>) /\ op'.job = s /\ op'.mark = "delmark" /\ op'.back = b
    BY <1>3, <2>1, CleanFields, PlacesTyped DEF Markers, Places, ForkSteps
  <2>3. RunOK'
    BY <2>2, NoRun DEF Goes
  <2>4. FreshGens' # {}
    <3>1. \A t \in Ids : life'[t] = life[t] \/ life'[t] \in {Nothing, Tombstone, Quarantine}
      BY DEF BeginDeletion, BeginReuse, TypeOK, Tombstone
    <3>2. UNCHANGED open
      OBVIOUS
    <3> QED
      BY <2>1, <3>1, <3>2, FreshStay
  <2> QED
    BY <2>1, <2>2, <2>3, <2>4, MovedShape DEF Goes, PlaceOK, CleanSteps, CreateSteps, ForkSteps,
       StageSteps, Markers
<1> QED
  BY <1>1, <1>2, <1>3

\* A step that goes on to a place without a run.
LEMMA GotoShape ==
  ASSUME TypeOK, OpOK, op.at # "idle", op.todo = <<>>, NEW p \in Places \ {"idle"}, Goto(p),
         p \notin CleanSteps \cup StageSteps,
         p \in CreateSteps => op.kind = "create", p \in ForkSteps => op.kind = "fork",
         p = "attach" => op.kind \in {"create", "resume"},
         p = "resume" => op.kind = "resume", p \in {"delete", "deleted"} => op.kind = "delete",
         UNCHANGED open, LifeLoses
  PROVE  OpOK'
<1>1. op \in Ops /\ op.kind \in Kinds /\ PlaceOK /\ FreshGens # {}
  BY Working1 DEF OpOK, At
<1>2. Goes(p, <<>>) /\ Carried
  BY <1>1, GotoFields
<1>3. RunOK'
  BY <1>2, NoRun DEF Goes
<1>4. FreshGens' # {}
  BY <1>1, FreshStay DEF LifeLoses
<1> QED
  BY <1>1, <1>2, <1>3, <1>4, MovedShape DEF Goes, PlaceOK

\* A step that goes on to a run.
LEMMA DoShape ==
  ASSUME OpOK, op.at # "idle", op.todo = <<>>, NEW s \in Ids, NEW run \in Seq(Steps),
         NEW p \in {"recover", "attach", "failed", "fork.id", "fork.publish", "undo.index"},
         Do(s, run, p), UNCHANGED <<life, open>>,
         p = "recover" => run \in Seq(Repairs),
         p = "attach" => /\ s = op.id
                         /\ \/ op.kind = "create" /\ run \in Seq(CreateRun)
                            \/ op.kind = "resume" /\ run \in Seq(IndexRun),
         p = "failed" => s = op.id /\ op.kind = "create" /\ run \in Seq(UncreateRun),
         p = "fork.id" => s = op.src /\ op.kind = "fork" /\ run \in Seq(IndexRun),
         p = "fork.publish" => s = op.id /\ op.kind = "fork" /\ run \in Seq(StagingRun),
         p = "undo.index" => s = op.id /\ op.kind = "fork" /\ run = Records
  PROVE  OpOK'
<1>1. op \in Ops /\ op.kind \in Kinds /\ PlaceOK /\ FreshGens # {}
  BY Working1 DEF OpOK, At
<1>2. p \in Places /\ s \in Named
  BY PlacesTyped, Named1 DEF Places, ForkSteps, StageSteps
<1>3. Goes(p, run) /\ op'.job = s
  BY <1>1, <1>2, DoFields
<1>4. Records \in Seq(Removals(RecordArts, "collect"))
  BY CleanRuns
<1>5. RunOK'
  BY <1>3, <1>4 DEF RunOK, Only, Goes, Repairs, CreateRun, UncreateRun, IndexRun, StagingRun
<1>6. FreshGens' # {}
  BY <1>1 DEF FreshGens
<1> QED
  BY <1>1, <1>3, <1>5, <1>6, MovedShape DEF Goes, PlaceOK, CreateSteps, ForkSteps, StageSteps,
     CleanSteps

LEMMA RecoveryShape ==
  ASSUME TypeOK, OpOK,
         Preflight \/ RecoverMarked \/ ResolveRecord \/ RefuseRecord \/ DeleteUnpublished
           \/ DeleteGhost \/ ReconcileLegacy \/ Recovered
  PROVE  OpOK'
<1>1. PICK p \in {"preflight", "recover"} : At(p)
  BY DEF Preflight, RecoverMarked, ResolveRecord, RefuseRecord, DeleteUnpublished, DeleteGhost,
     ReconcileLegacy, Recovered
<1>2. op \in Ops /\ op.at = p /\ op.todo = <<>> /\ op.kind \in Kinds /\ PlaceOK /\ FreshGens # {}
  BY <1>1, Working1
<1>3. UNCHANGED open
  BY DEF Preflight, RecoverMarked, ResolveRecord, RefuseRecord, DeleteUnpublished, DeleteGhost,
     ReconcileLegacy, Recovered
<1>4. CASE op' = NoOp
  BY <1>4, ReturnShape
<1>5. CASE Preflight /\ Goto("recover")
  <2>1. LifeLoses
    BY <1>5 DEF Preflight, LifeLoses, Goto
  <2> QED
    BY <1>2, <1>3, <1>5, <2>1, GotoShape DEF Places, CleanSteps, CreateSteps, ForkSteps, StageSteps
<1>6. CASE RecoverMarked
  <2>1. PICK s \in Ids, m \in Markers : Clean(s, m, "recover")
    BY <1>6 DEF RecoverMarked, DeletionMarked, ForkMarked, Markers
  <2>2. Goes("ensure", <<>>) /\ op'.job = s /\ op'.mark = m /\ op'.back = "recover"
    BY <1>2, <2>1, CleanFields, PlacesTyped
  <2>3. RunOK'
    BY <2>2, NoRun DEF Goes
  <2>4. FreshGens' # {}
    BY <1>2, <1>6 DEF FreshGens, RecoverMarked
  <2> QED
    BY <1>2, <2>2, <2>3, <2>4, MovedShape DEF Goes, PlaceOK, CleanSteps, CreateSteps, ForkSteps,
       StageSteps
<1>7. CASE ResolveRecord \/ ReconcileLegacy
  <2>1. PICK s \in Ids, run \in Seq(Repairs) : Do(s, run, "recover")
    BY <1>7, RepairRuns DEF ResolveRecord, ReconcileLegacy, Recorded, Uncounted, Scripts
  <2>2. UNCHANGED <<life, open>> /\ run \in Seq(Steps)
    BY <1>7, RepairRuns DEF ResolveRecord, ReconcileLegacy
  <2> QED
    BY <1>1, <1>2, <2>1, <2>2, DoShape
<1>8. CASE DeleteUnpublished \/ DeleteGhost
  <2>1. PICK s \in Ids : BeginDeletion(s, "recover")
    BY <1>8 DEF DeleteUnpublished, DeleteGhost, Unpublished, Recorded, Uncounted
  <2> QED
    BY <1>1, <1>2, <1>3, <2>1, DeletionShape
<1>9. CASE Recovered
  <2>1. Goto(op.kind) /\ UNCHANGED <<life, open>>
    BY <1>9 DEF Recovered
  <2>2. LifeLoses
    BY <2>1 DEF LifeLoses
  <2>3. op.kind \in Places \ {"idle"} /\ op.kind \notin CleanSteps \cup StageSteps
    BY <1>2, PlacesTyped DEF Kinds, CleanSteps, StageSteps
  <2>4. /\ op.kind \in CreateSteps => op.kind = "create"
        /\ op.kind \in ForkSteps => op.kind = "fork"
        /\ op.kind # "attach" /\ op.kind # "deleted"
    BY <1>2 DEF Kinds, CreateSteps, ForkSteps, StageSteps
  <2> QED
    BY <1>1, <1>2, <1>3, <2>1, <2>2, <2>3, <2>4, GotoShape
<1> QED
  BY <1>4, <1>5, <1>6, <1>7, <1>8, <1>9 DEF Preflight, RefuseRecord, Return

LEMMA UserShape ==
  ASSUME TypeOK, OpOK,
         List \/ Delete \/ Deleted \/ Create \/ CreateWrite \/ CreateUndo \/ Failed \/ Resume
           \/ Attach \/ Fork \/ ForkId \/ ForkStaged \/ ForkCommit
  PROVE  OpOK'
<1>1. PICK p \in {"list", "delete", "deleted", "create", "create.write", "create.undo", "failed",
                  "resume", "attach", "fork", "fork.id", "fork.stage", "fork.commit"} : At(p)
  BY DEF List, Delete, Deleted, Create, CreateWrite, CreateUndo, Failed, Resume, Attach, Fork,
     ForkId, ForkStaged, ForkCommit
<1>2. op \in Ops /\ op.at = p /\ op.todo = <<>> /\ op.kind \in Kinds /\ PlaceOK /\ FreshGens # {}
  BY <1>1, Working1
<1>3. CASE op' = NoOp
  BY <1>3, ReturnShape
<1>4. CASE op' # NoOp
  <2>1. /\ ~List /\ ~Deleted /\ ~Failed /\ ~Attach /\ ~ForkCommit
        /\ UNCHANGED open
    BY <1>4 DEF List, Deleted, Failed, Attach, ForkCommit, Return, Delete, Create, CreateWrite,
       CreateUndo, Resume, Fork, ForkId, ForkStaged
  <2>2. /\ op.kind \in {"create", "resume", "delete", "fork"} => op.id \in Ids
        /\ op.kind = "fork" => op.src \in Ids
    BY <1>2 DEF PlaceOK
  <2>3. CASE Delete
    <3>1. BeginDeletion(op.id, "deleted") /\ op.kind = "delete"
      BY <1>2, <2>3 DEF Delete, At, PlaceOK
    <3> QED
      BY <1>1, <1>2, <2>1, <2>2, <3>1, DeletionShape
  <2>4. CASE Create
    <3>1. op.kind = "create" /\ UNCHANGED <<life, open>>
      BY <1>2, <2>4 DEF Create, At, PlaceOK, CreateSteps
    <3>2. CASE BeginReuse(op.id, "create.write")
      BY <1>1, <1>2, <2>2, <3>1, <3>2, DeletionShape
    <3>3. CASE Goto("create.write")
      BY <1>1, <1>2, <3>1, <3>3, GotoShape DEF LifeLoses, Places, CreateSteps, CleanSteps, StageSteps,
         ForkSteps
    <3> QED
      BY <1>4, <2>4, <3>2, <3>3 DEF Create, Return
  <2>5. CASE ForkId
    <3>1. op.kind = "fork" /\ UNCHANGED <<life, open>>
      BY <1>2, <2>5 DEF ForkId, At, PlaceOK, ForkSteps
    <3>2. CASE BeginReuse(op.id, "fork.stage")
      BY <1>1, <1>2, <2>2, <3>1, <3>2, DeletionShape
    <3>3. CASE Goto("fork.stage")
      BY <1>1, <1>2, <3>1, <3>3, GotoShape DEF LifeLoses, Places, CreateSteps, CleanSteps, StageSteps,
         ForkSteps
    <3> QED
      BY <1>4, <2>5, <3>2, <3>3 DEF ForkId, Return
  <2>6. CASE CreateWrite
    <3>1. op.kind = "create" /\ UNCHANGED <<life, open>>
      BY <1>2, <2>6 DEF CreateWrite, At, PlaceOK, CreateSteps
    <3>2. PICK run \in Seq(CreateRun) : Do(op.id, run, "attach")
      BY <2>6, CreateRuns DEF CreateWrite
    <3>3. run \in Seq(Steps)
      BY CreateRuns
    <3> QED
      BY <1>1, <1>2, <2>2, <3>1, <3>2, <3>3, DoShape
  <2>7. CASE CreateUndo
    <3>1. op.kind = "create" /\ UNCHANGED <<life, open>>
      BY <1>2, <2>7 DEF CreateUndo, At, PlaceOK, CreateSteps
    <3>2. PICK run \in Seq(UncreateRun) : Do(op.id, run, "failed")
      BY <2>7, CreateRuns DEF CreateUndo
    <3>3. run \in Seq(Steps)
      BY CreateRuns
    <3> QED
      BY <1>1, <1>2, <2>2, <3>1, <3>2, <3>3, DoShape
  <2>8. CASE Resume
    <3>1. op.kind = "resume" /\ UNCHANGED <<life, open>>
      BY <1>2, <2>8 DEF Resume, At, PlaceOK
    <3>2. PICK run \in Seq(IndexRun) : Do(op.id, run, "attach")
      BY <1>4, <2>8, IndexRuns DEF Resume, Return
    <3>3. run \in Seq(Steps)
      BY IndexRuns
    <3> QED
      BY <1>1, <1>2, <2>2, <3>1, <3>2, <3>3, DoShape
  <2>9. CASE Fork
    <3>1. op.kind = "fork" /\ UNCHANGED <<life, open>>
      BY <1>2, <2>9 DEF Fork, At, PlaceOK, ForkSteps
    <3>2. PICK run \in Seq(IndexRun) : Do(op.src, run, "fork.id")
      BY <1>4, <2>9, IndexRuns DEF Fork, Return
    <3>3. run \in Seq(Steps)
      BY IndexRuns
    <3> QED
      BY <1>1, <1>2, <2>2, <3>1, <3>2, <3>3, DoShape
  <2>10. CASE ForkStaged
    <3>1. op.kind = "fork" /\ UNCHANGED <<life, open>>
      BY <1>2, <2>10 DEF ForkStaged, At, PlaceOK, ForkSteps
    <3>2. HasFamiliar(op.src) \in BOOLEAN
      BY DEF HasFamiliar
    <3>3. PICK run \in Seq(StagingRun) : Do(op.id, run, "fork.publish")
      BY <2>10, <3>2, ForkRuns DEF ForkStaged
    <3>4. run \in Seq(Steps)
      BY ForkRuns
    <3> QED
      BY <1>1, <1>2, <2>2, <3>1, <3>3, <3>4, DoShape
  <2> QED
    BY <2>1, <2>3, <2>4, <2>5, <2>6, <2>7, <2>8, <2>9, <2>10
<1> QED
  BY <1>3, <1>4

LEMMA StageShape ==
  ASSUME TypeOK, OpOK,
         ForkPublish \/ Undo \/ UndoIndex \/ UndoFiles \/ UndoMark \/ UndoRemark \/ Undone
  PROVE  OpOK'
<1>1. PICK p \in {"fork.publish", "undo", "undo.index", "undo.files", "undo.mark", "undo.remark",
                  "undone"} : At(p)
  BY DEF ForkPublish, Undo, UndoIndex, UndoFiles, UndoMark, UndoRemark, Undone
<1>2. /\ op \in Ops /\ op.at = p /\ op.todo = <<>> /\ op.kind \in Kinds /\ PlaceOK
      /\ FreshGens # {}
  BY <1>1, Working1
<1>3. /\ op.kind = "fork" /\ op.id \in Ids /\ op.src \in Ids /\ op.src # op.id /\ op.job = op.id
      /\ op.job \in Ids
  BY <1>2 DEF PlaceOK, ForkSteps, StageSteps
<1>4. CASE op' = NoOp
  BY <1>4, ReturnShape
<1>5. CASE op' # NoOp
  <2>1. UNCHANGED open /\ LifeLoses
    <3>1. CASE ForkPublish \/ Undo
      BY <3>1 DEF ForkPublish, Undo, LifeLoses, TypeOK, Quarantine
    <3>2. CASE UndoIndex \/ UndoFiles \/ UndoMark \/ UndoRemark
      BY <3>2 DEF UndoIndex, UndoFiles, UndoMark, UndoRemark, LifeLoses
    <3>3. CASE Undone
      BY <3>3 DEF Undone, LifeLoses, TypeOK, Quarantine, Nothing
    <3> QED
      BY <3>1, <3>2, <3>3
  <2>2. FreshGens' # {}
    BY <1>2, <2>1, FreshStay DEF LifeLoses
  <2>3. ASSUME NEW q \in StageSteps, NEW run \in Seq(Steps), Goes(q, run), op'.job = op.id,
               q \in {"undo", "undone", "undo.remark"} => run = <<>> \/ q = "undone",
               q = "fork.commit" => run \in Seq(PublicationRun),
               q = "undo.index" => run = Records,
               q = "undo.files" => run \in Seq(UnindexRun),
               q = "undo.mark" => run \in Seq(UnpublishRun),
               q = "undone" => run \in Seq(RemarkRun),
               q # "fork.publish"
        PROVE  OpOK'
    <3>1. Records \in Seq(Removals(RecordArts, "collect"))
      BY CleanRuns
    <3>2. RunOK'
      BY <2>3, <3>1 DEF RunOK, Only, Goes, PublicationRun, UnindexRun, UnpublishRun, RemarkRun,
         StageSteps
    <3> QED
      BY <1>2, <1>3, <2>2, <2>3, <3>2, MovedShape
         DEF Goes, PlaceOK, CreateSteps, ForkSteps, StageSteps,
         CleanSteps
  <2>4. StageSteps \subseteq Places /\ op.id \in Named /\ <<>> \in Seq(Steps)
        /\ <<>> \in Seq(RemarkRun)
    BY <1>3, PlacesTyped, Named1, EmptySeq
  <2>5. CASE ForkPublish
    <3>1. CASE op' = [op EXCEPT !.quarantined = TRUE, !.todo = Publication, !.at = "fork.commit"]
      <4>1. Publication \in Seq(Steps) /\ Publication \in Seq(PublicationRun)
        BY ForkRuns
      <4>2. "fork.commit" \in StageSteps
        BY DEF StageSteps
      <4>3. Goes("fork.commit", Publication) /\ op'.job = op.id
        BY <1>2, <1>3, <2>4, <3>1, <4>1, <4>2 DEF Goes, Ops
      <4> QED
        BY <2>3, <4>1, <4>2, <4>3
    <3>2. CASE op' = [op EXCEPT !.quarantined = TRUE, !.at = "undo"]
      <4>1. "undo" \in StageSteps
        BY DEF StageSteps
      <4>2. Goes("undo", <<>>) /\ op'.job = op.id
        BY <1>2, <1>3, <2>4, <3>2, <4>1 DEF Goes, Ops
      <4> QED
        BY <2>3, <2>4, <4>1, <4>2
    <3> QED
      BY <2>5, <3>1, <3>2 DEF ForkPublish
  <2>6. CASE Undo
    <3>1. CASE op' = [op EXCEPT !.at = "undone", !.errs = TRUE]
      <4>1. "undone" \in StageSteps
        BY DEF StageSteps
      <4>2. Goes("undone", <<>>) /\ op'.job = op.id
        BY <1>2, <1>3, <2>4, <3>1, <4>1 DEF Goes, Ops
      <4> QED
        BY <2>3, <2>4, <4>1, <4>2
    <3>2. CASE Do(op.id, Records, "undo.index")
      <4>1. "undo.index" \in StageSteps /\ Records \in Seq(Steps)
        BY CleanRuns DEF StageSteps
      <4>2. Goes("undo.index", Records) /\ op'.job = op.id
        BY <1>2, <2>4, <3>2, <4>1, DoFields
      <4> QED
        BY <2>3, <4>1, <4>2
    <3>3. CASE op' = [op EXCEPT !.dropped = TRUE]
      <4>1. "undo" \in StageSteps /\ p = "undo"
        BY <1>2, <2>6 DEF StageSteps, Undo, At
      <4>2. Goes("undo", <<>>) /\ op'.job = op.id
        BY <1>2, <1>3, <3>3, <4>1 DEF Goes, Ops
      <4> QED
        BY <2>3, <2>4, <4>1, <4>2
    <3> QED
      BY <1>5, <2>6, <3>1, <3>2, <3>3 DEF Undo, Return
  <2>7. CASE UndoIndex
    <3>1. Unindexing \in Seq(UnindexRun) /\ Unindexing \in Seq(Steps)
      BY <1>2, UndoRuns
    <3>2. Then(Unindexing, "undo.files") /\ "undo.files" \in StageSteps
      BY <2>7 DEF UndoIndex, Unindexing, StageSteps
    <3>3. Goes("undo.files", Unindexing) /\ op'.job = op.id
      BY <1>2, <1>3, <2>4, <3>1, <3>2, ThenFields DEF Carried
    <3> QED
      BY <2>3, <3>1, <3>2, <3>3
  <2>8. CASE UndoFiles
    <3>1. Unpublishing \in Seq(UnpublishRun) /\ Unpublishing \in Seq(Steps)
      BY <1>2, UndoRuns
    <3>2. Then(Unpublishing, "undo.mark") /\ "undo.mark" \in StageSteps
      BY <2>8 DEF UndoFiles, Unpublishing, StageSteps
    <3>3. Goes("undo.mark", Unpublishing) /\ op'.job = op.id
      BY <1>2, <1>3, <2>4, <3>1, <3>2, ThenFields DEF Carried
    <3> QED
      BY <2>3, <3>1, <3>2, <3>3
  <2>9. CASE UndoMark
    <3> DEFINE run == When(~op.errs, Unmark("forkmark", "undo.remark"))
    <3>1. run \in Seq(RemarkRun) /\ run \in Seq(Steps)
      BY <1>2, UndoRuns
    <3>2. Then(run, "undone") /\ "undone" \in StageSteps
      BY <2>9 DEF UndoMark, StageSteps
    <3> HIDE DEF run
    <3>3. Goes("undone", run) /\ op'.job = op.id
      BY <1>2, <1>3, <2>4, <3>1, <3>2, ThenFields DEF Carried
    <3> QED
      BY <2>3, <3>1, <3>2, <3>3
  <2>10. CASE UndoRemark
    <3> DEFINE run == <<Step("add", {"forkmark"}, "collect")>>
    <3>1. run \in Seq(RemarkRun) /\ run \in Seq(Steps)
      BY <1>2, UndoRuns
    <3>2. Then(run, "undone") /\ "undone" \in StageSteps
      BY <2>10 DEF UndoRemark, StageSteps
    <3> HIDE DEF run
    <3>3. Goes("undone", run) /\ op'.job = op.id
      BY <1>2, <1>3, <2>4, <3>1, <3>2, ThenFields DEF Carried
    <3> QED
      BY <2>3, <3>1, <3>2, <3>3
  <2>11. ~Undone
    BY <1>5 DEF Undone, Return
  <2> QED
    BY <2>5, <2>6, <2>7, <2>8, <2>9, <2>10, <2>11
<1> QED
  BY <1>4, <1>5

LEMMA BeginShape == ASSUME TypeOK, OpOK, BeginAny PROVE OpOK'
<1>1. PICK kind \in Kinds, s \in Named, src \in Named :
        /\ Begin(kind, s, src)
        /\ kind \in {"create", "resume", "delete", "fork"} => s \in Ids
        /\ kind = "fork" => src \in Ids /\ src # s
  <2>1. CASE Begin("list", Nobody, Nobody)
    BY <2>1 DEF Kinds, Named
  <2>2. ASSUME NEW s \in Ids, NEW kind \in {"create", "resume", "delete"}, Begin(kind, s, Nobody)
        PROVE  \E k \in Kinds, t \in Named, src \in Named :
                 /\ Begin(k, t, src)
                 /\ k \in {"create", "resume", "delete", "fork"} => t \in Ids
                 /\ k = "fork" => src \in Ids /\ src # t
    <3>1. kind \in Kinds /\ s \in Named /\ Nobody \in Named /\ kind # "fork"
      BY DEF Kinds, Named
    <3> QED
      BY <2>2, <3>1
  <2>3. ASSUME NEW s \in Ids, NEW src \in Ids, s # src, Begin("fork", s, src)
        PROVE  \E k \in Kinds, t \in Named, r \in Named :
                 /\ Begin(k, t, r)
                 /\ k \in {"create", "resume", "delete", "fork"} => t \in Ids
                 /\ k = "fork" => r \in Ids /\ r # t
    <3>1. "fork" \in Kinds /\ s \in Named /\ src \in Named
      BY DEF Kinds, Named
    <3> QED
      BY <2>3, <3>1
  <2> QED
    BY <2>1, <2>2, <2>3 DEF BeginAny
<1>2. /\ op' = [NoOp EXCEPT !.kind = kind, !.id = s, !.src = src, !.at = "preflight"]
      /\ FreshGens # {} /\ UNCHANGED <<life, open>>
  BY <1>1 DEF Begin
<1>3. "preflight" \in Places
  BY DEF Places
<1>4. /\ op' \in Ops /\ op'.at = "preflight" /\ op'.kind = kind /\ op'.id = s /\ op'.src = src
      /\ op'.todo = <<>>
  <2>1. NoOp \in Ops /\ NoOp.todo = <<>>
    BY NoOpTyped
  <2> QED
    BY <1>2, <1>3, <2>1 DEF Ops
<1>5. op' # NoOp /\ op'.kind # "none"
  BY <1>4, NoOpTyped DEF Kinds
<1>6. PlaceOK'
  BY <1>1, <1>4, <1>5 DEF PlaceOK, CreateSteps, ForkSteps, StageSteps, CleanSteps
<1>7. RunOK'
  BY <1>4, NoRun
<1>8. FreshGens' # {}
  BY <1>2 DEF FreshGens
<1> QED
  BY <1>4, <1>6, <1>7, <1>8 DEF OpOK

LEMMA OutsideShape ==
  ASSUME TypeOK, OpOK,
         \/ \E h \in Handles : Persist(h) \/ GoalWrite(h) \/ DropHandle(h)
         \/ Crash \/ PowerLoss
  PROVE  OpOK'
<1>1. CASE Crash \/ PowerLoss
  BY <1>1, ReturnShape DEF Crash, PowerLoss, Restart
<1>2. CASE \E h \in Handles : Persist(h) \/ GoalWrite(h) \/ DropHandle(h)
  <2>1. op' = op /\ \A s \in Ids : life'[s] = life[s]
    BY <1>2 DEF Persist, GoalWrite, DropHandle
  <2>2. \A h \in Handles : open'[h] = open[h] \/ open'[h] = Closed
    BY <1>2 DEF Persist, GoalWrite, DropHandle, TypeOK
  <2>3. op.at # "idle" => FreshGens' # {}
    BY <2>1, <2>2, FreshStay DEF OpOK
  <2> QED
    BY <2>1, <2>3 DEF OpOK, PlaceOK, RunOK, Only, Filed
<1> QED
  BY <1>1, <1>2

\* Every step keeps the shape of the operation under the lock.
LEMMA OpStep == ASSUME TypeOK, StoreOK, OpOK, Next PROVE OpOK'
BY TakeStepShape, CleanStepsShape, CleanedShape, RecoveryShape, UserShape, StageShape, BeginShape,
   OutsideShape DEF Next, Working

-----------------------------------------------------------------------------
(* What each step does                                                      *)

\* It goes to a place with a run for session s.
Does(p, s, run) ==
  /\ Goes(p, run) /\ op'.job = s /\ op'.errs = FALSE /\ op'.mark = op.mark
  /\ op'.back = op.back /\ op'.quarantined = op.quarantined /\ op'.dropped = op.dropped
  /\ op'.indexed = op.indexed

LEMMA MarkerEffect ==
  ASSUME StoreOK, NEW s \in Ids, NEW m \in Markers
  PROVE  /\ MarkerKept(s, m) => /\ StoreOK' /\ Adds(s, {m}) /\ m \in disk'[s] /\ m \in dur'[s]
                                /\ UNCHANGED faults
         /\ MarkerFails(s, m) => StoreOK' /\ Adds(s, {m}) /\ Fault
<1>1. {m} \in SUBSET Artifacts
  BY DEF Artifacts
<1> QED
  BY <1>1, AddEffect, AddFailsEffect DEF MarkerKept, MarkerFails

LEMMA StoreStays == ASSUME StoreOK, UNCHANGED <<disk, dur>> PROVE StoreOK'
BY DEF StoreOK, DatabasesOK

\* The steps of cleanup_session_artifacts between its runs.
CleanMove ==
  \/ /\ op.at = "ensure" /\ Adds(op.job, {op.mark}) /\ UNCHANGED life
     /\ \/ Fault /\ op' = NoOp
        \/ /\ op.mark \in disk'[op.job] /\ op.mark \in dur'[op.job] /\ UNCHANGED faults
           /\ \/ op' = NoOp
              \/ /\ op.mark = "forkmark" => "delmark" \notin disk[op.job]
                 /\ Does("records", op.job, Records)
  \/ /\ op.at = "records" /\ UNCHANGED <<disk, dur, life, faults>>
     /\ \/ op.errs /\ Goes("restore", <<>>) /\ Carried
        \/ ~op.errs /\ Does("databases", op.job, DatabaseRows)
  \/ /\ op.at = "databases" /\ UNCHANGED <<disk, dur, life, faults>>
     /\ Does("files", op.job, Files(op.mark))
  \/ /\ op.at = "files" /\ UNCHANGED <<disk, dur, life>>
     /\ \/ /\ ~op.errs /\ disk[op.job] = {op.mark} /\ UNCHANGED faults
           /\ Does("cleaned", op.job, Unmark(op.mark, "restore"))
        \/ Goes("restore", <<>>) /\ Carried /\ (Fault \/ UNCHANGED faults)
  \/ /\ op.at = "restore" /\ Adds(op.job, {op.mark}) /\ UNCHANGED life /\ op' = NoOp
     /\ \/ Fault
        \/ op.mark \in disk'[op.job] /\ op.mark \in dur'[op.job] /\ UNCHANGED faults
  \/ /\ op.at = "cleaned" /\ UNCHANGED <<disk, dur, faults>>
     /\ Goes(op.back, <<>>) /\ Carried
     /\ life'[op.job] = IF life[op.job] = Quarantine \/ op.back = "fork.stage" THEN Nothing
                        ELSE life[op.job]
     /\ \A s \in Ids : s # op.job => life'[s] = life[s]

LEMMA CleanEffect ==
  ASSUME TypeOK, StoreOK, OpOK,
         EnsureMarker \/ RecordsGone \/ RowsGone \/ FilesGone \/ Restore \/ Cleaned
  PROVE  /\ CleanMove /\ StoreOK' /\ op.at \in CleanSteps /\ op.todo = <<>>
         /\ op.job \in Ids /\ op.mark \in Markers /\ op \in Ops /\ op.at # "idle"
         /\ UNCHANGED <<open, deleted, acked, crashes, late>>
<1>1. PICK p \in CleanSteps : At(p)
  BY DEF EnsureMarker, RecordsGone, RowsGone, FilesGone, Restore, Cleaned, CleanSteps
<1>2. op \in Ops /\ op.at = p /\ op.todo = <<>> /\ op.at # "idle" /\ PlaceOK
  BY <1>1, Working1 DEF CleanSteps
<1>3. op.job \in Ids /\ op.mark \in Markers /\ op.job \in Named
  BY <1>2, Named1 DEF PlaceOK
<1>4. op.back \in Places
  BY <1>2 DEF Ops
<1>5. UNCHANGED <<open, deleted, acked, crashes, late>>
  BY DEF EnsureMarker, RecordsGone, RowsGone, FilesGone, Restore, Cleaned, history, bounds
<1>6. CASE EnsureMarker
  <2>1. StoreOK' /\ Adds(op.job, {op.mark}) /\ UNCHANGED life /\ op.at = "ensure"
    BY <1>3, <1>6, MarkerEffect DEF EnsureMarker, At
  <2>2. CASE MarkerFails(op.job, op.mark) /\ Return
    BY <1>2, <1>3, <1>5, <2>1, <2>2, MarkerEffect DEF CleanMove, Return, CleanSteps
  <2>3. CASE MarkerKept(op.job, op.mark)
             /\ IF op.mark = "forkmark" /\ "delmark" \in disk[op.job]
                THEN Return ELSE Do(op.job, Records, "records")
    <3>1. op.mark \in disk'[op.job] /\ op.mark \in dur'[op.job] /\ UNCHANGED faults
      BY <1>3, <2>3, MarkerEffect
    <3>2. CASE Return
      BY <1>2, <1>3, <1>5, <2>1, <3>1, <3>2 DEF CleanMove, Return, CleanSteps
    <3>3. CASE (op.mark = "forkmark" => "delmark" \notin disk[op.job])
               /\ Do(op.job, Records, "records")
      <4>1. Does("records", op.job, Records)
        BY <1>2, <1>3, <3>3, DoFields, CleanRuns, PlacesTyped DEF Does
      <4> QED
        BY <1>2, <1>3, <1>5, <2>1, <3>1, <3>3, <4>1 DEF CleanMove, CleanSteps
    <3> QED
      BY <2>3, <3>2, <3>3
  <2> QED
    BY <1>6, <2>2, <2>3 DEF EnsureMarker
<1>7. CASE RecordsGone
  <2>1. UNCHANGED <<disk, dur, life, faults>> /\ op.at = "records" /\ StoreOK'
    BY <1>7, StoreStays DEF RecordsGone, bounds, At
  <2>2. op.errs => Goes("restore", <<>>) /\ Carried
    BY <1>2, <1>7, GotoFields, PlacesTyped DEF RecordsGone
  <2>3. ~op.errs => Does("databases", op.job, DatabaseRows)
    BY <1>2, <1>3, <1>7, DoFields, CleanRuns, PlacesTyped DEF RecordsGone, Does
  <2> QED
    BY <1>2, <1>3, <1>5, <2>1, <2>2, <2>3 DEF CleanMove, CleanSteps
<1>8. CASE RowsGone
  <2>1. UNCHANGED <<disk, dur, life, faults>> /\ op.at = "databases" /\ StoreOK'
    BY <1>8, StoreStays DEF RowsGone, bounds, At
  <2>2. Does("files", op.job, Files(op.mark))
    BY <1>2, <1>3, <1>8, DoFields, CleanRuns, PlacesTyped DEF RowsGone, Does
  <2> QED
    BY <1>2, <1>3, <1>5, <2>1, <2>2 DEF CleanMove, CleanSteps
<1>9. CASE FilesGone
  <2>1. UNCHANGED <<disk, dur, life>> /\ op.at = "files" /\ StoreOK'
    BY <1>9, StoreStays DEF FilesGone, At
  <2>2. CASE Goto("restore") /\ (Fault \/ UNCHANGED faults)
    <3>1. Goes("restore", <<>>) /\ Carried
      BY <1>2, <2>2, GotoFields, PlacesTyped
    <3> QED
      BY <1>2, <1>3, <1>5, <2>1, <2>2, <3>1 DEF CleanMove, CleanSteps
  <2>3. CASE /\ ~op.errs /\ disk[op.job] = {op.mark}
             /\ Do(op.job, Unmark(op.mark, "restore"), "cleaned")
             /\ UNCHANGED faults
    <3>1. Does("cleaned", op.job, Unmark(op.mark, "restore"))
      BY <1>2, <1>3, <2>3, DoFields, UnmarkRun, PlacesTyped DEF Does
    <3> QED
      BY <1>2, <1>3, <1>5, <2>1, <2>3, <3>1 DEF CleanMove, CleanSteps
  <2> QED
    BY <1>9, <2>2, <2>3 DEF FilesGone
<1>10. CASE Restore
  <2>1. StoreOK' /\ Adds(op.job, {op.mark}) /\ UNCHANGED life /\ op.at = "restore" /\ op' = NoOp
        /\ (Fault \/ (op.mark \in disk'[op.job] /\ op.mark \in dur'[op.job] /\ UNCHANGED faults))
    BY <1>3, <1>10, MarkerEffect DEF Restore, At, Return
  <2> QED
    BY <1>2, <1>3, <1>5, <2>1 DEF CleanMove, CleanSteps
<1>11. CASE Cleaned
  <2>1. UNCHANGED <<disk, dur, faults>> /\ op.at = "cleaned" /\ StoreOK'
    BY <1>11, StoreStays DEF Cleaned, bounds, At
  <2>2. Goes(op.back, <<>>) /\ Carried
    BY <1>2, <1>4, <1>11, GotoFields DEF Cleaned
  <2>3. /\ life'[op.job] = IF life[op.job] = Quarantine \/ op.back = "fork.stage" THEN Nothing
                           ELSE life[op.job]
        /\ \A s \in Ids : s # op.job => life'[s] = life[s]
    BY <1>3, <1>11 DEF Cleaned, TypeOK
  <2> QED
    BY <1>2, <1>3, <1>5, <2>1, <2>2, <2>3 DEF CleanMove, CleanSteps
<1> QED
  BY <1>6, <1>7, <1>8, <1>9, <1>10, <1>11

\* It goes to clean up session s under mark m.
CleansTo(s, m, b) ==
  /\ Goes("ensure", <<>>) /\ op'.job = s /\ op'.mark = m /\ op'.back = b

NoMarks == \A s \in Ids : Marks(s) = {}

OtherLives(s) == \A t \in Ids : t # s => life'[t] = life[t]

DeletionMove(s, b) ==
  /\ Adds(s, {"delmark"}) /\ OtherLives(s)
  /\ \/ /\ "delmark" \in disk'[s] /\ "delmark" \in dur'[s] /\ UNCHANGED faults
        /\ CleansTo(s, "delmark", b) /\ life'[s] = Tombstone
     \/ /\ Fault /\ op' = NoOp
        /\ life'[s] = IF "delmark" \in disk'[s] THEN Tombstone ELSE life[s]

ReuseMove(s, b) ==
  /\ Adds(s, {"delmark"}) /\ UNCHANGED life
  /\ \/ /\ "delmark" \in disk'[s] /\ "delmark" \in dur'[s] /\ UNCHANGED faults
        /\ CleansTo(s, "delmark", b)
     \/ Fault /\ op' = NoOp

LEMMA DeletionEffect ==
  ASSUME TypeOK, StoreOK, op \in Ops, op.todo = <<>>, NEW s \in Ids, NEW b \in Places
  PROVE  /\ BeginDeletion(s, b) => DeletionMove(s, b) /\ StoreOK'
         /\ BeginReuse(s, b) /\ UNCHANGED life => ReuseMove(s, b) /\ StoreOK'
<1>1. "delmark" \in Markers
  BY DEF Markers
<1>2. Clean(s, "delmark", b) => CleansTo(s, "delmark", b)
  BY <1>1, CleanFields DEF CleansTo
<1>3. /\ MarkerKept(s, "delmark") => /\ StoreOK' /\ Adds(s, {"delmark"}) /\ "delmark" \in disk'[s]
                                     /\ "delmark" \in dur'[s] /\ UNCHANGED faults
      /\ MarkerFails(s, "delmark") => StoreOK' /\ Adds(s, {"delmark"}) /\ Fault
  BY <1>1, MarkerEffect
<1>4. ASSUME BeginDeletion(s, b) PROVE DeletionMove(s, b) /\ StoreOK'
  <2>1. CASE MarkerKept(s, "delmark") /\ life' = [life EXCEPT ![s] = Tombstone]
             /\ Clean(s, "delmark", b)
    <3>1. life'[s] = Tombstone /\ OtherLives(s)
      BY <2>1 DEF TypeOK, OtherLives
    <3> QED
      BY <1>2, <1>3, <2>1, <3>1 DEF DeletionMove
  <2>2. CASE /\ MarkerFails(s, "delmark")
             /\ life' = IF "delmark" \in disk'[s] THEN [life EXCEPT ![s] = Tombstone] ELSE life
             /\ Return
    <3>1. life'[s] = (IF "delmark" \in disk'[s] THEN Tombstone ELSE life[s]) /\ OtherLives(s)
      BY <2>2 DEF TypeOK, OtherLives
    <3> QED
      BY <1>3, <2>2, <3>1 DEF DeletionMove, Return
  <2> QED
    BY <1>4, <2>1, <2>2 DEF BeginDeletion
<1>5. ASSUME BeginReuse(s, b), UNCHANGED life PROVE ReuseMove(s, b) /\ StoreOK'
  BY <1>2, <1>3, <1>5 DEF BeginReuse, ReuseMove, Return
<1> QED
  BY <1>4, <1>5

\* recover_storage_unlocked
RecoverMove ==
  \/ /\ op.at = "preflight" /\ UNCHANGED <<disk, dur>>
     /\ \/ op' = NoOp /\ UNCHANGED life
        \/ /\ Unmarked = {} /\ Goes("recover", <<>>) /\ Carried /\ UNCHANGED faults
           /\ \A s \in Ids : life'[s] = IF "delmark" \in disk[s] THEN Tombstone
                                        ELSE IF "forkmark" \in disk[s] THEN Quarantine
                                        ELSE life[s]
  \/ /\ op.at = "recover" /\ UNCHANGED <<disk, dur, life, faults>>
     /\ \/ \E s \in Ids, m \in Markers : /\ m \in disk[s] /\ CleansTo(s, m, "recover")
                                         /\ m = "forkmark" => "delmark" \notin disk[s]
        \/ /\ NoMarks
           /\ \/ op' = NoOp
              \/ Goes(op.kind, <<>>) /\ Carried
              \/ \E s \in Ids, run \in Seq(Repairs) :
                   /\ Does("recover", s, run) /\ ~Skipped(s)
                   /\ disk[s] \cap (Slot \cup {"row"}) # {}
                   /\ "transcript" \in disk[s] \/ \A i \in DOMAIN run : run[i].verb = "remove"
  \/ /\ op.at = "recover" /\ NoMarks
     /\ \E s \in Ids : /\ DeletionMove(s, "recover") /\ ~Skipped(s)
                       /\ "transcript" \notin disk[s]
                       /\ disk[s] \cap {"row", "oversized"} # {}

LEMMA RecoverEffect ==
  ASSUME TypeOK, StoreOK, OpOK,
         Preflight \/ RecoverMarked \/ ResolveRecord \/ RefuseRecord \/ DeleteUnpublished
           \/ DeleteGhost \/ ReconcileLegacy \/ Recovered
  PROVE  /\ RecoverMove /\ StoreOK' /\ op.todo = <<>> /\ op.at # "idle" /\ op.kind \in Kinds
         /\ UNCHANGED <<open, deleted, acked, crashes, late>>
<1>1. PICK p \in {"preflight", "recover"} : At(p)
  BY DEF Preflight, RecoverMarked, ResolveRecord, RefuseRecord, DeleteUnpublished, DeleteGhost,
     ReconcileLegacy, Recovered
<1>2. op \in Ops /\ op.at = p /\ op.todo = <<>> /\ op.kind \in Kinds /\ PlaceOK
  BY <1>1, Working1
<1>3. UNCHANGED <<open, deleted, acked, crashes, late>>
  BY DEF Preflight, RecoverMarked, ResolveRecord, RefuseRecord, DeleteUnpublished, DeleteGhost,
     ReconcileLegacy, Recovered, history, bounds
<1>4. DeletionMarked \cup ForkMarked = {} => NoMarks
  BY DEF DeletionMarked, ForkMarked, NoMarks, Marks, Markers
<1>5. CASE Preflight
  <2>1. UNCHANGED <<disk, dur>> /\ op.at = "preflight" /\ StoreOK'
    BY <1>5, StoreStays DEF Preflight, At
  <2>2. Goto("recover") => Goes("recover", <<>>) /\ Carried
    BY <1>2, GotoFields, PlacesTyped
  <2>3. RecoverMove
    BY <1>5, <2>1, <2>2 DEF Preflight, RecoverMove, Return
  <2> QED
    BY <1>2, <1>3, <2>1, <2>3
<1>6. CASE RecoverMarked
  <2>1. PICK s \in Ids, m \in Markers :
          /\ m \in disk[s] /\ Clean(s, m, "recover")
          /\ m = "forkmark" => "delmark" \notin disk[s]
    BY <1>6 DEF RecoverMarked, DeletionMarked, ForkMarked, Markers
  <2>2. CleansTo(s, m, "recover")
    BY <1>2, <2>1, CleanFields, PlacesTyped DEF CleansTo
  <2>3. op.at = "recover" /\ UNCHANGED <<disk, dur, life, faults>> /\ StoreOK'
    BY <1>6, StoreStays DEF RecoverMarked, bounds, At
  <2>4. RecoverMove
    BY <2>1, <2>2, <2>3 DEF RecoverMove
  <2> QED
    BY <1>2, <1>3, <2>3, <2>4
<1>7. CASE ResolveRecord \/ ReconcileLegacy
  <2>1. UNCHANGED <<disk, dur, life, faults>> /\ StoreOK' /\ op.at = "recover" /\ NoMarks
    BY <1>4, <1>7, StoreStays DEF ResolveRecord, ReconcileLegacy, bounds, At
  <2>2. PICK s \in Ids, run \in Seq(Repairs) :
          /\ Do(s, run, "recover") /\ ~Skipped(s) /\ disk[s] \cap (Slot \cup {"row"}) # {}
          /\ "transcript" \in disk[s] \/ \A i \in DOMAIN run : run[i].verb = "remove"
    <3>1. CASE ResolveRecord
      <4>1. PICK s \in Recorded : \E run \in Scripts(s) : Do(s, run, "recover")
        BY <3>1 DEF ResolveRecord
      <4>a. PICK run \in Scripts(s) : Do(s, run, "recover")
        BY <4>1
      <4>2. /\ s \in Ids /\ ~Skipped(s) /\ disk[s] \cap (Slot \cup {"row"}) # {}
        BY <4>1 DEF Recorded
      <4>3. /\ run \in {PublishRecord, DropRecord, Reconcile, Rebuild}
            /\ "transcript" \in disk[s] \/ run = DropRecord
        BY <4>a DEF Scripts
      <4>4. run \in Seq(Repairs)
        BY <4>3, RepairRuns
      <4>5. "transcript" \in disk[s] \/ \A i \in DOMAIN run : run[i].verb = "remove"
        BY <4>3, RepairRuns
      <4> QED
        BY <4>a, <4>2, <4>4, <4>5
    <3>2. CASE ReconcileLegacy
      <4>1. PICK s \in Uncounted : "transcript" \in disk[s] /\ Do(s, Reconcile, "recover")
        BY <3>2 DEF ReconcileLegacy
      <4> QED
        BY <4>1, RepairRuns DEF Uncounted
    <3> QED
      BY <1>7, <3>1, <3>2
  <2>3. run \in Seq(Steps) /\ s \in Named
    BY <2>2, RepairRuns, Named1
  <2>4. Does("recover", s, run)
    BY <1>2, <2>2, <2>3, DoFields, PlacesTyped DEF Does
  <2>5. RecoverMove
    BY <2>1, <2>2, <2>4 DEF RecoverMove
  <2> QED
    BY <1>2, <1>3, <2>1, <2>5
<1>8. CASE RefuseRecord
  <2>1. UNCHANGED <<disk, dur, life, faults>> /\ StoreOK' /\ op.at = "recover" /\ NoMarks
        /\ op' = NoOp
    BY <1>4, <1>8, StoreStays DEF RefuseRecord, bounds, At, Return
  <2>2. RecoverMove
    BY <2>1 DEF RecoverMove
  <2> QED
    BY <1>2, <1>3, <2>1, <2>2
<1>9. CASE DeleteUnpublished \/ DeleteGhost
  <2>1. PICK s \in Ids : /\ BeginDeletion(s, "recover") /\ ~Skipped(s) /\ "transcript" \notin disk[s]
                         /\ disk[s] \cap {"row", "oversized"} # {}
    BY <1>9 DEF DeleteUnpublished, DeleteGhost, Unpublished, Recorded, Uncounted
  <2>2. op.at = "recover" /\ NoMarks
    BY <1>4, <1>9 DEF DeleteUnpublished, DeleteGhost, At
  <2>3. DeletionMove(s, "recover") /\ StoreOK'
    BY <1>2, <2>1, DeletionEffect, PlacesTyped
  <2>4. RecoverMove
    BY <2>1, <2>2, <2>3 DEF RecoverMove
  <2> QED
    BY <1>2, <1>3, <2>3, <2>4
<1>10. CASE Recovered
  <2>1. UNCHANGED <<disk, dur, life, faults>> /\ StoreOK' /\ op.at = "recover" /\ NoMarks
        /\ Goto(op.kind)
    BY <1>4, <1>10, StoreStays DEF Recovered, bounds, At
  <2>2. Goes(op.kind, <<>>) /\ Carried
    BY <1>2, <2>1, GotoFields, PlacesTyped
  <2>3. RecoverMove
    BY <2>1, <2>2 DEF RecoverMove
  <2> QED
    BY <1>2, <1>3, <2>1, <2>3
<1> QED
  BY <1>5, <1>6, <1>7, <1>8, <1>9, <1>10

LEMMA FreshDrawn == ASSUME FreshGens # {} PROVE FreshGen \in Gens /\ FreshGen \in FreshGens
<1>1. FreshGen \in FreshGens
  BY DEF FreshGen
<1> QED
  BY <1>1 DEF FreshGens

\* list_sessions, delete_session, create and resume
UserMove ==
  \/ op.at \in {"list", "failed"} /\ UNCHANGED <<disk, dur, life, open, deleted, acked>> /\ op' = NoOp
  \/ /\ op.at = "delete" /\ op.kind = "delete" /\ op.id \in Ids
     /\ DeletionMove(op.id, "deleted")
     /\ acked' = acked \ {op.id} /\ UNCHANGED <<open, deleted>>
  \/ /\ op.at = "deleted" /\ op.id \in Ids /\ op' = NoOp
     /\ UNCHANGED <<disk, dur, life, open, acked>> /\ deleted' = deleted \cup {op.id}
  \/ /\ op.at \in {"create", "fork.id"} /\ op.id \in Ids /\ UNCHANGED <<life, open, acked>>
     /\ op.at = "fork.id" => op.kind = "fork"
     /\ op.at = "create" => op.kind = "create"
     /\ deleted' = deleted \ {op.id}
     /\ LET next == IF op.at = "create" THEN "create.write" ELSE "fork.stage"
        IN \/ op' = NoOp /\ UNCHANGED <<disk, dur, faults>>
           \/ life[op.id] = Tombstone /\ ReuseMove(op.id, next)
           \/ /\ life[op.id] = Nothing /\ Goes(next, <<>>) /\ Carried
              /\ UNCHANGED <<disk, dur, faults>>
  \/ /\ op.at = "create.write" /\ op.kind = "create" /\ op.id \in Ids
     /\ UNCHANGED <<disk, dur, life, open, deleted, acked, faults>>
     /\ \E run \in Seq(CreateRun) : Does("attach", op.id, run)
  \/ /\ op.at = "create.undo" /\ op.kind = "create" /\ op.id \in Ids
     /\ UNCHANGED <<disk, dur, life, open, deleted, acked, faults>>
     /\ \E run \in Seq(UncreateRun) : Does("failed", op.id, run)
  \/ /\ op.at = "resume" /\ op.kind = "resume" /\ op.id \in Ids
     /\ UNCHANGED <<disk, dur, life, open, deleted, acked, faults>>
     /\ \/ op' = NoOp
        \/ /\ Available(op.id) /\ ~Leased(op.id) /\ "transcript" \in disk[op.id]
           /\ \E run \in Seq(IndexRun) : Does("attach", op.id, run)
  \/ /\ op.at = "attach" /\ op.kind \in {"create", "resume"} /\ op.id \in Ids /\ op' = NoOp
     /\ UNCHANGED <<disk, dur, deleted, acked, faults>>
     /\ FreshGen \in FreshGens /\ FreshGen \in Gens
     /\ \E h \in Handles : /\ open[h] = Closed /\ open'[h] = [id |-> op.id, gen |-> FreshGen]
                           /\ \A k \in Handles : k # h => open'[k] = open[k]
     /\ life'[op.id] = Active(FreshGen) /\ OtherLives(op.id)
  \/ /\ op.at = "fork" /\ op.kind = "fork" /\ op.src \in Ids
     /\ UNCHANGED <<disk, dur, life, open, deleted, acked, faults>>
     /\ \/ op' = NoOp
        \/ /\ "transcript" \in disk[op.src]
           /\ \E run \in Seq(IndexRun) : Does("fork.id", op.src, run)
  \/ /\ op.at = "fork.stage" /\ op.kind = "fork" /\ op.id \in Ids
     /\ UNCHANGED <<disk, dur, life, open, deleted, acked, faults>>
     /\ \E run \in Seq(StagingRun) : "transcript" \in WhatOf(run) /\ Does("fork.publish", op.id, run)
  \/ /\ op.at = "fork.commit" /\ op.kind = "fork" /\ op.id \in Ids /\ op' = NoOp
     /\ UNCHANGED <<disk, dur, open, deleted, faults>>
     /\ FreshGen \in FreshGens /\ FreshGen \in Gens
     /\ acked' = acked \cup {op.id}
     /\ life'[op.id] = Active(FreshGen) /\ OtherLives(op.id)

LEMMA UserEffect ==
  ASSUME TypeOK, StoreOK, OpOK,
         List \/ Delete \/ Deleted \/ Create \/ CreateWrite \/ CreateUndo \/ Failed \/ Resume
           \/ Attach \/ Fork \/ ForkId \/ ForkStaged \/ ForkCommit
  PROVE  UserMove /\ StoreOK' /\ op.todo = <<>> /\ op.at # "idle" /\ UNCHANGED <<crashes, late>>
<1>1. PICK p \in {"list", "delete", "deleted", "create", "create.write", "create.undo", "failed",
                  "resume", "attach", "fork", "fork.id", "fork.stage", "fork.commit"} : At(p)
  BY DEF List, Delete, Deleted, Create, CreateWrite, CreateUndo, Failed, Resume, Attach, Fork,
     ForkId, ForkStaged, ForkCommit
<1>2. op \in Ops /\ op.at = p /\ op.todo = <<>> /\ op.kind \in Kinds /\ PlaceOK /\ FreshGens # {}
  BY <1>1, Working1
<1>3. UNCHANGED <<crashes, late>>
  BY DEF List, Delete, Deleted, Create, CreateWrite, CreateUndo, Failed, Resume, Attach, Fork,
     ForkId, ForkStaged, ForkCommit, bounds
<1>4. /\ op.kind \in {"create", "resume", "delete", "fork"} => op.id \in Ids
      /\ op.kind = "fork" => op.src \in Ids
  BY <1>2 DEF PlaceOK
<1>5. FreshGen \in FreshGens /\ FreshGen \in Gens
  BY <1>2, FreshDrawn
<1>6. UNCHANGED <<disk, dur>> => StoreOK'
  BY StoreStays
<1>7. CASE List \/ Failed
  <2>1. UserMove /\ UNCHANGED <<disk, dur>>
    BY <1>7 DEF List, Failed, Return, At, UserMove, history
  <2> QED
    BY <1>2, <1>3, <1>6, <2>1
<1>8. CASE Delete
  <2>1. BeginDeletion(op.id, "deleted") /\ op.kind = "delete" /\ op.at = "delete"
        /\ acked' = acked \ {op.id} /\ UNCHANGED <<open, deleted>>
    BY <1>2, <1>8 DEF Delete, At, PlaceOK
  <2>2. DeletionMove(op.id, "deleted") /\ StoreOK'
    BY <1>2, <1>4, <2>1, DeletionEffect, PlacesTyped
  <2>3. UserMove
    BY <1>4, <2>1, <2>2 DEF UserMove
  <2> QED
    BY <1>2, <1>3, <2>2, <2>3
<1>9. CASE Deleted
  <2>1. op.kind = "delete" /\ op.at = "deleted"
    BY <1>2, <1>9 DEF Deleted, At, PlaceOK
  <2>2. UserMove /\ UNCHANGED <<disk, dur>>
    BY <1>4, <1>9, <2>1 DEF Deleted, Return, UserMove
  <2> QED
    BY <1>2, <1>3, <1>6, <2>2
<1>10. CASE Create \/ ForkId
  <2> DEFINE next == IF op.at = "create" THEN "create.write" ELSE "fork.stage"
  <2>1. /\ op.at \in {"create", "fork.id"}
        /\ op.at = "fork.id" => op.kind = "fork"
        /\ op.at = "create" => op.kind = "create"
    BY <1>2, <1>10 DEF Create, ForkId, At, PlaceOK, CreateSteps, ForkSteps
  <2>2. /\ op.id \in Ids /\ UNCHANGED <<life, open, acked>> /\ deleted' = deleted \ {op.id}
        /\ next \in Places
    BY <1>4, <1>10, <2>1, PlacesTyped DEF Create, ForkId, ForkSteps
  <2>3. \/ op' = NoOp /\ UNCHANGED <<disk, dur, faults>>
        \/ life[op.id] = Tombstone /\ BeginReuse(op.id, next)
        \/ life[op.id] = Nothing /\ Goto(next) /\ UNCHANGED <<disk, dur, faults>>
    BY <1>10 DEF Create, ForkId, Return, At
  <2> HIDE DEF next
  <2>4. BeginReuse(op.id, next) => ReuseMove(op.id, next) /\ StoreOK'
    BY <1>2, <2>2, DeletionEffect
  <2>5. Goto(next) => Goes(next, <<>>) /\ Carried
    BY <1>2, <2>2, GotoFields
  <2>6. UserMove
    BY <2>1, <2>2, <2>3, <2>4, <2>5 DEF UserMove, next
  <2>7. StoreOK'
    BY <1>6, <2>3, <2>4
  <2> QED
    BY <1>2, <1>3, <2>6, <2>7
<1>11. CASE CreateWrite
  <2>1. op.kind = "create" /\ op.at = "create.write"
        /\ UNCHANGED <<disk, dur, life, open, deleted, acked, faults>>
    BY <1>2, <1>11 DEF CreateWrite, At, PlaceOK, CreateSteps, history, bounds
  <2>2. PICK run \in Seq(CreateRun) : Do(op.id, run, "attach")
    BY <1>11, CreateRuns DEF CreateWrite
  <2>3. run \in Seq(Steps) /\ op.id \in Named
    BY <1>4, <2>1, CreateRuns, Named1
  <2>4. Does("attach", op.id, run)
    BY <1>2, <2>2, <2>3, DoFields, PlacesTyped DEF Does
  <2>5. UserMove
    BY <1>4, <2>1, <2>4 DEF UserMove
  <2> QED
    BY <1>2, <1>3, <1>6, <2>1, <2>5
<1>12. CASE CreateUndo
  <2>1. op.kind = "create" /\ op.at = "create.undo"
        /\ UNCHANGED <<disk, dur, life, open, deleted, acked, faults>>
    BY <1>2, <1>12 DEF CreateUndo, At, PlaceOK, CreateSteps, history, bounds
  <2>2. PICK run \in Seq(UncreateRun) : Do(op.id, run, "failed")
    BY <1>12, CreateRuns DEF CreateUndo
  <2>3. run \in Seq(Steps) /\ op.id \in Named
    BY <1>4, <2>1, CreateRuns, Named1
  <2>4. Does("failed", op.id, run)
    BY <1>2, <2>2, <2>3, DoFields, PlacesTyped DEF Does
  <2>5. UserMove
    BY <1>4, <2>1, <2>4 DEF UserMove
  <2> QED
    BY <1>2, <1>3, <1>6, <2>1, <2>5
<1>13. CASE Resume
  <2>1. op.kind = "resume" /\ op.at = "resume" /\ op.id \in Named
        /\ UNCHANGED <<disk, dur, life, open, deleted, acked, faults>>
    BY <1>2, <1>4, <1>13, Named1 DEF Resume, At, PlaceOK, history, bounds
  <2>2. CASE op' = NoOp
    BY <1>2, <1>3, <1>4, <1>6, <2>1, <2>2 DEF UserMove
  <2>3. CASE op' # NoOp
    <3>1. Available(op.id) /\ ~Leased(op.id) /\ "transcript" \in disk[op.id]
      BY <1>13, <2>3 DEF Resume, Return
    <3>2. PICK run \in Seq(IndexRun) : Do(op.id, run, "attach")
      BY <1>13, <2>3, IndexRuns DEF Resume, Return
    <3>3. run \in Seq(Steps)
      BY IndexRuns
    <3>4. Does("attach", op.id, run)
      BY <1>2, <2>1, <3>2, <3>3, DoFields, PlacesTyped DEF Does
    <3>5. UserMove
      BY <1>4, <2>1, <3>1, <3>4 DEF UserMove
    <3> QED
      BY <1>2, <1>3, <1>6, <2>1, <3>5
  <2> QED
    BY <2>2, <2>3
<1>14. CASE Attach
  <2>1. op.kind \in {"create", "resume"} /\ op.at = "attach" /\ op' = NoOp /\ op.id \in Ids
        /\ UNCHANGED <<disk, dur, deleted, acked, faults>>
    BY <1>2, <1>4, <1>14 DEF Attach, At, PlaceOK, history, bounds, Return
  <2>2. PICK h \in Handles : /\ open[h] = Closed
                             /\ open' = [open EXCEPT ![h] = [id |-> op.id, gen |-> FreshGen]]
    BY <1>14 DEF Attach
  <2>3. /\ open'[h] = [id |-> op.id, gen |-> FreshGen]
        /\ \A k \in Handles : k # h => open'[k] = open[k]
    BY <2>2 DEF TypeOK
  <2>4. life'[op.id] = Active(FreshGen) /\ OtherLives(op.id)
    BY <1>14, <2>1 DEF Attach, TypeOK, OtherLives
  <2>5. UserMove
    BY <1>5, <2>1, <2>2, <2>3, <2>4 DEF UserMove
  <2> QED
    BY <1>2, <1>3, <1>6, <2>1, <2>5
<1>15. CASE Fork
  <2>1. op.kind = "fork" /\ op.at = "fork" /\ op.src \in Ids /\ op.src \in Named
        /\ UNCHANGED <<disk, dur, life, open, deleted, acked, faults>>
    BY <1>2, <1>4, <1>15, Named1 DEF Fork, At, PlaceOK, ForkSteps, history, bounds
  <2>2. CASE op' = NoOp
    BY <1>2, <1>3, <1>6, <2>1, <2>2 DEF UserMove
  <2>3. CASE op' # NoOp
    <3>1. "transcript" \in disk[op.src]
      BY <1>15, <2>3 DEF Fork, Return
    <3>2. PICK run \in Seq(IndexRun) : Do(op.src, run, "fork.id")
      BY <1>15, <2>3, IndexRuns DEF Fork, Return
    <3>3. run \in Seq(Steps) /\ "fork.id" \in Places
      BY IndexRuns, PlacesTyped DEF ForkSteps
    <3>4. Does("fork.id", op.src, run)
      BY <1>2, <2>1, <3>2, <3>3, DoFields DEF Does
    <3>5. UserMove
      BY <2>1, <3>1, <3>4 DEF UserMove
    <3> QED
      BY <1>2, <1>3, <1>6, <2>1, <3>5
  <2> QED
    BY <2>2, <2>3
<1>16. CASE ForkStaged
  <2>1. op.kind = "fork" /\ op.at = "fork.stage" /\ op.id \in Ids /\ op.id \in Named
        /\ UNCHANGED <<disk, dur, life, open, deleted, acked, faults>>
    BY <1>2, <1>4, <1>16, Named1 DEF ForkStaged, At, PlaceOK, ForkSteps, history, bounds
  <2>2. HasFamiliar(op.src) \in BOOLEAN
    BY DEF HasFamiliar
  <2>3. PICK run \in Seq(StagingRun) : "transcript" \in WhatOf(run) /\ Do(op.id, run, "fork.publish")
    BY <1>16, <2>2, ForkRuns DEF ForkStaged
  <2>4. run \in Seq(Steps) /\ "fork.publish" \in Places
    BY ForkRuns, PlacesTyped DEF StageSteps
  <2>5. Does("fork.publish", op.id, run)
    BY <1>2, <2>1, <2>3, <2>4, DoFields DEF Does
  <2>6. UserMove
    BY <2>1, <2>3, <2>5 DEF UserMove
  <2> QED
    BY <1>2, <1>3, <1>6, <2>1, <2>6
<1>17. CASE ForkCommit
  <2>1. op.kind = "fork" /\ op.at = "fork.commit" /\ op.id \in Ids /\ op' = NoOp
        /\ UNCHANGED <<disk, dur, open, deleted, faults>> /\ acked' = acked \cup {op.id}
    BY <1>2, <1>4, <1>17 DEF ForkCommit, At, PlaceOK, ForkSteps, StageSteps, bounds, Return
  <2>2. life'[op.id] = Active(FreshGen) /\ OtherLives(op.id)
    BY <1>17, <2>1 DEF ForkCommit, TypeOK, OtherLives
  <2>3. UserMove
    BY <1>5, <2>1, <2>2 DEF UserMove
  <2> QED
    BY <1>2, <1>3, <1>6, <2>1, <2>3
<1> QED
  BY <1>7, <1>8, <1>9, <1>10, <1>11, <1>12, <1>13, <1>14, <1>15, <1>16, <1>17

Going == Carried /\ op'.errs = op.errs /\ op'.indexed = op.indexed

\* The publication of a fork, and ForkStage::cleanup.
StageMove ==
  /\ op.kind = "fork" /\ op.id \in Ids /\ op.job = op.id /\ op.at \in StageSteps
  /\ UNCHANGED <<disk, dur, open, deleted, acked>> /\ OtherLives(op.id)
  /\ \/ /\ op.at = "fork.publish" /\ life'[op.id] = Quarantine
        /\ op'.job = op.id /\ op'.quarantined = TRUE /\ op'.indexed = op.indexed
        /\ Goes("fork.commit", Publication) \/ (Goes("undo", <<>>) /\ Fault)
     \/ /\ op.at = "undo"
        /\ \/ /\ life'[op.id] = life[op.id] /\ UNCHANGED faults
              /\ \/ /\ "delmark" \in disk[op.id] /\ Goes("undone", <<>>) /\ op'.errs = TRUE
                    /\ op'.job = op.id
                 \/ "delmark" \notin disk[op.id] /\ Does("undo.index", op.id, Records)
           \/ /\ Fault
              /\ life'[op.id] = life[op.id] \/ life'[op.id] = Quarantine
              /\ op' = NoOp \/ (Goes("undo", <<>>) /\ op'.job = op.id /\ op'.indexed = op.indexed)
     \/ /\ op.at = "undo.index" /\ life'[op.id] = life[op.id] /\ UNCHANGED faults
        /\ Goes("undo.files", Unindexing) /\ Going
     \/ /\ op.at = "undo.files" /\ life'[op.id] = life[op.id] /\ UNCHANGED faults
        /\ Goes("undo.mark", Unpublishing) /\ Going
     \/ /\ op.at = "undo.mark" /\ life'[op.id] = life[op.id] /\ UNCHANGED faults
        /\ Goes("undone", When(~op.errs, Unmark("forkmark", "undo.remark"))) /\ Going
     \/ /\ op.at = "undo.remark" /\ life'[op.id] = life[op.id] /\ UNCHANGED faults
        /\ Goes("undone", <<Step("add", {"forkmark"}, "collect")>>) /\ Going
     \/ /\ op.at = "undone" /\ op' = NoOp /\ UNCHANGED faults
        /\ life'[op.id] \in {life[op.id], Quarantine, Nothing}

LEMMA StageEffect ==
  ASSUME TypeOK, StoreOK, OpOK,
         ForkPublish \/ Undo \/ UndoIndex \/ UndoFiles \/ UndoMark \/ UndoRemark \/ Undone
  PROVE  StageMove /\ StoreOK' /\ op.todo = <<>> /\ op.at # "idle" /\ UNCHANGED <<crashes, late>>
<1>1. PICK p \in {"fork.publish", "undo", "undo.index", "undo.files", "undo.mark", "undo.remark",
                  "undone"} : At(p)
  BY DEF ForkPublish, Undo, UndoIndex, UndoFiles, UndoMark, UndoRemark, Undone
<1>2. /\ op \in Ops /\ op.at = p /\ op.todo = <<>> /\ op.kind \in Kinds /\ PlaceOK
      /\ FreshGens # {}
  BY <1>1, Working1
<1>3. /\ op.kind = "fork" /\ op.id \in Ids /\ op.id \in Named /\ op.job = op.id
      /\ op.at \in StageSteps
  BY <1>2, Named1 DEF PlaceOK, ForkSteps, StageSteps
<1>4. UNCHANGED <<disk, dur, open, deleted, acked, crashes, late>>
  BY DEF ForkPublish, Undo, UndoIndex, UndoFiles, UndoMark, UndoRemark, Undone, history, bounds
<1>5. StoreOK'
  BY <1>4, StoreStays
<1>6. \A q \in StageSteps : q \in Places
  BY PlacesTyped
<1>7. {"fork.publish", "fork.commit", "undo", "undo.index", "undo.files", "undo.mark",
       "undo.remark", "undone"} \subseteq StageSteps
  BY DEF StageSteps
<1>8. <<>> \in Seq(Steps)
  BY EmptySeq
<1>9. CASE ForkPublish
  <2>1. op.at = "fork.publish" /\ life' = [life EXCEPT ![op.id] = Quarantine]
    BY <1>9 DEF ForkPublish, At
  <2>2. life'[op.id] = Quarantine /\ OtherLives(op.id)
    BY <1>3, <2>1 DEF TypeOK, OtherLives
  <2>3. CASE op' = [op EXCEPT !.quarantined = TRUE, !.todo = Publication, !.at = "fork.commit"]
    <3>1. Publication \in Seq(Steps)
      BY ForkRuns
    <3>2. Goes("fork.commit", Publication) /\ op'.job = op.id /\ op'.quarantined = TRUE
          /\ op'.indexed = op.indexed
      BY <1>2, <1>3, <1>6, <1>7, <2>3, <3>1 DEF Goes, Ops
    <3>3. StageMove
      BY <1>3, <1>4, <2>1, <2>2, <3>2 DEF StageMove
    <3> QED
      BY <1>2, <1>4, <1>5, <3>3
  <2>4. CASE Fault /\ op' = [op EXCEPT !.quarantined = TRUE, !.at = "undo"]
    <3>1. Goes("undo", <<>>) /\ op'.job = op.id /\ op'.quarantined = TRUE
          /\ op'.indexed = op.indexed
      BY <1>2, <1>3, <1>6, <1>7, <2>4 DEF Goes, Ops
    <3>2. StageMove
      BY <1>3, <1>4, <2>1, <2>2, <2>4, <3>1 DEF StageMove
    <3> QED
      BY <1>2, <1>4, <1>5, <3>2
  <2> QED
    BY <1>9, <2>3, <2>4 DEF ForkPublish
<1>10. CASE Undo
  <2>1. op.at = "undo"
    BY <1>10 DEF Undo, At
  <2>2. CASE /\ IF "delmark" \in disk[op.id]
                THEN op' = [op EXCEPT !.at = "undone", !.errs = TRUE]
                ELSE Do(op.id, Records, "undo.index")
             /\ UNCHANGED <<life, faults>>
    <3>1. life'[op.id] = life[op.id] /\ OtherLives(op.id) /\ UNCHANGED faults
      BY <2>2 DEF OtherLives
    <3>2. CASE "delmark" \in disk[op.id]
      <4>1. Goes("undone", <<>>) /\ op'.errs = TRUE /\ op'.job = op.id
        BY <1>2, <1>3, <1>6, <1>7, <2>2, <3>2, ZenonT(40) DEF Goes, Ops
      <4>2. StageMove
        BY <1>3, <1>4, <2>1, <3>1, <3>2, <4>1 DEF StageMove
      <4> QED
        BY <1>2, <1>4, <1>5, <4>2
    <3>3. CASE "delmark" \notin disk[op.id]
      <4>1. Does("undo.index", op.id, Records)
        BY <1>2, <1>3, <1>6, <1>7, <2>2, <3>3, DoFields, CleanRuns DEF Does
      <4>2. StageMove
        BY <1>3, <1>4, <2>1, <3>1, <3>3, <4>1 DEF StageMove
      <4> QED
        BY <1>2, <1>4, <1>5, <4>2
    <3> QED
      BY <3>2, <3>3
  <2>3. CASE /\ Fault
             /\ life' = IF op.quarantined THEN [life EXCEPT ![op.id] = Quarantine] ELSE life
             /\ IF op.dropped THEN Return ELSE op' = [op EXCEPT !.dropped = TRUE]
    <3>1. OtherLives(op.id) /\ (life'[op.id] = life[op.id] \/ life'[op.id] = Quarantine)
      BY <1>3, <2>3 DEF TypeOK, OtherLives
    <3>2. op' = NoOp \/ (Goes("undo", <<>>) /\ op'.job = op.id /\ op'.indexed = op.indexed)
      BY <1>2, <1>3, <1>6, <1>7, <2>1, <2>3 DEF Goes, Ops, Return
    <3>3. StageMove
      BY <1>3, <1>4, <2>1, <2>3, <3>1, <3>2 DEF StageMove
    <3> QED
      BY <1>2, <1>4, <1>5, <3>3
  <2> QED
    BY <1>10, <2>2, <2>3 DEF Undo
<1>11. CASE UndoIndex
  <2>1. op.at = "undo.index" /\ UNCHANGED <<life, faults>>
    BY <1>11 DEF UndoIndex, At, bounds
  <2>2. Then(Unindexing, "undo.files") /\ Unindexing \in Seq(Steps) /\ "undo.files" \in Places
    BY <1>2, <1>6, <1>7, <1>11, UndoRuns DEF UndoIndex, Unindexing
  <2>3. Goes("undo.files", Unindexing) /\ Going
    BY <1>2, <2>2, ThenFields DEF Going
  <2>4. StageMove
    BY <1>3, <1>4, <2>1, <2>3 DEF StageMove, OtherLives
  <2> QED
    BY <1>2, <1>4, <1>5, <2>4
<1>12. CASE UndoFiles
  <2>1. op.at = "undo.files" /\ UNCHANGED <<life, faults>>
    BY <1>12 DEF UndoFiles, At, bounds
  <2>2. Then(Unpublishing, "undo.mark") /\ Unpublishing \in Seq(Steps) /\ "undo.mark" \in Places
    BY <1>2, <1>6, <1>7, <1>12, UndoRuns DEF UndoFiles, Unpublishing
  <2>3. Goes("undo.mark", Unpublishing) /\ Going
    BY <1>2, <2>2, ThenFields DEF Going
  <2>4. StageMove
    BY <1>3, <1>4, <2>1, <2>3 DEF StageMove, OtherLives
  <2> QED
    BY <1>2, <1>4, <1>5, <2>4
<1>13. CASE UndoMark
  <2> DEFINE run == When(~op.errs, Unmark("forkmark", "undo.remark"))
  <2>1. op.at = "undo.mark" /\ UNCHANGED <<life, faults>>
    BY <1>13 DEF UndoMark, At, bounds
  <2>2. Then(run, "undone") /\ run \in Seq(Steps) /\ "undone" \in Places
    BY <1>2, <1>6, <1>7, <1>13, UndoRuns DEF UndoMark
  <2>3. Goes("undone", run) /\ Going
    <3> HIDE DEF run
    <3> QED
      BY <1>2, <2>2, ThenFields DEF Going
  <2>4. StageMove
    BY <1>3, <1>4, <2>1, <2>3 DEF StageMove, OtherLives
  <2> QED
    BY <1>2, <1>4, <1>5, <2>4
<1>14. CASE UndoRemark
  <2> DEFINE run == <<Step("add", {"forkmark"}, "collect")>>
  <2>1. op.at = "undo.remark" /\ UNCHANGED <<life, faults>>
    BY <1>14 DEF UndoRemark, At, bounds
  <2>2. Then(run, "undone") /\ run \in Seq(Steps) /\ "undone" \in Places
    BY <1>2, <1>6, <1>7, <1>14, UndoRuns DEF UndoRemark
  <2>3. Goes("undone", run) /\ Going
    <3> HIDE DEF run
    <3> QED
      BY <1>2, <2>2, ThenFields DEF Going
  <2>4. StageMove
    BY <1>3, <1>4, <2>1, <2>3 DEF StageMove, OtherLives
  <2> QED
    BY <1>2, <1>4, <1>5, <2>4
<1>15. CASE Undone
  <2>1. op.at = "undone" /\ op' = NoOp /\ UNCHANGED faults
    BY <1>15 DEF Undone, At, bounds, Return
  <2>2. life'[op.id] \in {life[op.id], Quarantine, Nothing} /\ OtherLives(op.id)
    BY <1>3, <1>15 DEF Undone, TypeOK, OtherLives
  <2>3. StageMove
    BY <1>3, <1>4, <2>1, <2>2 DEF StageMove
  <2> QED
    BY <1>2, <1>4, <1>5, <2>3
<1> QED
  BY <1>9, <1>10, <1>11, <1>12, <1>13, <1>14, <1>15

\* The operation waits for the lock.
BeginMove ==
  /\ op = NoOp /\ op' \in Ops /\ op'.at = "preflight" /\ op'.todo = <<>>
  /\ UNCHANGED <<disk, dur, life, open, deleted, acked, faults, crashes, late>>
  /\ op'.kind \in {"create", "fork"} => op'.id \in Ids /\ Drawn(op'.id)
  /\ op'.kind \in Kinds

LEMMA BeginEffect == ASSUME BeginAny PROVE BeginMove
<1>1. PICK kind \in Kinds, s \in Named, src \in Named :
        /\ Begin(kind, s, src) /\ (kind \in {"create", "fork"} => s \in Ids)
  <2>1. CASE Begin("list", Nobody, Nobody)
    BY <2>1 DEF Kinds, Named
  <2>2. ASSUME NEW s \in Ids, NEW kind \in {"create", "resume", "delete"}, Begin(kind, s, Nobody)
        PROVE  \E k \in Kinds, t \in Named, src \in Named :
                 Begin(k, t, src) /\ (k \in {"create", "fork"} => t \in Ids)
    <3>1. kind \in Kinds /\ s \in Named /\ Nobody \in Named
      BY DEF Kinds, Named
    <3> QED
      BY <2>2, <3>1
  <2>3. ASSUME NEW s \in Ids, NEW src \in Ids, Begin("fork", s, src)
        PROVE  \E k \in Kinds, t \in Named, r \in Named :
                 Begin(k, t, r) /\ (k \in {"create", "fork"} => t \in Ids)
    <3>1. "fork" \in Kinds /\ s \in Named /\ src \in Named
      BY DEF Kinds, Named
    <3> QED
      BY <2>3, <3>1
  <2> QED
    BY <2>1, <2>2, <2>3 DEF BeginAny
<1>2. /\ op = NoOp /\ op' = [NoOp EXCEPT !.kind = kind, !.id = s, !.src = src, !.at = "preflight"]
      /\ UNCHANGED <<disk, dur, life, open, deleted, acked, faults, crashes, late>>
      /\ (kind \in {"create", "fork"} => Drawn(s))
  BY <1>1 DEF Begin, history, bounds
<1>3. "preflight" \in Places
  BY DEF Places
<1>4. NoOp \in Ops /\ NoOp.todo = <<>>
  BY NoOpTyped
<1>5. /\ op' \in Ops /\ op'.at = "preflight" /\ op'.kind = kind /\ op'.id = s /\ op'.todo = <<>>
  BY <1>2, <1>3, <1>4 DEF Ops
<1> QED
  BY <1>1, <1>2, <1>5 DEF BeginMove

\* What a chat session writes of its own.
PersistMove(s) ==
  /\ s \in Ids /\ op = NoOp /\ OthersStay(s) /\ Leased(s)
  /\ disk'[s] \cap Markers = disk[s] \cap Markers /\ dur'[s] \cap Markers = dur[s] \cap Markers
  /\ "transcript" \in disk[s] => "transcript" \in disk'[s]
  /\ "transcript" \in disk[s] \cap dur[s] => "transcript" \in dur'[s]
  /\ "oversized" \in disk'[s] => "oversized" \in disk[s]
  /\ "row" \in disk'[s] => "row" \in disk[s] \/ "transcript" \in disk'[s]
  /\ acked' = acked \/ (acked' = acked \cup {s} /\ "transcript" \in disk'[s] \cap dur'[s])
  /\ UNCHANGED <<life, open, deleted>>

OutsideMove ==
  \/ op' = op /\ \E s \in Ids : PersistMove(s)
  \/ /\ op' = op /\ UNCHANGED <<life, open, deleted, acked, faults, crashes>>
     /\ \E s \in Ids : Adds(s, {"goal"})
  \/ /\ op' = op /\ UNCHANGED <<disk, dur, life, deleted, acked, faults, crashes>>
     /\ \A h \in Handles : open'[h] \in {open[h], Closed}
  \/ /\ op' = NoOp /\ UNCHANGED <<deleted, acked, faults>> /\ crashes' = crashes + 1
     /\ \A s \in Ids : life'[s] = Nothing
     /\ \A h \in Handles : open'[h] = Closed
     /\ \/ UNCHANGED <<disk, dur>> /\ "process" \in CrashKinds
        \/ /\ "power" \in CrashKinds
           /\ \A s \in Ids : /\ disk'[s] = dur'[s]
                             /\ disk[s] \cap dur[s] \subseteq disk'[s]
                             /\ disk'[s] \subseteq disk[s] \cup dur[s]

LEMMA PersistEffect ==
  ASSUME TypeOK, StoreOK, NEW h \in Handles, Persist(h)
  PROVE  PersistMove(open[h].id) /\ StoreOK' /\ op' = op /\ acked' \subseteq Ids
<1> DEFINE s == open[h].id
           rest == (disk[s] \ Slot) \cup Drained(s)
<1>1. s \in Ids /\ op = NoOp /\ op' = op /\ Leased(s) /\ UNCHANGED <<life, open, deleted>>
  <2>1. open[h] # Closed /\ life[s] = Active(open[h].gen)
    BY DEF Persist, Writable
  <2>2. open[h] \in [id : Ids, gen : Gens]
    BY <2>1 DEF TypeOK
  <2>3. open[h] = [id |-> s, gen |-> open[h].gen]
    BY <2>2
  <2> QED
    BY <2>1, <2>2, <2>3 DEF Persist, Leased, Active
<1>2. disk[s] \in SUBSET Artifacts /\ dur[s] \in SUBSET Artifacts
  BY <1>1 DEF StoreOK
<1>3. \/ /\ Changes(s, rest \cup {"transcript", "row", "messages"}, Slot \cup {"transcript"})
         /\ acked' = acked \cup {s}
      \/ /\ \E some \in SUBSET Drained(s) : Changes(s, disk[s] \cup some, {})
         /\ UNCHANGED acked
      \/ /\ \E cut \in PersistCut : Changes(s, rest \cup cut.has, cut.synced)
         /\ UNCHANGED acked
  BY DEF Persist
<1> HIDE DEF s
<1>4. ASSUME NEW has \in SUBSET {"record", "transcript", "row", "messages"},
             NEW synced \in SUBSET (Slot \cup {"transcript"}),
             "row" \in has => "transcript" \in disk[s] \cup has,
             NEW base \in {disk[s], disk[s] \ Slot},
             Changes(s, base \cup has, synced)
      PROVE  /\ StoreOK' /\ OthersStay(s)
             /\ disk'[s] \cap Markers = disk[s] \cap Markers
             /\ dur'[s] \cap Markers = dur[s] \cap Markers
             /\ "transcript" \in disk[s] => "transcript" \in disk'[s]
             /\ "transcript" \in disk[s] \cap dur[s] => "transcript" \in dur'[s]
             /\ "oversized" \in disk'[s] => "oversized" \in disk[s]
             /\ "row" \in disk'[s] => "row" \in disk[s] \/ "transcript" \in disk'[s]
             /\ "transcript" \in has /\ "transcript" \in synced =>
                  "transcript" \in disk'[s] /\ "transcript" \in dur'[s]
  <2>1. base \cup has \in SUBSET Artifacts /\ synced \in SUBSET Artifacts
    BY <1>2 DEF Artifacts, Databases, Slot
  <2>2. /\ StoreOK' /\ OthersStay(s) /\ disk'[s] = base \cup has
        /\ dur'[s] = (dur[s] \ (synced \cup Databases))
                        \cup ((base \cup has) \cap (synced \cup Databases))
    BY <1>1, <1>4, <2>1, ChangesEffect
  <2>3. "transcript" \notin Databases /\ "transcript" \notin Slot /\ "oversized" \in Slot
        /\ \A m \in Markers : m \notin Slot \cup Databases \cup {"transcript"} \cup has
    BY DEF Databases, Slot, Markers
  <2>4. dur'[s] \cap Markers = dur[s] \cap Markers
    BY <2>2, <2>3
  <2>5. disk'[s] \cap Markers = disk[s] \cap Markers
    BY <2>2, <2>3
  <2>6. /\ "transcript" \in disk[s] => "transcript" \in disk'[s]
        /\ "transcript" \in disk[s] \cap dur[s] => "transcript" \in dur'[s]
        /\ "transcript" \in has /\ "transcript" \in synced =>
             "transcript" \in disk'[s] /\ "transcript" \in dur'[s]
    BY <2>2, <2>3
  <2>7. "oversized" \in disk'[s] => "oversized" \in disk[s]
    BY <2>2
  <2>8. "row" \in disk'[s] => "row" \in disk[s] \/ "transcript" \in disk'[s]
    BY <1>4, <2>2, <2>3
  <2> QED
    BY <2>2, <2>4, <2>5, <2>6, <2>7, <2>8
<1>5. Drained(s) \subseteq {"row", "messages"}
      /\ ("row" \in Drained(s) => "transcript" \in disk[s])
  BY DEF Drained
<1>6. CASE /\ Changes(s, rest \cup {"transcript", "row", "messages"}, Slot \cup {"transcript"})
           /\ acked' = acked \cup {s}
  <2> DEFINE has == Drained(s) \cup {"transcript", "row", "messages"}
  <2>1. /\ has \in SUBSET {"record", "transcript", "row", "messages"} /\ "transcript" \in has
        /\ Slot \cup {"transcript"} \in SUBSET (Slot \cup {"transcript"})
        /\ rest \cup {"transcript", "row", "messages"} = (disk[s] \ Slot) \cup has
    BY <1>5
  <2> HIDE DEF has
  <2>2. PersistMove(s) /\ StoreOK'
    BY <1>1, <1>4, <1>6, <2>1 DEF PersistMove
  <2> QED
    BY <1>1, <1>6, <2>2 DEF s, TypeOK
<1>7. CASE /\ \E some \in SUBSET Drained(s) : Changes(s, disk[s] \cup some, {})
           /\ UNCHANGED acked
  <2>1. PICK some \in SUBSET Drained(s) : Changes(s, disk[s] \cup some, {})
    BY <1>7
  <2>2. /\ some \in SUBSET {"record", "transcript", "row", "messages"}
        /\ "row" \in some => "transcript" \in disk[s] \cup some
        /\ {} \in SUBSET (Slot \cup {"transcript"})
    BY <1>5
  <2>3. PersistMove(s) /\ StoreOK'
    BY <1>1, <1>4, <1>7, <2>1, <2>2 DEF PersistMove
  <2> QED
    BY <1>1, <1>7, <2>3 DEF s, TypeOK
<1>8. CASE /\ \E cut \in PersistCut : Changes(s, rest \cup cut.has, cut.synced)
           /\ UNCHANGED acked
  <2>1. PICK cut \in PersistCut : Changes(s, rest \cup cut.has, cut.synced)
    BY <1>8
  <2>2. /\ cut.has \in SUBSET {"record", "transcript", "row", "messages"}
        /\ cut.synced \in SUBSET (Slot \cup {"transcript"})
        /\ "row" \in cut.has => "transcript" \in cut.has
    <3>1. CASE \E some \in SUBSET {"record"} : cut = [has |-> some, synced |-> {}]
      BY <3>1
    <3>2. CASE \E some \in SUBSET {"transcript"} :
                 cut = [has |-> {"record"} \cup some, synced |-> {"record"}]
      BY <3>2 DEF Slot
    <3>3. CASE \E some \in {{}, {"row"}, {"row", "messages"}} :
                 cut = [has |-> {"record", "transcript"} \cup some,
                        synced |-> {"record", "transcript"}]
      BY <3>3 DEF Slot
    <3>4. CASE \E some \in SUBSET {"record"} :
                 cut = [has |-> {"transcript", "row", "messages"} \cup some,
                        synced |-> {"transcript"}]
      BY <3>4
    <3> QED
      BY <2>1, <3>1, <3>2, <3>3, <3>4 DEF PersistCut
  <2> DEFINE has == Drained(s) \cup cut.has
  <2>3. /\ has \in SUBSET {"record", "transcript", "row", "messages"}
        /\ "row" \in has => "transcript" \in disk[s] \cup has
        /\ rest \cup cut.has = (disk[s] \ Slot) \cup has
    BY <1>5, <2>2
  <2> HIDE DEF has
  <2>4. PersistMove(s) /\ StoreOK'
    BY <1>1, <1>4, <1>8, <2>1, <2>2, <2>3 DEF PersistMove
  <2> QED
    BY <1>1, <1>8, <2>4 DEF s, TypeOK
<1> QED
  BY <1>3, <1>6, <1>7, <1>8

LEMMA OutsideEffect ==
  ASSUME TypeOK, StoreOK,
         \/ \E h \in Handles : Persist(h) \/ GoalWrite(h) \/ DropHandle(h)
         \/ Crash \/ PowerLoss
  PROVE  OutsideMove /\ StoreOK' /\ acked' \subseteq Ids /\ deleted' = deleted
<1>1. ASSUME NEW h \in Handles, Persist(h)
      PROVE  OutsideMove /\ StoreOK' /\ acked' \subseteq Ids /\ deleted' = deleted
  BY <1>1, PersistEffect DEF OutsideMove, PersistMove
<1>2. ASSUME NEW h \in Handles, GoalWrite(h)
      PROVE  OutsideMove /\ StoreOK' /\ acked' \subseteq Ids /\ deleted' = deleted
  <2>1. open[h].id \in Ids
    BY <1>2 DEF GoalWrite, TypeOK
  <2> DEFINE s == open[h].id
  <2>2. disk[s] \cup {"goal"} \in SUBSET Artifacts /\ dur[s] \in SUBSET Artifacts
    BY <2>1 DEF StoreOK, Artifacts, Databases
  <2>3. Changes(s, disk[s] \cup {"goal"}, {}) /\ op' = op
        /\ UNCHANGED <<life, open, deleted, acked, faults, crashes>>
    BY <1>2 DEF GoalWrite, history
  <2>8. s \in Ids
    BY <2>1
  <2> HIDE DEF s
  <2>4. /\ StoreOK' /\ OthersStay(s) /\ disk'[s] = disk[s] \cup {"goal"}
        /\ dur'[s] = (dur[s] \ ({} \cup Databases))
                        \cup ((disk[s] \cup {"goal"}) \cap ({} \cup Databases))
    <3> DEFINE D == disk[s] \cup {"goal"}
               synced == {}
    <3>1. D \in SUBSET Artifacts /\ synced \in SUBSET Artifacts /\ Changes(s, D, synced)
      BY <2>2, <2>3
    <3> HIDE DEF D, synced
    <3>2. /\ StoreOK' /\ OthersStay(s) /\ disk'[s] = D
          /\ dur'[s] = (dur[s] \ (synced \cup Databases)) \cup (D \cap (synced \cup Databases))
      BY <2>8, <3>1, ChangesEffect
    <3> QED
      BY <3>2 DEF D, synced
  <2>5. dur[s] \cap Databases = disk[s] \cap Databases
    BY <2>8 DEF StoreOK, DatabasesOK
  <2>6. "goal" \in Databases
    BY DEF Databases
  <2>7. Adds(s, {"goal"})
    BY <2>4, <2>5, <2>6 DEF Adds
  <2> QED
    BY <2>3, <2>4, <2>7, <2>8 DEF OutsideMove, TypeOK
<1>3. ASSUME NEW h \in Handles, DropHandle(h)
      PROVE  OutsideMove /\ StoreOK' /\ acked' \subseteq Ids /\ deleted' = deleted
  <2>1. op' = op /\ UNCHANGED <<disk, dur, life, deleted, acked, faults, crashes>>
    BY <1>3 DEF DropHandle, history, bounds
  <2>2. \A k \in Handles : open'[k] \in {open[k], Closed}
    BY <1>3 DEF DropHandle, TypeOK
  <2> QED
    BY <2>1, <2>2, StoreStays DEF OutsideMove, TypeOK
<1>4. CASE Crash
  <2>1. op' = NoOp /\ UNCHANGED <<disk, dur, deleted, acked, faults>> /\ crashes' = crashes + 1
        /\ "process" \in CrashKinds
    BY <1>4 DEF Crash, Restart, history
  <2>2. /\ \A s \in Ids : life'[s] = Nothing
        /\ \A h \in Handles : open'[h] = Closed
    BY <1>4 DEF Crash, Restart
  <2> QED
    BY <2>1, <2>2, StoreStays DEF OutsideMove, TypeOK
<1>5. CASE PowerLoss
  <2>1. op' = NoOp /\ UNCHANGED <<deleted, acked, faults>> /\ crashes' = crashes + 1
        /\ "power" \in CrashKinds /\ dur' = disk'
    BY <1>5 DEF PowerLoss, Restart, history
  <2>2. /\ \A s \in Ids : life'[s] = Nothing
        /\ \A h \in Handles : open'[h] = Closed
    BY <1>5 DEF PowerLoss, Restart
  <2>3. PICK kept \in SUBSET Unsynced :
          disk' = [s \in Ids |-> (disk[s] \cap dur[s]) \cup {a \in Artifacts : <<s, a>> \in kept}]
    BY <1>5 DEF PowerLoss
  <2>4. ASSUME NEW s \in Ids
        PROVE  /\ disk'[s] \in SUBSET Artifacts /\ disk'[s] = dur'[s]
               /\ disk[s] \cap dur[s] \subseteq disk'[s]
               /\ disk'[s] \subseteq disk[s] \cup dur[s]
    <3>1. disk'[s] = (disk[s] \cap dur[s]) \cup {a \in Artifacts : <<s, a>> \in kept}
      BY <2>3
    <3>2. disk[s] \in SUBSET Artifacts
      BY DEF StoreOK
    <3>3. ASSUME NEW a \in Artifacts, <<s, a>> \in kept PROVE a \in disk[s] \cup dur[s]
      <4>1. <<s, a>> \in Unsynced
        BY <2>3, <3>3
      <4> QED
        BY <4>1 DEF Unsynced
    <3> QED
      BY <2>1, <3>1, <3>2, <3>3
  <2>5. disk' \in [Ids -> SUBSET Artifacts]
    BY <2>3, <2>4
  <2>6. StoreOK'
    BY <2>1, <2>5 DEF StoreOK, DatabasesOK
  <2> QED
    BY <2>1, <2>2, <2>4, <2>6 DEF OutsideMove, TypeOK
<1> QED
  BY <1>1, <1>2, <1>3, <1>4, <1>5

\* No operation has the shape of none.
LEMMA IdleShape == ASSUME op = NoOp PROVE OpOK
<1>1. op \in Ops /\ op.at = "idle" /\ op.todo = <<>> /\ op.kind = "none"
  BY NoOpTyped
<1>2. PlaceOK
  BY <1>1 DEF PlaceOK, CreateSteps, ForkSteps, StageSteps, CleanSteps
<1>3. RunOK
  BY <1>1 DEF RunOK
<1> QED
  BY <1>1, <1>2, <1>3 DEF OpOK

LEMMA TypeInit == Init => TypeInv
<1> SUFFICES ASSUME Init PROVE TypeInv
  OBVIOUS
<1>1. OpOK
  BY IdleShape DEF Init
<1>2. disk \in [Ids -> SUBSET Artifacts] /\ dur = disk
  BY ConstantsAssumption DEF Init
<1>3. StoreOK
  BY <1>2 DEF StoreOK, DatabasesOK
<1>4. TypeOK
  BY <1>2 DEF Init, TypeOK
<1> QED
  BY <1>1, <1>3, <1>4 DEF TypeInv

Lives == {Nothing, Tombstone, Quarantine} \cup {Active(g) : g \in Gens}

\* Memory, handles and history keep their types.
LEMMA TypeOf ==
  ASSUME TypeOK, StoreOK',
         life' \in [Ids -> Lives], open' \in [Handles -> {Closed} \cup [id : Ids, gen : Gens]],
         deleted' \subseteq Ids, acked' \subseteq Ids
  PROVE  TypeOK'
BY DEF TypeOK, StoreOK, Lives

LEMMA TypeKept ==
  ASSUME TypeOK, StoreOK', UNCHANGED <<life, open, deleted, acked>>
  PROVE  TypeOK'
BY TypeOf DEF TypeOK, Lives

LEMMA TypeStep == ASSUME TypeInv, [Next]_vars PROVE TypeInv'
<1> USE DEF TypeInv
<1>1. CASE TakeStep
  <2>1. op \in Ops /\ op.job \in Ids
    BY <1>1 DEF OpOK, PlaceOK, TakeStep
  <2>2. StoreOK' /\ UNCHANGED <<life, open, deleted, acked>>
    BY <1>1, <2>1, StepEffect
  <2> QED
    BY <1>1, <2>2, TypeKept, TakeStepShape
<1>2. CASE EnsureMarker \/ RecordsGone \/ RowsGone \/ FilesGone \/ Restore \/ Cleaned
  <2>1. StoreOK' /\ UNCHANGED <<open, deleted, acked>>
    BY <1>2, CleanEffect
  <2>2. life' \in [Ids -> Lives]
    BY <1>2 DEF EnsureMarker, RecordsGone, RowsGone, FilesGone, Restore, Cleaned, TypeOK, Lives
  <2>3. TypeOK'
    BY <2>1, <2>2, TypeOf DEF TypeOK
  <2> QED
    BY <1>2, <2>1, <2>3, CleanStepsShape, CleanedShape
<1>3. CASE Preflight \/ RecoverMarked \/ ResolveRecord \/ RefuseRecord \/ DeleteUnpublished
             \/ DeleteGhost \/ ReconcileLegacy \/ Recovered
  <2>1. StoreOK' /\ UNCHANGED <<open, deleted, acked>>
    BY <1>3, RecoverEffect
  <2>2. life' \in [Ids -> Lives]
    <3>1. CASE Preflight
      BY <3>1 DEF Preflight, TypeOK, Lives
    <3>2. CASE DeleteUnpublished \/ DeleteGhost
      <4>1. PICK s \in Ids : BeginDeletion(s, "recover")
        BY <3>2 DEF DeleteUnpublished, DeleteGhost, Unpublished, Recorded, Uncounted
      <4> QED
        BY <4>1 DEF BeginDeletion, TypeOK, Lives
    <3>3. CASE RecoverMarked \/ ResolveRecord \/ RefuseRecord \/ ReconcileLegacy \/ Recovered
      BY <3>3 DEF RecoverMarked, ResolveRecord, RefuseRecord, ReconcileLegacy, Recovered, TypeOK,
         Lives
    <3> QED
      BY <1>3, <3>1, <3>2, <3>3
  <2>3. TypeOK'
    BY <2>1, <2>2, TypeOf DEF TypeOK
  <2> QED
    BY <1>3, <2>1, <2>3, RecoveryShape
<1>4. CASE List \/ Delete \/ Deleted \/ Create \/ CreateWrite \/ CreateUndo \/ Failed \/ Resume
             \/ Attach \/ Fork \/ ForkId \/ ForkStaged \/ ForkCommit
  <2>1. UserMove /\ StoreOK'
    BY <1>4, UserEffect
  <2>2. life' \in [Ids -> Lives]
    <3>1. CASE Delete
      BY <3>1 DEF Delete, BeginDeletion, TypeOK, Lives
    <3>2. CASE Attach \/ ForkCommit
      <4>1. FreshGen \in Gens
        <5>1. op.at # "idle"
          BY <3>2 DEF Attach, ForkCommit, At
        <5> QED
          BY <5>1, FreshDrawn DEF OpOK
      <4> QED
        BY <3>2, <4>1 DEF Attach, ForkCommit, TypeOK, Lives
    <3>3. CASE List \/ Deleted \/ Create \/ CreateWrite \/ CreateUndo \/ Failed \/ Resume
                 \/ Fork \/ ForkId \/ ForkStaged
      BY <3>3 DEF List, Deleted, Create, CreateWrite, CreateUndo, Failed, Resume, Fork, ForkId,
         ForkStaged, TypeOK, Lives
    <3> QED
      BY <1>4, <3>1, <3>2, <3>3
  <2>3. open' \in [Handles -> {Closed} \cup [id : Ids, gen : Gens]]
    <3>1. CASE Attach
      <4>1. FreshGen \in Gens /\ op.id \in Ids
        <5>1. op.at # "idle" /\ op.at = "attach"
          BY <3>1 DEF Attach, At
        <5> QED
          BY <5>1, FreshDrawn DEF OpOK, PlaceOK
      <4> QED
        BY <3>1, <4>1 DEF Attach, TypeOK
    <3>2. CASE ~Attach
      <4>1. UNCHANGED open
        BY <1>4, <3>2 DEF List, Delete, Deleted, Create, CreateWrite, CreateUndo, Failed, Resume,
           Fork, ForkId, ForkStaged, ForkCommit
      <4> QED
        BY <4>1 DEF TypeOK
    <3> QED
      BY <3>1, <3>2
  <2>4. deleted' \subseteq Ids /\ acked' \subseteq Ids
    BY <2>1 DEF UserMove, TypeOK
  <2>5. TypeOK'
    BY <2>1, <2>2, <2>3, <2>4, TypeOf
  <2> QED
    BY <1>4, <2>1, <2>5, UserShape
<1>5. CASE ForkPublish \/ Undo \/ UndoIndex \/ UndoFiles \/ UndoMark \/ UndoRemark \/ Undone
  <2>1. StageMove /\ StoreOK'
    BY <1>5, StageEffect
  <2>2. life' \in [Ids -> Lives]
    BY <1>5 DEF ForkPublish, Undo, UndoIndex, UndoFiles, UndoMark, UndoRemark, Undone, TypeOK, Lives
  <2>3. TypeOK'
    BY <2>1, <2>2, TypeOf DEF TypeOK, StageMove
  <2> QED
    BY <1>5, <2>1, <2>3, StageShape
<1>6. CASE BeginAny
  <2>1. UNCHANGED <<disk, dur, life, open, deleted, acked>>
    BY <1>6, BeginEffect DEF BeginMove
  <2> QED
    BY <1>6, <2>1, TypeKept, StoreStays, BeginShape
<1>7. CASE \/ \E h \in Handles : Persist(h) \/ GoalWrite(h) \/ DropHandle(h)
           \/ Crash \/ PowerLoss
  <2>1. StoreOK' /\ acked' \subseteq Ids /\ deleted' = deleted
    BY <1>7, OutsideEffect
  <2>2. life' \in [Ids -> Lives]
    BY <1>7 DEF Persist, GoalWrite, DropHandle, Crash, PowerLoss, Restart, TypeOK, Lives
  <2>3. open' \in [Handles -> {Closed} \cup [id : Ids, gen : Gens]]
    BY <1>7 DEF Persist, GoalWrite, DropHandle, Crash, PowerLoss, Restart, TypeOK
  <2>4. TypeOK'
    BY <2>1, <2>2, <2>3, TypeOf DEF TypeOK
  <2> QED
    BY <1>7, <2>1, <2>4, OutsideShape
<1>8. CASE UNCHANGED vars
  <2>1. UNCHANGED <<disk, dur, life, open, op, deleted, acked>>
    BY <1>8 DEF vars, history
  <2> QED
    BY <2>1, TypeKept, StoreStays DEF OpOK, PlaceOK, RunOK, Only, Filed, FreshGens
<1> QED
  BY <1>1, <1>2, <1>3, <1>4, <1>5, <1>6, <1>7, <1>8 DEF Next, Working

\* Every variable of the store, memory, handles and the operation under the
\* lifecycle lock keeps its type.
THEOREM LifeTypeCorrect == Spec => []TypeOK
<1>1. TypeInv /\ [Next]_vars => TypeInv'
  BY TypeStep
<1>2. Spec => []TypeInv
  BY <1>1, TypeInit, PTL DEF Spec
<1>3. TypeInv => TypeOK
  BY DEF TypeInv
<1> QED
  BY <1>2, <1>3, PTL

-----------------------------------------------------------------------------
(* Fences, step by step                                                     *)

FenceOK == MarksOK /\ CleanOK /\ NewOK

\* Nothing is said of an operation that has answered.
LEMMA AnsweredFence == ASSUME op' = NoOp PROVE FenceOK'
<1>1. op'.at = "idle" /\ op'.todo = <<>> /\ op'.kind = "none"
  BY NoOpTyped
<1>2. MarksOK'
  BY <1>1 DEF MarksOK, Recovering, Quiet, CreateSteps, CleanSteps, StageSteps
<1>3. CleanOK'
  BY <1>1 DEF CleanOK
<1>4. NewOK'
  BY <1>1 DEF NewOK, StageSteps
<1> QED
  BY <1>2, <1>3, <1>4 DEF FenceOK

LEMMA LeasedLives ==
  ASSUME NEW s \in Ids, Leased(s)
  PROVE  ~Fenced(s) /\ life[s] # Nothing /\ life[s] # Tombstone /\ life[s] # Quarantine
BY DEF Leased, Fenced, Nothing, Tombstone, Quarantine

\* A writer lease is only given where a handle is returned.
LEMMA LeaseGiven ==
  ASSUME NEW s \in Ids, life'[s] \in {life[s], Nothing, Tombstone, Quarantine},
         \A h \in Handles : open'[h] \in {open[h], Closed}, Leased(s)'
  PROVE  Leased(s) /\ life'[s] = life[s]
<1>1. life'[s].state = "active"
  BY DEF Leased
<1>2. life'[s] = life[s]
  BY <1>1 DEF Nothing, Tombstone, Quarantine
<1>3. PICK h \in Handles : open'[h] = [id |-> s, gen |-> life'[s].gen]
  BY DEF Leased
<1>4. open'[h] # Closed
  BY <1>3, NamesAssumption DEF Closed
<1> QED
  BY <1>1, <1>2, <1>3, <1>4 DEF Leased

\* Whoever is written to without a transcript is not leased.
LEMMA LeaseKept ==
  ASSUME LeaseOK, \A s \in Ids : life'[s] \in {life[s], Nothing, Tombstone, Quarantine},
         \A h \in Handles : open'[h] \in {open[h], Closed},
         \A s \in Ids : Leased(s) /\ life'[s] = life[s] =>
            /\ disk'[s] \cap Markers = disk[s] \cap Markers
            /\ \/ /\ disk'[s] \cap {"row", "oversized"} \subseteq disk[s]
                  /\ "transcript" \in disk[s] => "transcript" \in disk'[s]
               \/ "transcript" \in disk'[s]
  PROVE  LeaseOK'
<1> SUFFICES ASSUME NEW s \in Ids, Leased(s)'
             PROVE  /\ Marks(s)' = {}
                    /\ "transcript" \in disk'[s] \/ disk'[s] \cap {"row", "oversized"} = {}
  BY DEF LeaseOK
<1>1. Leased(s) /\ life'[s] = life[s]
  BY LeaseGiven
<1>2. Marks(s) = {} /\ ("transcript" \in disk[s] \/ disk[s] \cap {"row", "oversized"} = {})
  BY <1>1 DEF LeaseOK
<1> QED
  BY <1>1, <1>2 DEF Marks

LEMMA NothingToDo == ASSUME op.todo = <<>> PROVE ToGo = {}
BY DEF ToGo

LEMMA CleanFence ==
  ASSUME LifeInv, CleanMove, op.at \in CleanSteps, op.todo = <<>>, op.job \in Ids,
         op.mark \in Markers, UNCHANGED open
  PROVE  FenceOK' /\ LeaseOK'
<1>1. Fenced(op.job) /\ (op.back # "recover" => \A s \in Ids : s # op.job => Marks(s) = {})
      /\ (op.back = "recover" => \A s \in Ids : Marks(s) # {} => Fenced(s))
  BY DEF LifeInv, MarksOK, Recovering
<1>2. /\ op.back \in {"recover", "deleted", "create.write", "fork.stage"}
      /\ op.back # "recover" => op.mark = "delmark" /\ op.job = op.id
      /\ op.back = "deleted" => op.kind = "delete"
      /\ op.back = "create.write" => op.kind = "create"
      /\ op.back = "fork.stage" => op.kind = "fork"
  BY DEF LifeInv, TypeInv, OpOK, PlaceOK
<1>3. ~Leased(op.job)
  BY <1>1, LeasedLives
<1>4. \A s \in Ids : s # op.job => disk'[s] = disk[s] /\ dur'[s] = dur[s]
  BY DEF CleanMove, Adds, OthersStay
<1>5. \A s \in Ids : s # op.job => life'[s] = life[s]
  BY DEF CleanMove
<1>6. life'[op.job] \in {life[op.job], Nothing}
  BY DEF CleanMove
<1>7. LeaseOK'
  BY <1>3, <1>4, <1>5, <1>6, LeaseKept DEF LifeInv
<1>8. CASE op' = NoOp
  BY <1>7, <1>8, AnsweredFence
<1>9. ToGo = {}
  BY NothingToDo
<1>10. WhatOf(op'.todo) = ToGo'
  BY DEF WhatOf, ToGo
<1>11. CASE op' # NoOp /\ op.at # "cleaned"
  <2>1. /\ op'.job = op.job /\ op'.mark = op.mark /\ op'.back = op.back /\ op'.kind = op.kind
        /\ op'.id = op.id /\ op'.src = op.src
        /\ op'.at \in {"records", "databases", "files", "restore", "cleaned"}
        /\ UNCHANGED life /\ Adds(op.job, {op.mark})
    BY <1>11 DEF CleanMove, Does, Goes, Carried, Adds, OthersStay
  <2>2. op'.at \in CleanSteps /\ op'.at \notin Quiet \cup StageSteps \cup {"recover"}
    BY <2>1 DEF CleanSteps, Quiet, CreateSteps, StageSteps
  <2>3. MarksOK'
    BY <1>1, <1>4, <2>1, <2>2 DEF MarksOK, Recovering, Fenced, Marks
  <2>4. NewOK'
    <3>1. op'.kind \in {"create", "fork"} /\ Recovering' /\ life'[op'.id] = Nothing
            => disk'[op'.id] \subseteq {"goal"}
      <4>1. Recovering' => Recovering
        BY <2>1, <2>2 DEF Recovering
      <4>2. op.id # op.job \/ life[op.id] # Nothing
        BY <1>1 DEF Fenced, Nothing, Tombstone, Quarantine
      <4>3. op.kind \in {"create", "fork"} => op.id \in Ids
        BY DEF LifeInv, TypeInv, OpOK, PlaceOK
      <4> QED
        BY <1>4, <2>1, <4>1, <4>2, <4>3 DEF LifeInv, NewOK
    <3> QED
      BY <2>1, <2>2, <3>1 DEF NewOK, Early, StageSteps
  <2>5. CleanOK'
    <3>1. CASE op'.at = "restore"
      BY <3>1 DEF CleanOK
    <3>2. CASE Does("records", op.job, Records)
      BY <1>10, <3>2, CleanRuns DEF CleanOK, Does, Goes
    <3>3. CASE op.at = "records" /\ ~op.errs /\ Does("databases", op.job, DatabaseRows)
               /\ UNCHANGED <<disk, dur>>
      <4>1. Known(op.job) \cap RecordArts = {} /\ Known(op.job)' = Known(op.job)
        BY <1>9, <3>3 DEF LifeInv, CleanOK, Known, Does
      <4>2. {"row", "messages"} \subseteq ToGo' /\ op'.at = "databases" /\ op'.job = op.job
        BY <1>10, <3>3, CleanRuns DEF Does, Goes
      <4>3. Known(op.job)' = Known(op.job)
        BY <4>1, <4>2 DEF Known
      <4> QED
        BY <4>1, <4>2, <4>3 DEF CleanOK
    <3>4. CASE op.at = "databases" /\ Does("files", op.job, Files(op.mark))
               /\ UNCHANGED <<disk, dur>>
      <4>1. op'.at = "files" /\ op'.job = op.job /\ Filed' = Filed /\ Filed \subseteq ToGo'
        BY <1>10, <3>4, CleanRuns DEF Does, Goes, Filed
      <4>2. Known(op.job)' = Known(op.job)
        BY <3>4, <4>1 DEF Known
      <4>3. Known(op.job) \cap RecordArts = {} /\ Known(op.job) \cap {"row", "messages"} = {}
        BY <1>9, <3>4 DEF LifeInv, CleanOK
      <4> QED
        BY <4>1, <4>2, <4>3 DEF CleanOK
    <3>5. CASE /\ op.at = "files" /\ ~op.errs /\ disk[op.job] = {op.mark}
               /\ UNCHANGED <<disk, dur>> /\ Does("cleaned", op.job, Unmark(op.mark, "restore"))
      <4>1. op'.at = "cleaned" /\ op'.job = op.job /\ op'.mark = op.mark /\ op.mark \in ToGo'
        BY <1>10, <3>5, UnmarkRun DEF Does, Goes
      <4>2. Known(op.job)' = Known(op.job) /\ disk'[op'.job] = {op.mark}
        BY <3>5, <4>1 DEF Known
      <4>3. Known(op.job) \cap (RecordArts \cup {"row", "messages"}) = {}
            /\ Known(op.job) \cap Filed = {}
        BY <1>9, <3>5 DEF LifeInv, CleanOK
      <4>4. Known(op.job) \subseteq Artifacts
        BY DEF Known, LifeInv, TypeInv, StoreOK
      <4>5. Artifacts \subseteq RecordArts \cup {"row", "messages", "goal"} \cup FileArts \cup Markers
            /\ FileArts \subseteq Filed /\ (op.mark = "delmark" => "forkmark" \in Filed)
        BY DEF Artifacts, RecordArts, FileArts, Databases, Filed
      <4>6. Known(op.job) \subseteq {"goal"} \cup Markers
            /\ (op.mark = "delmark" => "forkmark" \notin Known(op.job))
        BY <4>3, <4>4, <4>5
      <4> QED
        BY <4>1, <4>2, <4>6 DEF CleanOK
    <3> QED
      BY <1>11, <3>1, <3>2, <3>3, <3>4, <3>5 DEF CleanMove, Goes
  <2> QED
    BY <1>7, <2>3, <2>4, <2>5 DEF FenceOK
<1>12. CASE op' # NoOp /\ op.at = "cleaned"
  <2>1. /\ UNCHANGED <<disk, dur>> /\ op'.at = op.back /\ op'.todo = <<>>
        /\ op'.job = op.job /\ op'.mark = op.mark /\ op'.back = op.back /\ op'.kind = op.kind
        /\ op'.id = op.id /\ op'.src = op.src
        /\ life'[op.job] = IF life[op.job] = Quarantine \/ op.back = "fork.stage" THEN Nothing
                           ELSE life[op.job]
    BY <1>12 DEF CleanMove, Goes, Carried
  <2>2. op.mark \notin Known(op.job) /\ disk[op.job] \subseteq {"goal"}
        /\ (op.mark = "delmark" => Known(op.job) \subseteq {"goal"})
    BY <1>9, <1>12 DEF LifeInv, CleanOK, Known, Markers
  <2>3. Marks(op.job) = {}
    BY <2>2 DEF Marks, Markers
  <2>4. \A s \in Ids : Marks(s)' = Marks(s)
    BY <2>1 DEF Marks
  <2>5. \A s \in Ids : Fenced(s)' => Fenced(s)
    BY <1>5, <1>6 DEF Fenced, Nothing, Tombstone, Quarantine
  <2>6. \A s \in Ids : s # op.job /\ Fenced(s) => Fenced(s)'
    BY <1>5 DEF Fenced
  <2>7. MarksOK'
    <3>1. CASE op.back = "recover"
      BY <1>1, <2>1, <2>3, <2>4, <2>6, <3>1
         DEF MarksOK, Quiet, CreateSteps, CleanSteps, StageSteps
    <3>2. CASE op.back # "recover"
      BY <1>1, <1>2, <2>1, <2>3, <2>4, <3>2
         DEF MarksOK, Recovering, Quiet, CreateSteps, CleanSteps, StageSteps
    <3> QED
      BY <3>1, <3>2
  <2>8. CleanOK'
    <3>1. op'.at \in {"recover", "deleted", "create.write", "fork.stage"}
      BY <1>2, <2>1
    <3>2. op'.at = "deleted" => Known(op.id)' \subseteq {"goal"}
      BY <1>2, <2>1, <2>2 DEF Known
    <3> QED
      BY <3>1, <3>2 DEF CleanOK
  <2>9. NewOK'
    <3>1. CASE op.back = "recover"
      <4>1. op.kind \in {"create", "fork"} => op.id \in Ids
        BY DEF LifeInv, TypeInv, OpOK, PlaceOK
      <4>2. op.kind \in {"create", "fork"} /\ life'[op.id] = Nothing => disk[op.id] \subseteq {"goal"}
        <5>1. CASE op.id = op.job
          BY <2>2, <5>1
        <5>2. CASE op.id # op.job
          BY <1>5, <3>1, <4>1, <5>2 DEF LifeInv, NewOK, Recovering
        <5> QED
          BY <5>1, <5>2
      <4> QED
        BY <2>1, <3>1, <4>2 DEF NewOK, Early, StageSteps, Recovering, CleanSteps
    <3>2. CASE op.back # "recover"
      <4>1. op.job = op.id /\ life[op.job] \in {Tombstone, Quarantine}
        BY <1>1, <1>2, <3>2 DEF Fenced
      <4>2. op'.at \in {"deleted", "create.write", "fork.stage"} /\ ~Recovering'
        BY <1>2, <2>1, <3>2 DEF Recovering, CleanSteps
      <4>3. disk'[op'.id] \subseteq {"goal"} /\ life'[op'.id] \in {Nothing, Tombstone}
            /\ (op'.at = "fork.stage" => life'[op'.id] = Nothing)
        BY <2>1, <2>2, <4>1
      <4> QED
        BY <4>2, <4>3 DEF NewOK, Early, StageSteps
    <3> QED
      BY <3>1, <3>2
  <2> QED
    BY <1>7, <2>7, <2>8, <2>9 DEF FenceOK
<1> QED
  BY <1>8, <1>11, <1>12

\* Where a failing step of a run leads.
Diversion ==
  \/ op'.at = "restore" /\ op.at \in {"databases", "cleaned"}
  \/ op'.at = "create.undo" /\ op.kind = "create" /\ op.at = "attach"
  \/ op'.at = "undo" /\ op.at \in {"fork.publish", "fork.commit"}
  \/ op'.at = "undone" /\ op.at = "undo.files"
  \/ op'.at = "undo.remark" /\ op.at = "undone"

\* The sessions a run writes for, and what it leaves of their markers and
\* transcripts.
LEMMA TakeEffect ==
  ASSUME TypeInv, TakeStep
  PROVE  LET step == Head(op.todo)
         IN /\ op \in Ops /\ op.job \in Ids /\ op.at \in RunPlaces /\ op.todo # <<>>
            /\ OthersStay(op.job) /\ UNCHANGED <<life, open, deleted, acked, crashes, late>>
            /\ ToGo = step.what \cup WhatOf(Tail(op.todo))
            /\ step = op.todo[1] /\ 1 \in DOMAIN op.todo
            /\ \A i \in DOMAIN Tail(op.todo) : i + 1 \in DOMAIN op.todo
                                               /\ Tail(op.todo)[i] = op.todo[i + 1]
            /\ IF step.verb = "remove" THEN Removes(op.job, step.what)
                                       ELSE Adds(op.job, step.what)
            /\ \/ Taken(step) \/ Collected(step) \/ Returned(step)
               \/ Diverted(step) /\ Diversion
<1> DEFINE step == Head(op.todo)
<1>1. /\ op \in Ops /\ op.job \in Ids /\ op.todo # <<>> /\ RunOK /\ PlaceOK /\ StoreOK
      /\ op.todo \in Seq(Steps)
  BY DEF TypeInv, OpOK, PlaceOK, TakeStep, Ops
<1>2. /\ UNCHANGED <<life, open, deleted, acked, crashes, late>>
      /\ IF step.verb = "remove" THEN Removes(op.job, step.what) ELSE Adds(op.job, step.what)
      /\ Taken(step) \/ Collected(step) \/ Diverted(step) \/ Returned(step)
  BY <1>1, StepEffect
<1>3. OthersStay(op.job)
  BY <1>2 DEF Removes, Adds
<1>4. op.at \in RunPlaces
  BY <1>1, FirstStep
<1>5. /\ ToGo = step.what \cup WhatOf(Tail(op.todo)) /\ step = op.todo[1] /\ 1 \in DOMAIN op.todo
      /\ \A i \in DOMAIN Tail(op.todo) : i + 1 \in DOMAIN op.todo /\ Tail(op.todo)[i] = op.todo[i + 1]
  <2>1. ToGo = WhatOf(op.todo)
    BY DEF ToGo, WhatOf
  <2> QED
    BY <1>1, <2>1, RunShrinks
<1>6. Diverted(step) => Diversion
  <2>1. op.at = "attach" => op.kind \in {"create", "resume"}
    BY <1>1 DEF PlaceOK
  <2>2. step.orelse \notin {"return", "collect"} =>
        \/ step.orelse = "restore" /\ op.at \in {"databases", "cleaned"}
        \/ step.orelse = "create.undo" /\ op.kind = "create" /\ op.at = "attach"
        \/ step.orelse = "undo" /\ op.at \in {"fork.publish", "fork.commit"}
        \/ step.orelse = "undone" /\ op.at = "undo.files"
        \/ step.orelse = "undo.remark" /\ op.at = "undone"
    BY <1>1, <2>1, FirstStep DEF RunPlaces
  <2> HIDE DEF step
  <2> QED
    BY <2>2 DEF Diverted, Diversion
<1> QED
  BY <1>1, <1>2, <1>3, <1>4, <1>5, <1>6

Plain == {"recover", "attach", "failed", "fork.id"}

LEMMA TakeWrites ==
  ASSUME TypeInv, TakeStep
  PROVE  LET step == Head(op.todo)
         IN /\ op.at \in Plain => /\ step.what \cap (Markers \cup {"transcript", "goal"}) = {}
                                  /\ op.at \in {"fork.id"} => step.verb = "add"
                                  /\ op.at = "attach" /\ op.kind = "resume" => step.verb = "add"
                                  /\ op.at = "failed" => step.verb = "remove"
                                  /\ op.at # "failed" => step.verb \in {"add", "remove"}
            /\ op.at = "attach" /\ op.kind = "create" => step.what \cap {"row", "oversized"} = {}
            /\ op.at \in CleanSteps => step.verb = "remove"
            /\ op.at \in StageSteps =>
                 step.verb = "remove" \/ step.what \cap Markers \subseteq {"forkmark"}
<1>1. op \in Ops /\ op.todo # <<>> /\ RunOK /\ PlaceOK
  BY DEF TypeInv, OpOK, TakeStep
<1>2. op.at = "attach" => op.kind \in {"create", "resume"}
  BY <1>1 DEF PlaceOK
<1> DEFINE step == Head(op.todo)
<1>3. op.at = "recover" => /\ step.what \subseteq RecordArts \cup {"row", "messages"}
                           /\ step.verb \in {"add", "remove"}
  BY <1>1, FirstStep
<1>4. op.at = "attach" /\ op.kind = "create" =>
        step.what \subseteq {"familiar", "model", "baseline"} /\ step.verb \in {"add", "remove"}
  BY <1>1, FirstStep
<1>5. (op.at = "attach" /\ op.kind = "resume") \/ op.at = "fork.id" =>
        step.what \subseteq IndexArts /\ step.verb = "add"
  BY <1>1, FirstStep
<1>6. op.at = "failed" =>
          step.what \subseteq {"baseline", "model", "familiar"} /\ step.verb = "remove"
  BY <1>1, FirstStep
<1>7. op.at \in {"records", "databases", "files", "cleaned"} => step.verb = "remove"
  BY <1>1, FirstStep
<1>8. op.at \in CleanSteps \cup StageSteps => op.at \in RunPlaces
  BY <1>1, FirstStep
<1>9. op.at = "fork.publish" =>
        step.what \subseteq {"forkmark"} \/ step.what \subseteq {"stage"}
          \/ step.what = {"transcript"} \/ step.what = {"familiar"}
  BY <1>1, FirstStep
<1>10. op.at = "fork.commit" =>
         step.what \subseteq {"model", "messages", "baseline"} \/ step.what = {"row"}
           \/ step.verb = "remove"
  BY <1>1, FirstStep
<1>11. op.at \in {"undo.index", "undo.files", "undo.mark", "undone"} =>
         step.verb = "remove" \/ step.what = {"forkmark"}
  BY <1>1, FirstStep
<1> HIDE DEF step
<1>12. op.at \in StageSteps => step.verb = "remove" \/ step.what \cap Markers \subseteq {"forkmark"}
  BY <1>8, <1>9, <1>10, <1>11 DEF StageSteps, RunPlaces, Markers
<1>13. op.at \in CleanSteps => step.verb = "remove"
  BY <1>7, <1>8 DEF CleanSteps, RunPlaces
<1>14. op.at = "attach" /\ op.kind = "create" => step.what \cap {"row", "oversized"} = {}
  BY <1>4
<1>15. op.at \in Plain => step.what \cap (Markers \cup {"transcript", "goal"}) = {}
  BY <1>2, <1>3, <1>4, <1>5, <1>6 DEF Plain, Markers, RecordArts, Slot, IndexArts
<1>16. op.at \in Plain =>
         /\ op.at \in {"fork.id"} => step.verb = "add"
         /\ op.at = "attach" /\ op.kind = "resume" => step.verb = "add"
         /\ op.at = "failed" => step.verb = "remove"
         /\ op.at # "failed" => step.verb \in {"add", "remove"}
  BY <1>2, <1>3, <1>4, <1>5, <1>6 DEF Plain
<1> QED
  BY <1>12, <1>13, <1>14, <1>15, <1>16 DEF step

LEMMA TakeFence == ASSUME LifeInv, TakeStep PROVE FenceOK' /\ LeaseOK'
<1> DEFINE step == Head(op.todo)
           j == op.job
<1>1. /\ op \in Ops /\ j \in Ids /\ op.at \in RunPlaces /\ op.todo # <<>>
      /\ OthersStay(j) /\ UNCHANGED <<life, open>>
      /\ ToGo = step.what \cup WhatOf(Tail(op.todo))
      /\ step = op.todo[1] /\ 1 \in DOMAIN op.todo
      /\ \A i \in DOMAIN Tail(op.todo) : i + 1 \in DOMAIN op.todo /\ Tail(op.todo)[i] = op.todo[i + 1]
      /\ IF step.verb = "remove" THEN Removes(j, step.what) ELSE Adds(j, step.what)
      /\ \/ Taken(step) \/ Collected(step) \/ Returned(step)
         \/ Diverted(step) /\ Diversion
  BY TakeEffect DEF LifeInv
<1>2. /\ op.at \in Plain => /\ step.what \cap (Markers \cup {"transcript", "goal"}) = {}
                            /\ op.at \in {"fork.id"} => step.verb = "add"
                            /\ op.at = "attach" /\ op.kind = "resume" => step.verb = "add"
                            /\ op.at = "failed" => step.verb = "remove"
                            /\ op.at # "failed" => step.verb \in {"add", "remove"}
      /\ op.at = "attach" /\ op.kind = "create" => step.what \cap {"row", "oversized"} = {}
      /\ op.at \in CleanSteps => step.verb = "remove"
      /\ op.at \in StageSteps => step.verb = "remove" \/ step.what \cap Markers \subseteq {"forkmark"}
  BY TakeWrites DEF LifeInv
<1>3. /\ op.at \in StageSteps => j = op.id
      /\ op.at \in {"attach", "failed"} => j = op.id
      /\ op.at = "fork.id" => j = op.src /\ op.kind = "fork"
      /\ op.kind = "fork" => op.src # op.id
      /\ op.at = "attach" => op.kind \in {"create", "resume"}
      /\ op.kind \in {"create", "resume", "delete", "fork"} => op.id \in Ids
    BY <1>1 DEF LifeInv, TypeInv, OpOK, PlaceOK, RunOK, ForkSteps
<1>4. /\ op.at \in Plain => disk'[j] \cap Markers = disk[j] \cap Markers
      /\ op.at \in Plain => disk'[j] \cap {"transcript"} = disk[j] \cap {"transcript"}
      /\ op.at \in CleanSteps => disk'[j] \subseteq disk[j] /\ dur'[j] \subseteq dur[j]
      /\ op.at \in StageSteps => disk'[j] \cap Markers \subseteq disk[j] \cup {"forkmark"}
  <2>1. step.verb = "remove" => disk'[j] \subseteq disk[j] /\ disk[j] \ step.what \subseteq disk'[j]
                                /\ dur'[j] \subseteq dur[j]
    BY <1>1 DEF Removes
  <2>2. step.verb # "remove" =>
            disk[j] \subseteq disk'[j] /\ disk'[j] \subseteq disk[j] \cup step.what
    BY <1>1 DEF Adds
  <2> HIDE DEF step, j
  <2> QED
    BY <1>2, <2>1, <2>2
<1> HIDE DEF step
<1>5. LeaseOK'
  <2>1. CASE op.at \in CleanSteps
    <3>1. ~Leased(j)
      BY <1>1, <2>1, LeasedLives DEF LifeInv, MarksOK
    <3> QED
      BY <1>1, <3>1, LeaseKept DEF LifeInv, OthersStay
  <2>2. CASE op.at \in StageSteps \cup {"failed"} \/ (op.at = "attach" /\ op.kind = "create")
    <3>1. life[j] \in {Nothing, Tombstone, Quarantine}
      BY <1>3, <2>2 DEF LifeInv, NewOK
    <3>2. ~Leased(j)
      BY <1>1, <3>1, LeasedLives
    <3> QED
      BY <1>1, <3>2, LeaseKept DEF LifeInv, OthersStay
  <2>3. CASE op.at = "attach" /\ op.kind = "resume"
    <3>1. ~Leased(j)
      BY <1>3, <2>3 DEF LifeInv, NewOK
    <3> QED
      BY <1>1, <3>1, LeaseKept DEF LifeInv, OthersStay
  <2>4. CASE op.at = "fork.id"
    <3>1. "transcript" \in disk'[j] /\ disk'[j] \cap Markers = disk[j] \cap Markers
      BY <1>3, <1>4, <2>4 DEF LifeInv, NewOK, Plain
    <3> QED
      BY <1>1, <3>1, LeaseKept DEF LifeInv, OthersStay
  <2>5. CASE op.at = "recover"
    <3>1. disk'[j] \cap Markers = disk[j] \cap Markers
          /\ disk'[j] \cap {"transcript"} = disk[j] \cap {"transcript"}
      BY <1>4, <2>5 DEF Plain
    <3>2. CASE step.verb = "remove"
      <4>1. disk'[j] \subseteq disk[j]
        BY <1>1, <3>2 DEF Removes
      <4> QED
        BY <1>1, <3>1, <4>1, LeaseKept DEF LifeInv, OthersStay
    <3>3. CASE step.verb # "remove"
      <4>1. "transcript" \in disk[j]
        BY <1>1, <2>5, <3>3 DEF LifeInv, NewOK
      <4> QED
        BY <1>1, <3>1, <4>1, LeaseKept DEF LifeInv, OthersStay
    <3> QED
      BY <3>2, <3>3
  <2> QED
    BY <1>1, <1>3, <2>1, <2>2, <2>3, <2>4, <2>5 DEF RunPlaces, CleanSteps, StageSteps
<1>6. CASE op' = NoOp
  BY <1>5, <1>6, AnsweredFence
<1>7. CASE op' # NoOp
  <2>1. /\ op'.kind = op.kind /\ op'.id = op.id /\ op'.src = op.src /\ op'.job = j
        /\ op'.mark = op.mark /\ op'.back = op.back
        /\ (op'.at = op.at /\ op'.todo = Tail(op.todo)) \/ (Diversion /\ op'.todo = <<>>)
    BY <1>1, <1>7 DEF Taken, Collected, Diverted, Returned, Carried
  <2>2. \A s \in Ids : s # j => disk'[s] = disk[s] /\ dur'[s] = dur[s]
    BY <1>1 DEF OthersStay
  <2>3. \A s \in Ids : Fenced(s)' <=> Fenced(s)
    BY <1>1 DEF Fenced
  <2>4. /\ op'.at \in CleanSteps <=> op.at \in CleanSteps
        /\ op'.at \in StageSteps <=> op.at \in StageSteps
        /\ op'.at \in Quiet <=> op.at \in Quiet
        /\ op'.at = "recover" <=> op.at = "recover"
        /\ op'.at # "deleted" /\ op'.at \notin {"create.write", "fork.stage"}
        /\ op'.at \in Early => op.at = "fork.id"
        /\ op.at \in Quiet => op.at \in Plain
        /\ op'.at \in {"create.write", "create.undo", "failed"} =>
             (op.at = "attach" /\ op.kind = "create") \/ op.at = "failed"
        /\ op'.at \in {"attach", "fork.id"} => op'.at = op.at
    BY <1>1, <2>1 DEF Diversion, RunPlaces, CleanSteps, StageSteps, Quiet, CreateSteps, Early, Plain
  <2>5. Recovering' => Recovering
    BY <2>1, <2>4 DEF Recovering
  <2>6. MarksOK'
    <3>1. Recovering' => \A s \in Ids : Marks(s)' # {} => Fenced(s)'
      <4>1. Recovering => op.at \in CleanSteps \/ op.at \in Plain
        BY DEF Recovering, Plain
      <4> QED
        BY <1>4, <2>2, <2>3, <2>5, <4>1 DEF LifeInv, MarksOK, Marks
    <3>2. op'.at \in Quiet => \A s \in Ids : Marks(s)' = {}
      BY <1>4, <2>2, <2>4 DEF LifeInv, MarksOK, Marks
    <3>3. op'.at \in CleanSteps => Fenced(op.job)'
      BY <1>1, <2>1, <2>4 DEF LifeInv, MarksOK, Fenced
    <3>4. op'.at \in CleanSteps /\ op'.back # "recover" =>
            \A s \in Ids \ {j} : Marks(s)' = {}
      BY <2>1, <2>2, <2>4 DEF LifeInv, MarksOK, Marks
    <3>5. op'.at \in StageSteps => /\ \A s \in Ids \ {op.id} : Marks(s)' = {}
                                   /\ disk'[op.id] \cap Markers \subseteq {"forkmark"}
      BY <1>3, <1>4, <2>2, <2>4 DEF LifeInv, MarksOK, Marks
    <3> QED
      BY <2>1, <3>1, <3>2, <3>3, <3>4, <3>5 DEF MarksOK, Marks
  <2>7. CleanOK'
    <3>1. CASE op'.at \notin {"records", "databases", "files", "cleaned"}
      BY <2>4, <3>1 DEF CleanOK
    <3>2. CASE op'.at \in {"records", "databases", "files", "cleaned"}
      <4>1. op'.at = op.at /\ op'.todo = Tail(op.todo) /\ ToGo' = WhatOf(Tail(op.todo))
            /\ Filed' = Filed
        BY <2>1, <3>2 DEF Diversion, ToGo, WhatOf, Filed
      <4>2. op.at \in CleanSteps
        BY <3>2, <4>1 DEF CleanSteps
      <4>3. Known(op.job)' = disk'[j] \cup dur'[j] /\ Known(op.job)' \subseteq Known(op.job)
            /\ disk'[j] \subseteq disk[j]
        BY <1>4, <2>1, <4>2 DEF Known
      <4>4. CASE Taken(step)
        <5>1. step.what \cap Known(op.job)' = {} /\ op'.errs = op.errs
          BY <1>2, <4>2, <4>4 DEF Taken
        <5> DEFINE K == Known(op.job)
        <5>2. /\ ToGo = step.what \cup ToGo' /\ op'.mark = op.mark
              /\ step.what \cap K' = {} /\ K' \subseteq K /\ disk'[op'.job] \subseteq disk[j]
          BY <1>1, <2>1, <4>1, <4>3, <5>1
        <5>3. /\ op.at = "records" /\ ~op.errs => K \cap RecordArts \subseteq ToGo
              /\ op.at = "databases" => /\ K \cap RecordArts = {}
                                        /\ K \cap {"row", "messages"} \subseteq ToGo
              /\ op.at = "files" => /\ K \cap (RecordArts \cup {"row", "messages"}) = {}
                                    /\ ~op.errs => K \cap Filed \subseteq ToGo
              /\ op.at = "cleaned" => /\ disk[j] \subseteq {"goal", op.mark}
                                      /\ K \subseteq {"goal"} \cup Markers
                                      /\ op.mark = "delmark" => "forkmark" \notin K
                                      /\ op.mark \in K => op.mark \in ToGo
          BY DEF LifeInv, CleanOK
        <5> HIDE DEF K
        <5>4. /\ op.at = "records" /\ ~op.errs => K' \cap RecordArts \subseteq ToGo'
              /\ op.at = "databases" => /\ K' \cap RecordArts = {}
                                        /\ K' \cap {"row", "messages"} \subseteq ToGo'
              /\ op.at = "files" => /\ K' \cap (RecordArts \cup {"row", "messages"}) = {}
                                    /\ ~op.errs => K' \cap Filed \subseteq ToGo'
          BY <5>2, <5>3
        <5>5. op.at = "cleaned" => /\ disk'[op'.job] \subseteq {"goal", op.mark}
                                   /\ K' \subseteq {"goal"} \cup Markers
                                   /\ op.mark = "delmark" => "forkmark" \notin K'
                                   /\ op.mark \in K' => op.mark \in ToGo'
          BY <5>2, <5>3
        <5> QED
          BY <3>2, <4>1, <5>1, <5>2, <5>4, <5>5 DEF CleanOK, K
      <4>5. CASE Collected(step)
        <5>1. op.at \in {"records", "files"} /\ op'.errs = TRUE
          <6>1. op \in Ops /\ RunOK /\ op.todo # <<>> /\ step.orelse = "collect"
            BY <1>1, <4>5 DEF LifeInv, TypeInv, OpOK, Collected
          <6> QED
            BY <3>2, <4>1, <4>5, <6>1, FirstStep DEF Collected, step
        <5> QED
          BY <2>1, <4>1, <4>3, <5>1 DEF LifeInv, CleanOK
      <4> QED
        BY <1>1, <1>7, <3>2, <4>1, <4>4, <4>5 DEF Diverted, Returned, Diversion
    <3> QED
      BY <3>1, <3>2
  <2>8. NewOK'
    <3>1. op'.kind \in {"create", "fork"} /\ (op'.at \in Early \/ Recovering') /\ life'[op'.id] = Nothing
            => /\ disk'[op'.id] \subseteq {"goal"}
               /\ op'.at = "recover" /\ op'.todo # <<>> => op'.job # op'.id
      <4> SUFFICES ASSUME op.kind \in {"create", "fork"}, op'.at \in Early \/ Recovering',
                          life[op.id] = Nothing
                   PROVE  disk'[op.id] \subseteq {"goal"} /\ (op'.at = "recover" => j # op.id)
        BY <1>1, <2>1
      <4>1. op.at \in Early \/ Recovering
        BY <2>4, <2>5 DEF Early
      <4>2. disk[op.id] \subseteq {"goal"} /\ op.id \in Ids
            /\ (op.at = "recover" => j # op.id)
        BY <1>1, <1>3, <4>1 DEF LifeInv, NewOK
      <4>3. j # op.id
        <5>1. CASE op.at = "fork.id"
          BY <1>3, <5>1
        <5>2. CASE op.at = "recover"
          BY <4>2, <5>2
        <5>3. CASE op.at \in CleanSteps
          BY <5>3 DEF LifeInv, MarksOK, Fenced, Nothing, Tombstone, Quarantine
        <5> QED
          BY <2>4, <4>1, <5>1, <5>2, <5>3 DEF Recovering, Early
      <4> QED
        BY <2>2, <4>2, <4>3
    <3>2. op'.at \in {"create.write", "create.undo", "failed"} =>
              life'[op'.id] \in {Nothing, Tombstone}
      BY <1>1, <2>1, <2>4 DEF LifeInv, NewOK
    <3>3. op'.at \in StageSteps => life'[op'.id] \in {Nothing, Quarantine}
      BY <1>1, <2>1, <2>4 DEF LifeInv, NewOK
    <3>4. op'.at = "attach" /\ op'.kind = "create" =>
            life'[op'.id] \in {Nothing, Tombstone} /\ disk'[op'.id] \cap {"row", "oversized"} = {}
      <4> SUFFICES ASSUME op.at = "attach", op.kind = "create"
                   PROVE  life[op.id] \in {Nothing, Tombstone} /\ disk'[j] \cap {"row", "oversized"} = {}
        BY <1>1, <1>3, <2>1, <2>4
      <4>1. life[op.id] \in {Nothing, Tombstone} /\ disk[j] \cap {"row", "oversized"} = {}
        BY <1>3 DEF LifeInv, NewOK
      <4>2. disk'[j] \subseteq disk[j] \cup step.what
        BY <1>1 DEF Removes, Adds
      <4> QED
        BY <1>2, <4>1, <4>2
    <3>5. op'.at = "attach" /\ op'.kind = "resume" =>
            ~Fenced(op.id)' /\ ~Leased(op.id)' /\ "transcript" \in disk'[op'.id]
      <4>1. op.at = "attach" /\ op.kind = "resume" =>
              ~Fenced(op.id) /\ ~Leased(op.id) /\ "transcript" \in disk'[j]
        BY <1>3, <1>4 DEF LifeInv, NewOK, Plain
      <4>2. (Leased(op.id)' <=> Leased(op.id)) /\ (Fenced(op.id)' <=> Fenced(op.id))
        BY <1>1, <2>1 DEF Leased, Fenced
      <4> QED
        BY <1>3, <2>1, <2>4, <4>1, <4>2
    <3>6. op'.at = "recover" /\ (\E i \in DOMAIN op'.todo : op'.todo[i].verb # "remove")
            => "transcript" \in disk'[op'.job]
      <4> SUFFICES ASSUME op.at = "recover", NEW i \in DOMAIN op'.todo, op'.todo[i].verb # "remove"
                   PROVE  "transcript" \in disk'[j]
        BY <2>1, <2>4
      <4>1. op'.todo = Tail(op.todo)
        BY <2>1 DEF Diversion
      <4>2. i + 1 \in DOMAIN op.todo /\ op.todo[i + 1].verb # "remove"
        BY <1>1, <4>1
      <4>3. "transcript" \in disk[j]
        BY <4>2 DEF LifeInv, NewOK
      <4> QED
        BY <1>4, <4>3 DEF Plain
    <3>7. op'.at = "fork.id" => "transcript" \in disk'[op'.src]
      BY <1>3, <1>4, <2>1, <2>4 DEF LifeInv, NewOK, Plain
    <3>8. op'.at \notin {"create.write", "fork.stage"}
      BY <2>4
    <3> QED
      BY <3>1, <3>2, <3>3, <3>4, <3>5, <3>6, <3>7, <3>8 DEF NewOK
  <2> QED
    BY <1>5, <2>6, <2>7, <2>8 DEF FenceOK
<1> QED
  BY <1>6, <1>7

\* A cleanup that starts, of a fenced session.
LEMMA CleansFence ==
  ASSUME LifeInv, NEW s \in Ids, NEW m \in Markers, NEW b, CleansTo(s, m, b),
         Fenced(s)', \A t \in Ids : t # s => disk'[t] = disk[t],
         \A t \in Ids : t # s => life'[t] = life[t],
         b = "recover" \/ NoMarks,
         b = "recover" => /\ \A t \in Ids : t # s /\ Marks(t) # {} => Fenced(t)
                          /\ op.at = "recover"
  PROVE  FenceOK'
<1>1. op'.at = "ensure" /\ op'.todo = <<>> /\ op'.job = s /\ op'.mark = m /\ op'.back = b
      /\ op'.kind = op.kind /\ op'.id = op.id
  BY DEF CleansTo, Goes
<1>2. op'.at \in CleanSteps /\ op'.at \notin Quiet \cup StageSteps \cup Early
      /\ op'.at \notin {"recover", "create.write", "create.undo", "failed", "attach", "fork.id"}
  BY <1>1 DEF CleanSteps, Quiet, CreateSteps, StageSteps, Early
<1>3. \A t \in Ids : t # s => Marks(t)' = Marks(t) /\ (Fenced(t)' <=> Fenced(t))
  BY DEF Marks, Fenced
<1>4. MarksOK'
  <2>1. Recovering' => \A t \in Ids : Marks(t)' # {} => Fenced(t)'
    BY <1>1, <1>2, <1>3 DEF Recovering
  <2>2. Fenced(op.job)'
    BY <1>1 DEF Fenced
  <2>3. op'.back # "recover" => \A t \in Ids \ {op'.job} : Marks(t)' = {}
    BY <1>1, <1>3 DEF NoMarks
  <2> QED
    BY <1>2, <2>1, <2>2, <2>3 DEF MarksOK
<1>5. CleanOK'
  BY <1>1 DEF CleanOK
<1>6. NewOK'
  <2>1. op'.kind \in {"create", "fork"} /\ Recovering' /\ life'[op'.id] = Nothing
          => disk'[op'.id] \subseteq {"goal"}
    <3> SUFFICES ASSUME op.kind \in {"create", "fork"}, b = "recover", life'[op.id] = Nothing
                 PROVE  disk'[op.id] \subseteq {"goal"}
      BY <1>1, <1>2 DEF Recovering
    <3>1. op.id # s /\ op.id \in Ids
      BY DEF Fenced, Nothing, Tombstone, Quarantine, LifeInv, TypeInv, OpOK, PlaceOK
    <3> QED
      BY <3>1 DEF LifeInv, NewOK, Recovering
  <2>2. op'.at \notin StageSteps \cup Early \cup {"fork.stage"}
    BY <1>1 DEF StageSteps, Early
  <2> QED
    BY <1>1, <1>2, <2>1, <2>2 DEF NewOK
<1> QED
  BY <1>4, <1>5, <1>6 DEF FenceOK

LEMMA DeletionFence ==
  ASSUME LifeInv, NEW s \in Ids, NEW b, DeletionMove(s, b), UNCHANGED open,
         b # "recover" => NoMarks, b = "recover" => op.at = "recover"
  PROVE  FenceOK' /\ LeaseOK'
<1>1. \A t \in Ids : t # s => disk'[t] = disk[t] /\ dur'[t] = dur[t] /\ life'[t] = life[t]
  BY DEF DeletionMove, OtherLives, Adds, OthersStay
<1>2. \/ life'[s] = Tombstone
      \/ life'[s] = life[s] /\ "delmark" \notin disk'[s]
  BY DEF DeletionMove
<1>3. disk[s] \subseteq disk'[s] /\ disk'[s] \subseteq disk[s] \cup {"delmark"}
  BY DEF DeletionMove, Adds
<1>4. LeaseOK'
  <2>1. \A t \in Ids : Leased(t) /\ life'[t] = life[t] => disk'[t] = disk[t]
    <3>1. life'[s] = Tombstone /\ life[s] = life'[s] => ~Leased(s)
      BY LeasedLives
    <3> QED
      BY <1>1, <1>2, <1>3, <3>1
  <2> QED
    BY <1>1, <1>2, <2>1, LeaseKept DEF LifeInv
<1>5. CASE op' = NoOp
  BY <1>4, <1>5, AnsweredFence
<1>6. CASE op' # NoOp
  <2>1. CleansTo(s, "delmark", b) /\ life'[s] = Tombstone
    BY <1>6 DEF DeletionMove
  <2>2. Fenced(s)' /\ "delmark" \in Markers
    BY <2>1 DEF Fenced, Markers
  <2>3. b = "recover" => \A t \in Ids : t # s /\ Marks(t) # {} => Fenced(t)
    BY DEF LifeInv, MarksOK, Recovering
  <2>4. FenceOK'
    BY <1>1, <2>1, <2>2, <2>3, CleansFence
  <2> QED
    BY <1>4, <2>4
<1> QED
  BY <1>5, <1>6

LEMMA RecoverFence ==
  ASSUME LifeInv, RecoverMove, op.todo = <<>>, UNCHANGED open, op.kind \in Kinds
  PROVE  FenceOK' /\ LeaseOK'
<1>0. op.kind \in {"create", "resume", "delete", "fork"} => op.id \in Ids
  BY DEF LifeInv, TypeInv, OpOK, PlaceOK
<1>1. CASE op.at = "preflight" /\ UNCHANGED <<disk, dur>>
  <2>1. /\ \A s \in Ids : life'[s] \in {life[s], Nothing, Tombstone, Quarantine}
        /\ op' = NoOp \/ (op'.at = "recover" /\ op'.todo = <<>> /\ op'.kind = op.kind /\ op'.id = op.id)
    BY <1>1 DEF RecoverMove, Goes
  <2>2. LeaseOK'
    BY <1>1, <2>1, LeaseKept DEF LifeInv
  <2>3. CASE op' = NoOp
    BY <2>2, <2>3, AnsweredFence
  <2>4. CASE op' # NoOp
    <3>1. /\ op'.at = "recover" /\ op'.todo = <<>> /\ op'.kind = op.kind /\ op'.id = op.id
          /\ \A s \in Ids : life'[s] = IF "delmark" \in disk[s] THEN Tombstone
                                       ELSE IF "forkmark" \in disk[s] THEN Quarantine
                                       ELSE life[s]
      BY <1>1, <2>4 DEF RecoverMove, Goes
    <3>2. MarksOK'
      <4>1. \A s \in Ids : Marks(s)' # {} => Fenced(s)'
        BY <1>1, <3>1 DEF Marks, Markers, Fenced
      <4> QED
        BY <3>1, <4>1 DEF MarksOK, Quiet, CreateSteps, CleanSteps, StageSteps
    <3>3. NewOK'
      <4>1. op.kind \in {"create", "fork"} /\ life'[op.id] = Nothing => disk[op.id] \subseteq {"goal"}
        <5>1. op.kind \in {"create", "fork"} /\ life'[op.id] = Nothing => life[op.id] = Nothing
          BY <1>0, <3>1 DEF Nothing, Tombstone, Quarantine
        <5> QED
          BY <1>1, <5>1 DEF LifeInv, NewOK, Early
      <4> QED
        BY <1>1, <3>1, <4>1 DEF NewOK, StageSteps
    <3>4. CleanOK'
      BY <3>1 DEF CleanOK
    <3> QED
      BY <2>2, <3>2, <3>3, <3>4 DEF FenceOK
  <2> QED
    BY <2>3, <2>4
<1>2. CASE op.at = "recover" /\ UNCHANGED <<disk, dur, life>>
  <2>1. LeaseOK'
    BY <1>2, LeaseKept DEF LifeInv
  <2>2. \A s \in Ids : Marks(s)' = Marks(s) /\ (Fenced(s)' <=> Fenced(s))
    BY <1>2 DEF Marks, Fenced
  <2>3. ASSUME NEW s \in Ids, NEW m \in Markers, m \in disk[s], CleansTo(s, m, "recover")
        PROVE  FenceOK'
    <3>1. Fenced(s)
      BY <1>2, <2>3 DEF LifeInv, MarksOK, Recovering, Marks
    <3>2. \A t \in Ids : t # s /\ Marks(t) # {} => Fenced(t)
      BY <1>2 DEF LifeInv, MarksOK, Recovering
    <3> QED
      BY <1>2, <2>2, <2>3, <3>1, <3>2, CleansFence
  <2>4. CASE op' = NoOp
    BY <2>1, <2>4, AnsweredFence
  <2>5. CASE NoMarks /\ Goes(op.kind, <<>>)
    <3>1. op'.at = op.kind /\ op'.todo = <<>> /\ op'.kind = op.kind /\ op'.id = op.id
      BY <2>5 DEF Goes
    <3>2. op'.at \in {"list", "create", "resume", "delete", "fork"}
      BY <3>1 DEF Kinds
    <3>3. MarksOK'
      BY <2>2, <2>5, <3>2 DEF MarksOK, Recovering, Quiet, CreateSteps, CleanSteps, StageSteps, NoMarks
    <3>4. CleanOK'
      BY <3>2 DEF CleanOK
    <3>5. NewOK'
      <4>1. op.kind \in {"create", "fork"} /\ life[op.id] = Nothing => disk[op.id] \subseteq {"goal"}
        BY <1>2 DEF LifeInv, NewOK, Recovering
      <4> QED
        BY <1>2, <3>1, <3>2, <4>1 DEF NewOK, StageSteps, CleanSteps, Recovering
    <3> QED
      BY <2>1, <3>3, <3>4, <3>5 DEF FenceOK
  <2>6. ASSUME NoMarks, NEW s \in Ids, NEW run \in Seq(Repairs), Does("recover", s, run),
               disk[s] \cap (Slot \cup {"row"}) # {},
               "transcript" \in disk[s] \/ \A i \in DOMAIN run : run[i].verb = "remove"
        PROVE  FenceOK'
    <3>1. op'.at = "recover" /\ op'.todo = run /\ op'.kind = op.kind /\ op'.id = op.id /\ op'.job = s
      BY <2>6 DEF Does, Goes
    <3>2. MarksOK'
      BY <2>2, <2>6, <3>1 DEF MarksOK, Quiet, CreateSteps, CleanSteps, StageSteps, NoMarks
    <3>3. CleanOK'
      BY <3>1 DEF CleanOK
    <3>4. NewOK'
      <4>1. op.kind \in {"create", "fork"} /\ life[op.id] = Nothing => disk[op.id] \subseteq {"goal"}
        BY <1>2 DEF LifeInv, NewOK, Recovering
      <4>2. op.kind \in {"create", "fork"} /\ life[op.id] = Nothing => s # op.id
        BY <2>6, <4>1 DEF Slot
      <4>3. op'.at = "recover" /\ (\E i \in DOMAIN op'.todo : op'.todo[i].verb # "remove")
              => "transcript" \in disk'[op'.job]
        BY <1>2, <2>6, <3>1
      <4>4. op'.kind \in {"create", "fork"} /\ life'[op'.id] = Nothing
              => disk'[op'.id] \subseteq {"goal"} /\ op'.job # op'.id
        BY <1>2, <3>1, <4>1, <4>2
      <4>5. op'.at \notin StageSteps \cup {"create.write", "create.undo", "failed", "fork.stage",
                                            "attach", "fork.id"}
        BY <3>1 DEF StageSteps
      <4> QED
        BY <4>3, <4>4, <4>5 DEF NewOK
    <3> QED
      BY <3>2, <3>3, <3>4 DEF FenceOK
  <2>7. ASSUME NEW s \in Ids, DeletionMove(s, "recover") PROVE FenceOK'
    BY <1>2, <2>7, DeletionFence
  <2> QED
    BY <1>2, <2>1, <2>3, <2>4, <2>5, <2>6, <2>7 DEF RecoverMove
<1>3. ASSUME op.at = "recover", NEW s \in Ids, DeletionMove(s, "recover")
      PROVE  FenceOK' /\ LeaseOK'
  BY <1>3, DeletionFence
<1> QED
  BY <1>1, <1>2, <1>3 DEF RecoverMove

\* A step between two quiet places.
LEMMA QuietFence ==
  ASSUME op.at \in Quiet, op'.at \in Quiet, LifeInv, UNCHANGED <<disk, dur, life>>,
         op'.at # "deleted", NewOK'
  PROVE  FenceOK'
<1>1. op'.at \notin CleanSteps \cup StageSteps \cup {"recover"}
  BY DEF Quiet, CreateSteps, CleanSteps, StageSteps
<1>2. MarksOK'
  BY <1>1 DEF LifeInv, MarksOK, Recovering, Marks
<1>3. CleanOK'
  BY <1>1 DEF CleanOK, CleanSteps
<1> QED
  BY <1>2, <1>3 DEF FenceOK

LEMMA LeaseNone ==
  ASSUME LifeInv, UNCHANGED <<disk, open>>,
         \A s \in Ids : life'[s] \in {life[s], Nothing, Tombstone, Quarantine}
  PROVE  LeaseOK'
BY LeaseKept DEF LifeInv

\* A new generation is no handle's.
LEMMA LeaseFresh ==
  ASSUME LifeInv, UNCHANGED disk, NEW s \in Ids, FreshGen \in FreshGens,
         life'[s] = Active(FreshGen), OtherLives(s),
         \A h \in Handles : open'[h] \in {open[h], [id |-> s, gen |-> FreshGen]},
         \/ UNCHANGED open
         \/ Marks(s) = {} /\ ("transcript" \in disk[s] \/ disk[s] \cap {"row", "oversized"} = {})
  PROVE  LeaseOK'
<1> SUFFICES ASSUME NEW t \in Ids, Leased(t)'
             PROVE  Marks(t) = {} /\ ("transcript" \in disk[t] \/ disk[t] \cap {"row", "oversized"} = {})
  BY DEF LeaseOK, Marks
<1>1. PICK h \in Handles : open'[h] = [id |-> t, gen |-> life'[t].gen]
  BY DEF Leased
<1>2. CASE t # s
  <2>1. life'[t] = life[t] /\ open'[h] = open[h]
    BY <1>1, <1>2 DEF OtherLives
  <2>2. Leased(t)
    BY <1>1, <2>1 DEF Leased
  <2> QED
    BY <2>2 DEF LifeInv, LeaseOK
<1>3. CASE t = s
  <2>1. life'[t].gen = FreshGen
    BY <1>3 DEF Active
  <2>2. open[h].gen # FreshGen
    BY DEF FreshGens
  <2>3. ~ UNCHANGED open
    BY <1>1, <2>1, <2>2
  <2> QED
    BY <1>3, <2>3
<1> QED
  BY <1>2, <1>3

LEMMA ReuseFence ==
  ASSUME LifeInv, NEW s \in Ids, NEW b, CleansTo(s, "delmark", b), Tombstone = life'[s],
         \A t \in Ids : t # s => disk'[t] = disk[t] /\ life'[t] = life[t],
         b # "recover", NoMarks
  PROVE  FenceOK'
<1>1. Fenced(s)' /\ "delmark" \in Markers
  BY DEF Fenced, Markers
<1> QED
  BY <1>1, CleansFence

LEMMA UserFence == ASSUME LifeInv, UserMove, op.todo = <<>> PROVE FenceOK' /\ LeaseOK'
<1>1. op.at \in Quiet => NoMarks
  BY DEF LifeInv, MarksOK, NoMarks
<1>2. CASE op.at \in {"list", "failed", "deleted"} /\ UNCHANGED <<disk, dur, life, open>> /\ op' = NoOp
  BY <1>2, LeaseNone, AnsweredFence
<1>3. CASE op.at = "delete" /\ op.id \in Ids /\ DeletionMove(op.id, "deleted") /\ UNCHANGED open
  BY <1>1, <1>3, DeletionFence DEF Quiet
<1>4. CASE /\ op.at \in {"create", "fork.id"} /\ op.id \in Ids /\ UNCHANGED <<life, open>>
           /\ op.at = "fork.id" => op.kind = "fork"
           /\ op.at = "create" => op.kind = "create"
           /\ LET next == IF op.at = "create" THEN "create.write" ELSE "fork.stage"
              IN \/ op' = NoOp /\ UNCHANGED <<disk, dur>>
                 \/ life[op.id] = Tombstone /\ ReuseMove(op.id, next)
                 \/ life[op.id] = Nothing /\ Goes(next, <<>>) /\ UNCHANGED <<disk, dur>>
  <2> DEFINE next == IF op.at = "create" THEN "create.write" ELSE "fork.stage"
  <2>1. op.at \in Quiet /\ NoMarks /\ next # "recover" /\ next \in Quiet
    BY <1>1, <1>4 DEF Quiet, CreateSteps
  <2>2. CASE op' = NoOp /\ UNCHANGED <<disk, dur>>
    BY <1>4, <2>2, LeaseNone, AnsweredFence
  <2>3. CASE life[op.id] = Tombstone /\ ReuseMove(op.id, next)
    <3>1. \A t \in Ids : t # op.id => disk'[t] = disk[t]
      BY <2>3 DEF ReuseMove, Adds, OthersStay
    <3>2. ~Leased(op.id) /\ Fenced(op.id)
      BY <1>4, <2>3, LeasedLives DEF Fenced
    <3>3. LeaseOK'
      BY <1>4, <3>1, <3>2, LeaseKept DEF LifeInv
    <3>4. CASE op' = NoOp
      BY <3>3, <3>4, AnsweredFence
    <3>5. CASE CleansTo(op.id, "delmark", next)
      <4>1. \A t \in Ids : t # op.id => disk'[t] = disk[t] /\ life'[t] = life[t]
        BY <1>4, <3>1
      <4>2. Tombstone = life'[op.id]
        BY <1>4, <2>3
      <4> HIDE DEF next
      <4>3. FenceOK'
        BY <1>4, <2>1, <3>5, <4>1, <4>2, ReuseFence
      <4> QED
        BY <3>3, <4>3
    <3> QED
      BY <2>3, <3>4, <3>5 DEF ReuseMove
  <2>4. CASE life[op.id] = Nothing /\ Goes(next, <<>>) /\ UNCHANGED <<disk, dur>>
    <3>1. op'.at = next /\ op'.kind = op.kind /\ op'.id = op.id
      BY <2>4 DEF Goes
    <3>2. disk[op.id] \subseteq {"goal"}
      BY <1>4, <2>4 DEF LifeInv, NewOK, Early
    <3>3. op'.at \in {"create.write", "fork.stage"}
      BY <3>1
    <3>4. NewOK'
      BY <1>4, <2>4, <3>1, <3>2, <3>3 DEF NewOK, Early, StageSteps, Recovering, CleanSteps
    <3>5. FenceOK'
      BY <1>4, <2>1, <2>4, <3>1, <3>3, <3>4, QuietFence
    <3> QED
      BY <1>4, <2>4, <3>5, LeaseNone
  <2> QED
    BY <1>4, <2>2, <2>3, <2>4
<1>5. CASE /\ op.at = "create.write" /\ op.kind = "create" /\ UNCHANGED <<disk, dur, life, open>>
           /\ op'.at = "attach" /\ op'.kind = op.kind /\ op'.id = op.id
  <2>1. NewOK'
    BY <1>5 DEF LifeInv, NewOK, Early, StageSteps, Recovering, CleanSteps
  <2> QED
    BY <1>5, <2>1, LeaseNone, QuietFence DEF Quiet, CreateSteps
<1>6. CASE /\ op.at = "create.undo" /\ op.kind = "create" /\ UNCHANGED <<disk, dur, life, open>>
           /\ op'.at = "failed" /\ op'.kind = op.kind /\ op'.id = op.id
  <2>1. NewOK'
    BY <1>6 DEF LifeInv, NewOK, Early, StageSteps, Recovering, CleanSteps
  <2> QED
    BY <1>6, <2>1, LeaseNone, QuietFence DEF Quiet, CreateSteps
<1>7. CASE /\ op.at = "resume" /\ op.kind = "resume" /\ UNCHANGED <<disk, dur, life, open>>
           /\ Available(op.id) /\ ~Leased(op.id) /\ "transcript" \in disk[op.id]
           /\ op'.at = "attach" /\ op'.kind = op.kind /\ op'.id = op.id
  <2>1. ~Fenced(op.id)' /\ ~Leased(op.id)'
    BY <1>7 DEF Fenced, Available, Leased, Tombstone, Quarantine
  <2>2. NewOK'
    BY <1>7, <2>1 DEF LifeInv, NewOK, Early, StageSteps, Recovering, CleanSteps
  <2> QED
    BY <1>7, <2>2, LeaseNone, QuietFence DEF Quiet, CreateSteps
<1>8. CASE /\ op.at = "attach" /\ op.kind \in {"create", "resume"} /\ op.id \in Ids /\ op' = NoOp
           /\ UNCHANGED <<disk, dur>> /\ FreshGen \in FreshGens
           /\ \E h \in Handles : /\ open'[h] = [id |-> op.id, gen |-> FreshGen]
                                 /\ \A k \in Handles : k # h => open'[k] = open[k]
           /\ life'[op.id] = Active(FreshGen) /\ OtherLives(op.id)
  <2>1. Marks(op.id) = {}
    BY <1>1, <1>8 DEF Quiet, NoMarks
  <2>2. "transcript" \in disk[op.id] \/ disk[op.id] \cap {"row", "oversized"} = {}
    BY <1>8 DEF LifeInv, NewOK
  <2>3. LeaseOK'
    BY <1>8, <2>1, <2>2, LeaseFresh
  <2> QED
    BY <1>8, <2>3, AnsweredFence
<1>9. CASE /\ op.at = "fork" /\ op.kind = "fork" /\ UNCHANGED <<disk, dur, life, open>>
           /\ "transcript" \in disk[op.src]
           /\ op'.at = "fork.id" /\ op'.kind = op.kind /\ op'.id = op.id /\ op'.src = op.src
  <2>1. NewOK'
    BY <1>9 DEF LifeInv, NewOK, Early, StageSteps, Recovering, CleanSteps
  <2> QED
    BY <1>9, <2>1, LeaseNone, QuietFence DEF Quiet, CreateSteps
<1>10. CASE /\ op.at = "fork.stage" /\ op.kind = "fork" /\ UNCHANGED <<disk, dur, life, open>>
            /\ op'.at = "fork.publish" /\ op'.kind = op.kind /\ op'.id = op.id
  <2>1. NewOK'
    BY <1>10 DEF LifeInv, NewOK, Early, StageSteps, Recovering, CleanSteps
  <2>2. MarksOK'
    <3>1. \A s \in Ids : Marks(s)' = {}
      BY <1>1, <1>10 DEF Quiet, NoMarks, Marks
    <3>2. op.id \in Ids
      BY <1>10 DEF LifeInv, TypeInv, OpOK, PlaceOK
    <3> QED
      BY <1>10, <3>1, <3>2 DEF MarksOK, Recovering, Quiet, CreateSteps, CleanSteps, StageSteps, Marks
  <2>3. CleanOK'
    BY <1>10 DEF CleanOK
  <2> QED
    BY <1>10, <2>1, <2>2, <2>3, LeaseNone DEF FenceOK
<1>11. CASE /\ op.at = "fork.commit" /\ op.id \in Ids /\ op' = NoOp
            /\ UNCHANGED <<disk, dur, open>> /\ FreshGen \in FreshGens
            /\ life'[op.id] = Active(FreshGen) /\ OtherLives(op.id)
  <2>1. LeaseOK'
    BY <1>11, LeaseFresh
  <2> QED
    BY <1>11, <2>1, AnsweredFence
<1>12. CASE op.at \in {"resume", "fork"} /\ UNCHANGED <<disk, dur, life, open>> /\ op' = NoOp
  BY <1>12, LeaseNone, AnsweredFence
<1> QED
  BY <1>2, <1>3, <1>4, <1>5, <1>6, <1>7, <1>8, <1>9, <1>10, <1>11, <1>12 DEF UserMove, Does, Goes

LEMMA StageFence == ASSUME LifeInv, StageMove, op.todo = <<>> PROVE FenceOK' /\ LeaseOK'
<1>1. /\ op.kind = "fork" /\ op.id \in Ids /\ op.at \in StageSteps
      /\ UNCHANGED <<disk, dur, open>> /\ OtherLives(op.id)
  BY DEF StageMove
<1>2. life[op.id] \in {Nothing, Quarantine} /\ life'[op.id] \in {Nothing, Quarantine}
  BY <1>1 DEF LifeInv, NewOK, StageMove
<1>3. LeaseOK'
  BY <1>1, <1>2, LeaseNone DEF OtherLives
<1>4. CASE op' = NoOp
  BY <1>3, <1>4, AnsweredFence
<1>5. CASE op' # NoOp
  <2>1. op'.kind = op.kind /\ op'.id = op.id
        /\ op'.at \in {"fork.commit", "undo", "undone", "undo.index", "undo.files", "undo.mark"}
    BY <1>5 DEF StageMove, Does, Goes
  <2>2. op'.at \in StageSteps /\ op'.at \notin Quiet \cup CleanSteps \cup {"recover"} \cup Early
    BY <2>1 DEF StageSteps, Quiet, CleanSteps, CreateSteps, Early
  <2>3. MarksOK'
    BY <1>1, <2>1, <2>2 DEF LifeInv, MarksOK, Recovering, Marks
  <2>4. CleanOK'
    BY <2>1 DEF CleanOK
  <2>5. NewOK'
    BY <1>2, <2>1, <2>2 DEF NewOK, Recovering
  <2> QED
    BY <1>3, <2>3, <2>4, <2>5 DEF FenceOK
<1> QED
  BY <1>4, <1>5

LEMMA BeginFence == ASSUME LifeInv, BeginMove PROVE FenceOK' /\ LeaseOK'
<1>1. LeaseOK'
  BY LeaseNone DEF BeginMove
<1>2. op'.at = "preflight" /\ op'.todo = <<>>
  BY DEF BeginMove
<1>3. MarksOK'
  BY <1>2 DEF MarksOK, Recovering, Quiet, CleanSteps, CreateSteps, StageSteps
<1>4. CleanOK'
  BY <1>2 DEF CleanOK
<1>5. NewOK'
  <2>1. op'.kind \in {"create", "fork"} /\ life'[op'.id] = Nothing => disk'[op'.id] \subseteq {"goal"}
    BY DEF BeginMove, Drawn
  <2> QED
    BY <1>2, <2>1 DEF NewOK, StageSteps
<1> QED
  BY <1>1, <1>3, <1>4, <1>5 DEF FenceOK

\* What chat sessions do on their own concerns no operation.
LEMMA OutsideFence == ASSUME LifeInv, OutsideMove PROVE FenceOK' /\ LeaseOK'
<1>1. ASSUME NEW s, PersistMove(s), op' = op PROVE FenceOK' /\ LeaseOK'
  <2>1. /\ "transcript" \in disk[s] => "transcript" \in disk'[s]
        /\ disk'[s] \cap Markers = disk[s] \cap Markers
        /\ disk'[s] \cap {"row", "oversized"} \subseteq disk[s] \/ "transcript" \in disk'[s]
    BY <1>1 DEF PersistMove
  <2>2. LeaseOK'
    BY <1>1, <2>1, LeaseKept DEF LifeInv, PersistMove, OthersStay
  <2>3. op' = NoOp
    BY <1>1 DEF PersistMove
  <2> QED
    BY <2>2, <2>3, AnsweredFence
<1>2. ASSUME NEW s \in Ids, Adds(s, {"goal"}), op' = op, UNCHANGED <<life, open>>
      PROVE  FenceOK' /\ LeaseOK'
  <2>1. \A t \in Ids : /\ disk[t] \subseteq disk'[t] /\ disk'[t] \subseteq disk[t] \cup {"goal"}
                       /\ dur[t] \subseteq dur'[t] /\ dur'[t] \subseteq dur[t] \cup {"goal"}
    BY <1>2 DEF Adds, OthersStay
  <2>2. "goal" \notin Markers \cup RecordArts \cup Filed \cup {"row", "messages", "oversized"}
    BY DEF Markers, RecordArts, Slot, Filed, FileArts
  <2>3. LeaseOK'
    BY <1>2, <2>1, <2>2, LeaseKept DEF LifeInv
  <2>4. \A t \in Ids : Marks(t)' = Marks(t) /\ (Fenced(t)' <=> Fenced(t))
                       /\ (Leased(t)' <=> Leased(t))
    BY <1>2, <2>1, <2>2 DEF Marks, Fenced, Leased
  <2>5. op.at \in StageSteps => op.id \in Ids
    BY DEF LifeInv, TypeInv, OpOK, PlaceOK, ForkSteps
  <2>6. MarksOK'
    <3>1. op.at \in StageSteps => /\ \A t \in Ids \ {op.id} : Marks(t)' = {}
                                 /\ disk'[op.id] \cap Markers \subseteq {"forkmark"}
      BY <2>4, <2>5 DEF LifeInv, MarksOK, Marks
    <3>2. op.at \in CleanSteps => Fenced(op.job)'
      BY <1>2 DEF LifeInv, MarksOK, Fenced
    <3>3. Recovering' <=> Recovering
      BY <1>2 DEF Recovering
    <3>4. Recovering => \A t \in Ids : Marks(t)' # {} => Fenced(t)'
      BY <2>4 DEF LifeInv, MarksOK
    <3>5. /\ op.at \in Quiet => \A t \in Ids : Marks(t)' = {}
          /\ op.at \in CleanSteps /\ op.back # "recover" => \A t \in Ids \ {op.job} : Marks(t)' = {}
      BY <2>4 DEF LifeInv, MarksOK
    <3> QED
      BY <1>2, <3>1, <3>2, <3>3, <3>4, <3>5 DEF MarksOK, Marks
  <2>7. CleanOK'
    <3>1. op.at \in CleanSteps => op.job \in Ids
      BY DEF LifeInv, TypeInv, OpOK, PlaceOK
    <3>2. op.at = "deleted" => op.id \in Ids
      BY DEF LifeInv, TypeInv, OpOK, PlaceOK
    <3> DEFINE K(t) == disk[t] \cup dur[t]
    <3>3. \A t \in Ids : disk'[t] \cup dur'[t] \subseteq K(t) \cup {"goal"}
      BY <2>1
    <3>4. ToGo' = ToGo /\ Filed' = Filed
      BY <1>2 DEF ToGo, Filed
    <3>5. CASE op.at \notin {"records", "databases", "files", "cleaned", "deleted"}
      BY <1>2, <3>5 DEF CleanOK
    <3>6. CASE op.at = "deleted"
      BY <1>2, <3>2, <3>3, <3>6 DEF LifeInv, CleanOK, Known
    <3>7. CASE op.at \in {"records", "databases", "files"}
      <4>1. op.job \in Ids
        BY <3>1, <3>7 DEF CleanSteps
      <4>2. Known(op.job)' \subseteq Known(op.job) \cup {"goal"}
        BY <1>2, <3>3, <4>1 DEF Known
      <4> QED
        BY <1>2, <2>2, <3>4, <3>7, <4>2 DEF LifeInv, CleanOK
    <3>8. CASE op.at = "cleaned"
      <4>1. op.job \in Ids /\ op.mark \in Markers
        BY <3>8 DEF CleanSteps, LifeInv, TypeInv, OpOK, PlaceOK
      <4>2. Known(op.job)' \subseteq Known(op.job) \cup {"goal"}
            /\ disk'[op.job] \subseteq disk[op.job] \cup {"goal"}
        BY <1>2, <2>1, <3>3, <4>1 DEF Known
      <4>3. op.mark # "goal"
        BY <4>1 DEF Markers
      <4> QED
        BY <1>2, <2>2, <3>4, <3>8, <4>2, <4>3 DEF LifeInv, CleanOK
    <3> QED
      BY <3>5, <3>6, <3>7, <3>8
  <2>8. NewOK'
    <3>1. /\ op.kind \in {"create", "fork", "resume"} => op.id \in Ids
          /\ op.kind = "fork" => op.src \in Ids
          /\ op.at \in {"create.write", "create.undo", "failed"} => op.kind = "create"
          /\ op.at = "fork.id" => op.kind = "fork"
          /\ op.at \in StageSteps \cup {"fork.stage"} => op.kind = "fork"
          /\ op.todo # <<>> => op.job \in Ids
      BY DEF LifeInv, TypeInv, OpOK, PlaceOK, CreateSteps, ForkSteps
    <3>2. op.kind \in {"create", "fork"} /\ (op.at \in Early \/ Recovering') /\ life[op.id] = Nothing
            => disk'[op.id] \subseteq {"goal"}
               /\ (op.at = "recover" /\ op.todo # <<>> => op.job # op.id)
      <4>1. Recovering' => Recovering
        BY <1>2 DEF Recovering
      <4> QED
        BY <2>1, <3>1, <4>1 DEF LifeInv, NewOK
    <3>3. op.at \in {"create.write", "fork.stage"} => disk'[op.id] \subseteq {"goal"}
      BY <2>1, <3>1 DEF LifeInv, NewOK
    <3>4. op.at = "attach" /\ op.kind = "create" =>
            life[op.id] \in {Nothing, Tombstone} /\ disk'[op.id] \cap {"row", "oversized"} = {}
      BY <2>1, <3>1 DEF LifeInv, NewOK
    <3>5. op.at = "attach" /\ op.kind = "resume" =>
            ~Fenced(op.id)' /\ ~Leased(op.id)' /\ "transcript" \in disk'[op.id]
      BY <1>2, <2>1, <3>1 DEF LifeInv, NewOK, Fenced, Leased
    <3>6. op.at = "recover" /\ (\E i \in DOMAIN op.todo : op.todo[i].verb # "remove")
            => "transcript" \in disk'[op.job]
      <4>1. op.at = "recover" /\ (\E i \in DOMAIN op.todo : op.todo[i].verb # "remove")
              => op.todo # <<>> /\ "transcript" \in disk[op.job]
        BY DEF LifeInv, NewOK
      <4> QED
        BY <2>1, <3>1, <4>1
    <3>7. op.at = "fork.id" => "transcript" \in disk'[op.src]
      BY <2>1, <3>1 DEF LifeInv, NewOK
    <3>8. /\ op.at \in {"create.write", "create.undo", "failed"} =>
               life[op.id] \in {Nothing, Tombstone}
          /\ op.at \in StageSteps => life[op.id] \in {Nothing, Quarantine}
          /\ op.at = "fork.stage" => life[op.id] = Nothing
      BY DEF LifeInv, NewOK
    <3> QED
      BY <1>2, <3>2, <3>3, <3>4, <3>5, <3>6, <3>7, <3>8 DEF NewOK
  <2> QED
    BY <2>3, <2>6, <2>7, <2>8 DEF FenceOK
<1>3. CASE op' = op /\ UNCHANGED <<disk, dur, life>> /\ \A h \in Handles : open'[h] \in {open[h], Closed}
  <2>1. LeaseOK'
    BY <1>3, LeaseKept DEF LifeInv
  <2>2. op.at = "attach" /\ op.kind = "resume" => op.id \in Ids
    BY DEF LifeInv, TypeInv, OpOK, PlaceOK
  <2>3. \A s \in Ids : Leased(s)' => Leased(s)
    BY <1>3, LeaseGiven
  <2>4. MarksOK' /\ CleanOK'
    BY <1>3 DEF LifeInv, MarksOK, CleanOK, Recovering, Fenced, Marks, Known, ToGo, Filed
  <2>5. op.at = "attach" /\ op.kind = "resume" =>
          ~Fenced(op.id)' /\ ~Leased(op.id)' /\ "transcript" \in disk'[op.id]
    <3>1. op.at = "attach" /\ op.kind = "resume" => ~Leased(op.id)'
      <4>1. op.at = "attach" /\ op.kind = "resume" => ~Leased(op.id)
        BY DEF LifeInv, NewOK
      <4>2. Leased(op.id)' /\ op.id \in Ids => Leased(op.id)
        BY <1>3, <2>3 DEF Leased
      <4> QED
        BY <2>2, <4>1, <4>2
    <3> QED
      BY <1>3, <3>1 DEF LifeInv, NewOK, Fenced
  <2>6. NewOK'
    BY <1>3, <2>5 DEF LifeInv, NewOK, Recovering
  <2> QED
    BY <2>1, <2>4, <2>6 DEF FenceOK
<1>4. CASE op' = NoOp /\ \A s \in Ids : life'[s] = Nothing
  <2>1. LeaseOK'
    <3>1. \A s \in Ids : ~Leased(s)'
      BY <1>4 DEF Leased, Nothing
    <3> QED
      BY <3>1 DEF LeaseOK
  <2> QED
    BY <1>4, <2>1, AnsweredFence
<1> QED
  BY <1>1, <1>2, <1>3, <1>4 DEF OutsideMove

LEMMA LifeInit == Init => LifeInv
<1> SUFFICES ASSUME Init PROVE LifeInv
  OBVIOUS
<1>1. op.at = "idle" /\ op.todo = <<>> /\ op.kind = "none"
  BY NoOpTyped DEF Init
<1>2. MarksOK
  BY <1>1 DEF MarksOK, Recovering, Quiet, CreateSteps, CleanSteps, StageSteps
<1>3. CleanOK /\ NewOK
  BY <1>1 DEF CleanOK, NewOK, StageSteps
<1>4. LeaseOK
  BY DEF Init, LeaseOK, Leased, Nothing
<1> QED
  BY <1>2, <1>3, <1>4, TypeInit DEF LifeInv

\* The steps of the model by what they do.
LEMMA Moves ==
  ASSUME TypeInv, Next
  PROVE  \/ TakeStep
         \/ /\ CleanMove /\ op.at \in CleanSteps /\ op.todo = <<>> /\ op.job \in Ids
            /\ op.mark \in Markers /\ UNCHANGED <<open, deleted, acked, crashes>>
         \/ /\ RecoverMove /\ op.todo = <<>> /\ op.kind \in Kinds
            /\ UNCHANGED <<open, deleted, acked, crashes>>
         \/ UserMove /\ op.todo = <<>> /\ UNCHANGED crashes
         \/ StageMove /\ op.todo = <<>> /\ UNCHANGED crashes
         \/ BeginMove
         \/ OutsideMove
BY CleanEffect, RecoverEffect, UserEffect, StageEffect, BeginEffect, OutsideEffect
   DEF Next, Working, TypeInv

LEMMA LifeStep == ASSUME LifeInv, [Next]_vars PROVE LifeInv'
<1>1. TypeInv'
  BY TypeStep DEF LifeInv
<1>2. CASE Next
  <2>1. FenceOK' /\ LeaseOK'
    BY <1>2, Moves, TakeFence, CleanFence, RecoverFence, UserFence, StageFence, BeginFence,
       OutsideFence
       DEF LifeInv
  <2> QED
    BY <1>1, <2>1 DEF LifeInv, FenceOK
<1>3. CASE UNCHANGED vars
  <2>1. UNCHANGED <<disk, dur, life, open, op>>
    BY <1>3 DEF vars
  <2> QED
    BY <1>1, <2>1 DEF LifeInv, MarksOK, CleanOK, NewOK, LeaseOK, Recovering, Fenced, Marks, Known,
       ToGo, Filed, Leased
<1> QED
  BY <1>2, <1>3

\* The inductive invariant the others rest on: whatever fails, a marker belongs
\* to a deletion or a fork that memory knows of, a cleanup removes in its order,
\* create and fork write under an id that is nobody's, and no session that a
\* persistence may write to is marked for removal.
THEOREM LifeInvariant == Spec => []LifeInv
<1>1. LifeInv /\ [Next]_vars => LifeInv'
  BY LifeStep
<1> QED
  BY <1>1, LifeInit, PTL DEF Spec

-----------------------------------------------------------------------------
(* Handles                                                                  *)

KeptOf(h) == \/ life'[open[h].id] = life[open[h].id]
             \/ life'[open[h].id] = Tombstone /\ op.kind = "delete"

LEMMA WritableLeased ==
  ASSUME TypeOK, NEW h \in Handles, Writable(h)
  PROVE  open[h].id \in Ids /\ Leased(open[h].id)
<1>1. open[h] # Closed /\ life[open[h].id] = Active(open[h].gen)
  BY DEF Writable
<1>2. open[h] \in [id : Ids, gen : Gens]
  BY <1>1 DEF TypeOK
<1>3. open[h] = [id |-> open[h].id, gen |-> open[h].gen]
  BY <1>2
<1> QED
  BY <1>1, <1>2, <1>3 DEF Leased, Active

LEMMA HandleStep ==
  ASSUME LifeInv, Next, NEW h \in Handles, Writable(h), open'[h] = open[h]
  PROVE  KeptOf(h)
<1> DEFINE s == open[h].id
<1>1. s \in Ids /\ Leased(s)
  BY WritableLeased DEF LifeInv, TypeInv
<1>2. /\ ~Fenced(s) /\ life[s] # Nothing /\ life[s] # Tombstone /\ life[s] # Quarantine
      /\ Marks(s) = {}
      /\ "transcript" \in disk[s] \/ disk[s] \cap {"row", "oversized"} = {}
  BY <1>1, LeasedLives DEF LifeInv, LeaseOK
<1>3. open[h] # Closed
  BY DEF Writable
<1> SUFFICES life'[s] = life[s] \/ (life'[s] = Tombstone /\ op.kind = "delete")
  BY DEF KeptOf
<1> HIDE DEF s
<1>4. CASE TakeStep
  BY <1>1, <1>4, TakeEffect DEF LifeInv
<1>5. CASE CleanMove /\ op.at \in CleanSteps
  <2>1. s # op.job
    BY <1>2, <1>5 DEF LifeInv, MarksOK
  <2> QED
    BY <1>1, <1>5, <2>1 DEF CleanMove
<1>6. CASE RecoverMove
  <2>1. ASSUME NEW t \in Ids, DeletionMove(t, "recover"), "transcript" \notin disk[t],
               disk[t] \cap {"row", "oversized"} # {}
        PROVE  life'[s] = life[s]
    <3>1. s # t
      BY <1>2, <2>1
    <3> QED
      BY <1>1, <2>1, <3>1 DEF DeletionMove, OtherLives
  <2> QED
    BY <1>1, <1>2, <1>6, <2>1 DEF RecoverMove, Marks, Markers
<1>7. CASE UserMove
  <2>1. CASE op.kind = "delete" /\ DeletionMove(op.id, "deleted")
    BY <1>1, <2>1 DEF DeletionMove, OtherLives
  <2>2. CASE op.at = "attach" /\ op.kind \in {"create", "resume"} /\ OtherLives(op.id)
    <3>1. s # op.id
      BY <1>1, <1>2, <2>2 DEF LifeInv, NewOK
    <3> QED
      BY <1>1, <2>2, <3>1 DEF OtherLives
  <2>3. CASE op.at = "fork.commit" /\ OtherLives(op.id)
    <3>1. s # op.id
      BY <1>1, <1>2, <2>3 DEF LifeInv, NewOK, StageSteps
    <3> QED
      BY <1>1, <2>3, <3>1 DEF OtherLives
  <2> QED
    BY <1>1, <1>7, <2>1, <2>2, <2>3 DEF UserMove
<1>8. CASE StageMove
  <2>1. s # op.id
    BY <1>1, <1>2, <1>8 DEF StageMove, LifeInv, NewOK
  <2> QED
    BY <1>1, <1>8, <2>1 DEF StageMove, OtherLives
<1>9. CASE BeginMove
  BY <1>9 DEF BeginMove
<1>10. CASE OutsideMove
  BY <1>1, <1>3, <1>10 DEF OutsideMove, PersistMove
<1> QED
  BY <1>4, <1>5, <1>6, <1>7, <1>8, <1>9, <1>10, Moves DEF LifeInv

\* A handle that may write keeps that right until it is dropped, its session is
\* deleted or the process dies: no resume, fork, create or recovery registers a
\* generation over it or fences its session.
THEOREM HandleKeptAlways == Spec => HandleKept
<1>1. LifeInv /\ [Next]_vars => [\A h \in Handles : Writable(h) /\ open'[h] = open[h]
                                    => \/ life'[open[h].id] = life[open[h].id]
                                       \/ life'[open[h].id] = Tombstone /\ op.kind = "delete"]_vars
  <2>1. CASE Next
    BY <2>1, HandleStep DEF KeptOf
  <2>2. CASE UNCHANGED vars
    BY <2>2
  <2> QED
    BY <2>1, <2>2
<1>2. Spec => []LifeInv
  BY LifeInvariant
<1> QED
  BY <1>1, <1>2, PTL DEF Spec, HandleKept

-----------------------------------------------------------------------------
(* Deletions, step by step                                                  *)

\* Only the return of a handle, and the commit of a fork, start a lease.
LEMMA LeaseOrigin ==
  ASSUME LifeInv, Next, NEW s \in Ids, Leased(s)'
  PROVE  Leased(s) \/ (s = op.id /\ op.at \in {"attach", "fork.commit"})
<1> SUFFICES ASSUME ~(s = op.id /\ op.at \in {"attach", "fork.commit"}) PROVE Leased(s)
  OBVIOUS
<1>1. CASE TakeStep
  BY <1>1, TakeEffect DEF LifeInv, Leased
<1>2. CASE CleanMove /\ UNCHANGED open /\ op.job \in Ids
  <2>1. life'[s] \in {life[s], Nothing}
    BY <1>2 DEF CleanMove
  <2> QED
    BY <1>2, <2>1, LeaseGiven
<1>3. CASE RecoverMove /\ UNCHANGED open
  <2>1. life'[s] \in {life[s], Tombstone, Quarantine}
    <3>1. ASSUME NEW t \in Ids, DeletionMove(t, "recover") PROVE life'[s] \in {life[s], Tombstone}
      BY <3>1 DEF DeletionMove, OtherLives
    <3> QED
      BY <1>3, <3>1 DEF RecoverMove
  <2> QED
    BY <1>3, <2>1, LeaseGiven
<1>4. CASE UserMove
  <2>1. CASE op.at = "attach" /\ OtherLives(op.id) /\ op.id \in Ids
             /\ \E h \in Handles : /\ open'[h] = [id |-> op.id, gen |-> FreshGen]
                                   /\ \A k \in Handles : k # h => open'[k] = open[k]
    <3>1. s # op.id /\ life'[s] = life[s]
      BY <2>1 DEF OtherLives
    <3>2. PICK h \in Handles : open'[h] = [id |-> s, gen |-> life'[s].gen]
      BY DEF Leased
    <3>3. open[h] = [id |-> s, gen |-> life[s].gen]
      BY <2>1, <3>1, <3>2
    <3> QED
      BY <3>1, <3>3 DEF Leased
  <2>2. CASE op.at = "fork.commit" /\ OtherLives(op.id) /\ UNCHANGED open
    BY <2>2, LeaseGiven DEF OtherLives
  <2>3. CASE op.id \in Ids /\ DeletionMove(op.id, "deleted") /\ UNCHANGED open
    <3>1. life'[s] \in {life[s], Tombstone}
      BY <2>3 DEF DeletionMove, OtherLives
    <3> QED
      BY <2>3, <3>1, LeaseGiven
  <2>4. CASE UNCHANGED <<life, open>>
    BY <2>4 DEF Leased
  <2> QED
    BY <1>4, <2>1, <2>2, <2>3, <2>4 DEF UserMove
<1>5. CASE StageMove
  <2>1. life'[s] \in {life[s], Quarantine, Nothing} /\ UNCHANGED open
    BY <1>5 DEF StageMove, OtherLives
  <2> QED
    BY <2>1, LeaseGiven
<1>6. CASE BeginMove
  BY <1>6 DEF BeginMove, Leased
<1>7. CASE OutsideMove
  <2>1. /\ life'[s] \in {life[s], Nothing}
        /\ \A h \in Handles : open'[h] \in {open[h], Closed}
    BY <1>7 DEF OutsideMove, PersistMove
  <2> QED
    BY <2>1, LeaseGiven
<1> QED
  BY <1>1, <1>2, <1>3, <1>4, <1>5, <1>6, <1>7, Moves DEF LifeInv

Leasing == \A s \in Ids : Leased(s) => s \notin deleted

LEMMA GoneAnswered == ASSUME op' = NoOp, Leasing' PROVE GoneOK'
<1>1. op'.at = "idle" /\ op'.todo = <<>>
  BY NoOpTyped
<1>2. op'.at \notin StageSteps \cup CleanSteps
  BY <1>1 DEF StageSteps, CleanSteps
<1> QED
  BY <1>1, <1>2 DEF GoneOK, Leasing

LEMMA GoneLeases ==
  ASSUME DeletedInv, Next, deleted' \subseteq deleted
  PROVE  Leasing'
<1> SUFFICES ASSUME NEW s \in Ids, Leased(s)' PROVE s \notin deleted
  BY DEF Leasing
<1>1. Leased(s) \/ (s = op.id /\ op.at \in {"attach", "fork.commit"})
  BY LeaseOrigin DEF DeletedInv
<1>2. "fork.commit" \in StageSteps
  BY DEF StageSteps
<1> QED
  BY <1>1, <1>2 DEF DeletedInv, GoneOK

LEMMA TakeGone == ASSUME DeletedInv, Next, TakeStep PROVE DeletedStays' /\ GoneOK'
<1> DEFINE step == Head(op.todo)
           j == op.job
<1>1. /\ op \in Ops /\ j \in Ids /\ op.at \in RunPlaces /\ op.todo # <<>>
      /\ OthersStay(j) /\ UNCHANGED <<life, open, deleted>>
      /\ IF step.verb = "remove" THEN Removes(j, step.what) ELSE Adds(j, step.what)
      /\ \/ Taken(step) \/ Collected(step) \/ Returned(step)
         \/ Diverted(step) /\ Diversion
  BY TakeEffect DEF DeletedInv, LifeInv
<1>2. op.at \in CleanSteps => step.verb = "remove"
  BY TakeWrites DEF DeletedInv, LifeInv
<1>3. RunPlaces \subseteq CleanSteps \cup {"recover", "attach", "failed", "fork.id"} \cup StageSteps
  BY DEF RunPlaces, CleanSteps, StageSteps
<1>4. Leasing'
  BY <1>1, GoneLeases
<1> HIDE DEF step, j
<1>5. DeletedStays'
  <2> SUFFICES ASSUME NEW s \in deleted
               PROVE  disk'[s] \cup dur'[s] \subseteq {"goal", "delmark"}
    BY <1>1 DEF DeletedStays
  <2>1. disk[s] \cup dur[s] \subseteq {"goal", "delmark"} /\ s \in Ids
    BY DEF DeletedInv, DeletedStays, LifeInv, TypeInv, TypeOK
  <2>2. CASE s # j
    BY <1>1, <2>1, <2>2 DEF OthersStay
  <2>3. CASE s = j
    <3>1. op.at \in CleanSteps
      BY <1>1, <1>3, <2>3 DEF DeletedInv, GoneOK, j
    <3>2. disk'[s] \subseteq disk[s] /\ dur'[s] \subseteq dur[s]
      BY <1>1, <1>2, <2>3, <3>1 DEF Removes
    <3> QED
      BY <2>1, <3>2
  <2> QED
    BY <2>2, <2>3
<1>6. CASE op' = NoOp
  BY <1>4, <1>5, <1>6, GoneAnswered
<1>7. CASE op' # NoOp
  <2>1. /\ op'.id = op.id /\ op'.job = j /\ op'.mark = op.mark /\ op'.back = op.back
        /\ (op'.at = op.at /\ op'.todo = Tail(op.todo)) \/ (Diversion /\ op'.todo = <<>>)
    BY <1>1, <1>7 DEF Taken, Collected, Diverted, Returned, Carried, j
  <2>2. /\ op'.at \in CleanSteps <=> op.at \in CleanSteps
        /\ op'.at \in StageSteps <=> op.at \in StageSteps
        /\ op'.at \notin {"deleted", "create.write", "fork.stage"}
        /\ op'.at \in {"create.undo", "failed", "attach"} => op.at \in {"attach", "failed"}
    BY <1>1, <2>1 DEF Diversion, RunPlaces, CleanSteps, StageSteps
  <2>3. op'.todo # <<>> => op'.at = op.at
    BY <2>1
  <2> QED
    BY <1>1, <1>4, <1>5, <2>1, <2>2, <2>3 DEF DeletedInv, GoneOK, Leasing, j
<1> QED
  BY <1>6, <1>7

LEMMA CleanGone ==
  ASSUME DeletedInv, Next, CleanMove, op.at \in CleanSteps, op.job \in Ids, op.mark \in Markers,
         UNCHANGED <<open, deleted>>
  PROVE  DeletedStays' /\ GoneOK'
<1>1. Leasing'
  BY GoneLeases
<1>2. Adds(op.job, {op.mark})
  BY DEF CleanMove, Adds, OthersStay
<1>3. DeletedStays'
  <2> SUFFICES ASSUME NEW s \in deleted
               PROVE  disk'[s] \cup dur'[s] \subseteq {"goal", "delmark"}
    BY DEF DeletedStays
  <2>1. disk[s] \cup dur[s] \subseteq {"goal", "delmark"} /\ s \in Ids
    BY DEF DeletedInv, DeletedStays, LifeInv, TypeInv, TypeOK
  <2>2. s = op.job => op.mark = "delmark"
    BY DEF DeletedInv, GoneOK, Markers
  <2> QED
    BY <1>2, <2>1, <2>2 DEF Adds, OthersStay
<1>4. CASE op' = NoOp
  BY <1>1, <1>3, <1>4, GoneAnswered
<1>5. CASE op' # NoOp /\ op.at # "cleaned"
  <2>1. /\ op'.job = op.job /\ op'.mark = op.mark /\ op'.back = op.back /\ op'.id = op.id
        /\ op'.at \in {"records", "databases", "files", "restore", "cleaned"}
    BY <1>5 DEF CleanMove, Does, Goes, Carried
  <2>2. op'.at \in CleanSteps /\ op'.at \notin StageSteps
    BY <2>1 DEF CleanSteps, StageSteps
  <2> QED
    BY <1>1, <1>3, <2>1, <2>2 DEF DeletedInv, GoneOK, Leasing
<1>6. CASE op' # NoOp /\ op.at = "cleaned"
  <2>1. /\ op'.at = op.back /\ op'.todo = <<>> /\ op'.id = op.id
        /\ life'[op.job] \in {life[op.job], Nothing}
    BY <1>6 DEF CleanMove, Goes
  <2>2. /\ op.back \in {"recover", "deleted", "create.write", "fork.stage"}
        /\ op.back # "recover" => op.job = op.id
    BY DEF DeletedInv, LifeInv, TypeInv, OpOK, PlaceOK
  <2>3. op.back = "deleted" => ~Leased(op.id)'
    <3>1. Fenced(op.job)
      BY DEF DeletedInv, LifeInv, MarksOK
    <3> QED
      BY <2>1, <2>2, <3>1 DEF Fenced, Leased, Nothing, Tombstone, Quarantine
  <2>4. op'.at \notin StageSteps \cup CleanSteps
    BY <2>1, <2>2 DEF StageSteps, CleanSteps
  <2> QED
    BY <1>1, <1>3, <2>1, <2>2, <2>3, <2>4 DEF DeletedInv, GoneOK, Leasing, Leased
<1> QED
  BY <1>4, <1>5, <1>6

\* A cleanup that starts.
LEMMA CleansGone ==
  ASSUME NEW s, NEW m, NEW b, CleansTo(s, m, b), Leasing',
         m = "forkmark" => s \notin deleted',
         b \in {"create.write", "fork.stage"} => op.id \notin deleted'
  PROVE  GoneOK'
<1>1. op'.at = "ensure" /\ op'.todo = <<>> /\ op'.job = s /\ op'.mark = m /\ op'.back = b
      /\ op'.id = op.id
  BY DEF CleansTo, Goes
<1>2. op'.at \notin StageSteps
  BY <1>1 DEF StageSteps
<1> QED
  BY <1>1, <1>2 DEF GoneOK, Leasing

LEMMA StoredStays ==
  ASSUME DeletedInv, deleted' \subseteq deleted, NEW s \in Ids,
         UNCHANGED <<disk, dur>> \/ Adds(s, {"goal", "delmark"})
  PROVE  DeletedStays'
<1> SUFFICES ASSUME NEW t \in deleted PROVE disk'[t] \cup dur'[t] \subseteq {"goal", "delmark"}
  BY DEF DeletedStays
<1>1. disk[t] \cup dur[t] \subseteq {"goal", "delmark"} /\ t \in Ids
  BY DEF DeletedInv, DeletedStays, LifeInv, TypeInv, TypeOK
<1> QED
  BY <1>1 DEF Adds, OthersStay

LEMMA DeletionGone ==
  ASSUME DeletedInv, Next, NEW s \in Ids, NEW b, DeletionMove(s, b), UNCHANGED deleted,
         b \in {"recover", "deleted"}
  PROVE  DeletedStays' /\ GoneOK'
<1>1. Leasing'
  BY GoneLeases
<1>2. DeletedStays'
  <2>1. Adds(s, {"goal", "delmark"})
    BY DEF DeletionMove, Adds
  <2> QED
    BY <2>1, StoredStays
<1> QED
  BY <1>1, <1>2, GoneAnswered, CleansGone DEF DeletionMove

\* A place with nothing to do in it, that no session is written for.
LEMMA IdleGone ==
  ASSUME op'.todo = <<>>, op'.at \in {"preflight", "recover", "list", "delete", "resume", "create",
                                      "fork"}, Leasing'
  PROVE  GoneOK'
<1>1. op'.at \notin StageSteps \cup CleanSteps
  BY DEF StageSteps, CleanSteps
<1> QED
  BY <1>1 DEF GoneOK, Leasing

LEMMA RecoverGone ==
  ASSUME DeletedInv, Next, RecoverMove, op.kind \in Kinds, UNCHANGED <<open, deleted>>
  PROVE  DeletedStays' /\ GoneOK'
<1>1. Leasing'
  BY GoneLeases
<1>2. CASE op.at = "preflight" /\ UNCHANGED <<disk, dur>>
  <2>1. DeletedStays'
    BY <1>2 DEF DeletedInv, DeletedStays
  <2>2. op' = NoOp \/ (op'.at = "recover" /\ op'.todo = <<>>)
    BY <1>2 DEF RecoverMove, Goes
  <2> QED
    BY <1>1, <2>1, <2>2, GoneAnswered, IdleGone
<1>3. CASE op.at = "recover" /\ UNCHANGED <<disk, dur>>
  <2>1. DeletedStays'
    BY <1>3 DEF DeletedInv, DeletedStays
  <2>2. CASE op' = NoOp
    BY <1>1, <2>1, <2>2, GoneAnswered
  <2>3. ASSUME NEW s \in Ids, NEW m \in Markers, m \in disk[s], CleansTo(s, m, "recover")
        PROVE  GoneOK'
    <3>1. m = "forkmark" => s \notin deleted
      BY <2>3 DEF DeletedInv, DeletedStays
    <3> QED
      BY <1>1, <2>3, <3>1, CleansGone
  <2>4. CASE Goes(op.kind, <<>>)
    <3>1. op'.todo = <<>> /\ op'.at \in {"list", "delete", "resume", "create", "fork"}
      BY <2>4 DEF Goes, Kinds
    <3>2. op'.at \in {"preflight", "recover", "list", "delete", "resume", "create", "fork"}
      BY <3>1
    <3>3. GoneOK'
      BY <1>1, <3>1, <3>2, IdleGone
    <3> QED
      BY <2>1, <3>3
  <2>5. ASSUME NEW s \in Ids, NEW run \in Seq(Repairs), Does("recover", s, run),
               disk[s] \cap (Slot \cup {"row"}) # {}
        PROVE  GoneOK'
    <3>1. s \notin deleted
      BY <2>5 DEF DeletedInv, DeletedStays, Slot
    <3>2. op'.at = "recover" /\ op'.job = s
      BY <2>5 DEF Does, Goes
    <3>3. op'.at \notin StageSteps \cup CleanSteps
      BY <3>2 DEF StageSteps, CleanSteps
    <3> QED
      BY <1>1, <3>1, <3>2, <3>3 DEF GoneOK, Leasing
  <2>6. ASSUME NEW s \in Ids, DeletionMove(s, "recover") PROVE GoneOK'
    BY <2>6, DeletionGone
  <2> QED
    BY <1>3, <2>1, <2>2, <2>3, <2>4, <2>5, <2>6 DEF RecoverMove
<1>4. ASSUME NEW s \in Ids, DeletionMove(s, "recover") PROVE DeletedStays' /\ GoneOK'
  BY <1>4, DeletionGone
<1> QED
  BY <1>2, <1>3, <1>4 DEF RecoverMove

\* A run for a session that is not deleted.
LEMMA RunGone ==
  ASSUME NEW p \in {"attach", "failed", "fork.id", "fork.publish"}, NEW s \in Ids, NEW run,
         Does(p, s, run), Leasing', s \notin deleted',
         p # "fork.id" => op.id \notin deleted'
  PROVE  GoneOK'
<1>1. op'.at = p /\ op'.job = s /\ op'.id = op.id
  BY DEF Does, Goes
<1>2. op'.at \notin CleanSteps /\ "fork.id" \notin StageSteps
  BY <1>1 DEF CleanSteps, StageSteps
<1> QED
  BY <1>1, <1>2 DEF GoneOK, Leasing

LEMMA UserGone == ASSUME DeletedInv, Next, UserMove PROVE DeletedStays' /\ GoneOK'
<1>1. deleted' \subseteq deleted => Leasing'
  BY GoneLeases
<1>2. UNCHANGED <<disk, dur, deleted>> => DeletedStays'
  BY DEF DeletedInv, DeletedStays
<1>3. CASE /\ op' = NoOp /\ UNCHANGED <<disk, dur, deleted>>
  BY <1>1, <1>2, <1>3, GoneAnswered
<1>4. CASE op.id \in Ids /\ DeletionMove(op.id, "deleted") /\ UNCHANGED deleted
  BY <1>4, DeletionGone
<1>5. CASE /\ op.at = "deleted" /\ op.id \in Ids /\ op' = NoOp
           /\ UNCHANGED <<disk, dur, life, open>> /\ deleted' = deleted \cup {op.id}
  <2>1. disk[op.id] \cup dur[op.id] \subseteq {"goal"}
    BY <1>5 DEF DeletedInv, LifeInv, CleanOK, Known
  <2>2. DeletedStays'
    BY <1>5, <2>1 DEF DeletedInv, DeletedStays
  <2>3. Leasing'
    <3>1. ~Leased(op.id) /\ \A s \in Ids : Leased(s)' <=> Leased(s)
      BY <1>5 DEF DeletedInv, GoneOK, Leased
    <3> QED
      BY <1>5, <3>1 DEF DeletedInv, GoneOK, Leasing
  <2> QED
    BY <1>5, <2>2, <2>3, GoneAnswered
<1>6. CASE /\ op.at \in {"create", "fork.id"} /\ op.id \in Ids /\ deleted' = deleted \ {op.id}
           /\ LET next == IF op.at = "create" THEN "create.write" ELSE "fork.stage"
              IN \/ op' = NoOp /\ UNCHANGED <<disk, dur>>
                 \/ ReuseMove(op.id, next)
                 \/ Goes(next, <<>>) /\ UNCHANGED <<disk, dur>>
  <2> DEFINE next == IF op.at = "create" THEN "create.write" ELSE "fork.stage"
  <2>1. deleted' \subseteq deleted /\ op.id \notin deleted' /\ next \in {"create.write", "fork.stage"}
    BY <1>6
  <2>2. Leasing'
    BY <1>1, <2>1
  <2>3. CASE op' = NoOp /\ UNCHANGED <<disk, dur>>
    BY <1>6, <2>1, <2>2, <2>3, GoneAnswered, StoredStays
  <2>4. CASE ReuseMove(op.id, next)
    <3> HIDE DEF next
    <3>1. Adds(op.id, {"goal", "delmark"})
      BY <2>4 DEF ReuseMove, Adds
    <3>2. DeletedStays'
      BY <1>6, <2>1, <3>1, StoredStays
    <3>3. CleansTo(op.id, "delmark", next) \/ op' = NoOp
      BY <2>4 DEF ReuseMove
    <3> QED
      BY <1>6, <2>1, <2>2, <3>2, <3>3, CleansGone, GoneAnswered
  <2>5. CASE Goes(next, <<>>) /\ UNCHANGED <<disk, dur>>
    <3> HIDE DEF next
    <3>1. op'.at = next /\ op'.todo = <<>> /\ op'.id = op.id
      BY <2>5 DEF Goes
    <3>2. op'.at \notin StageSteps \cup CleanSteps
      BY <2>1, <3>1 DEF StageSteps, CleanSteps
    <3>3. op'.at # "deleted"
      BY <2>1, <3>1
    <3>4. DeletedStays'
      BY <1>6, <2>1, <2>5, StoredStays
    <3> QED
      BY <2>1, <2>2, <3>1, <3>2, <3>3, <3>4 DEF GoneOK, Leasing
  <2> QED
    BY <1>6, <2>3, <2>4, <2>5
<1>7. ASSUME NEW p \in {"attach", "failed", "fork.id", "fork.publish"}, NEW s \in Ids, NEW run,
             Does(p, s, run), UNCHANGED <<disk, dur, deleted>>, s \notin deleted,
             p # "fork.id" => op.id \notin deleted
      PROVE  DeletedStays' /\ GoneOK'
  BY <1>1, <1>2, <1>7, RunGone
<1>8. /\ op.at \in {"create.write", "create.undo", "fork.stage"} => op.id \notin deleted
      /\ \A s \in Ids : "transcript" \in disk[s] => s \notin deleted
  BY DEF DeletedInv, GoneOK, DeletedStays
<1> QED
  BY <1>3, <1>4, <1>5, <1>6, <1>7, <1>8 DEF UserMove

LEMMA StageGone == ASSUME DeletedInv, Next, StageMove PROVE DeletedStays' /\ GoneOK'
<1>1. /\ op.at \in StageSteps /\ op.job = op.id /\ UNCHANGED <<disk, dur, deleted>>
  BY DEF StageMove
<1>2. op.id \notin deleted
  BY <1>1 DEF DeletedInv, GoneOK
<1>3. Leasing' /\ DeletedStays'
  BY <1>1, GoneLeases DEF DeletedInv, DeletedStays
<1>4. op' = NoOp
      \/ /\ op'.id = op.id /\ op'.job = op.id
         /\ op'.at \in {"fork.commit", "undo", "undone", "undo.index", "undo.files", "undo.mark"}
  BY <1>1 DEF StageMove, Does, Goes, Going, Carried
<1>5. CASE op' # NoOp
  <2>1. op'.at \notin CleanSteps
    BY <1>4, <1>5 DEF CleanSteps
  <2> QED
    BY <1>1, <1>2, <1>3, <1>4, <1>5, <2>1 DEF GoneOK, Leasing
<1> QED
  BY <1>3, <1>5, GoneAnswered

LEMMA BeginGone == ASSUME DeletedInv, Next, BeginMove PROVE DeletedStays' /\ GoneOK'
<1>1. Leasing' /\ DeletedStays'
  BY GoneLeases DEF BeginMove, DeletedInv, DeletedStays
<1> QED
  BY <1>1, IdleGone DEF BeginMove

LEMMA OutsideGone == ASSUME DeletedInv, Next, OutsideMove PROVE DeletedStays' /\ GoneOK'
<1>1. UNCHANGED deleted
  BY DEF OutsideMove, PersistMove
<1>2. Leasing'
  BY <1>1, GoneLeases
<1>3. DeletedStays'
  <2> SUFFICES ASSUME NEW t \in deleted PROVE disk'[t] \cup dur'[t] \subseteq {"goal", "delmark"}
    BY <1>1 DEF DeletedStays
  <2>1. disk[t] \cup dur[t] \subseteq {"goal", "delmark"} /\ t \in Ids /\ ~Leased(t)
    BY DEF DeletedInv, DeletedStays, GoneOK, LifeInv, TypeInv, TypeOK
  <2>2. ASSUME NEW s \in Ids, PersistMove(s)
        PROVE  disk'[t] \cup dur'[t] \subseteq {"goal", "delmark"}
    BY <2>1, <2>2 DEF PersistMove, OthersStay
  <2>3. ASSUME NEW s \in Ids, Adds(s, {"goal"})
        PROVE  disk'[t] \cup dur'[t] \subseteq {"goal", "delmark"}
    BY <2>1, <2>3 DEF Adds, OthersStay
  <2>4. CASE UNCHANGED <<disk, dur>>
    BY <2>1, <2>4
  <2>5. CASE \A s \in Ids : disk'[s] = dur'[s] /\ disk'[s] \subseteq disk[s] \cup dur[s]
    BY <2>1, <2>5
  <2> QED
    BY <2>2, <2>3, <2>4, <2>5 DEF OutsideMove
<1>4. CASE op' = NoOp
  BY <1>2, <1>3, <1>4, GoneAnswered
<1>5. CASE op' = op
  <2>1. op.at = "deleted" => ~Leased(op.id)'
    <3>1. op.at = "deleted" => op.id \in Ids /\ ~Leased(op.id)
      BY DEF DeletedInv, GoneOK, LifeInv, TypeInv, OpOK, PlaceOK
    <3>2. \A s \in Ids : s = op.id => (Leased(op.id)' <=> Leased(s)')
      BY <1>5 DEF Leased
    <3> QED
      BY <3>1, <3>2, LeaseOrigin DEF DeletedInv
  <2> QED
    BY <1>1, <1>2, <1>3, <1>5, <2>1 DEF DeletedInv, GoneOK, Leasing, Leased
<1> QED
  BY <1>4, <1>5 DEF OutsideMove

LEMMA DeletedStep == ASSUME DeletedInv, [Next]_vars PROVE DeletedInv'
<1>1. LifeInv'
  BY LifeStep DEF DeletedInv
<1>2. CASE Next
  <2>1. DeletedStays' /\ GoneOK'
    BY <1>2, Moves, TakeGone, CleanGone, RecoverGone, UserGone, StageGone, BeginGone, OutsideGone
       DEF DeletedInv, LifeInv
  <2> QED
    BY <1>1, <2>1 DEF DeletedInv
<1>3. CASE UNCHANGED vars
  <2>1. UNCHANGED <<disk, dur, life, open, op, deleted>>
    BY <1>3 DEF vars, history
  <2> QED
    BY <1>1, <2>1 DEF DeletedInv, DeletedStays, GoneOK, Leased
<1> QED
  BY <1>2, <1>3

LEMMA DeletedInit == Init => DeletedInv
<1> SUFFICES ASSUME Init PROVE DeletedInv
  OBVIOUS
<1>1. op.at = "idle" /\ op.todo = <<>> /\ deleted = {}
  BY NoOpTyped DEF Init
<1>2. op.at \notin StageSteps \cup CleanSteps
  BY <1>1 DEF StageSteps, CleanSteps
<1> QED
  BY <1>1, <1>2, LifeInit DEF DeletedInv, DeletedStays, GoneOK

\* After delete_session has answered Ok nothing of the session comes back, on
\* disk or on stable storage, but a late goal or the marker of another deletion:
\* no handle, recovery, fork or crash of either kind re-creates it.
THEOREM DeletedStaysAlways == Spec => []DeletedStays
<1>1. DeletedInv /\ [Next]_vars => DeletedInv'
  BY DeletedStep
<1>2. Spec => []DeletedInv
  BY <1>1, DeletedInit, PTL DEF Spec
<1>3. DeletedInv => DeletedStays
  BY DEF DeletedInv
<1> QED
  BY <1>2, <1>3, PTL

-----------------------------------------------------------------------------
(* Answers, step by step                                                    *)

Durable(s) == "transcript" \in disk[s] \cap dur[s]

\* What an operation may not touch.
Spared == \A s \in acked : Marks(s) = {} /\ ~Fenced(s)

LEMMA AckedAnswered == ASSUME op' = NoOp, Spared' PROVE AckedOK'
<1>1. op'.at = "idle"
  BY NoOpTyped
<1>2. op'.at \notin StageSteps \cup CleanSteps
  BY <1>1 DEF StageSteps, CleanSteps
<1> QED
  BY <1>1, <1>2 DEF AckedOK, Spared

\* What keeps its transcript stays answered for.
LEMMA AckedKept ==
  ASSUME AckedInv, acked' \subseteq acked,
         \A s \in acked' : Durable(s) => Durable(s)'
  PROVE  AckedStays'
BY DEF AckedInv, AckedStays, Durable

LEMMA AckedNamed == ASSUME AckedInv PROVE acked \subseteq Ids
BY DEF AckedInv, LifeInv, TypeInv, TypeOK

LEMMA TakeAcked == ASSUME AckedInv, TakeStep PROVE AckedStays' /\ AckedOK'
<1> DEFINE step == Head(op.todo)
           j == op.job
<1>1. /\ op \in Ops /\ j \in Ids /\ op.at \in RunPlaces /\ op.todo # <<>>
      /\ OthersStay(j) /\ UNCHANGED <<life, open, acked>>
      /\ ToGo = step.what \cup WhatOf(Tail(op.todo))
      /\ IF step.verb = "remove" THEN Removes(j, step.what) ELSE Adds(j, step.what)
      /\ \/ Taken(step) \/ Collected(step) \/ Returned(step)
         \/ Diverted(step) /\ Diversion
  BY TakeEffect DEF AckedInv, LifeInv
<1>2. op.at \in Plain => step.what \cap (Markers \cup {"transcript", "goal"}) = {}
  BY TakeWrites DEF AckedInv, LifeInv
<1>3. RunPlaces \subseteq CleanSteps \cup Plain \cup StageSteps
  BY DEF RunPlaces, CleanSteps, StageSteps, Plain
<1>4. /\ op.at = "fork.publish" =>
           /\ step.verb = "remove" => step.what \subseteq {"stage"}
           /\ step.orelse # "collect"
      /\ op.at = "fork.commit" =>
           /\ step.verb = "remove" => step.what = {"forkmark"}
           /\ step.verb # "remove" => step.what \subseteq {"model", "messages", "baseline", "row"}
           /\ step.orelse # "collect"
  <2>1. op.at \in {"fork.publish", "fork.commit"} =>
          op \in Ops /\ RunOK /\ op.todo # <<>>
    BY <1>1 DEF AckedInv, LifeInv, TypeInv, OpOK
  <2> QED
    BY <2>1, FirstStep
<1>5. op.at \in StageSteps => j = op.id
  BY DEF AckedInv, LifeInv, TypeInv, OpOK, PlaceOK
<1>6. acked \subseteq Ids
  BY AckedNamed
<1> HIDE DEF step, j
<1>7. op.at \in Plain => /\ disk'[j] \cap Markers = disk[j] \cap Markers
                         /\ "transcript" \in disk[j] \cap dur[j]
                              => "transcript" \in disk'[j] \cap dur'[j]
  <2>1. step.verb = "remove" => /\ disk'[j] \subseteq disk[j] /\ disk[j] \ step.what \subseteq disk'[j]
                                /\ dur[j] \ step.what \subseteq dur'[j]
    BY <1>1 DEF Removes
  <2>2. step.verb # "remove" => /\ disk[j] \subseteq disk'[j] /\ disk'[j] \subseteq disk[j] \cup step.what
                                /\ dur[j] \subseteq dur'[j]
    BY <1>1 DEF Adds
  <2> QED
    BY <1>2, <2>1, <2>2
<1>8. \A s \in acked : /\ disk'[s] \cap Markers = disk[s] \cap Markers
                       /\ "transcript" \in disk'[s] \cap dur'[s]
  <2> SUFFICES ASSUME NEW s \in acked
               PROVE  /\ disk'[s] \cap Markers = disk[s] \cap Markers
                      /\ "transcript" \in disk'[s] \cap dur'[s]
    OBVIOUS
  <2>1. s \in Ids /\ "transcript" \in disk[s] \cap dur[s]
    BY <1>6 DEF AckedInv, AckedStays
  <2>2. CASE s # j
    BY <1>1, <2>1, <2>2 DEF OthersStay
  <2>3. CASE s = j
    <3>1. op.at \in Plain
      BY <1>1, <1>3, <1>5, <2>3 DEF AckedInv, AckedOK, j
    <3> QED
      BY <1>7, <2>1, <2>3, <3>1
  <2> QED
    BY <2>2, <2>3
<1>9. AckedStays' /\ Spared'
  BY <1>1, <1>8 DEF AckedInv, AckedStays, AckedOK, Spared, Marks, Fenced
<1>10. CASE op' = NoOp
  BY <1>9, <1>10, AckedAnswered
<1>11. CASE op' # NoOp
  <2>1. /\ op'.id = op.id /\ op'.job = j
        /\ (op'.at = op.at /\ op'.todo = Tail(op.todo)) \/ (Diversion /\ op'.todo = <<>>)
    BY <1>1, <1>11 DEF Taken, Collected, Diverted, Returned, Carried, j
  <2>2. /\ op'.at \in CleanSteps <=> op.at \in CleanSteps
        /\ op'.at \in StageSteps <=> op.at \in StageSteps
        /\ op'.at # "fork.stage"
    BY <1>1, <2>1 DEF Diversion, RunPlaces, CleanSteps, StageSteps
  <2>3. op'.at \in {"fork.publish", "fork.commit"} =>
          op'.at = op.at /\ op'.todo = Tail(op.todo) /\ ToGo' = WhatOf(Tail(op.todo)) /\ Taken(step)
    BY <1>1, <1>4, <1>11, <2>1 DEF Diversion, ToGo, WhatOf, Collected, Returned, Diverted
  <2>4. op'.at = "fork.publish" => "transcript" \in ToGo' \/ "transcript" \in disk'[j] \cap dur'[j]
    <3> SUFFICES ASSUME op'.at = "fork.publish", "transcript" \notin ToGo'
                 PROVE  "transcript" \in disk'[j] \cap dur'[j]
      OBVIOUS
    <3>1. op.at = "fork.publish" /\ Taken(step) /\ ToGo = step.what \cup ToGo' /\ j = op.id
      BY <1>1, <1>5, <2>3 DEF StageSteps
    <3>2. CASE "transcript" \in step.what
      BY <1>4, <3>1, <3>2 DEF Taken, j
    <3>3. CASE "transcript" \notin step.what
      <4>1. "transcript" \in disk[j] \cap dur[j]
        BY <3>1, <3>3 DEF AckedInv, AckedOK
      <4> QED
        BY <1>1, <3>3, <4>1 DEF Removes, Adds
    <3> QED
      BY <3>2, <3>3
  <2>5. op'.at = "fork.commit" => /\ "transcript" \in disk'[j] \cap dur'[j]
                                  /\ "forkmark" \in disk'[j] => "forkmark" \in ToGo'
    <3> SUFFICES ASSUME op'.at = "fork.commit"
                 PROVE  /\ "transcript" \in disk'[j] \cap dur'[j]
                        /\ "forkmark" \in disk'[j] => "forkmark" \in ToGo'
      OBVIOUS
    <3>1. op.at = "fork.commit" /\ Taken(step) /\ ToGo = step.what \cup ToGo' /\ j = op.id
      BY <1>1, <1>5, <2>3 DEF StageSteps
    <3>2. "transcript" \in disk[j] \cap dur[j] /\ ("forkmark" \in disk[j] => "forkmark" \in ToGo)
      BY <3>1 DEF AckedInv, AckedOK
    <3>3. CASE step.verb = "remove"
      <4>1. step.what = {"forkmark"} /\ "forkmark" \notin disk'[j]
        BY <1>4, <3>1, <3>3 DEF Taken, Known, j, Carried
      <4> QED
        BY <1>1, <3>2, <3>3, <4>1 DEF Removes
    <3>4. CASE step.verb # "remove"
      <4>1. "forkmark" \notin step.what
        BY <1>4, <3>1, <3>4
      <4>2. Adds(j, step.what)
        BY <1>1, <3>4
      <4>3. "forkmark" \in disk'[j] => "forkmark" \in disk[j]
        BY <4>1, <4>2 DEF Adds
      <4> QED
        BY <3>1, <3>2, <4>1, <4>2, <4>3 DEF Adds
    <3> QED
      BY <3>3, <3>4
  <2>6. op'.at \in {"fork.publish", "fork.commit"} => j = op.id
    BY <1>5, <2>3 DEF StageSteps
  <2> QED
    BY <1>1, <1>9, <2>1, <2>2, <2>4, <2>5, <2>6 DEF AckedInv, AckedOK, Spared, j
<1> QED
  BY <1>10, <1>11

LEMMA CleanAcked ==
  ASSUME AckedInv, CleanMove, op.at \in CleanSteps, op.job \in Ids, UNCHANGED acked
  PROVE  AckedStays' /\ AckedOK'
<1>1. op.job \notin acked /\ acked \subseteq Ids
  BY AckedNamed DEF AckedInv, AckedOK
<1>2. \A s \in acked : disk'[s] = disk[s] /\ dur'[s] = dur[s] /\ life'[s] = life[s]
  BY <1>1 DEF CleanMove, Adds, OthersStay
<1>3. AckedStays' /\ Spared'
  BY <1>2 DEF AckedInv, AckedStays, AckedOK, Spared, Marks, Fenced
<1>4. CASE op' = NoOp
  BY <1>3, <1>4, AckedAnswered
<1>5. CASE op' # NoOp /\ op.at # "cleaned"
  <2>1. /\ op'.job = op.job
        /\ op'.at \in {"records", "databases", "files", "restore", "cleaned"}
    BY <1>5 DEF CleanMove, Does, Goes, Carried
  <2>2. op'.at \notin StageSteps \cup {"fork.stage"}
    BY <2>1 DEF StageSteps
  <2> QED
    BY <1>1, <1>3, <2>1, <2>2 DEF AckedOK, Spared, StageSteps
<1>6. CASE op' # NoOp /\ op.at = "cleaned"
  <2>1. op'.at = op.back /\ op'.id = op.id
    BY <1>6 DEF CleanMove, Goes
  <2>2. /\ op.back \in {"recover", "deleted", "create.write", "fork.stage"}
        /\ op.back # "recover" => op.job = op.id
    BY DEF AckedInv, LifeInv, TypeInv, OpOK, PlaceOK
  <2>3. op'.at \notin StageSteps \cup CleanSteps
    BY <2>1, <2>2 DEF StageSteps, CleanSteps
  <2>4. op'.at \notin {"fork.publish", "fork.commit"} /\ (op'.at = "fork.stage" => op.id \notin acked)
    BY <1>1, <2>1, <2>2
  <2> QED
    BY <1>3, <2>1, <2>3, <2>4 DEF AckedOK, Spared
<1> QED
  BY <1>4, <1>5, <1>6

\* A cleanup that starts, or a place where nobody's transcript is at stake.
LEMMA CleansAcked ==
  ASSUME NEW s, NEW m, NEW b, CleansTo(s, m, b), Spared', s \notin acked'
  PROVE  AckedOK'
<1>1. op'.at = "ensure" /\ op'.job = s
  BY DEF CleansTo, Goes
<1>2. op'.at \notin StageSteps
  BY <1>1 DEF StageSteps
<1> QED
  BY <1>1, <1>2 DEF AckedOK, Spared

LEMMA PlaceAcked ==
  ASSUME op'.at \in {"preflight", "recover", "attach", "failed", "fork.id", "create.write"} \cup Kinds,
         Spared'
  PROVE  AckedOK'
<1>1. op'.at \notin StageSteps \cup CleanSteps \cup {"fork.stage"}
  BY DEF StageSteps, CleanSteps, Kinds
<1>2. op'.at \notin {"fork.publish", "fork.commit"}
  BY DEF Kinds
<1> QED
  BY <1>1, <1>2 DEF AckedOK, Spared

LEMMA DeletionAcked ==
  ASSUME AckedInv, NEW s \in Ids, NEW b, DeletionMove(s, b), acked' \subseteq acked \ {s}
  PROVE  AckedStays' /\ AckedOK'
<1>1. \A t \in acked' : disk'[t] = disk[t] /\ dur'[t] = dur[t] /\ life'[t] = life[t]
  BY AckedNamed DEF DeletionMove, Adds, OthersStay, OtherLives
<1>2. AckedStays' /\ Spared'
  BY <1>1 DEF AckedInv, AckedStays, AckedOK, Spared, Marks, Fenced
<1> QED
  BY <1>2, AckedAnswered, CleansAcked DEF DeletionMove

LEMMA RecoverAcked ==
  ASSUME AckedInv, RecoverMove, op.kind \in Kinds, UNCHANGED acked
  PROVE  AckedStays' /\ AckedOK'
<1>1. acked \subseteq Ids /\ \A s \in acked : Marks(s) = {} /\ ~Fenced(s) /\ "transcript" \in disk[s]
  BY AckedNamed DEF AckedInv, AckedOK, AckedStays
<1>2. CASE op.at = "preflight" /\ UNCHANGED <<disk, dur>>
  <2>1. \A s \in acked : life'[s] = life[s]
    BY <1>1, <1>2 DEF RecoverMove, Marks, Markers
  <2>2. AckedStays' /\ Spared'
    BY <1>1, <1>2, <2>1 DEF AckedInv, AckedStays, Spared, Marks, Fenced
  <2>3. op' = NoOp \/ op'.at = "recover"
    BY <1>2 DEF RecoverMove, Goes
  <2> QED
    BY <2>2, <2>3, AckedAnswered, PlaceAcked
<1>3. ASSUME NEW s \in Ids, DeletionMove(s, "recover"), "transcript" \notin disk[s]
      PROVE  AckedStays' /\ AckedOK'
  BY <1>1, <1>3, DeletionAcked
<1>4. CASE op.at = "recover" /\ UNCHANGED <<disk, dur, life>>
  <2>1. AckedStays' /\ Spared'
    BY <1>1, <1>4 DEF AckedInv, AckedStays, Spared, Marks, Fenced
  <2>2. ASSUME NEW s \in Ids, NEW m \in Markers, m \in disk[s], CleansTo(s, m, "recover")
        PROVE  AckedOK'
    <3>1. s \notin acked
      BY <1>1, <2>2 DEF Marks
    <3> QED
      BY <2>1, <2>2, <3>1, CleansAcked
  <2>3. CASE op' = NoOp
    BY <2>1, <2>3, AckedAnswered
  <2>4. CASE op'.at \in {"recover"} \cup Kinds
    BY <2>1, <2>4, PlaceAcked
  <2>5. Goes(op.kind, <<>>) => op'.at \in Kinds
    BY DEF Goes
  <2>6. \A s, run : Does("recover", s, run) => op'.at = "recover"
    BY DEF Does, Goes
  <2> QED
    BY <1>3, <1>4, <2>1, <2>2, <2>3, <2>4, <2>5, <2>6 DEF RecoverMove
<1> QED
  BY <1>2, <1>3, <1>4 DEF RecoverMove

LEMMA UserAcked == ASSUME AckedInv, UserMove, op.todo = <<>> PROVE AckedStays' /\ AckedOK'
<1>1. acked \subseteq Ids /\ \A s \in acked : Marks(s) = {} /\ ~Fenced(s) /\ "transcript" \in disk[s]
  BY AckedNamed DEF AckedInv, AckedOK, AckedStays
<1>2. UNCHANGED <<disk, dur, life, acked>> => AckedStays' /\ Spared'
  BY <1>1 DEF AckedInv, AckedStays, Spared, Marks, Fenced
<1>3. CASE op' = NoOp /\ UNCHANGED <<disk, dur, life, acked>>
  BY <1>2, <1>3, AckedAnswered
<1>4. CASE op.id \in Ids /\ DeletionMove(op.id, "deleted") /\ acked' = acked \ {op.id}
  <2>1. PICK s \in Ids : s = op.id
    BY <1>4
  <2> QED
    BY <1>4, <2>1, DeletionAcked
<1>5. CASE /\ op.at \in {"create", "fork.id"} /\ op.id \in Ids /\ UNCHANGED <<life, acked>>
           /\ op.at = "fork.id" => op.kind = "fork"
           /\ op.at = "create" => op.kind = "create"
           /\ LET next == IF op.at = "create" THEN "create.write" ELSE "fork.stage"
              IN \/ op' = NoOp /\ UNCHANGED <<disk, dur>>
                 \/ life[op.id] = Tombstone /\ ReuseMove(op.id, next)
                 \/ life[op.id] = Nothing /\ Goes(next, <<>>) /\ UNCHANGED <<disk, dur>>
  <2> DEFINE next == IF op.at = "create" THEN "create.write" ELSE "fork.stage"
  <2>1. CASE op' = NoOp /\ UNCHANGED <<disk, dur>>
    BY <1>2, <1>5, <2>1, AckedAnswered
  <2>2. CASE life[op.id] = Tombstone /\ ReuseMove(op.id, next)
    <3> HIDE DEF next
    <3>1. op.id \notin acked
      BY <1>1, <2>2 DEF Fenced
    <3>2. \A s \in acked : disk'[s] = disk[s] /\ dur'[s] = dur[s]
      BY <1>1, <2>2, <3>1 DEF ReuseMove, Adds, OthersStay
    <3>3. AckedStays' /\ Spared'
      BY <1>1, <1>5, <3>2 DEF AckedInv, AckedStays, Spared, Marks, Fenced
    <3>4. CleansTo(op.id, "delmark", next) \/ op' = NoOp
      BY <2>2 DEF ReuseMove
    <3> QED
      BY <1>5, <3>1, <3>3, <3>4, CleansAcked, AckedAnswered
  <2>3. CASE life[op.id] = Nothing /\ Goes(next, <<>>) /\ UNCHANGED <<disk, dur>>
    <3>1. op'.at = next /\ op'.id = op.id
      BY <2>3 DEF Goes
    <3>2. disk[op.id] \subseteq {"goal"}
      BY <1>5, <2>3 DEF AckedInv, LifeInv, NewOK, Early
    <3>3. op.id \notin acked'
      BY <1>1, <1>5, <3>2
    <3>4. op'.at \notin StageSteps \cup CleanSteps \cup {"fork.publish", "fork.commit"}
      BY <3>1 DEF StageSteps, CleanSteps
    <3> QED
      BY <1>2, <1>5, <2>3, <3>1, <3>3, <3>4 DEF AckedOK, Spared
  <2> QED
    BY <1>5, <2>1, <2>2, <2>3
<1>6. ASSUME NEW p \in {"attach", "failed", "fork.id"}, NEW s, NEW run, Does(p, s, run),
             UNCHANGED <<disk, dur, life, acked>>
      PROVE  AckedStays' /\ AckedOK'
  <2>1. op'.at \in {"attach", "failed", "fork.id"}
    BY <1>6 DEF Does, Goes
  <2> QED
    BY <1>2, <1>6, <2>1, PlaceAcked
<1>7. CASE /\ op.at = "attach" /\ op' = NoOp /\ UNCHANGED <<disk, dur, acked>>
           /\ op.id \in Ids /\ life'[op.id] = Active(FreshGen) /\ OtherLives(op.id)
  <2>1. Spared'
    BY <1>1, <1>7 DEF Spared, Marks, Fenced, OtherLives, Active, Tombstone, Quarantine
  <2> QED
    BY <1>7, <2>1, AckedAnswered DEF AckedInv, AckedStays
<1>8. ASSUME op.at = "fork.stage", op.id \in Ids, NEW run, Does("fork.publish", op.id, run),
             "transcript" \in WhatOf(run), UNCHANGED <<disk, dur, life, acked>>
      PROVE  AckedStays' /\ AckedOK'
  <2>1. op'.at = "fork.publish" /\ op'.id = op.id /\ op'.todo = run
    BY <1>8 DEF Does, Goes
  <2>2. op.id \notin acked /\ op'.at \notin CleanSteps /\ "transcript" \in ToGo'
    BY <1>8, <2>1 DEF AckedInv, AckedOK, CleanSteps, WhatOf, ToGo
  <2> QED
    BY <1>2, <1>8, <2>1, <2>2 DEF AckedOK, Spared
<1>9. CASE /\ op.at = "fork.commit" /\ op.id \in Ids /\ op' = NoOp /\ UNCHANGED <<disk, dur>>
           /\ acked' = acked \cup {op.id}
           /\ life'[op.id] = Active(FreshGen) /\ OtherLives(op.id)
  <2>1. ToGo = {}
    BY NothingToDo
  <2>2. Durable(op.id) /\ "forkmark" \notin disk[op.id] /\ Marks(op.id) \subseteq {"forkmark"}
    BY <1>9, <2>1 DEF AckedInv, AckedOK, LifeInv, MarksOK, StageSteps, Durable
  <2>3. Marks(op.id) = {}
    BY <2>2 DEF Marks
  <2>4. Spared'
    BY <1>1, <1>9, <2>3 DEF Spared, Marks, Fenced, OtherLives, Active, Tombstone, Quarantine
  <2>5. AckedStays'
    BY <1>9, <2>2 DEF AckedInv, AckedStays, Durable
  <2> QED
    BY <1>9, <2>4, <2>5, AckedAnswered
<1> QED
  BY <1>3, <1>4, <1>5, <1>6, <1>7, <1>8, <1>9 DEF UserMove

LEMMA StageAcked == ASSUME AckedInv, StageMove, op.todo = <<>> PROVE AckedStays' /\ AckedOK'
<1>1. /\ op.at \in StageSteps /\ op.job = op.id /\ UNCHANGED <<disk, dur, acked>>
      /\ OtherLives(op.id)
  BY DEF StageMove
<1>2. op.id \notin acked /\ acked \subseteq Ids
  BY <1>1, AckedNamed DEF AckedInv, AckedOK
<1>3. AckedStays' /\ Spared'
  BY <1>1, <1>2 DEF AckedInv, AckedStays, AckedOK, Spared, OtherLives, Marks, Fenced
<1>4. \/ op' = NoOp
      \/ /\ op'.id = op.id
         /\ op'.at \in {"undo", "undone", "undo.index", "undo.files", "undo.mark"}
      \/ op.at = "fork.publish" /\ Goes("fork.commit", Publication)
  BY <1>1 DEF StageMove, Does, Goes
<1>5. CASE op'.id = op.id /\ op'.at \in {"undo", "undone", "undo.index", "undo.files", "undo.mark"}
  <2>1. op'.at \notin CleanSteps
    BY <1>5 DEF CleanSteps
  <2> QED
    BY <1>1, <1>2, <1>3, <1>5, <2>1 DEF AckedOK, Spared
<1>6. CASE op.at = "fork.publish" /\ Goes("fork.commit", Publication)
  <2>1. op'.id = op.id /\ op'.at = "fork.commit" /\ op'.todo = Publication
    BY <1>6 DEF Goes
  <2>2. op'.at \notin CleanSteps
    BY <2>1 DEF CleanSteps
  <2>3. "forkmark" \in ToGo'
    BY <2>1, ForkRuns DEF WhatOf, ToGo
  <2>4. Durable(op.id)
    BY <1>6, NothingToDo DEF AckedInv, AckedOK, Durable
  <2> QED
    BY <1>1, <1>2, <1>3, <2>1, <2>2, <2>3, <2>4 DEF AckedOK, Spared, Durable
<1> QED
  BY <1>3, <1>4, <1>5, <1>6, AckedAnswered

LEMMA BeginAcked == ASSUME AckedInv, BeginMove PROVE AckedStays' /\ AckedOK'
<1>1. AckedStays' /\ Spared'
  BY AckedNamed DEF BeginMove, AckedInv, AckedStays, AckedOK, Spared, Marks, Fenced
<1> QED
  BY <1>1, PlaceAcked DEF BeginMove

LEMMA OutsideAcked ==
  ASSUME AckedInv, OutsideMove,
         PowerKept \/ \A s \in acked : dur[s] \cap Markers = {}
  PROVE  AckedStays' /\ AckedOK'
<1>1. acked \subseteq Ids /\ \A s \in acked : Marks(s) = {} /\ ~Fenced(s) /\ Durable(s)
  BY AckedNamed DEF AckedInv, AckedOK, AckedStays, Durable
<1>2. ASSUME NEW s \in Ids, PersistMove(s) PROVE AckedStays' /\ Spared'
  <2>1. Marks(s) = {} /\ ~Fenced(s)
    BY <1>2, LeasedLives DEF PersistMove, AckedInv, LifeInv, LeaseOK
  <2>2. \A t \in acked : /\ disk'[t] \cap Markers = disk[t] \cap Markers
                         /\ "transcript" \in disk'[t] \cap dur'[t]
    BY <1>1, <1>2 DEF PersistMove, OthersStay, Durable
  <2>3. disk'[s] \cap Markers = {} /\ UNCHANGED life
        /\ (acked' = acked \/ (acked' = acked \cup {s} /\ "transcript" \in disk'[s] \cap dur'[s]))
    BY <1>2, <2>1 DEF PersistMove, Marks
  <2> QED
    BY <1>1, <2>1, <2>2, <2>3 DEF AckedStays, Spared, Marks, Fenced
<1>3. ASSUME NEW s \in Ids, Adds(s, {"goal"}), UNCHANGED <<life, acked>> PROVE AckedStays' /\ Spared'
  <2>1. \A t \in acked : /\ disk'[t] \cap Markers = disk[t] \cap Markers
                         /\ "transcript" \in disk'[t] \cap dur'[t]
    BY <1>1, <1>3 DEF Adds, OthersStay, Durable, Markers
  <2> QED
    BY <1>1, <1>3, <2>1 DEF AckedStays, Spared, Marks, Fenced
<1>4. ASSUME acked' = acked,
             \A s \in acked : /\ Marks(s)' = {} /\ ~Fenced(s)'
                              /\ "transcript" \in disk'[s] \cap dur'[s]
      PROVE  AckedStays' /\ Spared'
  BY <1>4 DEF AckedStays, Spared
<1>5. ASSUME disk' = disk, dur' = dur, acked' = acked, life' = life \/ \A s \in Ids : life'[s] = Nothing
      PROVE  AckedStays' /\ Spared'
  <2>1. \A s \in acked : ~Fenced(s)'
    BY <1>1, <1>5 DEF Fenced, Nothing, Tombstone, Quarantine
  <2>2. \A s \in acked : Marks(s)' = {} /\ "transcript" \in disk'[s] \cap dur'[s]
    BY <1>1, <1>5 DEF Marks, Durable
  <2> QED
    BY <1>4, <1>5, <2>1, <2>2
<1>6. ASSUME "power" \in CrashKinds, acked' = acked,
             \A s \in Ids : life'[s] = Nothing,
             \A s \in Ids : /\ disk'[s] = dur'[s]
                            /\ disk[s] \cap dur[s] \subseteq disk'[s]
                            /\ disk'[s] \subseteq disk[s] \cup dur[s]
      PROVE  AckedStays' /\ Spared'
  <2>1. \A s \in acked : dur[s] \cap Markers = {}
    BY <1>6 DEF PowerKept
  <2>2. \A s \in acked : ~Fenced(s)'
    BY <1>1, <1>6 DEF Fenced, Nothing, Tombstone, Quarantine
  <2>3. \A s \in acked : "transcript" \in disk'[s] \cap dur'[s]
    BY <1>1, <1>6 DEF Durable
  <2>4. \A s \in acked : Marks(s)' = {}
    BY <1>1, <1>6, <2>1 DEF Marks
  <2> QED
    BY <1>4, <1>6, <2>2, <2>3, <2>4
<1>7. AckedStays' /\ Spared'
  <2>1. \/ \E s \in Ids : PersistMove(s)
        \/ UNCHANGED <<life, acked>> /\ \E s \in Ids : Adds(s, {"goal"})
        \/ UNCHANGED <<disk, dur, life, acked>>
        \/ UNCHANGED <<disk, dur, acked>> /\ \A s \in Ids : life'[s] = Nothing
        \/ /\ "power" \in CrashKinds /\ UNCHANGED acked
           /\ \A s \in Ids : life'[s] = Nothing
           /\ \A s \in Ids : /\ disk'[s] = dur'[s]
                             /\ disk[s] \cap dur[s] \subseteq disk'[s]
                             /\ disk'[s] \subseteq disk[s] \cup dur[s]
    BY DEF OutsideMove
  <2> QED
    BY <1>2, <1>3, <1>4, <1>5, <1>6, <2>1
<1>8. CASE op' = NoOp
  BY <1>7, <1>8, AckedAnswered
<1>9. CASE op' = op /\ op # NoOp
  <2>1. /\ UNCHANGED acked
        /\ \A s \in Ids : /\ dur[s] \subseteq dur'[s] /\ disk[s] \subseteq disk'[s]
                          /\ disk'[s] \cap Markers = disk[s] \cap Markers
    <3>1. ASSUME NEW s \in Ids, Adds(s, {"goal"})
          PROVE  \A t \in Ids : /\ dur[t] \subseteq dur'[t] /\ disk[t] \subseteq disk'[t]
                                /\ disk'[t] \cap Markers = disk[t] \cap Markers
      BY <3>1 DEF Adds, OthersStay, Markers
    <3> QED
      BY <1>9, <3>1 DEF OutsideMove, PersistMove
  <2>2. op.at \in StageSteps \cup {"fork.stage"} => op.id \in Ids
    BY DEF AckedInv, LifeInv, TypeInv, OpOK, PlaceOK, ForkSteps
  <2>3. op.at \in {"fork.publish", "fork.commit"} => op.at \in StageSteps
    BY DEF StageSteps
  <2>4. ToGo' = ToGo
    BY <1>9 DEF ToGo
  <2>5. "forkmark" \in Markers
    BY DEF Markers
  <2> QED
    BY <1>7, <1>9, <2>1, <2>2, <2>3, <2>4, <2>5 DEF AckedInv, AckedOK, Spared
<1> QED
  BY <1>7, <1>8, <1>9 DEF OutsideMove

LEMMA AckedStep ==
  ASSUME AckedInv, [Next]_vars,
         PowerKept \/ \A s \in acked : dur[s] \cap Markers = {}
  PROVE  AckedInv'
<1>1. LifeInv'
  BY LifeStep DEF AckedInv
<1>2. CASE Next
  <2>1. AckedStays' /\ AckedOK'
    BY <1>2, Moves, TakeAcked, CleanAcked, RecoverAcked, UserAcked, StageAcked, BeginAcked,
       OutsideAcked
       DEF AckedInv, LifeInv
  <2> QED
    BY <1>1, <2>1 DEF AckedInv
<1>3. CASE UNCHANGED vars
  <2>1. UNCHANGED <<disk, dur, life, op, acked>>
    BY <1>3 DEF vars, history
  <2> QED
    BY <1>1, <2>1 DEF AckedInv, AckedStays, AckedOK, Marks, Fenced, ToGo
<1> QED
  BY <1>2, <1>3

-----------------------------------------------------------------------------
(* With one failing call at most a marker is seen                           *)

\* What has become durable is visible.
LEMMA ChangesSeen ==
  ASSUME TypeOK, NEW s, NEW D, NEW synced, Changes(s, D, synced)
  PROVE  \A t \in Ids : dur'[t] \subseteq dur[t] \cup disk'[t]
BY DEF TypeOK, Changes

LEMMA SyncsSeen ==
  ASSUME TypeOK, Next
  PROVE  \A t \in Ids : dur'[t] \subseteq dur[t] \cup disk'[t]
<1>1. CASE UNCHANGED <<disk, dur>>
  BY <1>1
<1>2. CASE dur' = disk'
  BY <1>2
<1>3. CASE \E s, D, synced : Changes(s, D, synced)
  BY <1>3, ChangesSeen
<1>4. \A s, m : MarkerKept(s, m) \/ MarkerFails(s, m) => \E t, D, synced : Changes(t, D, synced)
  BY DEF MarkerKept, MarkerFails, Add, AddFails
<1>5. \A s, b : BeginDeletion(s, b) \/ BeginReuse(s, b) => \E t, D, synced : Changes(t, D, synced)
  BY <1>4 DEF BeginDeletion, BeginReuse
<1>6. CASE TakeStep
  BY <1>3, <1>6 DEF TakeStep, Add, AddFails, Remove, RemoveFails
<1>7. CASE EnsureMarker \/ RecordsGone \/ RowsGone \/ FilesGone \/ Restore \/ Cleaned
  BY <1>1, <1>3, <1>4, <1>7 DEF EnsureMarker, RecordsGone, RowsGone, FilesGone, Restore, Cleaned
<1>8. CASE \/ Preflight \/ RecoverMarked \/ ResolveRecord \/ RefuseRecord \/ DeleteUnpublished
           \/ DeleteGhost \/ ReconcileLegacy \/ Recovered
  BY <1>1, <1>3, <1>5, <1>8 DEF Preflight, RecoverMarked, ResolveRecord, RefuseRecord,
     DeleteUnpublished, DeleteGhost, ReconcileLegacy, Recovered
<1>9. CASE \/ List \/ Delete \/ Deleted \/ Create \/ CreateWrite \/ CreateUndo \/ Failed
           \/ Resume \/ Attach
  BY <1>1, <1>3, <1>5, <1>9
     DEF List, Delete, Deleted, Create, CreateWrite, CreateUndo, Failed, Resume, Attach
<1>10. CASE \/ Fork \/ ForkId \/ ForkStaged \/ ForkPublish \/ ForkCommit
            \/ Undo \/ UndoIndex \/ UndoFiles \/ UndoMark \/ UndoRemark \/ Undone
  BY <1>1, <1>3, <1>5, <1>10, SMTT(30) DEF Fork, ForkId, ForkStaged, ForkPublish, ForkCommit,
     Undo, UndoIndex, UndoFiles, UndoMark, UndoRemark, Undone
<1>11. CASE BeginAny
  BY <1>1, <1>11, Zenon DEF BeginAny, Begin
<1>12. CASE \E h \in Handles : Persist(h) \/ GoalWrite(h) \/ DropHandle(h)
  BY <1>1, <1>3, <1>12 DEF Persist, GoalWrite, DropHandle
<1>13. CASE Crash \/ PowerLoss
  BY <1>1, <1>2, <1>13 DEF Crash, PowerLoss
<1> QED
  BY <1>6, <1>7, <1>8, <1>9, <1>10, <1>11, <1>12, <1>13 DEF Next, Working

\* The failing calls are counted.
LEMMA FaultsStep == ASSUME Next PROVE UNCHANGED faults \/ Fault
<1>1. \A s, m : MarkerKept(s, m) \/ MarkerFails(s, m) => UNCHANGED faults \/ Fault
  BY DEF MarkerKept, MarkerFails, AddFails
<1>2. \A s, b : BeginDeletion(s, b) \/ BeginReuse(s, b) => UNCHANGED faults \/ Fault
  BY <1>1 DEF BeginDeletion, BeginReuse
<1>3. CASE TakeStep
  BY <1>3 DEF TakeStep, AddFails, RemoveFails
<1>4. CASE EnsureMarker \/ RecordsGone \/ RowsGone \/ FilesGone \/ Restore \/ Cleaned
  BY <1>1, <1>4 DEF EnsureMarker, RecordsGone, RowsGone, FilesGone, Restore, Cleaned, bounds
<1>5. CASE \/ Preflight \/ RecoverMarked \/ ResolveRecord \/ RefuseRecord \/ DeleteUnpublished
           \/ DeleteGhost \/ ReconcileLegacy \/ Recovered
  BY <1>2, <1>5 DEF Preflight, RecoverMarked, ResolveRecord, RefuseRecord,
     DeleteUnpublished, DeleteGhost, ReconcileLegacy, Recovered, bounds
<1>6. CASE \/ List \/ Delete \/ Deleted \/ Create \/ CreateWrite \/ CreateUndo \/ Failed
           \/ Resume \/ Attach
  BY <1>2, <1>6
     DEF List, Delete, Deleted, Create, CreateWrite, CreateUndo, Failed, Resume, Attach, bounds
<1>7. CASE \/ Fork \/ ForkId \/ ForkStaged \/ ForkPublish \/ ForkCommit
           \/ Undo \/ UndoIndex \/ UndoFiles \/ UndoMark \/ UndoRemark \/ Undone
  BY <1>2, <1>7, SMTT(30) DEF Fork, ForkId, ForkStaged, ForkPublish, ForkCommit,
     Undo, UndoIndex, UndoFiles, UndoMark, UndoRemark, Undone, bounds
<1>8. CASE BeginAny
  BY <1>8, Zenon DEF BeginAny, Begin, bounds
<1>9. CASE \E h \in Handles : Persist(h) \/ GoalWrite(h) \/ DropHandle(h)
  BY <1>9 DEF Persist, GoalWrite, DropHandle, bounds
<1>10. CASE Crash \/ PowerLoss
  BY <1>10 DEF Crash, PowerLoss, Restart
<1> QED
  BY <1>3, <1>4, <1>5, <1>6, <1>7, <1>8, <1>9, <1>10 DEF Next, Working

\* The only one that may fail has failed.
LEMMA OneFaultStep ==
  ASSUME OneFault, SeenOK, Next
  PROVE  /\ faults' \in Nat
         /\ Fault => faults' = MaxFaults /\ faults # MaxFaults
         /\ faults = MaxFaults => faults' = MaxFaults
<1>1. faults \in Nat /\ MaxFaults \in Nat /\ MaxFaults <= 1
  BY ConstantsAssumption DEF OneFault, SeenOK
<1>2. CASE Fault
  <2>1. faults < MaxFaults /\ faults' = faults + 1
    BY <1>2 DEF Fault
  <2> QED
    BY <1>1, <2>1
<1> QED
  BY <1>1, <1>2, FaultsStep

\* Markers leave by a removal, or with the power.
LEMMA MarkersStay ==
  ASSUME LifeInv, Next
  PROVE  \/ TakeStep
         \/ \A s \in Ids : disk'[s] = dur'[s]
         \/ \A s \in Ids : Marks(s) \subseteq Marks(s)'
<1>1. \A s, A : Adds(s, A) => \A t \in Ids : Marks(t) \subseteq Marks(t)'
  BY DEF Adds, OthersStay, Marks
<1>2. UNCHANGED disk => \A t \in Ids : Marks(t) \subseteq Marks(t)'
  BY DEF Marks
<1>3. CASE CleanMove
  BY <1>1, <1>2, <1>3 DEF CleanMove
<1>4. CASE RecoverMove
  BY <1>1, <1>2, <1>4 DEF RecoverMove, DeletionMove
<1>5. CASE UserMove
  BY <1>1, <1>2, <1>5 DEF UserMove, DeletionMove, ReuseMove
<1>6. CASE StageMove
  BY <1>2, <1>6 DEF StageMove
<1>7. CASE BeginMove
  BY <1>2, <1>7 DEF BeginMove
<1>8. CASE OutsideMove
  <2>1. \A s \in Ids : PersistMove(s) => \A t \in Ids : Marks(t) \subseteq Marks(t)'
    BY DEF PersistMove, OthersStay, Marks
  <2> QED
    BY <1>1, <1>2, <1>8, <2>1 DEF OutsideMove
<1> QED
  BY Moves, <1>3, <1>4, <1>5, <1>6, <1>7, <1>8 DEF LifeInv

\* The two markers that are not seen for a while.
Unrestored(s) == op.at = "restore" /\ op.mark = "delmark" /\ s = op.job /\ faults = MaxFaults
Unremarked(s) == Remarking /\ s = op.job /\ faults = MaxFaults

\* What is about to be written again is written, or still about to be.
LEMMA RewriteGoesOn ==
  ASSUME AckedInv, SeenOK, OneFault, Next, ~TakeStep, NEW s \in Ids
  PROVE  /\ Unrestored(s) => "delmark" \in disk'[s] \/ Unrestored(s)' \/ disk'[s] = dur'[s]
         /\ Unremarked(s) => "forkmark" \in disk'[s] \/ Unremarked(s)' \/ disk'[s] = dur'[s]
<1> SUFFICES ASSUME faults = MaxFaults, s = op.job,
                    (op.at = "restore" /\ op.mark = "delmark") \/ Remarking
             PROVE  /\ op.at = "restore" /\ op.mark = "delmark" =>
                         "delmark" \in disk'[s] \/ Unrestored(s)' \/ disk'[s] = dur'[s]
                    /\ Remarking => "forkmark" \in disk'[s] \/ Unremarked(s)' \/ disk'[s] = dur'[s]
  BY DEF Unrestored, Unremarked
<1>1. ~Fault /\ faults' = MaxFaults
  BY OneFaultStep
<1>2. op.at \in {"restore", "undo", "undo.index", "undo.remark", "undo.files", "undone"}
  BY DEF Remarking
<1>3. op \in Ops /\ op # NoOp
  <2>1. OpOK /\ PlaceOK
    BY DEF AckedInv, LifeInv, TypeInv, OpOK
  <2> QED
    BY <1>2, <2>1 DEF PlaceOK, OpOK
<1>4. op' = op => /\ op.at = "restore" /\ op.mark = "delmark" => Unrestored(s)'
                  /\ Remarking => Unremarked(s)'
  BY <1>1 DEF Unrestored, Unremarked, Remarking, ToGo
<1>5. CASE OutsideMove
  <2>1. "process" \notin CrashKinds
    BY DEF OneFault
  <2> QED
    BY <1>3, <1>4, <1>5, <2>1 DEF OutsideMove
<1>6. CASE CleanMove /\ op.at \in CleanSteps
  <2>1. op.at = "restore"
    BY <1>2, <1>6 DEF CleanSteps
  <2>2. op.mark \in disk'[s]
    BY <1>1, <1>6, <2>1 DEF CleanMove
  <2> QED
    BY <2>1, <2>2 DEF Remarking
<1>7. CASE StageMove /\ op.todo = <<>>
  <2>1. op.at \in StageSteps /\ op.at # "restore" /\ ToGo = {}
    BY <1>7, NothingToDo DEF StageMove, StageSteps
  <2>2. "delmark" \notin disk[op.id] /\ op.job = op.id
    BY <1>7, <2>1 DEF StageMove, AckedInv, LifeInv, MarksOK, Marks, Markers, TypeInv, StoreOK
  <2>3. CASE op.at = "undo" /\ op.indexed
    <3>1. Does("undo.index", op.id, Records)
      BY <1>1, <1>7, <2>2, <2>3 DEF StageMove
    <3> QED
      BY <1>1, <2>1, <2>2, <2>3, <3>1 DEF Does, Goes, Unremarked, Remarking
  <2>4. CASE op.at = "undo.index" /\ op.indexed
    <3>1. Goes("undo.files", Unindexing) /\ Going
      BY <1>7, <2>4 DEF StageMove
    <3>2. "forkmark" \in ToGo'
      BY <1>3, <2>4, <3>1, UndoRuns DEF Goes, WhatOf, ToGo
    <3> QED
      BY <1>1, <2>1, <3>1, <3>2 DEF Going, Carried, Goes, Unremarked, Remarking
  <2>5. CASE op.at = "undo.remark"
    <3>1. Goes("undone", <<Step("add", {"forkmark"}, "collect")>>) /\ Going
      BY <1>7, <2>5 DEF StageMove
    <3>2. "forkmark" \in ToGo'
      BY <1>3, <3>1, UndoRuns DEF Goes, WhatOf, ToGo
    <3> QED
      BY <1>1, <2>1, <3>1, <3>2 DEF Going, Carried, Goes, Unremarked, Remarking
  <2> QED
    BY <2>1, <2>3, <2>4, <2>5 DEF Remarking
<1>8. ~RecoverMove /\ ~UserMove /\ ~BeginMove
  <2>1. ~RecoverMove
    BY <1>2 DEF RecoverMove
  <2>2. ~UserMove
    BY <1>2 DEF UserMove
  <2> QED
    BY <1>3, <2>1, <2>2 DEF BeginMove
<1> QED
  BY Moves, <1>5, <1>6, <1>7, <1>8 DEF AckedInv, LifeInv

LEMMA StaySeen ==
  ASSUME AckedInv, SeenOK, OneFault, Next, ~TakeStep, NEW s \in Ids
  PROVE  /\ "delmark" \in dur'[s] => "delmark" \in disk'[s] \/ Unrestored(s)'
         /\ "forkmark" \in dur'[s] => Marks(s)' # {} \/ Unremarked(s)'
<1>1. dur'[s] \subseteq dur[s] \cup disk'[s]
  BY SyncsSeen DEF AckedInv, LifeInv, TypeInv
<1>2. /\ "delmark" \in dur[s] => "delmark" \in disk[s] \/ Unrestored(s)
      /\ "forkmark" \in dur[s] => Marks(s) # {} \/ Unremarked(s)
  BY DEF SeenOK, Unrestored, Unremarked
<1>3. disk'[s] = dur'[s] \/ Marks(s) \subseteq Marks(s)'
  BY MarkersStay DEF AckedInv
<1>4. /\ "delmark" \in Marks(s) <=> "delmark" \in disk[s]
      /\ "delmark" \in Marks(s)' <=> "delmark" \in disk'[s]
      /\ "forkmark" \in disk'[s] => Marks(s)' # {}
  BY DEF Marks, Markers
<1> QED
  BY RewriteGoesOn, <1>1, <1>2, <1>3, <1>4

LEMMA PublicationShape ==
  /\ Publication # <<>> /\ Head(Publication).verb = "add"
  /\ Tail(Publication) # <<>> /\ Head(Tail(Publication)).verb = "index"
  /\ Len(Publication) \in Nat /\ Len(Publication) >= 2
  /\ Publication[1] = Step("add", {"model"}, "undo")
  /\ Publication[2] = Step("index", {"row"}, "undo")
<1> DEFINE a == Step("add", {"model"}, "undo")
           b == Step("index", {"row"}, "undo")
           c == Step("add", {"messages"}, "undo")
           d == Step("add", {"baseline"}, "undo")
           e == Step("remove", {"forkmark"}, "undo")
<1>1. Publication = <<a, b, c, d>> \o <<e>>
  BY DEF Publication, Unmark
<1>2. a.verb = "add" /\ b.verb = "index"
  BY StepFields
<1> HIDE DEF a, b, c, d, e
<1> DEFINE S == {a, b, c, d, e}
<1>3. /\ <<a, b, c, d>> \in Seq(S) /\ <<e>> \in Seq(S)
      /\ Len(<<a, b, c, d>>) = 4 /\ Len(<<e>>) = 1
      /\ <<a, b, c, d>>[1] = a /\ <<a, b, c, d>>[2] = b
  OBVIOUS
<1>4. /\ Publication \in Seq(S) /\ Len(Publication) = 5
      /\ Publication[1] = a /\ Publication[2] = b
  <2> DEFINE r == <<a, b, c, d>>
             t == <<e>>
  <2>1. r \in Seq(S) /\ t \in Seq(S) /\ Len(r) = 4 /\ Len(t) = 1 /\ r[1] = a /\ r[2] = b
    BY <1>3
  <2> HIDE DEF r, t, S
  <2>2. /\ r \o t \in Seq(S) /\ Len(r \o t) = Len(r) + Len(t)
        /\ \A i \in 1..Len(r) + Len(t) : (r \o t)[i] = IF i <= Len(r) THEN r[i] ELSE t[i - Len(r)]
    BY <2>1, ConcatProperties
  <2>3. Publication = r \o t
    BY <1>1 DEF r, t
  <2> QED
    BY <2>1, <2>2, <2>3
<1> HIDE DEF S
<1>5. /\ Publication # <<>> /\ Head(Publication) = a
      /\ Tail(Publication) \in Seq(S) /\ Len(Tail(Publication)) = 4
      /\ Tail(Publication)[1] = b
  BY <1>4
<1>6. Tail(Publication) # <<>> /\ Head(Tail(Publication)) = b
  <2>1. ASSUME NEW t \in Seq(S), Len(t) = 4 PROVE t # <<>> /\ Head(t) = t[1]
    <3>1. Len(t) # 0
      BY <2>1
    <3>2. t # <<>>
      BY <3>1, EmptySeq
    <3> QED
      BY <2>1, <3>2, HeadTailProperties
  <2> QED
    BY <1>5, <2>1
<1>7. Len(Publication) \in Nat /\ Len(Publication) >= 2
  BY <1>4
<1> QED
  BY <1>2, <1>4, <1>5, <1>6, <1>7 DEF a, b

\* The marker of the operation is there, and the rows of a fork are written before
\* its marker goes.
LEMMA MovedOn ==
  ASSUME LifeInv, MarkedOn, Next, ~TakeStep
  PROVE  MarkedOn'
<1>1. MarkedOn
  OBVIOUS
<1>2. CASE op' = NoOp
  <2>1. op'.at = "idle"
    BY <1>2, NoOpTyped
  <2> QED
    BY <2>1 DEF MarkedOn
<1>3. CASE op'.at \notin {"records", "databases", "files", "fork.commit"}
  BY <1>3 DEF MarkedOn
<1>4. CASE OutsideMove
  <2>1. CASE op' = op /\ op # NoOp
    <3>1. \A s \in Ids : disk[s] \cap Markers \subseteq disk'[s]
      BY <1>4, <2>1 DEF OutsideMove, PersistMove, Adds, OthersStay
    <3>2. op.at \in {"records", "databases", "files"} => op.mark \in Markers /\ op.job \in Ids
      <4>1. PlaceOK
        BY DEF LifeInv, TypeInv, OpOK
      <4> QED
        BY <4>1 DEF PlaceOK, CleanSteps
    <3> QED
      BY <1>1, <2>1, <3>1, <3>2 DEF MarkedOn
  <2>2. CASE op' = op /\ op = NoOp
    BY <1>2, <2>2
  <2> QED
    BY <1>2, <1>4, <2>1, <2>2 DEF OutsideMove
<1>5. CASE CleanMove /\ op.at \in CleanSteps
  <2>1. op.back \in {"recover", "deleted", "create.write", "fork.stage"}
    <3>1. PlaceOK
      BY DEF LifeInv, TypeInv, OpOK
    <3> QED
      BY <1>5, <3>1 DEF PlaceOK
  <2>2. op'.at # "fork.commit" \/ op' = NoOp
    BY <1>5, <2>1 DEF CleanMove, Does, Goes
  <2>3. op'.at \in {"records", "databases", "files"} /\ op' # NoOp
          => op'.mark = op.mark /\ op'.job = op.job /\ op.mark \in disk'[op.job]
    BY <1>1, <1>5, <2>1 DEF CleanMove, Does, Goes, MarkedOn, Carried
  <2> QED
    BY <1>2, <2>2, <2>3 DEF MarkedOn
<1>6. CASE StageMove
  <2>1. op' # NoOp /\ op'.at \in {"records", "databases", "files", "fork.commit"} =>
          Goes("fork.commit", Publication)
    BY <1>6 DEF StageMove, Goes, Does
  <2> QED
    BY <1>2, <1>3, <2>1 DEF Goes, MarkedOn
<1>7. CASE RecoverMove /\ op.kind \in Kinds
  BY <1>2, <1>3, <1>7 DEF RecoverMove, DeletionMove, CleansTo, Goes, Does, Kinds
<1>8. CASE UserMove
  BY <1>2, <1>3, <1>8 DEF UserMove, DeletionMove, ReuseMove, CleansTo, Goes, Does
<1>9. CASE BeginMove
  BY <1>3, <1>9 DEF BeginMove
<1> QED
  BY Moves, <1>4, <1>5, <1>6, <1>7, <1>8, <1>9 DEF LifeInv

\* A run removes a marker at its end only.
LEMMA TakeMarks ==
  ASSUME TypeInv, TakeStep, Head(op.todo).verb = "remove",
         Head(op.todo).what \cap Markers # {}
  PROVE  LET step == Head(op.todo)
         IN \/ op.at = "files" /\ op.mark = "delmark" /\ step.what \cap Markers = {"forkmark"}
            \/ op.at = "cleaned" /\ step.what \subseteq {op.mark} /\ step.orelse = "restore"
            \/ op.at = "fork.commit" /\ step.what = {"forkmark"} /\ step.orelse = "undo"
            \/ op.at = "undone" /\ step.what = {"forkmark"} /\ step.orelse = "undo.remark"
<1> DEFINE step == Head(op.todo)
<1>1. op \in Ops /\ RunOK /\ op.todo # <<>>
  BY TakeEffect DEF TypeInv, OpOK
<1>2. (RecordArts \cup IndexArts \cup FileArts \cup {"row", "messages", "goal"}) \cap Markers = {}
  BY DEF RecordArts, IndexArts, FileArts, Slot, Markers
<1>3. "baseline" \in RecordArts /\ "model" \in RecordArts /\ "familiar" \in FileArts
      /\ "stage" \in FileArts
  BY DEF RecordArts, FileArts
<1>4. /\ step.what \subseteq Filed => step.what \cap Markers \subseteq {"forkmark"}
      /\ step.what \subseteq Filed /\ op.mark # "delmark" => step.what \cap Markers = {}
  BY <1>2 DEF Filed
<1> HIDE DEF step
<1>5. step.verb = "remove" /\ step.what \cap Markers # {}
  BY DEF step
<1>6. op.at \in RunPlaces
  BY <1>1, FirstStep
<1>7. op.at \notin {"records", "databases", "recover", "attach", "failed", "fork.id", "fork.publish",
                    "undo.index", "undo.files", "undo.mark"}
  <2>1. op.at # "records" /\ op.at # "databases" /\ op.at # "recover"
    BY <1>1, <1>2, <1>5, FirstStep DEF step
  <2>2. op.at # "failed" /\ op.at # "fork.id" /\ op.at # "fork.publish"
    BY <1>1, <1>2, <1>3, <1>5, FirstStep DEF step
  <2>3. op.at # "undo.index" /\ op.at # "undo.files" /\ op.at # "undo.mark"
    BY <1>1, <1>2, <1>5, FirstStep DEF step
  <2>4. op.at # "attach"
    <3>1. op.at = "attach" => op.kind \in {"create", "resume"}
      BY DEF TypeInv, OpOK, PlaceOK
    <3> QED
      BY <1>1, <1>2, <1>3, <1>5, <3>1, FirstStep DEF step
  <2> QED
    BY <2>1, <2>2, <2>3, <2>4
<1>8. op.at \in {"files", "cleaned", "fork.commit", "undone"}
  BY <1>6, <1>7 DEF RunPlaces
<1>9. CASE op.at = "files"
  <2>1. step.what \subseteq Filed
    BY <1>1, <1>9, FirstStep DEF step
  <2>2. op.mark = "delmark"
    BY <1>4, <1>5, <2>1
  <2> QED
    BY <1>4, <1>5, <1>9, <2>1, <2>2 DEF step
<1>10. CASE op.at = "cleaned"
  BY <1>1, <1>10, FirstStep
<1>11. CASE op.at = "fork.commit"
  BY <1>1, <1>2, <1>5, <1>11, FirstStep DEF step, RecordArts, IndexArts
<1>12. CASE op.at = "undone"
  BY <1>1, <1>5, <1>12, FirstStep DEF step
<1> QED
  BY <1>8, <1>9, <1>10, <1>11, <1>12

\* What a step of a run leaves of the markers of its session.
LEMMA TakeSeen ==
  ASSUME AckedInv, SeenOK, OneFault, Next, TakeStep, NEW s \in Ids
  PROVE  /\ "delmark" \in dur'[s] => "delmark" \in disk'[s] \/ Unrestored(s)'
         /\ "forkmark" \in dur'[s] => Marks(s)' # {} \/ Unremarked(s)'
<1> DEFINE step == Head(op.todo)
           j == op.job
<1>1. /\ op \in Ops /\ j \in Ids /\ op.at \in RunPlaces /\ op.todo # <<>>
      /\ OthersStay(j) /\ UNCHANGED <<life, open, acked>>
      /\ ToGo = step.what \cup WhatOf(Tail(op.todo))
      /\ IF step.verb = "remove" THEN Removes(j, step.what) ELSE Adds(j, step.what)
      /\ \/ Taken(step) \/ Collected(step) \/ Returned(step)
         \/ Diverted(step) /\ Diversion
  BY TakeEffect DEF AckedInv, LifeInv
<1>2. dur'[s] \subseteq dur[s] \cup disk'[s]
  BY SyncsSeen DEF AckedInv, LifeInv, TypeInv
<1>3. /\ "delmark" \in dur[s] => "delmark" \in disk[s] \/ Unrestored(s)
      /\ "forkmark" \in dur[s] => Marks(s) # {} \/ Unremarked(s)
  BY DEF SeenOK, Unrestored, Unremarked
<1>4. op.at # "restore" /\ op.at # "undo" /\ op.at # "undo.remark"
  BY <1>1 DEF RunPlaces
<1>5. Fault => faults' = MaxFaults /\ faults # MaxFaults
  BY OneFaultStep
<1>6. CASE s # j
  <2>1. disk'[s] = disk[s] /\ dur'[s] = dur[s]
    BY <1>1, <1>6 DEF OthersStay
  <2>2. ~Unrestored(s) /\ ~Unremarked(s) /\ Marks(s)' = Marks(s)
    BY <1>6, <2>1 DEF Unrestored, Unremarked, Marks
  <2> QED
    BY <1>3, <2>1, <2>2
<1>7. step.verb = "remove" /\ step.what \cap Markers # {} =>
         \/ op.at = "files" /\ op.mark = "delmark" /\ step.what \cap Markers = {"forkmark"}
         \/ op.at = "cleaned" /\ step.what \subseteq {op.mark} /\ step.orelse = "restore"
         \/ op.at = "fork.commit" /\ step.what = {"forkmark"} /\ step.orelse = "undo"
         \/ op.at = "undone" /\ step.what = {"forkmark"} /\ step.orelse = "undo.remark"
  BY TakeMarks DEF AckedInv, LifeInv
<1>8. op.at = "cleaned" /\ op.mark = "delmark" => "forkmark" \notin Known(j)
  BY DEF AckedInv, LifeInv, CleanOK
<1>9. op.at \in {"records", "databases", "files"} => op.mark \in disk[j]
  BY DEF SeenOK
<1>10. op.at = "fork.commit" /\ step.verb = "remove" => op.indexed
  BY PublicationShape DEF SeenOK
<1>11. {"forkmark", "delmark"} = Markers
  BY DEF Markers
<1> HIDE DEF step
<1>12. ASSUME s = op.job, "delmark" \in dur'[s], "delmark" \notin disk'[s] PROVE Unrestored(s)'
  <2>1. "delmark" \in dur[s] /\ "delmark" \in disk[s]
    BY <1>2, <1>3, <1>4, <1>12 DEF Unrestored
  <2>2. step.verb = "remove" /\ "delmark" \in step.what
    BY <1>1, <1>12, <2>1 DEF Removes, Adds
  <2>3. op.at = "cleaned" /\ op.mark = "delmark" /\ step.orelse = "restore"
    BY <1>7, <1>11, <2>2
  <2>4. ~Taken(step)
    BY <1>12, <2>2 DEF Taken, Carried, Known
  <2>5. Diverted(step)
    BY <1>1, <2>3, <2>4 DEF Collected, Returned
  <2> QED
    BY <1>5, <1>12, <2>3, <2>5 DEF Diverted, Carried, Unrestored
<1>13. ASSUME s = op.job, "forkmark" \in dur'[s], Marks(s)' = {} PROVE Unremarked(s)'
  <2>1. "forkmark" \notin disk'[s] /\ "delmark" \notin disk'[s] /\ "forkmark" \in dur[s]
    BY <1>2, <1>11, <1>13 DEF Marks
  <2>2. ~(step.verb = "remove" /\ "forkmark" \in step.what /\ Taken(step))
    BY <1>13 DEF Taken, Carried, Known
  <2>3. CASE Marks(s) # {}
    <3>1. PICK m \in Markers : m \in disk[s]
      BY <2>3 DEF Marks
    <3>2. step.verb = "remove" /\ m \in step.what
      BY <1>1, <1>11, <1>13, <2>1, <3>1 DEF Removes, Adds
    <3>3. op.at # "files"
      BY <1>1, <1>7, <1>9, <1>11, <1>13, <2>1, <3>2 DEF Removes
    <3>4. op.at = "cleaned" => op.mark = "forkmark" /\ "forkmark" \in step.what
      BY <1>7, <1>8, <1>11, <1>13, <2>1, <3>1, <3>2 DEF Known
    <3>5. /\ "forkmark" \in step.what
          /\ \/ op.at = "cleaned" /\ op.mark = "forkmark" /\ step.orelse = "restore"
             \/ op.at = "fork.commit" /\ op.indexed /\ step.orelse = "undo"
             \/ op.at = "undone" /\ step.orelse = "undo.remark"
      BY <1>7, <1>10, <3>1, <3>2, <3>3, <3>4
    <3>6. Diverted(step)
      BY <1>1, <2>2, <3>2, <3>5 DEF Collected, Returned
    <3>7. op'.job = op.job /\ op'.mark = op.mark /\ op'.at = step.orelse /\ faults' = MaxFaults
      BY <1>5, <3>6 DEF Diverted, Carried
    <3>8. op'.at = "undo" => op'.indexed
      BY <3>5, <3>6 DEF Diverted
    <3> QED
      BY <1>13, <3>5, <3>7, <3>8 DEF Unremarked, Remarking
  <2>4. CASE Marks(s) = {}
    <3>1. faults = MaxFaults /\ Remarking
      BY <1>3, <2>1, <2>4 DEF Unremarked
    <3>2. Taken(step)
      BY <1>1, <1>5, <3>1 DEF Collected, Returned, Diverted
    <3>3. /\ op'.job = op.job /\ op'.at = op.at /\ faults' = MaxFaults
          /\ op'.todo = Tail(op.todo) /\ op'.indexed = (op.indexed \/ step.verb = "index")
      BY <3>1, <3>2 DEF Taken, Carried
    <3>4. CASE op.at = "undo.index" /\ op.indexed
      <4>1. op'.indexed
        BY <3>3, <3>4
      <4> QED
        BY <1>13, <3>3, <3>4, <4>1 DEF Unremarked, Remarking
    <3>5. CASE op.at \in {"undo.files", "undone"} /\ "forkmark" \in ToGo
      <4>1. "forkmark" \notin step.what
        BY <1>13, <2>1, <2>2, <3>2 DEF Taken
      <4>2. "forkmark" \in ToGo'
        BY <1>1, <3>3, <3>5, <4>1 DEF WhatOf, ToGo
      <4> QED
        BY <1>13, <3>3, <3>5, <4>2 DEF Unremarked, Remarking
    <3>6. op.at # "restore"
      BY <1>4
    <3> QED
      BY <1>4, <3>1, <3>4, <3>5 DEF Remarking
  <2> QED
    BY <2>3, <2>4
<1> QED
  BY <1>6, <1>12, <1>13

LEMMA TakeOn ==
  ASSUME LifeInv, MarkedOn, Next, TakeStep
  PROVE  MarkedOn'
<1> DEFINE step == Head(op.todo)
<1>1. /\ op \in Ops /\ op.job \in Ids /\ op.at \in RunPlaces /\ op.todo # <<>>
      /\ IF step.verb = "remove" THEN Removes(op.job, step.what) ELSE Adds(op.job, step.what)
      /\ \/ Taken(step) \/ Collected(step) \/ Returned(step)
         \/ Diverted(step) /\ Diversion
  BY TakeEffect DEF LifeInv
<1>2. step.verb = "remove" /\ step.what \cap Markers # {} =>
         \/ op.at = "files" /\ op.mark = "delmark" /\ step.what \cap Markers = {"forkmark"}
         \/ op.at \in {"cleaned", "fork.commit", "undone"}
  BY TakeMarks DEF LifeInv
<1>3. op.at = "fork.commit" => step.orelse # "collect"
  <2>1. RunOK
    BY DEF LifeInv, TypeInv, OpOK
  <2> QED
    BY <1>1, <2>1, FirstStep
<1>4. op.at = "fork.commit" /\ ~op.indexed =>
         \/ op.todo = Publication
         \/ op.todo = Tail(Publication) /\ step.verb = "index"
  BY PublicationShape DEF MarkedOn
<1>5. op.at \in {"records", "databases", "files"} => op.mark \in Markers /\ op.mark \in disk[op.job]
  <2>1. PlaceOK
    BY DEF LifeInv, TypeInv, OpOK
  <2> QED
    BY <2>1 DEF PlaceOK, CleanSteps, MarkedOn
<1> HIDE DEF step
<1>6. CASE op' = NoOp
  <2>1. op'.at = "idle"
    BY <1>6, NoOpTyped
  <2> QED
    BY <2>1 DEF MarkedOn
<1>7. CASE op'.at \notin {"records", "databases", "files", "fork.commit"}
  BY <1>7 DEF MarkedOn
<1>8. CASE op' # NoOp /\ op'.at \in {"records", "databases", "files", "fork.commit"}
  <2>1. /\ Carried /\ op'.at = op.at /\ op'.todo = Tail(op.todo)
        /\ Taken(step) \/ Collected(step)
    BY <1>1, <1>8 DEF Taken, Collected, Returned, Diversion
  <2>2. op.at \in {"records", "databases", "files"} => op.mark \in disk'[op.job]
    <3> SUFFICES ASSUME op.at \in {"records", "databases", "files"} PROVE op.mark \in disk'[op.job]
      OBVIOUS
    <3>1. step.verb = "remove" => op.mark \notin step.what
      BY <1>2, <1>5
    <3> QED
      BY <1>1, <1>5, <3>1 DEF Removes, Adds
  <2>3. op'.at = "fork.commit" /\ ~op'.indexed => op'.todo = Tail(Publication)
    <3> SUFFICES ASSUME op'.at = "fork.commit", ~op'.indexed PROVE op'.todo = Tail(Publication)
      OBVIOUS
    <3>1. op.at = "fork.commit" /\ Taken(step)
      BY <1>3, <2>1 DEF Collected
    <3>2. ~op.indexed /\ step.verb # "index"
      BY <3>1 DEF Taken
    <3> QED
      BY <1>4, <2>1, <3>1, <3>2
  <2> QED
    BY <2>1, <2>2, <2>3 DEF MarkedOn, Carried
<1> QED
  BY <1>6, <1>7, <1>8

LEMMA SeenStep == ASSUME OneFault, AckedInv, SeenOK, [Next]_vars PROVE SeenOK'
<1>1. CASE Next
  <2>1. faults' \in Nat
    BY <1>1, OneFaultStep
  <2>2. \A s \in Ids : /\ "delmark" \in dur'[s] => "delmark" \in disk'[s] \/ Unrestored(s)'
                       /\ "forkmark" \in dur'[s] => Marks(s)' # {} \/ Unremarked(s)'
    BY <1>1, TakeSeen, StaySeen
  <2>3. MarkedOn'
    <3>1. LifeInv /\ MarkedOn
      BY DEF AckedInv, SeenOK, MarkedOn
    <3> QED
      BY <1>1, <3>1, TakeOn, MovedOn
  <2> QED
    BY <2>1, <2>2, <2>3 DEF SeenOK, MarkedOn, Unrestored, Unremarked
<1>2. CASE UNCHANGED vars
  <2>1. UNCHANGED <<disk, dur, op, faults>>
    BY <1>2 DEF vars, bounds
  <2> QED
    BY <2>1 DEF SeenOK, Marks, Remarking, ToGo
<1> QED
  BY <1>1, <1>2

\* What was answered for bears no marker on stable storage either.
LEMMA AckedUnmarked ==
  ASSUME AckedInv, SeenOK
  PROVE  \A s \in acked : dur[s] \cap Markers = {}
<1> SUFFICES ASSUME NEW s \in acked, NEW m \in Markers, m \in dur[s] PROVE FALSE
  OBVIOUS
<1>1. s \in Ids /\ Marks(s) = {}
  BY AckedNamed DEF AckedInv, AckedOK
<1>2. op.at \in CleanSteps \cup StageSteps => op.job # s
  <2>1. op.at \in StageSteps => op.job = op.id
    BY DEF AckedInv, LifeInv, TypeInv, OpOK, PlaceOK
  <2> QED
    BY <2>1 DEF AckedInv, AckedOK
<1>3. Remarking \/ op.at = "restore" => op.at \in CleanSteps \cup StageSteps
  BY DEF Remarking, CleanSteps, StageSteps
<1>4. m = "delmark" \/ m = "forkmark"
  BY DEF Markers
<1>5. "delmark" \notin disk[s]
  BY <1>1 DEF Marks, Markers
<1> QED
  BY <1>1, <1>2, <1>3, <1>4, <1>5 DEF SeenOK

LEMMA AckedInit == ASSUME LeftsUnmarked, Init PROVE AckedInv /\ SeenOK
<1>1. op.at = "idle" /\ op.todo = <<>>
  BY NoOpTyped DEF Init
<1>2. op.at \notin StageSteps \cup CleanSteps \cup {"fork.stage", "fork.publish", "fork.commit"}
  BY <1>1 DEF StageSteps, CleanSteps
<1>3. LifeInv
  BY LifeInit
<1>4. \A s \in acked : s \in Ids /\ disk[s] \in Lefts /\ "transcript" \in disk[s]
  BY DEF Init
<1>5. \A s \in acked : Marks(s) = {}
  BY <1>4 DEF LeftsUnmarked, Marks
<1>6. \A s \in acked : ~Fenced(s)
  BY <1>4 DEF Init, Fenced, Nothing, Tombstone, Quarantine
<1>7. AckedStays /\ AckedOK
  BY <1>1, <1>2, <1>4, <1>5, <1>6 DEF Init, AckedStays, AckedOK
<1>8. \A s \in Ids : "forkmark" \in dur[s] => Marks(s) # {}
  BY DEF Init, Marks, Markers
<1>9. faults \in Nat /\ \A s \in Ids : "delmark" \in dur[s] => "delmark" \in disk[s]
  BY DEF Init
<1> QED
  BY <1>1, <1>3, <1>7, <1>8, <1>9 DEF AckedInv, SeenOK

\* A transcript that persist_new or fork_session has answered Ok for is on disk
\* and on stable storage until delete_session is called for it: whatever fails
\* and however often the process dies, or with any number of power losses when
\* at most one call fails and the process dies of nothing else.  The store that
\* is found has no marker over a transcript.
THEOREM AckedStaysAlways ==
  ASSUME LeftsUnmarked, PowerKept \/ OneFault
  PROVE  Spec => []AckedStays
<1>1. AckedInv => AckedStays
  BY DEF AckedInv
<1>2. Init => AckedInv /\ SeenOK
  BY AckedInit
<1>3. CASE PowerKept
  <2>1. AckedInv /\ [Next]_vars => AckedInv'
    BY <1>3, AckedStep
  <2> QED
    BY <1>1, <1>2, <2>1, PTL DEF Spec
<1>4. CASE OneFault
  <2>1. AckedInv /\ SeenOK /\ [Next]_vars => AckedInv' /\ SeenOK'
    BY <1>4, AckedStep, AckedUnmarked, SeenStep
  <2> QED
    BY <1>1, <1>2, <2>1, PTL DEF Spec
<1> QED
  BY <1>3, <1>4

-----------------------------------------------------------------------------
(* Runs that find what they rest on                                         *)

LEMMA HeldNow == ASSUME NEW todo, NEW D, NEW A, Held(todo, 1, D, A) PROVE D \cap A # {}
BY DEF Held

\* A step that clears nothing and what it writes leave later steps what they need.
LEMMA HeldOn ==
  ASSUME NEW S, NEW todo \in Seq(S), todo # <<>>, NEW k \in Nat, k # 0,
         NEW D, NEW E, NEW A, Held(todo, k + 1, D, A),
         D \cap A # {} /\ ~Clears(Head(todo), A) => E \cap A # {},
         Writes(Head(todo), A) => E \cap A # {},
         k \in DOMAIN Tail(todo)
  PROVE  Held(Tail(todo), k, E, A)
<1>1. /\ Head(todo) = todo[1]
      /\ \A i \in 1..(k - 1) : Tail(todo)[i] = todo[i + 1]
  <2>1. DOMAIN Tail(todo) = 1..Len(Tail(todo)) /\ Len(Tail(todo)) \in Nat
    <3>1. Tail(todo) \in Seq(S)
      BY RunShrinks
    <3> QED
      BY <3>1, LenProperties
  <2>2. \A i \in 1..(k - 1) : i \in DOMAIN Tail(todo)
    BY <2>1
  <2> QED
    BY <2>2, RunShrinks
<1> DEFINE t == Tail(todo)
<1>2. \A i \in 1..(k - 1) : t[i] = todo[i + 1]
  BY <1>1
<1> HIDE DEF t
<1>3. CASE D \cap A # {} /\ \A i \in 1..k : ~Clears(todo[i], A)
  <2>1. ~Clears(todo[1], A) /\ \A i \in 1..(k - 1) : ~Clears(todo[i + 1], A)
    BY <1>3
  <2>2. E \cap A # {} /\ \A i \in 1..(k - 1) : ~Clears(t[i], A)
    BY <1>1, <1>2, <1>3, <2>1
  <2> QED
    BY <2>2 DEF Held, t
<1>4. CASE \E i \in 1..k : Writes(todo[i], A) /\ \A l \in (i + 1)..k : ~Clears(todo[l], A)
  <2>1. PICK i \in 1..k : Writes(todo[i], A) /\ \A l \in (i + 1)..k : ~Clears(todo[l], A)
    BY <1>4
  <2>2. CASE i = 1
    <3>1. E \cap A # {}
      BY <1>1, <2>1, <2>2
    <3>2. \A l \in 1..(k - 1) : l + 1 \in (i + 1)..k
      BY <2>2
    <3>3. \A l \in 1..(k - 1) : ~Clears(t[l], A)
      BY <1>2, <2>1, <3>2
    <3> QED
      BY <3>1, <3>3 DEF Held, t
  <2>3. CASE i # 1
    <3>1. i - 1 \in 1..(k - 1) /\ (i - 1) + 1 = i
      BY <2>1, <2>3
    <3>2. Writes(t[i - 1], A)
      BY <1>2, <2>1, <3>1
    <3>3. \A l \in i..(k - 1) : l \in 1..(k - 1) /\ l + 1 \in (i + 1)..k
      BY <2>1
    <3>4. \A l \in i..(k - 1) : ~Clears(t[l], A)
      BY <1>2, <2>1, <3>3
    <3> QED
      BY <3>1, <3>2, <3>4 DEF Held, t
  <2> QED
    BY <2>2, <2>3
<1> QED
  BY <1>3, <1>4 DEF Held

\* What comes to a session does not harm the runs in it.
LEMMA HeldGrows ==
  ASSUME NEW todo, NEW k, NEW D, NEW E, NEW A, D \cap A \subseteq E, Held(todo, k, D, A)
  PROVE  Held(todo, k, E, A)
BY DEF Held

LEMMA SafeGrows ==
  ASSUME NEW todo, NEW D, NEW E, D \subseteq E, "transcript" \in E => "transcript" \in D,
         RunSafe(todo, D)
  PROVE  RunSafe(todo, E)
BY HeldGrows DEF RunSafe

\* Taking a step, with its effect, leaves a safe run.
LEMMA SafeOn ==
  ASSUME NEW todo \in Seq(Steps), todo # <<>>, NEW D, NEW E, RunSafe(todo, D),
         Head(todo).verb = "remove" => D \ Head(todo).what \subseteq E /\ E \subseteq D,
         Head(todo).verb # "remove" => D \cup Head(todo).what \subseteq E,
         "transcript" \in E => "transcript" \in D
  PROVE  RunSafe(Tail(todo), E)
<1> DEFINE h == Head(todo)
           t == Tail(todo)
<1>1. \A A : D \cap A # {} /\ ~Clears(h, A) => E \cap A # {}
  BY DEF Clears
<1>2. \A A : Writes(h, A) => E \cap A # {}
  BY DEF Writes
<1>3. \A k \in DOMAIN t : k \in Nat /\ k # 0 /\ k + 1 \in DOMAIN todo /\ t[k] = todo[k + 1]
  <2>1. t \in Seq(Steps)
    BY RunShrinks
  <2>2. DOMAIN t = 1..Len(t) /\ Len(t) \in Nat
    BY <2>1, LenProperties
  <2>3. \A k \in DOMAIN t : k + 1 \in DOMAIN todo /\ t[k] = todo[k + 1]
    BY RunShrinks
  <2> QED
    BY <2>2, <2>3
<1>4. ASSUME NEW k \in DOMAIN t, NEW A, Held(todo, k + 1, D, A) PROVE Held(t, k, E, A)
  BY <1>1, <1>2, <1>3, <1>4, HeldOn
<1> HIDE DEF t
<1>5. ASSUME NEW k \in DOMAIN t
      PROVE  /\ Writes(t[k], {"messages"}) => Held(t, k, E, {"row"})
             /\ Clears(t[k], Slot \cup {"forkmark"}) =>
                  Held(t, k, E, {"row"}) \/ "transcript" \notin E
             /\ Clears(t[k], {"row"}) => Held(t, k, E, Slot) /\ ~Clears(t[k], Slot)
  <2>1. k + 1 \in DOMAIN todo /\ t[k] = todo[k + 1]
    BY <1>3
  <2>2. /\ Held(todo, k + 1, D, {"row"}) => Held(t, k, E, {"row"})
        /\ Held(todo, k + 1, D, Slot) => Held(t, k, E, Slot)
    BY <1>4
  <2> QED
    BY <2>1, <2>2 DEF RunSafe
<1> QED
  BY <1>5 DEF RunSafe, t

LEMMA WholeOn ==
  ASSUME NEW todo \in Seq(Steps), todo # <<>>, RowsWhole(todo) PROVE RowsWhole(Tail(todo))
BY RunShrinks DEF RowsWhole

LEMMA NothingSafe == ASSUME NEW D PROVE RunSafe(<<>>, D) /\ RowsWhole(<<>>)
<1>1. DOMAIN <<>> = {}
  OBVIOUS
<1> QED
  BY <1>1 DEF RunSafe, RowsWhole

LEMMA StepEffects ==
  ASSUME NEW v, NEW B, NEW e, NEW A
  PROVE  /\ Writes(Step(v, B, e), A) <=> v # "remove" /\ B \cap A # {}
         /\ Clears(Step(v, B, e), A) <=> v = "remove" /\ B \cap A # {}
BY StepFields DEF Writes, Clears

\* A step that rests on nothing.
Apart(step) == /\ ~Writes(step, {"messages"}) /\ ~Clears(step, {"row"})
               /\ ~Clears(step, Slot \cup {"forkmark"})

LEMMA SafeApart ==
  ASSUME NEW todo, \A k \in DOMAIN todo : Apart(todo[k]), NEW D
  PROVE  RunSafe(todo, D)
BY DEF RunSafe, Apart

\* A run that writes the row first.
LEMMA SafeRow ==
  ASSUME NEW S, NEW todo \in Seq(S), NEW n \in 1..Len(todo), NEW D,
         Writes(todo[n], {"row"}),
         \A k \in 1..Len(todo) : ~Clears(todo[k], {"row"}),
         \A k \in 1..n : Apart(todo[k])
  PROVE  RunSafe(todo, D) /\ RowsWhole(todo)
<1>1. DOMAIN todo = 1..Len(todo) /\ Len(todo) \in Nat /\ n \in Nat
  BY LenProperties
<1>2. ASSUME NEW k \in 1..Len(todo), k \notin 1..n PROVE Held(todo, k, D, {"row"})
  <2>1. n \in 1..(k - 1) /\ \A l \in (n + 1)..(k - 1) : l \in 1..Len(todo)
    BY <1>1, <1>2
  <2> QED
    BY <2>1 DEF Held
<1>3. \A k \in DOMAIN todo : Apart(todo[k]) \/ (~Clears(todo[k], {"row"}) /\ Held(todo, k, D, {"row"}))
  BY <1>1, <1>2
<1> QED
  BY <1>1, <1>3 DEF RunSafe, RowsWhole, Apart

LEMMA PublishSafe == ASSUME NEW D PROVE RunSafe(PublishRecord, D) /\ RowsWhole(PublishRecord)
<1> DEFINE a == Step("add", {"row"}, "return")
           b == Step("add", {"messages"}, "return")
           c == Step("remove", Slot, "return")
<1>1. Writes(a, {"row"}) /\ Apart(a)
      /\ ~Clears(a, {"row"}) /\ ~Clears(b, {"row"}) /\ ~Clears(c, {"row"})
  BY StepEffects DEF Apart, Slot
<1>2. PublishRecord = <<a, b, c>>
  BY DEF PublishRecord
<1> HIDE DEF a, b, c
<1> DEFINE r == <<a, b, c>>
           S == {a, b, c}
<1>3. r \in Seq(S) /\ Len(r) = 3 /\ r[1] = a /\ r[2] = b /\ r[3] = c
  OBVIOUS
<1> HIDE DEF r, S
<1>4. 1 \in 1..Len(r) /\ \A k \in 1..Len(r) : ~Clears(r[k], {"row"})
  BY <1>1, <1>3
<1>5. \A k \in 1..1 : Apart(r[k])
  BY <1>1, <1>3
<1>6. RunSafe(r, D) /\ RowsWhole(r)
  BY <1>1, <1>3, <1>4, <1>5, SafeRow
<1> QED
  BY <1>2, <1>6 DEF r

\* A row is rebuilt under a record.
LEMMA SevenSafe ==
  ASSUME NEW a, NEW b, NEW c, NEW d, NEW e, NEW f, NEW g, NEW D,
         Apart(a), Apart(b), Apart(f), ~Clears(a, Slot), ~Clears(b, Slot),
         Writes(b, Slot) \/ D \cap Slot # {},
         c.verb = "remove", c.what = {"row", "messages"},
         Writes(d, {"row"}), Apart(d), Writes(e, {"messages"}), g.verb = "remove", g.what = Slot
  PROVE  RunSafe(<<a, b, c, d, e, f, g>>, D) /\ RowsWhole(<<a, b, c, d, e, f, g>>)
<1> DEFINE r == <<a, b, c, d, e, f, g>>
<1>1. /\ DOMAIN r = 1..7
      /\ r[1] = a /\ r[2] = b /\ r[3] = c /\ r[4] = d /\ r[5] = e /\ r[6] = f /\ r[7] = g
  OBVIOUS
<1> HIDE DEF r
<1>2. ~Clears(c, Slot \cup {"forkmark"}) /\ ~Clears(c, Slot) /\ ~Writes(c, {"messages"})
  BY DEF Clears, Writes, Slot
<1>3. ~Clears(e, {"row"}) /\ ~Clears(e, Slot \cup {"forkmark"})
  BY DEF Clears, Writes
<1>4. ~Clears(g, {"row"}) /\ ~Writes(g, {"messages"})
  BY DEF Clears, Writes, Slot
<1>5. Held(r, 3, D, Slot)
  <2>1. CASE Writes(b, Slot)
    <3>1. 2 \in 1..(3 - 1) /\ (2 + 1)..(3 - 1) = {}
      OBVIOUS
    <3> QED
      BY <1>1, <2>1, <3>1 DEF Held
  <2>2. CASE D \cap Slot # {}
    <3>1. 1..(3 - 1) = {1, 2}
      OBVIOUS
    <3> QED
      BY <1>1, <2>2, <3>1 DEF Held
  <2> QED
    BY <2>1, <2>2
<1>6. Held(r, 5, D, {"row"})
  <2>1. 4 \in 1..(5 - 1) /\ (4 + 1)..(5 - 1) = {}
    OBVIOUS
  <2> QED
    BY <1>1, <2>1 DEF Held
<1>7. Held(r, 7, D, {"row"})
  <2>1. 4 \in 1..(7 - 1) /\ (4 + 1)..(7 - 1) = {5, 6}
    OBVIOUS
  <2> QED
    BY <1>1, <1>3, <2>1 DEF Held, Apart
<1>8. \A k \in DOMAIN r : \/ k \in {1, 2, 4, 6} /\ Apart(r[k])
                          \/ k = 3 \/ k = 5 \/ k = 7
  BY <1>1
<1>9. RunSafe(r, D)
  BY <1>1, <1>2, <1>3, <1>4, <1>5, <1>6, <1>7, <1>8 DEF RunSafe, Apart
<1>10. RowsWhole(r)
  BY <1>1, <1>3, <1>4, <1>8 DEF RowsWhole, Apart
<1> QED
  BY <1>9, <1>10 DEF r

LEMMA ReconcileSafe == ASSUME NEW D PROVE RunSafe(Reconcile, D) /\ RowsWhole(Reconcile)
<1> DEFINE a == Step("add", {"model"}, "return")
           b == Step("add", {"reconciling"}, "return")
           c == Step("remove", {"row", "messages"}, "return")
           d == Step("add", {"row"}, "return")
           e == Step("add", {"messages"}, "return")
           f == Step("add", {"baseline"}, "return")
           g == Step("remove", Slot, "return")
<1>1. /\ Apart(a) /\ Apart(b) /\ Apart(f) /\ Apart(d) /\ ~Clears(a, Slot) /\ ~Clears(b, Slot)
      /\ Writes(b, Slot) /\ Writes(d, {"row"}) /\ Writes(e, {"messages"})
  BY StepEffects DEF Apart, Slot
<1>2. c.verb = "remove" /\ c.what = {"row", "messages"} /\ g.verb = "remove" /\ g.what = Slot
  BY StepFields
<1>3. Reconcile = <<a, b, c, d, e, f, g>>
  BY DEF Reconcile
<1> HIDE DEF a, b, c, d, e, f, g
<1> QED
  BY <1>1, <1>2, <1>3, SevenSafe

LEMMA RebuildSafe ==
  ASSUME NEW D, D \cap Slot # {} PROVE RunSafe(Rebuild, D) /\ RowsWhole(Rebuild)
<1> DEFINE a == Step("add", {"model"}, "return")
           b == Step("remove", {"baseline"}, "return")
           c == Step("remove", {"row", "messages"}, "return")
           d == Step("add", {"row"}, "return")
           e == Step("add", {"messages"}, "return")
           f == Step("add", {"baseline"}, "return")
           g == Step("remove", Slot, "return")
<1>1. /\ Apart(a) /\ Apart(b) /\ Apart(f) /\ Apart(d) /\ ~Clears(a, Slot) /\ ~Clears(b, Slot)
      /\ Writes(d, {"row"}) /\ Writes(e, {"messages"})
  BY StepEffects DEF Apart, Slot
<1>2. c.verb = "remove" /\ c.what = {"row", "messages"} /\ g.verb = "remove" /\ g.what = Slot
  BY StepFields
<1>3. Rebuild = <<a, b, c, d, e, f, g>>
  BY DEF Rebuild
<1> HIDE DEF a, b, c, d, e, f, g
<1> QED
  BY <1>1, <1>2, <1>3, SevenSafe

LEMMA DropSafe ==
  ASSUME NEW D, "row" \in D \/ "transcript" \notin D
  PROVE  RunSafe(DropRecord, D) /\ RowsWhole(DropRecord)
<1> DEFINE a == Step("remove", Slot, "return")
<1>1. ~Writes(a, {"messages"}) /\ ~Clears(a, {"row"})
  BY StepEffects DEF Slot
<1>2. DropRecord = <<a>>
  BY DEF DropRecord
<1> HIDE DEF a
<1>3. DOMAIN <<a>> = {1} /\ <<a>>[1] = a
  OBVIOUS
<1>4. "row" \in D => Held(<<a>>, 1, D, {"row"})
  <2>1. 1..(1 - 1) = {}
    OBVIOUS
  <2> QED
    BY <2>1 DEF Held
<1> QED
  BY <1>1, <1>2, <1>3, <1>4 DEF RunSafe, RowsWhole

LEMMA RowsSafe == RowsWhole(DatabaseRows)
<1> DEFINE a == Step("remove", {"goal"}, "restore")
           b == Step("remove", {"row", "messages"}, "restore")
<1>1. ~Clears(a, {"row"}) /\ "messages" \in b.what
  BY StepEffects, StepFields
<1>2. DatabaseRows = <<a, b>>
  BY DEF DatabaseRows
<1> HIDE DEF a, b
<1>3. DOMAIN <<a, b>> = {1, 2} /\ <<a, b>>[1] = a /\ <<a, b>>[2] = b
  OBVIOUS
<1> QED
  BY <1>1, <1>2, <1>3 DEF RowsWhole

LEMMA RunElements == ASSUME NEW S, Only(S) PROVE \A k \in DOMAIN op.todo : op.todo[k] \in S
<1>1. op.todo \in Seq(S)
  BY DEF Only
<1> QED
  BY <1>1, LenProperties, ElementOfSeq

\* Rows are only removed from where a session is deleted or its row rebuilt.
LEMMA PlaceWhole ==
  ASSUME OpOK, op.at \notin {"databases", "recover"} \cup Undoing
  PROVE  RowsWhole(op.todo)
<1>1. \A A, e : \A st \in Removals(A, e) : "row" \notin A => ~Clears(st, {"row"})
  BY RemovalFields DEF Clears
<1>2. \A A, e : \A st \in Additions(A, e) : ~Clears(st, {"row"})
  BY AdditionFields DEF Clears
<1>3. \A A, e : ~Clears(Step("publish", A, e), {"row"}) /\ ~Clears(Step("index", A, e), {"row"})
  BY StepEffects
<1>4. "row" \notin RecordArts /\ "row" \notin Filed /\ "row" \notin Markers
  BY DEF RecordArts, Filed, FileArts, Slot, Markers
<1>5. RunOK /\ PlaceOK
  BY DEF OpOK
<1>6. CASE op.todo = <<>>
  BY <1>6, NothingSafe
<1>7. CASE op.at = "records"
  <2>1. Only(Removals(RecordArts, "collect"))
    BY <1>5, <1>7 DEF RunOK
  <2> QED
    BY <1>1, <1>4, <2>1, RunElements DEF RowsWhole
<1>8. CASE op.at = "files"
  <2>1. Only(Removals(Filed, "collect"))
    BY <1>5, <1>8 DEF RunOK
  <2> QED
    BY <1>1, <1>4, <2>1, RunElements DEF RowsWhole
<1>9. CASE op.at = "cleaned"
  <2>1. Only(Removals({op.mark}, "restore")) /\ op.mark \in Markers
    BY <1>5, <1>9 DEF RunOK, PlaceOK, CleanSteps
  <2>2. "row" \notin {op.mark}
    BY <1>4, <2>1
  <2> QED
    BY <1>1, <2>1, <2>2, RunElements DEF RowsWhole
<1>10. CASE op.at = "attach"
  <2>1. op.kind \in {"create", "resume"}
    BY <1>5, <1>10 DEF PlaceOK
  <2>2. CASE op.kind = "create"
    <3>1. Only(Removals({"familiar"}, "return") \cup Additions({"familiar"}, "return")
                 \cup Additions({"model", "baseline"}, "create.undo"))
      BY <1>5, <1>10, <2>2 DEF RunOK
    <3> QED
      BY <1>1, <1>2, <3>1, RunElements DEF RowsWhole
  <2>3. CASE op.kind = "resume"
    <3>1. Only(Additions(IndexArts, "return"))
      BY <1>5, <1>10, <2>3 DEF RunOK
    <3> QED
      BY <1>2, <3>1, RunElements DEF RowsWhole
  <2> QED
    BY <2>1, <2>2, <2>3
<1>11. CASE op.at = "failed"
  <2>1. Only(Removals({"baseline", "model", "familiar"}, "collect"))
    BY <1>5, <1>11 DEF RunOK
  <2> QED
    BY <1>1, <2>1, RunElements DEF RowsWhole
<1>12. CASE op.at = "fork.id"
  <2>1. Only(Additions(IndexArts, "return"))
    BY <1>5, <1>12 DEF RunOK
  <2> QED
    BY <1>2, <2>1, RunElements DEF RowsWhole
<1>13. CASE op.at = "fork.publish"
  <2>1. Only(StagingRun)
    BY <1>5, <1>13 DEF RunOK, StagingRun
  <2>2. \A st \in StagingRun : ~Clears(st, {"row"})
    BY <1>1, <1>2, <1>3 DEF StagingRun
  <2> QED
    BY <2>1, <2>2, RunElements DEF RowsWhole
<1>14. CASE op.at = "fork.commit"
  <2>1. Only(PublicationRun)
    BY <1>5, <1>14 DEF RunOK, PublicationRun
  <2>2. \A st \in PublicationRun : ~Clears(st, {"row"})
    BY <1>2, <1>3, StepEffects DEF PublicationRun
  <2> QED
    BY <2>1, <2>2, RunElements DEF RowsWhole
<1> QED
  BY <1>5, <1>6, <1>7, <1>8, <1>9, <1>10, <1>11, <1>12, <1>13, <1>14 DEF RunOK, Undoing

LEMMA CreateSafe == ASSUME NEW run \in Seq(CreateRun), NEW D PROVE RunSafe(run, D)
<1>1. \A st \in CreateRun : Apart(st)
  BY RemovalFields, AdditionFields DEF CreateRun, Apart, Clears, Writes, Slot
<1>2. \A k \in DOMAIN run : run[k] \in CreateRun
  BY LenProperties, ElementOfSeq
<1> QED
  BY <1>1, <1>2, SafeApart

\* resume and fork write the row of an index before its messages.
LEMMA IndexSafe ==
  ASSUME NEW s, NEW D
  PROVE  /\ RunSafe(ModelRecord("return") \o <<Step("add", {"row"}, "return")>> \o CatchUp(s), D)
         /\ RunSafe(ModelRecord("return")
                      \o When("baseline" \notin disk[s],
                              <<Step("add", {"row"}, "return")>> \o CatchUp(s)), D)
<1> DEFINE a == Step("add", {"model"}, "return")
           w == Step("add", {"row"}, "return")
           c == CatchUp(s)
<1>1. /\ Apart(a) /\ Apart(w) /\ Writes(w, {"row"})
      /\ \A st \in IndexRun : ~Clears(st, {"row"})
  <2>1. \A st \in IndexRun : ~Clears(st, {"row"})
    BY AdditionFields DEF IndexRun, Clears
  <2> QED
    BY <2>1, StepEffects DEF Apart, Slot
<1>2. a \in IndexRun /\ w \in IndexRun /\ c \in Seq(IndexRun)
  <2>1. {"model"} \in SUBSET IndexArts /\ {"row"} \in SUBSET IndexArts
        /\ {"messages"} \in SUBSET IndexArts /\ {"baseline"} \in SUBSET IndexArts
    BY DEF IndexArts
  <2>2. /\ a \in IndexRun /\ w \in IndexRun
        /\ Step("add", {"messages"}, "return") \in IndexRun
        /\ Step("add", {"baseline"}, "return") \in IndexRun
    BY <2>1, AdditionStep DEF IndexRun
  <2>3. <<Step("add", {"messages"}, "return")>> \o Baseline("return") \in Seq(IndexRun)
    BY <2>2, RunsJoin DEF Baseline
  <2> QED
    BY <2>2, <2>3, WhenRun DEF CatchUp
<1> HIDE DEF a, w, c
<1>3. /\ <<a>> \in Seq(IndexRun) /\ <<w>> \in Seq(IndexRun)
      /\ Len(<<a>>) = 1 /\ Len(<<w>>) = 1 /\ <<a>>[1] = a /\ <<w>>[1] = w
  BY <1>2
<1>4. /\ <<w>> \o c \in Seq(IndexRun) /\ Len(<<w>> \o c) \in Nat \ {0} /\ (<<w>> \o c)[1] = w
  <2>1. Len(c) \in Nat
    BY <1>2, LenProperties
  <2> HIDE DEF c
  <2> QED
    BY <1>2, <1>3, <2>1, ConcatProperties
<1>5. ASSUME NEW t \in Seq(IndexRun), t = <<>> \/ (Len(t) \in Nat \ {0} /\ t[1] = w)
      PROVE  RunSafe(<<a>> \o t, D)
  <2> DEFINE r == <<a>> \o t
  <2>1. /\ r \in Seq(IndexRun) /\ Len(r) = 1 + Len(t) /\ Len(t) \in Nat /\ r[1] = a
        /\ Len(t) # 0 => r[2] = t[1]
    BY <1>3, ConcatProperties, LenProperties
  <2> HIDE DEF r
  <2>2. \A k \in 1..Len(r) : ~Clears(r[k], {"row"})
    BY <1>1, <2>1, ElementOfSeq
  <2>3. CASE Len(t) = 0
    <3>1. DOMAIN r = {1}
      BY <2>1, <2>3, LenProperties
    <3> QED
      BY <1>1, <2>1, <3>1, SafeApart DEF r
  <2>4. CASE Len(t) # 0
    <3>1. t[1] = w
      BY <1>5, <2>4, EmptySeq
    <3>2. 2 \in 1..Len(r) /\ Writes(r[2], {"row"}) /\ \A k \in 1..2 : Apart(r[k])
      BY <1>1, <2>1, <2>4, <3>1
    <3> QED
      BY <2>1, <2>2, <3>2, SafeRow DEF r
  <2> QED
    BY <2>3, <2>4
<1>6. RunSafe(<<a>> \o (<<w>> \o c), D) /\ RunSafe(<<a>> \o <<>>, D)
  BY <1>4, <1>5, EmptySeq
<1>7. (<<a>> \o <<w>>) \o c = <<a>> \o (<<w>> \o c)
  BY <1>2, <1>3, ConcatAssociative
<1> QED
  BY <1>6, <1>7 DEF ModelRecord, When, a, w, c

LEMMA PublicationSafe == ASSUME NEW D PROVE RunSafe(Publication, D)
<1>1. Publication \in Seq(PublicationRun)
  BY ForkRuns
<1>2. \A st \in PublicationRun : ~Clears(st, {"row"})
  <2>1. \A A, e : \A st \in Additions(A, e) : ~Clears(st, {"row"})
    BY AdditionFields DEF Clears
  <2>2. /\ ~Clears(Step("index", {"row"}, "undo"), {"row"})
        /\ ~Clears(Step("remove", {"forkmark"}, "undo"), {"row"})
    BY StepEffects
  <2> QED
    BY <2>1, <2>2 DEF PublicationRun
<1>3. /\ Publication \in Seq(Steps) /\ Len(Publication) \in Nat /\ Len(Publication) >= 2
      /\ Publication[1] = Step("add", {"model"}, "undo")
      /\ Publication[2] = Step("index", {"row"}, "undo")
  BY <1>1, PublicationShape, ForkRuns
<1>4. /\ Writes(Publication[2], {"row"}) /\ \A k \in 1..2 : Apart(Publication[k])
  BY <1>3, StepEffects DEF Apart
<1>5. \A k \in 1..Len(Publication) : ~Clears(Publication[k], {"row"})
  BY <1>1, <1>2, ElementOfSeq
<1>6. 2 \in 1..Len(Publication)
  BY <1>3
<1> QED
  BY <1>1, <1>4, <1>5, <1>6, SafeRow

-----------------------------------------------------------------------------
(* As long as no call has failed                                            *)

\* A first failure is counted.
LEMMA NoFault == ASSUME faults \in Nat, Next PROVE faults' \in Nat /\ (faults' = 0 => faults = 0 /\ ~Fault)
<1>1. CASE Fault
  <2>1. faults' = faults + 1
    BY <1>1 DEF Fault
  <2> QED
    BY <2>1
<1> QED
  BY <1>1, FaultsStep

\* What is written or removed with its directory synced is as durable as it is
\* visible.
LEMMA ChangesFirm ==
  ASSUME StoreOK, dur = disk, NEW s \in Ids, NEW D \in SUBSET Artifacts,
         NEW synced \in SUBSET Artifacts, Changes(s, D, synced),
         D \subseteq disk[s] \cup synced \cup Databases, disk[s] \subseteq D \cup synced \cup Databases
  PROVE  dur' = disk'
<1>1. disk' = [disk EXCEPT ![s] = D]
  BY DEF Changes
<1>2. dur' = [dur EXCEPT ![s] = (dur[s] \ (synced \cup Databases)) \cup (D \cap (synced \cup Databases))]
  BY DEF Changes
<1>3. (dur[s] \ (synced \cup Databases)) \cup (D \cap (synced \cup Databases)) = D
  OBVIOUS
<1> QED
  BY <1>1, <1>2, <1>3

LEMMA AddFirm ==
  ASSUME StoreOK, dur = disk, NEW s \in Ids, NEW A \in SUBSET Artifacts
  PROVE  (Add(s, A) => dur' = disk') /\ (Remove(s, A) => dur' = disk')
<1>1. disk[s] \cup A \in SUBSET Artifacts /\ disk[s] \ A \in SUBSET Artifacts
  BY DEF StoreOK
<1>2. Add(s, A) => dur' = disk'
  <2>1. /\ disk[s] \cup A \subseteq disk[s] \cup A \cup Databases
        /\ disk[s] \subseteq (disk[s] \cup A) \cup A \cup Databases
    OBVIOUS
  <2> QED
    BY <1>1, <2>1, ChangesFirm DEF Add
<1>3. Remove(s, A) => dur' = disk'
  <2>1. /\ disk[s] \ A \subseteq disk[s] \cup A \cup Databases
        /\ disk[s] \subseteq (disk[s] \ A) \cup A \cup Databases
    OBVIOUS
  <2> QED
    BY <1>1, <2>1, ChangesFirm DEF Remove
<1> QED
  BY <1>2, <1>3

LEMMA MarkerFirm ==
  ASSUME StoreOK, dur = disk, NEW s \in Ids, NEW b, ~Fault
  PROVE  /\ \A m \in Markers : MarkerKept(s, m) \/ MarkerFails(s, m) => dur' = disk'
         /\ BeginDeletion(s, b) \/ BeginReuse(s, b) => dur' = disk'
<1>1. \A m \in Markers : {m} \in SUBSET Artifacts
  BY DEF Artifacts
<1>2. \A m \in Markers : MarkerKept(s, m) \/ MarkerFails(s, m) => dur' = disk'
  BY <1>1, AddFirm DEF MarkerKept, MarkerFails, AddFails
<1>3. "delmark" \in Markers
  BY DEF Markers
<1> QED
  BY <1>2, <1>3 DEF BeginDeletion, BeginReuse

LEMMA PersistFirm ==
  ASSUME TypeOK, StoreOK, dur = disk, NEW h \in Handles, Persist(h), ~Fault
  PROVE  /\ dur' = disk' /\ UNCHANGED <<life, op>> /\ op = NoOp
         /\ \E s \in Ids : /\ life[s].state = "active" /\ OthersStay(s)
                           /\ {"row", "messages", "transcript"} \subseteq disk'[s]
<1> DEFINE s == open[h].id
           rest == (disk[s] \ Slot) \cup Drained(s)
           D == rest \cup {"transcript", "row", "messages"}
<1>1. s \in Ids /\ life[s].state = "active"
  <2>1. open[h] # Closed /\ life[s] = Active(open[h].gen)
    BY DEF Persist, Writable
  <2>2. open[h] \in [id : Ids, gen : Gens]
    BY <2>1 DEF TypeOK
  <2> QED
    BY <2>1, <2>2 DEF Active
<1>2. Changes(s, D, Slot \cup {"transcript"}) /\ UNCHANGED <<life, op>> /\ op = NoOp
  BY DEF Persist
<1>3. /\ D \in SUBSET Artifacts /\ Slot \cup {"transcript"} \in SUBSET Artifacts
      /\ D \subseteq disk[s] \cup (Slot \cup {"transcript"}) \cup Databases
      /\ disk[s] \subseteq D \cup (Slot \cup {"transcript"}) \cup Databases
  <2>1. disk[s] \in SUBSET Artifacts /\ Drained(s) \subseteq {"row", "messages"}
    BY <1>1 DEF StoreOK, Drained
  <2> QED
    BY <2>1 DEF Artifacts, Databases
<1> HIDE DEF s, D
<1>4. dur' = disk'
  BY <1>1, <1>2, <1>3, ChangesFirm
<1>5. disk'[s] = D /\ OthersStay(s)
  BY <1>1, <1>2, <1>3, ChangesEffect
<1>6. {"row", "messages", "transcript"} \subseteq D
  BY DEF D
<1> QED
  BY <1>1, <1>2, <1>4, <1>5, <1>6

LEMMA FirmStep == ASSUME TypeInv, dur = disk, Next, ~Fault PROVE dur' = disk'
<1>1. CASE UNCHANGED <<disk, dur>>
  BY <1>1
<1>2. CASE dur' = disk'
  BY <1>2
<1>3. TypeOK /\ StoreOK /\ OpOK /\ PlaceOK /\ op \in Ops
  BY DEF TypeInv, OpOK
<1>4. CASE TakeStep
  <2>1. op.job \in Ids /\ Head(op.todo) \in Steps
    BY <1>3, <1>4, StepEffect DEF PlaceOK, TakeStep
  <2>2. Head(op.todo).what \in SUBSET Artifacts
    BY <2>1 DEF Steps
  <2> DEFINE step == Head(op.todo)
  <2>3. Add(op.job, step.what) \/ Remove(op.job, step.what)
    BY <1>4 DEF TakeStep, AddFails, RemoveFails
  <2> QED
    BY <1>3, <2>1, <2>2, <2>3, AddFirm
<1>5. CASE EnsureMarker \/ RecordsGone \/ RowsGone \/ FilesGone \/ Restore \/ Cleaned
  <2>1. op.at \in CleanSteps => op.job \in Ids /\ op.mark \in Markers
    BY <1>3 DEF PlaceOK
  <2> QED
    BY <1>1, <1>3, <1>5, <2>1, MarkerFirm
       DEF EnsureMarker, RecordsGone, RowsGone, FilesGone, Restore, Cleaned, At, CleanSteps
<1>6. CASE \/ Preflight \/ RecoverMarked \/ ResolveRecord \/ RefuseRecord \/ DeleteUnpublished
           \/ DeleteGhost \/ ReconcileLegacy \/ Recovered
  BY <1>1, <1>3, <1>6, MarkerFirm DEF Preflight, RecoverMarked, ResolveRecord, RefuseRecord,
     DeleteUnpublished, DeleteGhost, ReconcileLegacy, Recovered, Unpublished, Uncounted, Recorded
<1>7. CASE \/ List \/ Delete \/ Deleted \/ Create \/ CreateWrite \/ CreateUndo \/ Failed
           \/ Resume \/ Attach
  <2>1. op.at \in {"delete", "create"} => op.id \in Ids
    BY <1>3 DEF PlaceOK, CreateSteps
  <2> QED
    BY <1>1, <1>3, <1>7, <2>1, MarkerFirm
       DEF List, Delete, Deleted, Create, CreateWrite, CreateUndo, Failed, Resume, Attach, At
<1>8. CASE \/ Fork \/ ForkId \/ ForkStaged \/ ForkPublish \/ ForkCommit
           \/ Undo \/ UndoIndex \/ UndoFiles \/ UndoMark \/ UndoRemark \/ Undone
  <2>1. op.at = "fork.id" => op.id \in Ids
    BY <1>3, SMTT(30) DEF PlaceOK, ForkSteps
  <2> QED
    BY <1>1, <1>3, <1>8, <2>1, MarkerFirm DEF Fork, ForkId, ForkStaged, ForkPublish, ForkCommit,
       Undo, UndoIndex, UndoFiles, UndoMark, UndoRemark, Undone, At
<1>9. CASE BeginAny
  BY <1>1, <1>9, Zenon DEF BeginAny, Begin
<1>10. CASE \E h \in Handles : Persist(h) \/ GoalWrite(h) \/ DropHandle(h)
  <2>1. PICK h \in Handles : Persist(h) \/ GoalWrite(h) \/ DropHandle(h)
    BY <1>10
  <2>2. CASE Persist(h)
    BY <1>3, <2>2, PersistFirm
  <2>3. CASE GoalWrite(h)
    <3>1. open[h].id \in Ids
      BY <1>3, <2>3 DEF GoalWrite, TypeOK
    <3> DEFINE s == open[h].id
               D == disk[s] \cup {"goal"}
    <3>2. Changes(s, D, {})
      BY <2>3 DEF GoalWrite
    <3>3. D \in SUBSET Artifacts /\ {} \in SUBSET Artifacts
          /\ D \subseteq disk[s] \cup {} \cup Databases /\ disk[s] \subseteq D \cup {} \cup Databases
      BY <1>3, <3>1 DEF StoreOK, Artifacts, Databases
    <3> HIDE DEF s, D
    <3>4. s \in Ids
      BY <3>1 DEF s
    <3> QED
      BY <1>3, <3>2, <3>3, <3>4, ChangesFirm
  <2>4. CASE DropHandle(h)
    BY <1>1, <2>4 DEF DropHandle
  <2> QED
    BY <2>1, <2>2, <2>3, <2>4
<1>11. CASE Crash \/ PowerLoss
  BY <1>1, <1>2, <1>11 DEF Crash, PowerLoss
<1> QED
  BY <1>4, <1>5, <1>6, <1>7, <1>8, <1>9, <1>10, <1>11 DEF Next, Working

Finders == {"row"} \cup Slot \cup Markers

\* A step of a run of a place where sessions are indexed finds what it rests on.
LEMMA SafeHead ==
  ASSUME op.at \in SafeRuns, NEW todo \in Seq(Steps), todo # <<>>, NEW D, RunSafe(todo, D)
  PROVE  LET step == Head(todo)
         IN /\ Writes(step, {"messages"}) => "row" \in D
            /\ Clears(step, Slot \cup {"forkmark"}) => "row" \in D \/ "transcript" \notin D
            /\ Clears(step, {"row"}) => D \cap Slot # {} /\ ~Clears(step, Slot)
<1>1. 1 \in DOMAIN todo /\ Head(todo) = todo[1]
  BY RunShrinks
<1>2. \A A : Held(todo, 1, D, A) => D \cap A # {}
  BY HeldNow
<1>3. /\ Writes(todo[1], {"messages"}) => Held(todo, 1, D, {"row"})
      /\ Clears(todo[1], Slot \cup {"forkmark"}) =>
           Held(todo, 1, D, {"row"}) \/ "transcript" \notin D
      /\ Clears(todo[1], {"row"}) => Held(todo, 1, D, Slot) /\ ~Clears(todo[1], Slot)
  BY <1>1 DEF RunSafe
<1>4. /\ Held(todo, 1, D, {"row"}) => "row" \in D
      /\ Held(todo, 1, D, Slot) => D \cap Slot # {}
  BY <1>2
<1> QED
  BY <1>1, <1>3, <1>4

\* The staging of a fork begins with its marker.
LEMMA StagingHead == \A familiar \in BOOLEAN : /\ Head(Staging(familiar)).verb = "add"
                                              /\ Head(Staging(familiar)).what = {"forkmark"}
<1> SUFFICES ASSUME NEW familiar \in BOOLEAN
             PROVE  Head(Staging(familiar)) = Step("add", {"forkmark"}, "return")
  BY StepFields
<1> DEFINE s1 == Step("add", {"forkmark"}, "return")
           s2 == Step("add", {"stage"}, "undo")
           s3 == Step("publish", {"transcript"}, "undo")
           f == When(familiar, <<Step("publish", {"familiar"}, "undo")>>)
           z == <<Step("remove", {"stage"}, "undo")>>
           a == <<s1, s2, s3>>
           S == StagingRun
<1>1. Staging(familiar) = (a \o f) \o z
  BY DEF Staging
<1>2. s1 \in S /\ s2 \in S /\ s3 \in S /\ Step("publish", {"familiar"}, "undo") \in S
      /\ Step("remove", {"stage"}, "undo") \in S
  BY AdditionStep, RemovalStep DEF StagingRun
<1>3. a \in Seq(S) /\ z \in Seq(S) /\ <<Step("publish", {"familiar"}, "undo")>> \in Seq(S)
      /\ Len(a) = 3 /\ a[1] = s1
  BY <1>2
<1>4. f \in Seq(S)
  BY <1>3, WhenRun
<1> HIDE DEF a, f, z, s1, s2, s3, S
<1>5. /\ a \o f \in Seq(S) /\ Len(a \o f) = 3 + Len(f) /\ (a \o f)[1] = s1 /\ Len(f) \in Nat
  <2>1. Len(f) \in Nat /\ Len(a) \in Nat
    BY <1>3, <1>4, LenProperties
  <2>2. /\ a \o f \in Seq(S) /\ Len(a \o f) = Len(a) + Len(f)
        /\ \A i \in 1..Len(a) + Len(f) : (a \o f)[i] = IF i <= Len(a) THEN a[i] ELSE f[i - Len(a)]
    BY <1>3, <1>4, ConcatProperties
  <2>3. 1 \in 1..Len(a) + Len(f) /\ 1 <= Len(a)
    BY <1>3, <2>1
  <2> QED
    BY <1>3, <2>1, <2>2, <2>3
<1>6. /\ (a \o f) \o z \in Seq(S) /\ Len((a \o f) \o z) # 0 /\ ((a \o f) \o z)[1] = s1
  <2> DEFINE b == a \o f
  <2>1. b \in Seq(S) /\ Len(b) \in Nat /\ Len(b) >= 3 /\ b[1] = s1
    BY <1>5
  <2> HIDE DEF b
  <2>2. b \o z \in Seq(S) /\ Len(b \o z) = Len(b) + Len(z) /\ Len(z) \in Nat /\ (b \o z)[1] = s1
    BY <1>3, <2>1, ConcatProperties, LenProperties
  <2>3. Len(b \o z) # 0
    BY <2>1, <2>2
  <2> QED
    BY <2>2, <2>3 DEF b
<1>7. (a \o f) \o z # <<>>
  BY <1>6, EmptySeq
<1>8. Head((a \o f) \o z) = s1
  BY <1>6, <1>7, RunShrinks
<1> QED
  BY <1>1, <1>8 DEF s1

LEMMA TakeTraced ==
  ASSUME LifeInv, MarkedOn, MarkedOn', TracedOK, dur' = disk', TakeStep, ~Fault
  PROVE  TracedOK'
<1> DEFINE step == Head(op.todo)
           j == op.job
<1>1. /\ op \in Ops /\ j \in Ids /\ op.at \in RunPlaces /\ op.todo # <<>> /\ OthersStay(j)
      /\ UNCHANGED life
      /\ IF step.verb = "remove" THEN Removes(j, step.what) ELSE Adds(j, step.what)
      /\ Taken(step)
  BY TakeEffect DEF LifeInv, Collected, Returned, Diverted
<1>2. /\ Carried /\ op'.at = op.at /\ op'.todo = Tail(op.todo)
      /\ step.verb = "remove" => step.what \cap disk'[j] = {}
      /\ step.verb # "remove" => step.what \subseteq disk'[j]
  BY <1>1 DEF Taken, Known, Carried
<1>3. RunOK /\ PlaceOK /\ op.todo \in Seq(Steps)
  BY <1>1 DEF LifeInv, TypeInv, OpOK, Ops
<1>4. step.verb = "remove" => /\ disk'[j] \subseteq disk[j] /\ disk[j] \ step.what \subseteq disk'[j]
  BY <1>1 DEF Removes
<1>5. step.verb # "remove" => disk[j] \subseteq disk'[j] /\ disk'[j] \subseteq disk[j] \cup step.what
  BY <1>1 DEF Adds
<1>6. op.at \in SafeRuns =>
        /\ Writes(step, {"messages"}) => "row" \in disk[j]
        /\ Clears(step, Slot \cup {"forkmark"}) => "row" \in disk[j] \/ "transcript" \notin disk[j]
        /\ Clears(step, {"row"}) => disk[j] \cap Slot # {} /\ ~Clears(step, Slot)
  BY <1>1, <1>3, SafeHead DEF TracedOK
<1>7. step.verb = "remove" /\ step.what \cap Markers # {} =>
         \/ op.at = "files" /\ op.mark = "delmark" /\ step.what \cap Markers = {"forkmark"}
         \/ op.at = "cleaned" /\ step.what \subseteq {op.mark}
         \/ op.at = "fork.commit" /\ step.what = {"forkmark"}
  BY <1>1, <1>2, TakeMarks DEF LifeInv, TracedOK, Undoing
<1>8. op.at \in {"records", "databases", "files"} => op.mark \in Markers /\ op.mark \in disk'[j]
  BY <1>2, <1>3 DEF PlaceOK, CleanSteps, MarkedOn, Carried
<1>9. op.at = "cleaned" => "transcript" \notin disk[j] /\ op.mark \in Markers
  BY <1>3 DEF LifeInv, CleanOK, PlaceOK, CleanSteps, Markers
<1>10. op.at = "fork.publish" =>
         /\ step.verb = "remove" => step.what \subseteq {"stage"}
         /\ step.verb # "remove" => \/ step.what \subseteq {"forkmark", "stage"}
                                    \/ step.what = {"transcript"} \/ step.what = {"familiar"}
  BY <1>1, <1>3, FirstStep
<1>11. op.at = "fork.publish" => j = op.id /\ ("forkmark" \in disk[j] \/ step.what = {"forkmark"})
  BY <1>3, StagingHead DEF TracedOK, PlaceOK, StageSteps
<1>12. op.at = "fork.publish" => "forkmark" \in disk'[j]
  BY <1>2, <1>4, <1>5, <1>10, <1>11
<1>13. op.at \notin {"fork.publish", "fork.commit"} => step.verb = "remove" \/ op.at \in Plain
  BY <1>1, TakeWrites DEF LifeInv, TracedOK, Undoing, RunPlaces, CleanSteps, Plain
<1>14. op.at \in Plain => step.what \cap (Markers \cup {"transcript"}) = {}
  BY <1>1, TakeWrites DEF LifeInv
<1>15. op.at = "fork.commit" => "transcript" \notin step.what
  BY <1>1, <1>3, FirstStep
<1>16. op.at \in {"attach", "failed"} /\ step.verb = "remove" =>
         step.what \subseteq {"baseline", "model", "familiar"}
  BY <1>1, <1>3, FirstStep DEF PlaceOK
<1>17. op.at = "fork.id" => step.verb = "add"
  BY <1>1, <1>3, FirstStep
<1> HIDE DEF step
<1>18. op.at # "fork.publish" /\ "transcript" \in disk'[j] => "transcript" \in disk[j]
  BY <1>4, <1>5, <1>13, <1>14, <1>15
<1>19. ASSUME "transcript" \in disk'[j] PROVE disk'[j] \cap Finders # {}
  <2>1. CASE op.at = "fork.publish"
    BY <1>12, <2>1 DEF Finders, Markers
  <2>2. CASE op.at \in {"records", "databases", "files"}
    BY <1>8, <2>2 DEF Finders
  <2>3. CASE op.at = "cleaned"
    BY <1>9, <1>18, <1>19, <2>3
  <2>4. CASE op.at \in {"attach", "failed", "recover", "fork.id", "fork.commit"}
    <3>1. disk[j] \cap Finders # {} /\ "transcript" \in disk[j]
      BY <1>1, <1>18, <1>19, <2>4 DEF TracedOK, Traced, Finders
    <3>2. CASE step.verb # "remove"
      BY <1>5, <3>1, <3>2
    <3>3. CASE step.verb = "remove" /\ step.what \cap Finders = {}
      BY <1>4, <3>1, <3>3
    <3>4. CASE step.verb = "remove" /\ step.what \cap Finders # {}
      <4>1. op.at \in {"recover", "fork.commit"}
        BY <1>16, <1>17, <2>4, <3>4 DEF Finders, Slot, Markers
      <4>2. "delmark" \notin step.what
        BY <1>7, <3>4, <4>1 DEF Markers
      <4>3. CASE "row" \in step.what
        <5>1. disk[j] \cap Slot # {} /\ step.what \cap Slot = {}
          BY <1>6, <3>4, <4>1, <4>3 DEF Clears, SafeRuns
        <5> QED
          BY <1>4, <3>4, <5>1 DEF Finders
      <4>4. CASE "row" \notin step.what
        <5>1. Clears(step, Slot \cup {"forkmark"})
          BY <3>4, <4>2, <4>4 DEF Clears, Finders, Markers
        <5>2. "row" \in disk[j]
          BY <1>6, <3>1, <4>1, <5>1 DEF SafeRuns
        <5> QED
          BY <1>4, <3>4, <4>4, <5>2 DEF Finders
      <4> QED
        BY <4>3, <4>4
    <3> QED
      BY <3>2, <3>3, <3>4
  <2> QED
    BY <1>1, <2>1, <2>2, <2>3, <2>4 DEF RunPlaces, TracedOK, Undoing
<1>20. ASSUME "messages" \in disk'[j] PROVE "row" \in disk'[j]
  <2>1. CASE step.verb # "remove" /\ "messages" \in disk[j]
    BY <1>1, <1>5, <2>1 DEF TracedOK
  <2>2. CASE step.verb # "remove" /\ "messages" \notin disk[j]
    <3>1. "messages" \in step.what
      BY <1>5, <1>20, <2>2
    <3>2. op.at # "fork.publish"
      BY <1>10, <2>2, <3>1
    <3>3. op.at # "failed"
      BY <1>1, <2>2, TakeWrites DEF LifeInv, Plain, step
    <3>4. op.at \in SafeRuns
      BY <1>13, <2>2, <3>2, <3>3 DEF Plain, SafeRuns
    <3>5. "row" \in disk[j]
      BY <1>6, <2>2, <3>1, <3>4 DEF Writes
    <3> QED
      BY <1>5, <2>2, <3>5
  <2>3. CASE step.verb = "remove"
    <3>1. "messages" \in disk[j] /\ "messages" \notin step.what
      BY <1>2, <1>4, <1>20, <2>3
    <3>2. "row" \notin step.what
      <4>1. RowsWhole(op.todo) /\ 1 \in DOMAIN op.todo /\ op.todo[1] = step
        BY <1>1, <1>3, RunShrinks DEF TracedOK, step
      <4> QED
        BY <2>3, <3>1, <4>1 DEF RowsWhole, Clears
    <3>3. "row" \in disk[j]
      BY <1>1, <3>1 DEF TracedOK
    <3> QED
      BY <1>4, <2>3, <3>2, <3>3
  <2> QED
    BY <2>1, <2>2, <2>3
<1>21. ASSUME Fenced(j)
       PROVE  \/ disk'[j] \cap Markers # {} \/ "transcript" \notin disk'[j]
              \/ op.at = "fork.commit" /\ j = op.id
  <2>1. CASE op.at \in {"fork.publish", "records", "databases", "files"}
    BY <1>8, <1>12, <2>1 DEF Markers
  <2>2. CASE op.at = "fork.commit"
    BY <1>3, <2>2 DEF PlaceOK, StageSteps
  <2>3. CASE op.at = "cleaned"
    BY <1>9, <1>18, <2>3
  <2>4. CASE op.at \in Plain
    <3>1. step.verb = "remove" => step.what \cap Markers = {}
      BY <1>14, <2>4
    <3>2. Marks(j) # {} \/ "transcript" \notin disk[j]
      BY <1>1, <1>21, <2>4 DEF TracedOK, Plain
    <3> QED
      BY <1>4, <1>5, <1>18, <2>4, <3>1, <3>2 DEF Marks, Plain
  <2> QED
    BY <1>1, <2>1, <2>2, <2>3, <2>4 DEF RunPlaces, TracedOK, Undoing, Plain
<1>22. \A s \in Ids : /\ "transcript" \in disk'[s] => Traced(s)'
                      /\ "messages" \in disk'[s] => "row" \in disk'[s]
                      /\ Fenced(s)' => \/ Marks(s)' # {} \/ "transcript" \notin disk'[s]
                                       \/ op'.at = "fork.commit" /\ s = op'.id
  <2> SUFFICES ASSUME NEW s \in Ids
               PROVE  /\ "transcript" \in disk'[s] => disk'[s] \cap Finders # {}
                      /\ "messages" \in disk'[s] => "row" \in disk'[s]
                      /\ Fenced(s) => \/ disk'[s] \cap Markers # {}
                                      \/ "transcript" \notin disk'[s]
                                      \/ op.at = "fork.commit" /\ s = op.id
    BY <1>1, <1>2 DEF Carried, Fenced, Traced, Finders, Marks
  <2>1. CASE s = j
    BY <1>19, <1>20, <1>21, <2>1
  <2>2. CASE s # j
    BY <1>1, <2>2 DEF OthersStay, TracedOK, Traced, Finders, Marks
  <2> QED
    BY <2>1, <2>2
<1>23. RowsWhole(op'.todo)
  BY <1>1, <1>2, <1>3, WholeOn DEF TracedOK
<1>24. op'.at \in SafeRuns => RunSafe(op'.todo, disk'[op'.job])
  <2> SUFFICES ASSUME op.at \in SafeRuns PROVE RunSafe(Tail(op.todo), disk'[j])
    BY <1>2 DEF Carried
  <2>1. RunSafe(op.todo, disk[j])
    BY <1>1 DEF TracedOK
  <2>2. "transcript" \in disk'[j] => "transcript" \in disk[j]
    BY <1>18 DEF SafeRuns
  <2>3. step.verb # "remove" => disk[j] \cup step.what \subseteq disk'[j]
    BY <1>2, <1>5
  <2> QED
    BY <1>1, <1>3, <1>4, <2>1, <2>2, <2>3, SafeOn DEF step
<1>25. op'.at = "fork.publish" => "forkmark" \in disk'[op'.id]
  BY <1>2, <1>11, <1>12 DEF Carried
<1> QED
  BY <1>2, <1>22, <1>23, <1>24, <1>25 DEF TracedOK

\* The actions that start a run of a place where sessions are indexed, of the
\* databases of a cleanup, or of the stage of a fork.
Starts == ResolveRecord \/ ReconcileLegacy \/ CreateWrite \/ Resume \/ Fork \/ ForkPublish
            \/ ForkStaged \/ RowsGone \/ RecordsGone

Waits == SafeRuns \cup {"databases", "fork.publish"}

LEMMA RunsStart ==
  ASSUME op \in Ops, Next, ~TakeStep
  PROVE  op'.at \in Waits => Starts \/ op' = op \/ op'.todo = <<>>
<1> SUFFICES ASSUME op'.at \in Waits, ~Starts PROVE op' = op \/ op'.todo = <<>>
  OBVIOUS
<1>1. Return => op'.todo = <<>>
  BY NoOpTyped DEF Return
<1>2. \A p : Goto(p) => op'.todo = op.todo
  BY DEF Goto, Ops
<1>3. \A s, m, b : Clean(s, m, b) => op'.todo = op.todo
  BY DEF Clean, Ops
<1>4. \A s, steps, p : Do(s, steps, p) \/ Then(steps, p) => op'.at = p
  BY DEF Do, Then, Ops
<1>5. \A s, b : BeginDeletion(s, b) \/ BeginReuse(s, b) => op'.todo = op.todo \/ op'.todo = <<>>
  BY <1>1, <1>3 DEF BeginDeletion, BeginReuse
<1>6. CASE EnsureMarker \/ FilesGone \/ Restore \/ Cleaned
  BY <1>1, <1>2, <1>4, <1>6 DEF EnsureMarker, FilesGone, Restore, Cleaned, At, Waits, SafeRuns
<1>7. CASE \/ Preflight \/ RecoverMarked \/ RefuseRecord \/ DeleteUnpublished \/ DeleteGhost
           \/ Recovered
  BY <1>1, <1>2, <1>3, <1>5, <1>7
     DEF Preflight, RecoverMarked, RefuseRecord, DeleteUnpublished, DeleteGhost, Recovered, At
<1>8. CASE List \/ Delete \/ Deleted \/ Create \/ CreateUndo \/ Failed \/ Attach
  BY <1>1, <1>2, <1>4, <1>5, <1>8
     DEF List, Delete, Deleted, Create, CreateUndo, Failed, Attach, At, Waits, SafeRuns
<1>9. CASE ForkId \/ ForkCommit
  BY <1>1, <1>2, <1>5, <1>9 DEF ForkId, ForkCommit, At
<1>10. CASE Undo \/ UndoIndex \/ UndoFiles \/ UndoMark \/ UndoRemark \/ Undone
  <2>1. CASE Undo
    <3>1. /\ [op EXCEPT !.at = "undone", !.errs = TRUE].todo = op.todo
          /\ [op EXCEPT !.dropped = TRUE].todo = op.todo
      BY DEF Ops
    <3> QED
      BY <1>1, <1>4, <2>1, <3>1 DEF Undo, At, Waits, SafeRuns
  <2> QED
    BY <1>1, <1>4, <1>10, <2>1 DEF UndoIndex, UndoFiles, UndoMark, UndoRemark, Undone, At,
       Waits, SafeRuns
<1>11. CASE BeginAny
  <2>1. op'.todo = <<>>
    BY <1>11, BeginEffect DEF BeginMove
  <2> QED
    BY <2>1
<1>12. CASE \E h \in Handles : Persist(h) \/ GoalWrite(h) \/ DropHandle(h)
  BY <1>12 DEF Persist, GoalWrite, DropHandle
<1>13. CASE Crash \/ PowerLoss
  BY <1>13, NoOpTyped DEF Crash, PowerLoss, Restart
<1> QED
  BY <1>6, <1>7, <1>8, <1>9, <1>10, <1>11, <1>12, <1>13 DEF Next, Working, Starts

\* Each of those runs finds what it rests on.
LEMMA StartsSafe ==
  ASSUME LifeInv, TracedOK, Next, Starts, ~Fault
  PROVE  /\ UNCHANGED disk
         /\ op'.at = "databases" => RowsWhole(op'.todo)
         /\ op'.at = "recover" => op'.todo = <<>> \/ RowsWhole(op'.todo)
         /\ op'.at = "fork.publish" => op'.todo \in {Staging(TRUE), Staging(FALSE)}
         /\ op'.at \in SafeRuns => op'.todo = <<>> \/ RunSafe(op'.todo, disk[op'.job])
<1>1. op \in Ops /\ PlaceOK /\ \A s, run, p :
          Do(s, run, p) => op'.at = p /\ op'.todo = run /\ op'.job = s
  BY DEF LifeInv, TypeInv, OpOK, Do, Ops
<1>2. Return => op'.at = "idle"
  BY NoOpTyped DEF Return
<1>3. CASE ResolveRecord
  <2>1. PICK s \in Recorded : \E script \in Scripts(s) : Do(s, script, "recover")
    BY <1>3 DEF ResolveRecord
  <2>2. PICK script \in Scripts(s) : Do(s, script, "recover")
    BY <2>1
  <2>3. /\ s \in Ids /\ disk[s] \cap Slot # {} /\ UNCHANGED disk /\ At("recover")
        /\ DeletionMarked \cup ForkMarked = {}
    BY <1>3 DEF Recorded, ResolveRecord
  <2>4. Marks(s) = {} /\ op.at = "recover"
    BY <2>3 DEF DeletionMarked, ForkMarked, Marks, Markers, At
  <2>5. ~Available(s) => "transcript" \notin disk[s]
    <3>1. ~Available(s) => Fenced(s)
      <4>1. life[s] \in {Nothing, Tombstone, Quarantine} \cup {Active(g) : g \in Gens}
        BY <2>3 DEF LifeInv, TypeInv, TypeOK
      <4> QED
        BY <4>1 DEF Available, Fenced, Nothing, Active
    <3> QED
      BY <2>3, <2>4, <3>1 DEF TracedOK
  <2>6. "messages" \in disk[s] => "row" \in disk[s]
    BY <2>3 DEF TracedOK
  <2>7. RunSafe(script, disk[s]) /\ RowsWhole(script)
    <3>1. \/ script \in {PublishRecord, Reconcile, Rebuild}
          \/ script = DropRecord /\ ("row" \in disk[s] \/ "transcript" \notin disk[s])
      BY <2>2, <2>5, <2>6 DEF Scripts
    <3> QED
      BY <2>3, <3>1, PublishSafe, ReconcileSafe, RebuildSafe, DropSafe
  <2>8. op'.at = "recover" /\ op'.todo = script /\ op'.job = s
    BY <1>1, <2>2
  <2> QED
    BY <2>3, <2>7, <2>8
<1>4. CASE ReconcileLegacy
  <2>1. PICK s \in Ids : Do(s, Reconcile, "recover")
    BY <1>4 DEF ReconcileLegacy, Uncounted
  <2>2. op'.at = "recover" /\ op'.todo = Reconcile /\ UNCHANGED disk
    BY <1>1, <1>4, <2>1 DEF ReconcileLegacy
  <2>3. RowsWhole(Reconcile) /\ RunSafe(Reconcile, disk[op'.job])
    BY ReconcileSafe
  <2> QED
    BY <2>2, <2>3
<1>5. CASE CreateWrite
  <2>1. PICK verb \in {"add", "remove"} : Do(op.id, CreateFiles(verb), "attach")
    BY <1>5 DEF CreateWrite
  <2>2. CreateFiles(verb) \in Seq(CreateRun)
    BY CreateRuns
  <2> QED
    BY <1>1, <1>5, <2>1, <2>2, CreateSafe DEF CreateWrite
<1>6. CASE Resume
  <2> DEFINE run == ModelRecord("return") \o <<Step("add", {"row"}, "return")>> \o CatchUp(op.id)
  <2>1. RunSafe(run, disk[op'.job])
    BY IndexSafe
  <2>2. UNCHANGED disk /\ (Do(op.id, run, "attach") \/ Return)
    BY <1>6 DEF Resume
  <2> HIDE DEF run
  <2>3. op'.at = "idle" \/ (op'.at = "attach" /\ op'.todo = run)
    BY <1>1, <1>2, <2>2
  <2> QED
    BY <2>1, <2>2, <2>3 DEF SafeRuns
<1>7. CASE Fork
  <2> DEFINE run == ModelRecord("return")
                      \o When("baseline" \notin disk[op.src],
                              <<Step("add", {"row"}, "return")>> \o CatchUp(op.src))
  <2>1. RunSafe(run, disk[op'.job])
    BY IndexSafe
  <2>2. UNCHANGED disk /\ (Do(op.src, run, "fork.id") \/ Return)
    BY <1>7 DEF Fork
  <2> HIDE DEF run
  <2>3. op'.at = "idle" \/ (op'.at = "fork.id" /\ op'.todo = run)
    BY <1>1, <1>2, <2>2
  <2> QED
    BY <2>1, <2>2, <2>3 DEF SafeRuns
<1>8. CASE ForkPublish
  <2>1. UNCHANGED disk /\ op'.todo = Publication /\ op'.at = "fork.commit"
    BY <1>1, <1>8 DEF ForkPublish, Ops
  <2> QED
    BY <2>1, PublicationSafe
<1>9. CASE ForkStaged
  <2>1. HasFamiliar(op.src) \in BOOLEAN
    BY DEF HasFamiliar
  <2>2. UNCHANGED disk /\ op'.todo = Staging(HasFamiliar(op.src)) /\ op'.at = "fork.publish"
    BY <1>1, <1>9 DEF ForkStaged
  <2> QED
    BY <2>1, <2>2 DEF SafeRuns
<1>10. CASE RowsGone
  BY <1>1, <1>10 DEF RowsGone, SafeRuns
<1>11. CASE RecordsGone
  <2>1. Goto("restore") => op'.at = "restore"
    BY <1>1 DEF Goto, Ops
  <2>2. UNCHANGED disk /\ (Goto("restore") \/ Do(op.job, DatabaseRows, "databases"))
    BY <1>11 DEF RecordsGone
  <2>3. op'.at = "restore" \/ (op'.at = "databases" /\ op'.todo = DatabaseRows)
    BY <1>1, <2>1, <2>2
  <2> QED
    BY <2>2, <2>3, RowsSafe DEF SafeRuns
<1> QED
  BY <1>3, <1>4, <1>5, <1>6, <1>7, <1>8, <1>9, <1>10, <1>11 DEF Starts

\* What happens to a session between the runs: a marker, a goal, a message.
LEMMA QuietDisk ==
  ASSUME LifeInv, dur = disk, Next, ~TakeStep, ~Fault
  PROVE  \/ \A s \in Ids : /\ disk[s] \subseteq disk'[s]
                           /\ disk'[s] \subseteq disk[s] \cup Markers \cup {"goal"}
         \/ /\ UNCHANGED <<life, op>> /\ op = NoOp
            /\ \E s \in Ids : /\ life[s].state = "active" /\ OthersStay(s)
                              /\ {"row", "messages", "transcript"} \subseteq disk'[s]
<1>1. UNCHANGED disk => \A s \in Ids : disk[s] \subseteq disk'[s] /\ disk'[s] \subseteq disk[s]
  OBVIOUS
<1>2. \A s, A : Adds(s, A) /\ A \subseteq Markers \cup {"goal"} =>
        \A t \in Ids : /\ disk[t] \subseteq disk'[t]
                       /\ disk'[t] \subseteq disk[t] \cup Markers \cup {"goal"}
  <2> SUFFICES ASSUME NEW s, NEW A, Adds(s, A), A \subseteq Markers \cup {"goal"}, NEW t \in Ids
               PROVE  /\ disk[t] \subseteq disk'[t]
                      /\ disk'[t] \subseteq disk[t] \cup Markers \cup {"goal"}
    OBVIOUS
  <2>1. CASE t = s
    BY <2>1 DEF Adds
  <2>2. CASE t # s
    BY <2>2 DEF Adds, OthersStay
  <2> QED
    BY <2>1, <2>2
<1>3. {"delmark"} \subseteq Markers
  BY DEF Markers
<1>4. TypeInv /\ TypeOK /\ StoreOK
  BY DEF LifeInv, TypeInv
<1>5. CASE CleanMove /\ op.mark \in Markers
  BY <1>1, <1>2, <1>5 DEF CleanMove
<1>6. CASE RecoverMove
  BY <1>1, <1>2, <1>3, <1>6 DEF RecoverMove, DeletionMove
<1>7. CASE UserMove
  BY <1>1, <1>2, <1>3, <1>7 DEF UserMove, DeletionMove, ReuseMove
<1>8. CASE StageMove
  BY <1>1, <1>8 DEF StageMove
<1>9. CASE BeginMove
  BY <1>1, <1>9 DEF BeginMove
<1>10. CASE \E h \in Handles : Persist(h)
  BY <1>4, <1>10, PersistFirm
<1>11. CASE \E h \in Handles : GoalWrite(h)
  <2>1. PICK h \in Handles : GoalWrite(h)
    BY <1>11
  <2>2. open[h].id \in Ids
    BY <1>4, <2>1 DEF GoalWrite, TypeOK
  <2>3. disk' = [disk EXCEPT ![open[h].id] = disk[open[h].id] \cup {"goal"}]
    BY <2>1 DEF GoalWrite, Changes
  <2> QED
    BY <1>4, <2>2, <2>3 DEF StoreOK
<1>12. CASE (\E h \in Handles : DropHandle(h)) \/ Crash
  BY <1>1, <1>12 DEF DropHandle, Crash
<1>13. CASE PowerLoss
  <2>1. PICK kept \in SUBSET Unsynced :
          disk' = [s \in Ids |-> (disk[s] \cap dur[s]) \cup {a \in Artifacts : <<s, a>> \in kept}]
    BY <1>13 DEF PowerLoss
  <2>2. Unsynced = {}
    BY DEF Unsynced
  <2> QED
    BY <2>1, <2>2
<1>14. \/ CleanMove /\ op.mark \in Markers
       \/ RecoverMove \/ UserMove \/ StageMove \/ BeginMove
       \/ \E h \in Handles : Persist(h) \/ GoalWrite(h) \/ DropHandle(h)
       \/ Crash \/ PowerLoss
  BY CleanEffect, RecoverEffect, UserEffect, StageEffect, BeginEffect
     DEF Next, Working, LifeInv, TypeInv
<1> QED
  BY <1>5, <1>6, <1>7, <1>8, <1>9, <1>10, <1>11, <1>12, <1>13, <1>14

LEMMA PlaceWholeOn ==
  (OpOK /\ op.at \notin {"databases", "recover"} \cup Undoing)' => RowsWhole(op.todo)'
<1>1. OpOK /\ op.at \notin {"databases", "recover"} \cup Undoing => RowsWhole(op.todo)
  BY PlaceWhole
<1> QED
  BY <1>1, PTL

\* Where an operation goes when no call has failed, and who is fenced then.
LEMMA QuietPlaces ==
  ASSUME LifeInv, TracedOK, Next, ~TakeStep, ~Fault
  PROVE  /\ op'.at \notin Undoing
         /\ op'.at = "fork.publish" => op' = op \/ op'.todo # <<>>
         /\ op.at = "fork.commit" => op' = op \/ life'[op.id] \notin {Tombstone, Quarantine}
         /\ \A s \in Ids : Fenced(s)' =>
              \/ Fenced(s) \/ Marks(s)' # {}
              \/ op'.at = "fork.commit" /\ s = op'.id
<1>1. PlaceOK /\ op.at \notin Undoing /\ op.at \in Places
  BY DEF LifeInv, TypeInv, OpOK, TracedOK, Ops
<1>2. op' = NoOp => op'.at = "idle"
  BY NoOpTyped
<1>3. \A s \in Ids : life'[s] = life[s] => (Fenced(s)' <=> Fenced(s))
  BY DEF Fenced
<1>4. "idle" \notin Undoing /\ ~(NoOp.at = "fork.publish")
  BY NoOpTyped DEF Undoing
<1>5. CASE CleanMove /\ op.at \in CleanSteps /\ op.job \in Ids /\ op.mark \in Markers
  <2>1. op.back \in {"recover", "deleted", "create.write", "fork.stage"}
    BY <1>1, <1>5 DEF PlaceOK
  <2>2. op' = NoOp \/ op'.at \in {"records", "restore", "databases", "files", "cleaned",
                                  "recover", "deleted", "create.write", "fork.stage"}
    BY <1>5, <2>1 DEF CleanMove, Does, Goes
  <2>3. \A s \in Ids : life'[s] = life[s] \/ life'[s] = Nothing
    BY <1>5 DEF CleanMove
  <2>4. \A s \in Ids : Fenced(s)' => Fenced(s)
    BY <2>3 DEF Fenced, Nothing, Tombstone, Quarantine
  <2>5. op.at # "fork.commit"
    BY <1>5 DEF CleanSteps
  <2> QED
    BY <1>2, <1>3, <2>2, <2>4, <2>5 DEF Undoing
<1>6. CASE RecoverMove /\ op.kind \in Kinds
  <2>1. op' = NoOp \/ op'.at \in {"recover", "ensure", "list", "create", "resume", "delete", "fork"}
    BY <1>6 DEF RecoverMove, DeletionMove, CleansTo, Does, Goes, Kinds
  <2>2. op.at # "fork.commit"
    BY <1>6 DEF RecoverMove
  <2>3. \A s \in Ids : Fenced(s)' => Fenced(s) \/ Marks(s)' # {}
    <3>1. CASE UNCHANGED life
      BY <1>3, <3>1
    <3>2. CASE /\ UNCHANGED disk
               /\ \A s \in Ids : life'[s] = IF "delmark" \in disk[s] THEN Tombstone
                                            ELSE IF "forkmark" \in disk[s] THEN Quarantine
                                            ELSE life[s]
      <4>1. \A s \in Ids : life'[s] = life[s] \/ Marks(s)' # {}
        BY <3>2 DEF Marks, Markers
      <4> QED
        BY <1>3, <4>1
    <3>3. CASE \E s \in Ids : DeletionMove(s, "recover")
      <4>1. PICK s \in Ids : DeletionMove(s, "recover")
        BY <3>3
      <4>2. \A t \in Ids : life'[t] = life[t] \/ "delmark" \in disk'[t]
        BY <4>1 DEF DeletionMove, OtherLives
      <4> QED
        BY <1>3, <4>2 DEF Marks, Markers
    <3> QED
      BY <1>6, <3>1, <3>2, <3>3 DEF RecoverMove
  <2> QED
    BY <1>2, <2>1, <2>2, <2>3 DEF Undoing
<1>7. CASE UserMove
  <2>1. op' = NoOp \/ op'.at \in {"ensure", "create.write", "fork.stage", "attach", "failed",
                                  "fork.id", "fork.publish"}
    BY <1>7 DEF UserMove, DeletionMove, ReuseMove, CleansTo, Does, Goes
  <2>2. op'.at = "fork.publish" => op' = NoOp \/ "transcript" \in WhatOf(op'.todo)
    BY <1>7 DEF UserMove, DeletionMove, ReuseMove, CleansTo, Does, Goes
  <2>3. WhatOf(<<>>) = {}
    BY DEF WhatOf
  <2>4. op.at = "fork.commit" => life'[op.id] \notin {Tombstone, Quarantine}
    BY <1>7 DEF UserMove, Fenced, Active, Tombstone, Quarantine
  <2>5. \A s \in Ids : Fenced(s)' => Fenced(s) \/ Marks(s)' # {}
    <3>1. CASE UNCHANGED life
      BY <1>3, <3>1
    <3>2. CASE DeletionMove(op.id, "deleted") /\ op.id \in Ids
      <4>1. \A t \in Ids : life'[t] = life[t] \/ "delmark" \in disk'[t]
        BY <3>2 DEF DeletionMove, OtherLives
      <4> QED
        BY <1>3, <4>1 DEF Marks, Markers
    <3>3. CASE life'[op.id] = Active(FreshGen) /\ OtherLives(op.id) /\ op.id \in Ids
      BY <1>3, <3>3 DEF OtherLives, Fenced, Active, Tombstone, Quarantine
    <3> QED
      BY <1>7, <3>1, <3>2, <3>3 DEF UserMove
  <2> QED
    BY <1>2, <1>4, <2>1, <2>2, <2>3, <2>4, <2>5 DEF Undoing
<1>8. CASE StageMove
  <2>1. /\ op.at = "fork.publish" /\ Goes("fork.commit", Publication) /\ OtherLives(op.id)
        /\ op.id \in Ids
    BY <1>1, <1>8 DEF StageMove, Undoing
  <2>2. \A s \in Ids : s # op.id => (Fenced(s)' <=> Fenced(s))
    BY <1>3, <2>1 DEF OtherLives
  <2> QED
    BY <2>1, <2>2 DEF Goes, Undoing
<1>9. CASE BeginMove
  <2>1. op'.at = "preflight" /\ op.at = "idle"
    BY <1>9, NoOpTyped DEF BeginMove
  <2> QED
    BY <1>3, <1>9, <2>1 DEF BeginMove, Undoing
<1>10. CASE OutsideMove
  <2>1. op' = op \/ (op' = NoOp /\ \A s \in Ids : life'[s] = Nothing)
    BY <1>10 DEF OutsideMove
  <2>2. \A s \in Ids : Fenced(s)' => Fenced(s)
    BY <1>3, <1>10 DEF OutsideMove, PersistMove, Fenced, Nothing, Tombstone, Quarantine
  <2>3. op.at = "fork.commit" => op.id \in Ids
    BY <1>1 DEF PlaceOK, ForkSteps, StageSteps
  <2>4. Nothing \notin {Tombstone, Quarantine}
    BY DEF Nothing, Tombstone, Quarantine
  <2>5. op.at = "fork.commit" => op' = op \/ life'[op.id] \notin {Tombstone, Quarantine}
    BY <2>1, <2>3, <2>4
  <2> QED
    BY <1>1, <1>2, <1>4, <2>1, <2>2, <2>5
<1> QED
  BY Moves, <1>5, <1>6, <1>7, <1>8, <1>9, <1>10 DEF LifeInv

LEMMA QuietTraced ==
  ASSUME LifeInv, LifeInv', TracedOK, dur' = disk', Next, ~TakeStep, ~Fault
  PROVE  TracedOK'
<1>1. /\ op'.at \notin Undoing
      /\ op'.at = "fork.publish" => op' = op \/ op'.todo # <<>>
      /\ op.at = "fork.commit" => op' = op \/ life'[op.id] \notin {Tombstone, Quarantine}
      /\ \A s \in Ids : Fenced(s)' =>
           \/ Fenced(s) \/ Marks(s)' # {}
           \/ op'.at = "fork.commit" /\ s = op'.id
  BY QuietPlaces
<1>2. op \in Ops /\ OpOK /\ PlaceOK /\ OpOK'
  BY DEF LifeInv, TypeInv, OpOK
<1>3. op'.at \in Waits => Starts \/ op' = op \/ op'.todo = <<>>
  BY <1>2, RunsStart
<1>4. Starts => /\ UNCHANGED disk
                /\ op'.at = "databases" => RowsWhole(op'.todo)
                /\ op'.at = "recover" => op'.todo = <<>> \/ RowsWhole(op'.todo)
                /\ op'.at = "fork.publish" => op'.todo \in {Staging(TRUE), Staging(FALSE)}
                /\ op'.at \in SafeRuns => op'.todo = <<>> \/ RunSafe(op'.todo, disk[op'.job])
  BY StartsSafe
<1> DEFINE Grows(s) == /\ disk[s] \subseteq disk'[s]
                       /\ disk'[s] \subseteq disk[s] \cup Markers \cup {"goal"}
<1>5. \/ \A s \in Ids : Grows(s)
      \/ /\ UNCHANGED <<life, op>> /\ op = NoOp
         /\ \E s \in Ids : /\ life[s].state = "active" /\ OthersStay(s)
                           /\ {"row", "messages", "transcript"} \subseteq disk'[s]
  BY QuietDisk DEF TracedOK
<1>6. ASSUME NEW s \in Ids, Grows(s)
      PROVE  /\ "transcript" \in disk'[s] => Traced(s)' /\ "transcript" \in disk[s]
             /\ "messages" \in disk'[s] => "row" \in disk'[s]
             /\ Marks(s) # {} => Marks(s)' # {}
             /\ Fenced(s)' => \/ Marks(s)' # {} \/ "transcript" \notin disk'[s]
                              \/ op'.at = "fork.commit" /\ s = op'.id
  <2>1. "transcript" \in disk'[s] => "transcript" \in disk[s]
    BY <1>6 DEF Markers
  <2>2. "transcript" \in disk'[s] => Traced(s)'
    BY <1>6, <2>1 DEF TracedOK, Traced
  <2>3. "messages" \in disk'[s] => "row" \in disk'[s]
    <3>1. "messages" \in disk'[s] => "messages" \in disk[s]
      BY <1>6 DEF Markers
    <3> QED
      BY <1>6, <3>1 DEF TracedOK
  <2>4. Marks(s) # {} => Marks(s)' # {}
    BY <1>6 DEF Marks
  <2>5. ASSUME Fenced(s)', Marks(s)' = {}, "transcript" \in disk'[s]
        PROVE  op'.at = "fork.commit" /\ s = op'.id
    <3>1. Fenced(s) \/ (op'.at = "fork.commit" /\ s = op'.id)
      BY <1>1, <2>1, <2>5
    <3>2. Fenced(s) => op.at = "fork.commit" /\ s = op.id
      BY <2>1, <2>4, <2>5 DEF TracedOK
    <3>3. op.at = "fork.commit" /\ s = op.id => op' = op
      BY <1>1, <2>5 DEF Fenced
    <3> QED
      BY <3>1, <3>2, <3>3
  <2>6. Fenced(s)' => \/ Marks(s)' # {} \/ "transcript" \notin disk'[s]
                      \/ op'.at = "fork.commit" /\ s = op'.id
    BY <2>5
  <2>7. "transcript" \in disk'[s] => Traced(s)' /\ "transcript" \in disk[s]
    BY <2>1, <2>2
  <2> QED
    BY <2>3, <2>4, <2>6, <2>7
<1>7. ASSUME UNCHANGED life, op = NoOp, op' = op, NEW t \in Ids, life[t].state = "active", OthersStay(t),
             {"row", "messages", "transcript"} \subseteq disk'[t], NEW s \in Ids
      PROVE  /\ "transcript" \in disk'[s] => Traced(s)'
             /\ "messages" \in disk'[s] => "row" \in disk'[s]
             /\ Fenced(s)' => Marks(s)' # {} \/ "transcript" \notin disk'[s]
  <2>1. CASE s = t
    <3>1. ~Fenced(s)'
      BY <1>7, <2>1 DEF Fenced, Tombstone, Quarantine
    <3> QED
      BY <1>7, <2>1, <3>1 DEF Traced
  <2>2. CASE s # t
    <3>1. disk'[s] = disk[s] /\ (Fenced(s)' <=> Fenced(s)) /\ op.at # "fork.commit"
      BY <1>7, <2>2, NoOpTyped DEF OthersStay, Fenced
    <3> QED
      BY <3>1 DEF TracedOK, Traced, Marks
  <2> QED
    BY <2>1, <2>2
<1>8. \A s \in Ids : /\ "transcript" \in disk'[s] => Traced(s)'
                     /\ "messages" \in disk'[s] => "row" \in disk'[s]
                     /\ Fenced(s)' => \/ Marks(s)' # {} \/ "transcript" \notin disk'[s]
                                      \/ op'.at = "fork.commit" /\ s = op'.id
  <2>1. CASE \A s \in Ids : Grows(s)
    BY <1>6, <2>1
  <2>2. CASE /\ UNCHANGED <<life, op>> /\ op = NoOp
             /\ \E t \in Ids : /\ life[t].state = "active" /\ OthersStay(t)
                               /\ {"row", "messages", "transcript"} \subseteq disk'[t]
    <3>1. PICK t \in Ids : /\ life[t].state = "active" /\ OthersStay(t)
                           /\ {"row", "messages", "transcript"} \subseteq disk'[t]
      BY <2>2
    <3> QED
      BY <1>7, <2>2, <3>1
  <2> QED
    BY <1>5, <2>1, <2>2
<1>9. op'.at = "fork.publish" =>
        "forkmark" \in disk'[op'.id] \/ op'.todo \in {Staging(TRUE), Staging(FALSE)}
  <2> SUFFICES ASSUME op'.at = "fork.publish"
               PROVE  "forkmark" \in disk'[op'.id] \/ op'.todo \in {Staging(TRUE), Staging(FALSE)}
    OBVIOUS
  <2>1. CASE Starts
    BY <1>4, <2>1
  <2>2. CASE op' = op
    <3>1. op.id \in Ids /\ op # NoOp
      BY <1>2, <2>2, NoOpTyped DEF PlaceOK, ForkSteps, StageSteps
    <3>2. Grows(op.id)
      BY <1>5, <3>1
    <3> QED
      BY <2>2, <3>2 DEF TracedOK
  <2> QED
    BY <1>1, <1>3, <2>1, <2>2 DEF Waits
<1>10. RowsWhole(op'.todo)
  <2>1. CASE op'.at \notin {"databases", "recover"}
    BY <1>1, <1>2, <2>1, PlaceWholeOn
  <2>2. CASE op'.at \in {"databases", "recover"}
    <3>1. Starts \/ op' = op \/ op'.todo = <<>>
      BY <1>3, <2>2 DEF Waits, SafeRuns
    <3>2. RowsWhole(<<>>)
      BY NothingSafe
    <3>3. RowsWhole(op.todo)
      BY DEF TracedOK
    <3> QED
      BY <1>4, <2>2, <3>1, <3>2, <3>3
  <2> QED
    BY <2>1, <2>2
<1>11. op'.at \in SafeRuns => op'.todo = <<>> \/ RunSafe(op'.todo, disk'[op'.job])
  <2> SUFFICES ASSUME op'.at \in SafeRuns, op'.todo # <<>> PROVE RunSafe(op'.todo, disk'[op'.job])
    OBVIOUS
  <2>1. CASE Starts
    BY <1>4, <2>1
  <2>2. CASE op' = op
    <3>1. op.job \in Ids /\ op # NoOp
      BY <1>2, <2>2, NoOpTyped DEF PlaceOK
    <3>2. Grows(op.job)
      BY <1>5, <3>1
    <3>3. "transcript" \in disk'[op.job] => "transcript" \in disk[op.job]
      BY <3>2 DEF Markers
    <3>4. RunSafe(op.todo, disk[op.job])
      BY <2>2 DEF TracedOK
    <3>5. RunSafe(op.todo, disk'[op.job])
      BY <3>2, <3>3, <3>4, SafeGrows
    <3> QED
      BY <2>2, <3>5
  <2> QED
    BY <1>3, <2>1, <2>2 DEF Waits
<1> QED
  BY <1>1, <1>8, <1>9, <1>10, <1>11 DEF TracedOK

LEMMA TracedStep == ASSUME TracedInv, [Next]_vars PROVE TracedInv'
<1>1. LifeInv' /\ LifeInv
  BY LifeStep DEF TracedInv
<1>2. CASE Next
  <2>1. MarkedOn'
    BY <1>1, <1>2, TakeOn, MovedOn DEF TracedInv
  <2>2. faults' \in Nat /\ (faults' = 0 => faults = 0 /\ ~Fault)
    BY <1>2, NoFault DEF TracedInv
  <2>3. ASSUME faults' = 0 PROVE TracedOK'
    <3>1. TracedOK /\ MarkedOn /\ ~Fault
      BY <2>2, <2>3 DEF TracedInv
    <3>2. dur' = disk'
      BY <1>1, <1>2, <3>1, FirmStep DEF TracedOK, LifeInv
    <3> QED
      BY <1>1, <1>2, <2>1, <3>1, <3>2, TakeTraced, QuietTraced
  <2> QED
    BY <1>1, <2>1, <2>2, <2>3 DEF TracedInv
<1>3. CASE UNCHANGED vars
  <2>1. UNCHANGED <<disk, dur, life, op, faults>>
    BY <1>3 DEF vars, bounds
  <2>2. MarkedOn' /\ (TracedOK => TracedOK') /\ faults' = faults
    BY <2>1 DEF TracedInv, MarkedOn, TracedOK, Traced, Fenced, Marks
  <2> QED
    BY <1>1, <2>2 DEF TracedInv
<1> QED
  BY <1>2, <1>3

LEMMA TracedInit == ASSUME LeftsTraced, Init PROVE TracedInv
<1>1. op.at = "idle" /\ op.todo = <<>>
  BY NoOpTyped DEF Init
<1>2. LifeInv
  BY LifeInit
<1>3. \A s \in Ids : disk[s] \in Lefts
  BY DEF Init
<1>4. \A s \in Ids : /\ "transcript" \in disk[s] => Traced(s)
                     /\ "messages" \in disk[s] => "row" \in disk[s]
                     /\ ~Fenced(s)
  BY <1>3 DEF LeftsTraced, Traced, Init, Fenced, Nothing, Tombstone, Quarantine
<1>5. RowsWhole(op.todo)
  BY <1>1, NothingSafe
<1>6. dur = disk /\ faults = 0
  BY DEF Init
<1>7. MarkedOn
  BY <1>1 DEF MarkedOn
<1>8. TracedOK
  BY <1>1, <1>4, <1>5, <1>6 DEF TracedOK, Undoing, SafeRuns
<1> QED
  BY <1>2, <1>6, <1>7, <1>8 DEF TracedInv

\* Between operations, as long as no I/O failed, every transcript has a row it is
\* listed by, a record it is recovered from or a marker it is removed by,
\* wherever processes died or power was lost, if that was so of the store that
\* was found.
THEOREM NoOrphanAlways == ASSUME LeftsTraced PROVE Spec => []NoOrphan
<1>1. TracedInv => NoOrphan
  BY DEF TracedInv, TracedOK, NoOrphan, Traced
<1>2. Init => TracedInv
  BY TracedInit
<1>3. TracedInv /\ [Next]_vars => TracedInv'
  BY TracedStep
<1> QED
  BY <1>1, <1>2, <1>3, PTL DEF Spec
==============================================================================
