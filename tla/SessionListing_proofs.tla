------------------------ MODULE SessionListing_proofs ------------------------
(***************************************************************************)
(* The browser is never shown a half-made fork or a half-deleted session,  *)
(* for any sets of sessions, generations and handles, if no call failed or *)
(* nothing died.  Sessions are half there at every moment but that of the  *)
(* listing, so the invariant, WholeInv, is about the way there:            *)
(*   Settled     each session is at rest, or marked, or fenced by the      *)
(*               error that left it;                                       *)
(*   OrderOK     each repair of an index keeps its session at rest, at     *)
(*               every step, whether done, failed or cut off;              *)
(*   PlainOK     what the repairs rest on: whose index is vouched for,     *)
(*               that recovery leaves no record, and how far a fork or its *)
(*               undoing has come.                                         *)
(***************************************************************************)
EXTENDS SessionLifecycle_proofs

-----------------------------------------------------------------------------
(* What a session that is listed has                                       *)

\* A run that keeps RestOK: the baseline is written over messages, a record is
\* removed over the messages of its transcript or over no row, messages are
\* removed under a record, and the record that is written replaces none.
Ordered(todo, D) ==
  \A k \in DOMAIN todo :
    /\ Writes(todo[k], {"baseline"}) => Held(todo, k, D, {"messages"})
    /\ Clears(todo[k], Slot) => IF "transcript" \in D THEN Held(todo, k, D, {"messages"})
                                                      ELSE "row" \notin D
    /\ Clears(todo[k], {"messages"}) => Held(todo, k, D, Slot) /\ ~Clears(todo[k], Slot)
    /\ Writes(todo[k], Slot) => todo[k].what \cap Slot = {"reconciling"} /\ "record" \notin D

\* A baseline vouches for the index of a session that may be written to.
ActiveOK ==
  \A s \in Ids : life[s].state = "active"
    => "baseline" \in disk[s] /\ disk[s] \cap {"oversized", "reconciling"} = {}

\* Recovery has resolved every record.
Past ==
  \/ op.at \in {"list", "resume", "attach", "fork", "fork.id", "fork.stage"}
                 \cup CreateSteps \cup StageSteps
  \/ op.at \in CleanSteps /\ op.back \in {"create.write", "fork.stage"}

\* So there is none where sessions are listed, resumed, created and forked.
SlotsOK == Past => \A s \in Ids : disk[s] \cap Slot = {}

\* What is listed without a process entry was never half indexed.
ListOK ==
  op.at = "list" =>
    \A s \in Ids : life[s] = Nothing /\ "row" \in disk[s] => {"messages", "baseline"} \cap disk[s] # {}

\* A create that is taken back left nothing, one that goes on gets its baseline.
CreateOK ==
  /\ op.at \in {"create.undo", "failed"} \/ (op.at = "attach" /\ op.kind = "create")
       => disk[op.id] \cap {"transcript", "row", "messages"} = {}
  /\ op.at = "attach" => "baseline" \in disk[op.id] \cup ToGo

\* Recovery repairs no index that somebody writes to.
RepairOK ==
  op.at = "recover" /\ (\E k \in DOMAIN op.todo : \/ Clears(op.todo[k], {"baseline"})
                                                  \/ Writes(op.todo[k], Slot))
    => life[op.job].state # "active"

\* What makes list_sessions show a session, and vouches for it.
Listing == {"row", "messages", "baseline"}

\* How far a fork has come: what is in the index only once it is quarantined,
\* what its publication has put there, and what taking it back has removed as
\* long as no step of that failed.
StageOK ==
  /\ op.at \notin StageSteps => ~op.quarantined
  /\ op.at \in StageSteps =>
       /\ op.quarantined => life[op.id] = Quarantine
       /\ ~op.quarantined => disk[op.id] \cap Listing = {}
       /\ ~op.indexed => disk[op.id] \cap {"row", "messages"} = {}
  /\ op.at = "fork.publish" =>
       /\ ~op.quarantined /\ "transcript" \in disk[op.id] \cup ToGo
       /\ "forkmark" \in disk[op.id] \/ op.todo \in {Staging(TRUE), Staging(FALSE)}
  /\ op.at = "fork.commit" =>
       /\ op.quarantined /\ "transcript" \in disk[op.id]
       /\ {"messages", "baseline"} \subseteq disk[op.id] \cup ToGo
       /\ op.todo # <<>> => "forkmark" \in disk[op.id]
       /\ \A k \in DOMAIN op.todo : op.todo[k].verb = "remove" => k = Len(op.todo)
  /\ op.at \in Undoing => faults # 0
  /\ ~op.errs =>
       /\ op.at = "undo.index" => disk[op.id] \cap {"baseline"} \subseteq ToGo
       /\ op.at = "undo.files" => /\ "baseline" \notin disk[op.id]
                                  /\ disk[op.id] \cap {"row", "messages"} \subseteq ToGo
       /\ op.at \in {"undo.mark", "undo.remark", "undone"} => disk[op.id] \cap Listing = {}

\* A session is at rest, marked, or fenced by the error that left it.
Settled(s) == RestOK(disk[s]) \/ Marks(s) # {} \/ (faults # 0 /\ Fenced(s))

\* Without an error nothing of a fenced session is indexed but under a marker.
FencedOK ==
  faults = 0 =>
    \A s \in Ids : Fenced(s) /\ Marks(s) = {} =>
      \/ disk[s] \cap (Slot \cup {"row", "messages"}) = {}
      \/ op.at = "fork.commit" /\ s = op.id

\* Where an index is repaired or brought up to date.
Resting == op.at \in {"recover", "fork.id"} \/ (op.at = "attach" /\ op.kind = "resume")

\* The rest of a repair keeps its session at rest, unless an error has fenced it.
OrderOK ==
  Resting =>
    \/ op.todo = <<>>
    \/ faults # 0 /\ Fenced(op.job)
    \/ ~Fenced(op.job) /\ Ordered(op.todo, disk[op.job])

\* What holds whatever fails.
PlainOK == ActiveOK /\ SlotsOK /\ ListOK /\ CreateOK /\ RepairOK /\ StageOK

-----------------------------------------------------------------------------
(* Between the runs *)

\* Only a marker or a goal comes to the session.
Keeps(s) == /\ disk[s] \subseteq disk'[s]
            /\ disk'[s] \subseteq disk[s] \cup Markers \cup {"goal"}

LEMMA KeepsAll ==
  /\ UNCHANGED disk => \A s \in Ids : Keeps(s)
  /\ \A s, A : Adds(s, A) /\ A \subseteq Markers \cup {"goal"} => \A t \in Ids : Keeps(t)
<1>1. UNCHANGED disk => \A s \in Ids : Keeps(s)
  BY DEF Keeps
<1>2. ASSUME NEW s, NEW A, Adds(s, A), A \subseteq Markers \cup {"goal"}, NEW t \in Ids
      PROVE  Keeps(t)
  <2>1. CASE t = s
    BY <1>2, <2>1 DEF Adds, Keeps
  <2>2. CASE t # s
    BY <1>2, <2>2 DEF Adds, OthersStay, Keeps
  <2> QED
    BY <2>1, <2>2
<1> QED
  BY <1>1, <1>2

LEMMA QuietStores ==
  ASSUME TypeInv, Next, ~TakeStep
  PROVE  (\A s \in Ids : Keeps(s)) \/ (\E h \in Handles : Persist(h)) \/ PowerLoss
<1>1. {"delmark"} \subseteq Markers
  BY DEF Markers
<1>2. TypeOK /\ StoreOK
  BY DEF TypeInv
<1>3. CASE CleanMove /\ op.mark \in Markers
  BY <1>3, KeepsAll DEF CleanMove
<1>4. CASE RecoverMove
  BY <1>1, <1>4, KeepsAll DEF RecoverMove, DeletionMove
<1>5. CASE UserMove
  BY <1>1, <1>5, KeepsAll DEF UserMove, DeletionMove, ReuseMove
<1>6. CASE StageMove \/ BeginMove
  BY <1>6, KeepsAll DEF StageMove, BeginMove
<1>7. CASE \E h \in Handles : GoalWrite(h)
  <2>1. PICK h \in Handles : GoalWrite(h)
    BY <1>7
  <2>2. open[h].id \in Ids
    BY <1>2, <2>1 DEF GoalWrite, TypeOK
  <2>3. disk' = [disk EXCEPT ![open[h].id] = disk[open[h].id] \cup {"goal"}]
    BY <2>1 DEF GoalWrite, Changes
  <2> QED
    BY <1>2, <2>2, <2>3 DEF StoreOK, Keeps
<1>8. CASE (\E h \in Handles : DropHandle(h)) \/ Crash
  BY <1>8, KeepsAll DEF DropHandle, Crash
<1>9. \/ CleanMove /\ op.mark \in Markers
      \/ RecoverMove \/ UserMove \/ StageMove \/ BeginMove
      \/ \E h \in Handles : Persist(h) \/ GoalWrite(h) \/ DropHandle(h)
      \/ Crash \/ PowerLoss
  BY CleanEffect, RecoverEffect, UserEffect, StageEffect, BeginEffect DEF Next, Working, TypeInv
<1> QED
  BY <1>3, <1>4, <1>5, <1>6, <1>7, <1>8, <1>9

\* Recovery goes on to the operation only when it is through.
LEMMA RecoverTo ==
  ASSUME TypeInv, ~Recovered,
         Preflight \/ RecoverMarked \/ ResolveRecord \/ RefuseRecord \/ DeleteUnpublished
           \/ DeleteGhost \/ ReconcileLegacy
  PROVE  op'.at \in {"idle", "recover"} \/ (op'.at = "ensure" /\ op'.back = "recover")
<1>1. op \in Ops
  BY DEF TypeInv, OpOK
<1>2. Return => op'.at = "idle"
  BY NoOpTyped DEF Return
<1>3. Goto("recover") => op'.at = "recover"
  BY <1>1 DEF Goto, Ops
<1>4. \A s, run : Do(s, run, "recover") => op'.at = "recover"
  BY <1>1 DEF Do, Ops
<1>5. \A s, m : Clean(s, m, "recover") => op'.at = "ensure" /\ op'.back = "recover"
  BY <1>1 DEF Clean, Ops
<1>6. \A s : BeginDeletion(s, "recover") =>
          op'.at = "idle" \/ (op'.at = "ensure" /\ op'.back = "recover")
  BY <1>2, <1>5 DEF BeginDeletion
<1> QED
  BY <1>2, <1>3, <1>4, <1>5, <1>6 DEF Preflight, RecoverMarked, ResolveRecord, RefuseRecord,
     DeleteUnpublished, DeleteGhost, ReconcileLegacy

\* The moves, with recovery's last step by itself.
LEMMA QuietMoves ==
  ASSUME TypeInv, Next, ~TakeStep
  PROVE  \/ /\ CleanMove /\ op.at \in CleanSteps /\ op.todo = <<>> /\ op.job \in Ids
            /\ op.mark \in Markers
         \/ Recovered
         \/ /\ RecoverMove /\ op.todo = <<>> /\ op.kind \in Kinds
            /\ op'.at \in {"idle", "recover"} \/ (op'.at = "ensure" /\ op'.back = "recover")
         \/ UserMove /\ op.todo = <<>>
         \/ StageMove /\ op.todo = <<>>
         \/ BeginMove
         \/ OutsideMove
BY CleanEffect, RecoverEffect, RecoverTo, UserEffect, StageEffect, BeginEffect, OutsideEffect
   DEF Next, Working, TypeInv

-----------------------------------------------------------------------------
(* No record is left when recovery is through *)

LEMMA PastFrom == ASSUME TypeInv, Next, ~TakeStep, Past' PROVE Past \/ Recovered
<1>1. PlaceOK
  BY DEF TypeInv, OpOK
<1>2. op' # NoOp
  BY NoOpTyped DEF Past, CreateSteps, StageSteps, CleanSteps
<1>3. CASE CleanMove /\ op.at \in CleanSteps
  <2>1. op.back \in {"recover", "deleted", "create.write", "fork.stage"}
    BY <1>1, <1>3 DEF PlaceOK
  <2>2. \/ op'.at \in CleanSteps /\ op'.back = op.back
        \/ op'.at = op.back
    BY <1>2, <1>3 DEF CleanMove, Does, Goes, Carried, CleanSteps
  <2> QED
    BY <1>3, <2>1, <2>2 DEF Past, CreateSteps, StageSteps, CleanSteps
<1>4. CASE op'.at \in {"idle", "recover"} \/ (op'.at = "ensure" /\ op'.back = "recover")
  BY <1>4 DEF Past, CreateSteps, StageSteps, CleanSteps
<1>5. CASE UserMove
  <2>1. CASE op.at \in {"delete", "deleted"}
    <3>1. op'.at = "ensure" /\ op'.back = "deleted"
      BY <1>2, <1>5, <2>1 DEF UserMove, DeletionMove, CleansTo, Goes
    <3> QED
      BY <3>1 DEF Past, CreateSteps, StageSteps, CleanSteps
  <2>2. CASE op.at \notin {"delete", "deleted"}
    BY <1>5, <2>2 DEF UserMove, Past, CreateSteps, StageSteps
  <2> QED
    BY <2>1, <2>2
<1>6. CASE StageMove
  BY <1>6 DEF StageMove, Past
<1>7. CASE BeginMove
  BY <1>7 DEF BeginMove, Past, CreateSteps, StageSteps, CleanSteps
<1>8. CASE OutsideMove
  BY <1>2, <1>8 DEF OutsideMove, Past
<1> QED
  BY QuietMoves, <1>3, <1>4, <1>5, <1>6, <1>7, <1>8

LEMMA TakePast ==
  ASSUME TypeInv, TakeStep, Past'
  PROVE  Past /\ (Head(op.todo).verb # "remove" => Head(op.todo).what \cap Slot = {})
<1> DEFINE step == Head(op.todo)
<1>1. /\ op \in Ops /\ op.at \in RunPlaces /\ op.todo # <<>> /\ RunOK /\ PlaceOK
      /\ \/ Taken(step) \/ Collected(step) \/ Returned(step)
         \/ Diverted(step) /\ Diversion
  BY TakeEffect DEF TypeInv, OpOK
<1>2. op' # NoOp
  BY NoOpTyped DEF Past, CreateSteps, StageSteps, CleanSteps
<1>3. op'.back = op.back /\ op'.kind = op.kind
  BY <1>1, <1>2 DEF Taken, Collected, Returned, Diverted, Carried
<1>4. op'.at = op.at \/ Diversion
  BY <1>1, <1>2 DEF Taken, Collected, Returned
<1> HIDE DEF step
<1>5. Past
  BY <1>3, <1>4 DEF Past, Diversion, CreateSteps, StageSteps, CleanSteps
<1>6. op.at # "recover"
  BY <1>5 DEF Past, CreateSteps, StageSteps, CleanSteps
<1>7. step.verb = "remove" \/ op.at \notin CleanSteps
  BY TakeWrites DEF step
<1>8. op.at \in {"attach", "fork.id", "failed", "fork.publish", "fork.commit", "undo.index",
                "undo.files", "undo.mark", "undone"}
        => (step.verb # "remove" =>
             step.what \subseteq IndexArts \cup FileArts \cup {"forkmark"})
  <2>1. op.at = "attach" => op.kind \in {"create", "resume"}
    BY <1>1 DEF PlaceOK
  <2>2. op.at = "attach" /\ op.kind = "create" =>
          step.what \subseteq {"familiar"} \/ step.what \subseteq {"model", "baseline"}
    BY <1>1, FirstStep DEF step
  <2>3. (op.at = "attach" /\ op.kind = "resume") \/ op.at = "fork.id" => step.what \subseteq IndexArts
    BY <1>1, FirstStep DEF step
  <2>4. op.at = "fork.publish" =>
          step.what \subseteq {"forkmark"} \/ step.what \subseteq {"stage"}
            \/ step.what = {"transcript"} \/ step.what = {"familiar"}
    BY <1>1, FirstStep DEF step
  <2>5. op.at = "fork.commit" =>
          step.what \subseteq {"model", "messages", "baseline"} \/ step.what = {"row"}
            \/ step.verb = "remove"
    BY <1>1, FirstStep DEF step
  <2>6. op.at \in {"failed", "undo.index", "undo.files", "undo.mark", "undone"} =>
          step.verb = "remove" \/ step.what = {"forkmark"}
    BY <1>1, FirstStep DEF step
  <2> QED
    BY <2>1, <2>2, <2>3, <2>4, <2>5, <2>6 DEF IndexArts, FileArts
<1>9. step.verb # "remove" => step.what \cap Slot = {}
  BY <1>1, <1>6, <1>7, <1>8 DEF RunPlaces, CleanSteps, IndexArts, FileArts, Slot
<1> QED
  BY <1>5, <1>9 DEF step

LEMMA SlotsStep == ASSUME LifeInv, SlotsOK, Next PROVE SlotsOK'
<1> SUFFICES ASSUME Past', NEW s \in Ids PROVE disk'[s] \cap Slot = {}
  BY DEF SlotsOK
<1>1. TypeInv /\ TypeOK /\ StoreOK /\ op \in Ops
  BY DEF LifeInv, TypeInv, OpOK
<1>2. CASE TakeStep
  <2>1. Past /\ (Head(op.todo).verb # "remove" => Head(op.todo).what \cap Slot = {})
    BY <1>1, <1>2, TakePast
  <2>2. /\ OthersStay(op.job)
        /\ IF Head(op.todo).verb = "remove" THEN Removes(op.job, Head(op.todo).what)
                                            ELSE Adds(op.job, Head(op.todo).what)
    BY <1>1, <1>2, TakeEffect
  <2>3. disk[s] \cap Slot = {}
    BY <2>1 DEF SlotsOK
  <2> QED
    BY <2>1, <2>2, <2>3 DEF OthersStay, Removes, Adds
<1>3. CASE ~TakeStep
  <2>1. Past \/ Recovered
    BY <1>1, <1>3, PastFrom
  <2>2. op' # NoOp
    BY NoOpTyped DEF Past, CreateSteps, StageSteps, CleanSteps
  <2>3. Keeps(s)
    BY <1>1, <1>3, <2>2, QuietStores DEF Persist, PowerLoss, Restart
  <2>4. CASE Past
    <3>1. disk[s] \cap Slot = {}
      BY <2>4 DEF SlotsOK
    <3> QED
      BY <2>3, <3>1 DEF Keeps, Markers, Slot
  <2>5. CASE Recovered
    <3>1. op'.at = op.kind
      BY <1>1, <2>5 DEF Recovered, Goto, Ops
    <3>2. op.kind # "delete"
      BY <3>1 DEF Past, CreateSteps, StageSteps, CleanSteps
    <3>3. disk[s] \cap Slot = {}
      BY <2>5, <3>2 DEF Recovered, Recorded, Skipped
    <3> QED
      BY <2>3, <3>3 DEF Keeps, Markers, Slot
  <2> QED
    BY <2>1, <2>4, <2>5
<1> QED
  BY <1>2, <1>3

-----------------------------------------------------------------------------
(* What somebody writes to is vouched for *)

\* What a persist_new may leave of a session, done or cut off.
Written == {{}, {"record"}, {"record", "transcript"}, {"record", "transcript", "row"},
            {"record", "transcript", "row", "messages"}, {"transcript", "row", "messages"}}

LEMMA PersistShape ==
  ASSUME TypeOK, StoreOK, NEW h \in Handles, Persist(h)
  PROVE  /\ open[h].id \in Ids /\ life[open[h].id].state = "active" /\ Leased(open[h].id)
         /\ OthersStay(open[h].id) /\ UNCHANGED <<life, op, crashes>> /\ op = NoOp
         /\ \/ \E some \in SUBSET Drained(open[h].id) :
                 disk'[open[h].id] = disk[open[h].id] \cup some
            \/ \E has \in Written :
                 disk'[open[h].id] = ((disk[open[h].id] \ Slot) \cup Drained(open[h].id)) \cup has
<1> DEFINE s == open[h].id
           rest == (disk[s] \ Slot) \cup Drained(s)
<1>1. s \in Ids /\ life[s].state = "active"
  <2>1. open[h] # Closed /\ life[s] = Active(open[h].gen)
    BY DEF Persist, Writable
  <2>2. open[h] \in [id : Ids, gen : Gens]
    BY <2>1 DEF TypeOK
  <2> QED
    BY <2>1, <2>2 DEF Active
<1>2. PersistMove(s)
  BY PersistEffect
<1>3. disk[s] \in SUBSET Artifacts /\ Drained(s) \in SUBSET Artifacts
  BY <1>1 DEF StoreOK, Drained, Artifacts, Databases
<1>4. ASSUME NEW D, NEW synced, Changes(s, D, synced) PROVE disk'[s] = D
  BY <1>1, <1>4 DEF Changes, StoreOK
<1>5. \A cut \in PersistCut : cut.has \in Written
  <2> SUFFICES ASSUME NEW cut \in PersistCut PROVE cut.has \in Written
    OBVIOUS
  <2>3. CASE \E some \in SUBSET {"record"} : cut = [has |-> some, synced |-> {}]
    <3>1. PICK some \in SUBSET {"record"} : cut.has = some
      BY <2>3
    <3>2. some = {} \/ some = {"record"}
      OBVIOUS
    <3> QED
      BY <3>1, <3>2 DEF Written
  <2>4. CASE \E some \in SUBSET {"transcript"} :
               cut = [has |-> {"record"} \cup some, synced |-> {"record"}]
    <3>1. PICK some \in SUBSET {"transcript"} : cut.has = {"record"} \cup some
      BY <2>4
    <3>2. some = {} \/ some = {"transcript"}
      OBVIOUS
    <3>3. {"record"} \cup {} = {"record"} /\ {"record"} \cup {"transcript"} = {"record", "transcript"}
      OBVIOUS
    <3>4. cut.has = {"record"} \/ cut.has = {"record", "transcript"}
      BY <3>1, <3>2, <3>3
    <3> QED
      BY <3>4 DEF Written
  <2>5. CASE \E some \in {{}, {"row"}, {"row", "messages"}} :
               cut = [has |-> {"record", "transcript"} \cup some,
                      synced |-> {"record", "transcript"}]
    <3>1. PICK some \in {{}, {"row"}, {"row", "messages"}} :
            cut.has = {"record", "transcript"} \cup some
      BY <2>5
    <3>2. \/ cut.has = {"record", "transcript"} \/ cut.has = {"record", "transcript", "row"}
          \/ cut.has = {"record", "transcript", "row", "messages"}
      BY <3>1
    <3> QED
      BY <3>2 DEF Written
  <2>6. CASE \E some \in SUBSET {"record"} :
               cut = [has |-> {"transcript", "row", "messages"} \cup some,
                      synced |-> {"transcript"}]
    <3>1. PICK some \in SUBSET {"record"} : cut.has = {"transcript", "row", "messages"} \cup some
      BY <2>6
    <3>2. some = {} \/ some = {"record"}
      OBVIOUS
    <3>3. /\ {"transcript", "row", "messages"} \cup {} = {"transcript", "row", "messages"}
          /\ {"transcript", "row", "messages"} \cup {"record"}
               = {"record", "transcript", "row", "messages"}
      OBVIOUS
    <3>4. \/ cut.has = {"transcript", "row", "messages"}
          \/ cut.has = {"record", "transcript", "row", "messages"}
      BY <3>1, <3>2, <3>3
    <3> QED
      BY <3>4 DEF Written
  <2> QED
    BY <2>3, <2>4, <2>5, <2>6 DEF PersistCut
<1>6. {"transcript", "row", "messages"} \in Written
  BY DEF Written
<1>7. \/ Changes(s, rest \cup {"transcript", "row", "messages"}, Slot \cup {"transcript"})
      \/ \E some \in SUBSET Drained(s) : Changes(s, disk[s] \cup some, {})
      \/ \E cut \in PersistCut : Changes(s, rest \cup cut.has, cut.synced)
  BY DEF Persist
<1>8. \/ \E some \in SUBSET Drained(s) : disk'[s] = disk[s] \cup some
      \/ \E has \in Written : disk'[s] = rest \cup has
  BY <1>4, <1>5, <1>6, <1>7
<1> QED
  BY <1>1, <1>2, <1>8 DEF PersistMove, Persist

\* What a persist_new leaves is vouched for as before, and hangs together if it did.
LEMMA PersistRest ==
  ASSUME TypeOK, StoreOK, LeaseOK, ActiveOK, NEW h \in Handles, Persist(h)
  PROVE  LET s == open[h].id
         IN /\ "baseline" \in disk'[s] /\ disk'[s] \cap {"oversized", "reconciling"} = {}
            /\ RestOK(disk[s]) => RestOK(disk'[s])
            /\ disk'[s] \cap Markers = disk[s] \cap Markers /\ Marks(s) = {}
<1> DEFINE s == open[h].id
<1>1. /\ s \in Ids /\ life[s].state = "active" /\ Leased(s)
      /\ \/ \E some \in SUBSET Drained(s) : disk'[s] = disk[s] \cup some
         \/ \E has \in Written : disk'[s] = ((disk[s] \ Slot) \cup Drained(s)) \cup has
  BY PersistShape
<1> HIDE DEF s
<1>2. /\ "baseline" \in disk[s] /\ disk[s] \cap {"oversized", "reconciling"} = {}
      /\ Marks(s) = {} /\ ("transcript" \in disk[s] \/ disk[s] \cap {"row", "oversized"} = {})
  BY <1>1 DEF ActiveOK, LeaseOK
<1>3. \/ Drained(s) = {}
      \/ Drained(s) = {"row", "messages"} /\ "record" \in disk[s] /\ "transcript" \in disk[s]
  BY DEF Drained
<1>a. {"record", "transcript"} \subseteq disk[s] => Drained(s) = {"row", "messages"}
  BY DEF Drained
<1>4. CASE \E some \in SUBSET Drained(s) : disk'[s] = disk[s] \cup some
  <2>1. PICK some \in SUBSET Drained(s) : disk'[s] = disk[s] \cup some
    BY <1>4
  <2>2. disk'[s] \cap Markers = disk[s] \cap Markers
    BY <1>3, <2>1 DEF Markers
  <2>3. "baseline" \in disk'[s] /\ disk'[s] \cap {"oversized", "reconciling"} = {}
    BY <1>2, <1>3, <2>1
  <2>4. CASE Drained(s) = {}
    <3>1. disk'[s] = disk[s]
      BY <2>1, <2>4
    <3> QED
      BY <1>2, <2>2, <2>3, <3>1 DEF s
  <2>5. CASE Drained(s) = {"row", "messages"} /\ "record" \in disk[s] /\ "transcript" \in disk[s]
    <3>1. RestOK(disk'[s])
      BY <1>2, <2>1, <2>3, <2>5 DEF RestOK, Slot
    <3> QED
      BY <1>2, <2>2, <2>3, <3>1 DEF s
  <2> QED
    BY <1>3, <2>4, <2>5
<1>5. CASE \E has \in Written : disk'[s] = ((disk[s] \ Slot) \cup Drained(s)) \cup has
  <2>1. PICK has \in Written : disk'[s] = ((disk[s] \ Slot) \cup Drained(s)) \cup has
    BY <1>5
  <2>2. /\ has \subseteq {"record", "transcript", "row", "messages"}
        /\ has # {} => "record" \in has \/ {"transcript", "row", "messages"} \subseteq has
        /\ "messages" \in has => "transcript" \in has
        /\ "row" \in has => "transcript" \in has
    BY DEF Written
  <2>3. disk'[s] \cap Markers = disk[s] \cap Markers
    BY <1>3, <2>1, <2>2 DEF Markers, Slot
  <2>4. "baseline" \in disk'[s] /\ disk'[s] \cap {"oversized", "reconciling"} = {}
    BY <1>2, <1>3, <2>1, <2>2 DEF Slot
  <2>5. ASSUME RestOK(disk[s]) PROVE RestOK(disk'[s])
    <3>1. {"row", "messages"} \subseteq disk'[s] => "transcript" \in disk'[s]
      BY <1>2, <1>3, <2>1, <2>2 DEF Slot
    <3>2. CASE has = {}
      <4>1. CASE disk[s] \cap Slot = {}
        <5>1. disk'[s] = disk[s]
          BY <1>3, <2>1, <3>2, <4>1 DEF Slot
        <5> QED
          BY <2>5, <5>1
      <4>2. CASE disk[s] \cap Slot # {}
        <5>1. "record" \in disk[s]
          BY <1>2, <4>2 DEF Slot
        <5>2. CASE "transcript" \in disk[s]
          <6>1. "messages" \in disk'[s]
            BY <1>a, <2>1, <5>1, <5>2
          <6> QED
            BY <2>4, <3>1, <6>1 DEF RestOK
        <5>3. CASE "transcript" \notin disk[s]
          <6>1. disk'[s] \cap {"row", "transcript"} = {}
            BY <1>2, <1>3, <2>1, <3>2, <5>3
          <6> QED
            BY <2>4, <3>1, <6>1 DEF RestOK
        <5> QED
          BY <5>2, <5>3
      <4> QED
        BY <4>1, <4>2
    <3>3. CASE has # {}
      <4>1. disk'[s] \cap Slot # {} \/ "messages" \in disk'[s]
        BY <2>1, <2>2, <3>3 DEF Slot
      <4> QED
        BY <2>4, <3>1, <4>1 DEF RestOK
    <3> QED
      BY <3>2, <3>3
  <2> QED
    BY <1>2, <2>3, <2>4, <2>5 DEF s
<1> QED
  BY <1>1, <1>4, <1>5

\* A session becomes active when a handle is given out or a fork is committed.
LEMMA Activated ==
  ASSUME TypeInv, Next, ~TakeStep, NEW s \in Ids, life'[s].state = "active"
  PROVE  \/ life[s].state = "active"
         \/ op.at \in {"attach", "fork.commit"} /\ s = op.id /\ op.todo = <<>>
<1>1. \A l \in {Nothing, Tombstone, Quarantine} : l.state # "active"
  BY DEF Nothing, Tombstone, Quarantine
<1>2. life'[s] \notin {Nothing, Tombstone, Quarantine}
  BY <1>1
<1>3. CASE CleanMove /\ op.job \in Ids
  BY <1>2, <1>3 DEF CleanMove
<1>4. CASE RecoverMove
  <2>1. life'[s] = life[s]
    BY <1>2, <1>4 DEF RecoverMove, DeletionMove, OtherLives
  <2> QED
    BY <2>1
<1>5. CASE UserMove /\ op.todo = <<>>
  <2>1. \/ life'[s] = life[s]
        \/ op.at \in {"attach", "fork.commit"} /\ s = op.id
    BY <1>2, <1>5 DEF UserMove, DeletionMove, ReuseMove, OtherLives
  <2> QED
    BY <1>5, <2>1
<1>6. CASE StageMove
  BY <1>2, <1>6 DEF StageMove, OtherLives
<1>7. CASE BeginMove \/ OutsideMove
  BY <1>2, <1>7 DEF BeginMove, OutsideMove, PersistMove
<1> QED
  BY Moves, <1>3, <1>4, <1>5, <1>6, <1>7

LEMMA TakeActive ==
  ASSUME LifeInv, RepairOK, TakeStep, life[op.job].state = "active"
  PROVE  LET step == Head(op.todo)
         IN IF step.verb = "remove" THEN "baseline" \notin step.what
            ELSE step.what \cap {"oversized", "reconciling"} = {}
<1> DEFINE step == Head(op.todo)
<1>1. /\ op \in Ops /\ op.job \in Ids /\ op.at \in RunPlaces /\ op.todo # <<>> /\ RunOK /\ PlaceOK
      /\ step = op.todo[1] /\ 1 \in DOMAIN op.todo
  BY TakeEffect DEF LifeInv, TypeInv, OpOK
<1>2. ~Fenced(op.job) /\ life[op.job] # Nothing
  BY DEF Fenced, Nothing, Tombstone, Quarantine
<1>3. /\ op.at \notin CleanSteps /\ op.at \notin StageSteps /\ op.at # "failed"
      /\ op.at = "attach" => op.kind = "resume"
  <2>1. op.at \notin CleanSteps
    BY <1>2 DEF LifeInv, MarksOK
  <2>2. /\ op.at \in StageSteps \cup {"failed"} => op.job = op.id
        /\ op.at = "attach" => op.kind \in {"create", "resume"} /\ op.job = op.id
    BY <1>1 DEF PlaceOK, RunOK
  <2>3. /\ op.at \in StageSteps => life[op.id] \in {Nothing, Quarantine}
        /\ op.at = "failed" => life[op.id] \in {Nothing, Tombstone}
        /\ op.at = "attach" /\ op.kind = "create" => life[op.id] \in {Nothing, Tombstone}
    BY DEF LifeInv, NewOK
  <2> QED
    BY <1>2, <2>1, <2>2, <2>3 DEF Fenced
<1>4. op.at \in {"recover", "attach", "fork.id"}
  BY <1>1, <1>3 DEF RunPlaces, CleanSteps, StageSteps
<1>5. CASE op.at = "recover"
  <2>1. ~Clears(step, {"baseline"}) /\ ~Writes(step, Slot)
    BY <1>1, <1>5 DEF RepairOK
  <2> QED
    BY <2>1 DEF Clears, Writes, Slot
<1>6. CASE op.at \in {"attach", "fork.id"}
  <2>1. step.verb = "add" /\ step.what \subseteq IndexArts
    BY <1>1, <1>3, <1>6, FirstStep
  <2> QED
    BY <2>1 DEF IndexArts
<1> QED
  BY <1>4, <1>5, <1>6

LEMMA ActiveStep ==
  ASSUME LifeInv, PlainOK, Next
  PROVE  ActiveOK'
<1> SUFFICES ASSUME NEW s \in Ids, life'[s].state = "active"
             PROVE  "baseline" \in disk'[s] /\ disk'[s] \cap {"oversized", "reconciling"} = {}
  BY DEF ActiveOK
<1>1. TypeInv /\ TypeOK /\ StoreOK /\ LeaseOK
  BY DEF LifeInv, TypeInv
<1>2. life[s].state = "active" =>
        "baseline" \in disk[s] /\ disk[s] \cap {"oversized", "reconciling"} = {}
  BY DEF PlainOK, ActiveOK
<1>3. CASE TakeStep
  <2> DEFINE step == Head(op.todo)
  <2>1. /\ UNCHANGED life /\ OthersStay(op.job)
        /\ IF step.verb = "remove" THEN Removes(op.job, step.what) ELSE Adds(op.job, step.what)
    BY <1>1, <1>3, TakeEffect
  <2>2. CASE s = op.job
    <3>1. IF step.verb = "remove" THEN "baseline" \notin step.what
          ELSE step.what \cap {"oversized", "reconciling"} = {}
      BY <1>3, <2>1, <2>2, TakeActive DEF PlainOK
    <3> HIDE DEF step
    <3> QED
      BY <1>2, <2>1, <2>2, <3>1 DEF Removes, Adds
  <2>3. CASE s # op.job
    BY <1>2, <2>1, <2>3 DEF OthersStay
  <2> QED
    BY <2>2, <2>3
<1>4. ASSUME NEW h \in Handles, Persist(h)
      PROVE  "baseline" \in disk'[s] /\ disk'[s] \cap {"oversized", "reconciling"} = {}
  <2>1. OthersStay(open[h].id) /\ UNCHANGED life
    BY <1>1, <1>4, PersistShape
  <2>2. CASE s = open[h].id
    BY <1>1, <1>4, <2>2, PersistRest DEF PlainOK
  <2>3. CASE s # open[h].id
    BY <1>2, <2>1, <2>3 DEF OthersStay
  <2> QED
    BY <2>2, <2>3
<1>5. CASE PowerLoss
  BY <1>5 DEF PowerLoss, Restart, Nothing
<1>6. CASE ~TakeStep /\ Keeps(s)
  <2>1. "baseline" \in disk[s] /\ disk[s] \cap {"oversized", "reconciling"} = {}
    <3>1. CASE life[s].state = "active"
      BY <1>2, <3>1
    <3>2. CASE op.at \in {"attach", "fork.commit"} /\ s = op.id /\ op.todo = <<>>
      <4>1. ToGo = {}
        BY <3>2, NothingToDo
      <4>2. "baseline" \in disk[s]
        BY <3>2, <4>1 DEF PlainOK, CreateOK, StageOK
      <4>3. Past
        BY <3>2 DEF Past, StageSteps
      <4>4. disk[s] \cap Slot = {}
        BY <4>3 DEF PlainOK, SlotsOK
      <4> QED
        BY <4>2, <4>4 DEF Slot
    <3> QED
      BY <1>1, <1>6, <3>1, <3>2, Activated
  <2> QED
    BY <1>6, <2>1 DEF Keeps, Markers
<1> QED
  BY <1>1, <1>3, <1>4, <1>5, <1>6, QuietStores

-----------------------------------------------------------------------------
(* What is listed, created and resumed, and what recovery takes apart *)

\* What is at a place.
LEMMA ActsAt ==
  ASSUME op \in Ops, Next, ~TakeStep
  PROVE  \/ op' = op /\ UNCHANGED life
         \/ op' = NoOp /\ (Crash \/ PowerLoss)
         \/ op = NoOp
         \/ /\ op.at = "recover" =>
                 \/ RecoverMarked \/ ResolveRecord \/ RefuseRecord \/ DeleteUnpublished
                 \/ DeleteGhost \/ ReconcileLegacy \/ Recovered
            /\ op.at = "create.write" => CreateWrite
            /\ op.at = "resume" => Resume
            /\ op.at = "fork" => Fork
            /\ op.at = "fork.stage" => ForkStaged
            /\ op.at = "fork.publish" => ForkPublish
            /\ op.at = "fork.commit" => ForkCommit
            /\ op.at = "undo" => Undo
            /\ op.at = "undo.index" => UndoIndex
            /\ op.at = "undo.files" => UndoFiles
            /\ op.at = "undo.mark" => UndoMark
            /\ op.at = "undo.remark" => UndoRemark
            /\ op.at = "undone" => Undone
<1>1. /\ EnsureMarker => op.at = "ensure"
      /\ RecordsGone => op.at = "records"
      /\ RowsGone => op.at = "databases"
      /\ FilesGone => op.at = "files"
      /\ Restore => op.at = "restore"
      /\ Cleaned => op.at = "cleaned"
      /\ Preflight => op.at = "preflight"
  BY DEF EnsureMarker, RecordsGone, RowsGone, FilesGone, Restore, Cleaned, Preflight, At
<1>2. RecoverMarked \/ ResolveRecord \/ RefuseRecord \/ DeleteUnpublished
        \/ DeleteGhost \/ ReconcileLegacy \/ Recovered => op.at = "recover"
  BY DEF RecoverMarked, ResolveRecord, RefuseRecord, DeleteUnpublished, DeleteGhost,
     ReconcileLegacy, Recovered, At
<1>3. /\ List => op.at = "list"
      /\ Delete => op.at = "delete"
      /\ Deleted => op.at = "deleted"
      /\ Create => op.at = "create"
      /\ CreateWrite => op.at = "create.write"
      /\ CreateUndo => op.at = "create.undo"
      /\ Failed => op.at = "failed"
      /\ Resume => op.at = "resume"
      /\ Attach => op.at = "attach"
  BY DEF List, Delete, Deleted, Create, CreateWrite, CreateUndo, Failed, Resume, Attach, At
<1>4. /\ Fork => op.at = "fork"
      /\ ForkId => op.at = "fork.id"
      /\ ForkStaged => op.at = "fork.stage"
      /\ ForkPublish => op.at = "fork.publish"
      /\ ForkCommit => op.at = "fork.commit"
  BY DEF Fork, ForkId, ForkStaged, ForkPublish, ForkCommit, At
<1>5. /\ Undo => op.at = "undo"
      /\ UndoIndex => op.at = "undo.index"
      /\ UndoFiles => op.at = "undo.files"
      /\ UndoMark => op.at = "undo.mark"
      /\ UndoRemark => op.at = "undo.remark"
      /\ Undone => op.at = "undone"
  BY DEF Undo, UndoIndex, UndoFiles, UndoMark, UndoRemark, Undone, At
<1>6. BeginAny => op = NoOp
  BY BeginEffect DEF BeginMove
<1>7. (\E h \in Handles : Persist(h) \/ GoalWrite(h) \/ DropHandle(h)) => op' = op /\ UNCHANGED life
  BY DEF Persist, GoalWrite, DropHandle
<1>8. Crash \/ PowerLoss => op' = NoOp
  BY DEF Crash, PowerLoss, Restart
<1> QED
  BY <1>1, <1>2, <1>3, <1>4, <1>5, <1>6, <1>7, <1>8 DEF Next, Working

\* Where an operation goes between its runs.
LEMMA QuietTo ==
  ASSUME TypeInv, Next, ~TakeStep
  PROVE  \/ op' = NoOp
         \/ OutsideMove /\ op' = op
         \/ BeginMove
         \/ CleanMove /\ op.at \in CleanSteps
              /\ op'.at \in CleanSteps \cup {"recover", "deleted", "create.write", "fork.stage"}
         \/ Recovered /\ op'.at = op.kind
         \/ RecoverMove /\ op'.at \in {"idle", "recover", "ensure"}
         \/ UserMove /\ \/ op'.at \in {"ensure", "create.write", "fork.stage"}
                        \/ op.at \in {"create.write", "resume"} /\ op'.at = "attach"
                        \/ op.at = "create.undo" /\ op'.at = "failed"
                        \/ op.at = "fork" /\ op'.at = "fork.id"
                        \/ op.at = "fork.stage" /\ op'.at = "fork.publish"
         \/ StageMove
<1>1. PlaceOK /\ op \in Ops
  BY DEF TypeInv, OpOK
<1>2. CASE CleanMove /\ op.at \in CleanSteps
  <2>1. op.back \in {"recover", "deleted", "create.write", "fork.stage"}
    BY <1>1, <1>2 DEF PlaceOK
  <2>2. op' = NoOp \/ (op'.at \in CleanSteps) \/ op'.at = op.back
    BY <1>2 DEF CleanMove, Does, Goes, CleanSteps
  <2> QED
    BY <1>2, <2>1, <2>2
<1>3. CASE Recovered
  BY <1>1, <1>3 DEF Recovered, Goto, Ops
<1>4. CASE RecoverMove /\ (op'.at \in {"idle", "recover"} \/ (op'.at = "ensure" /\ op'.back = "recover"))
  BY <1>4
<1>5. CASE UserMove
  <2>1. \A s, m, b : CleansTo(s, m, b) => op'.at = "ensure"
    BY DEF CleansTo, Goes
  <2>2. \A s, b : DeletionMove(s, b) => op'.at = "ensure" \/ op' = NoOp
    BY <2>1 DEF DeletionMove
  <2>3. \A s, b : ReuseMove(s, b) => op'.at = "ensure" \/ op' = NoOp
    BY <2>1 DEF ReuseMove
  <2> QED
    BY <1>5, <2>2, <2>3 DEF UserMove, Does, Goes
<1>6. CASE OutsideMove
  BY <1>6 DEF OutsideMove
<1> QED
  BY QuietMoves, <1>2, <1>3, <1>4, <1>5, <1>6

\* Outside of the operations sessions keep what they have while one is under way.
LEMMA OutsideKeeps ==
  ASSUME TypeInv, Next, ~TakeStep, op' = op, op # NoOp
  PROVE  \A s \in Ids : Keeps(s) /\ (life'[s].state = "active" => life[s].state = "active" \/
                                       op.at \in {"attach", "fork.commit"})
BY QuietStores, Activated DEF Persist, PowerLoss, Restart

LEMMA ListStep == ASSUME LifeInv, PlainOK, Next PROVE ListOK'
<1> SUFFICES ASSUME op'.at = "list", NEW s \in Ids, life'[s] = Nothing, "row" \in disk'[s]
             PROVE  {"messages", "baseline"} \cap disk'[s] # {}
  BY DEF ListOK
<1>1. TypeInv /\ op \in Ops
  BY DEF LifeInv, TypeInv, OpOK
<1>2. op' # NoOp
  BY NoOpTyped
<1>3. ~TakeStep
  <2>1. SUFFICES ASSUME TakeStep PROVE FALSE
    OBVIOUS
  <2>2. /\ op.at \in RunPlaces
        /\ \/ Taken(Head(op.todo)) \/ Collected(Head(op.todo)) \/ Returned(Head(op.todo))
           \/ Diversion
    BY <1>1, <2>1, TakeEffect
  <2> QED
    BY <1>2, <2>2 DEF Taken, Collected, Returned, Diversion, RunPlaces
<1>4. \/ OutsideMove /\ op' = op
      \/ Recovered /\ op'.at = op.kind
  BY <1>1, <1>2, <1>3, QuietTo DEF BeginMove, StageMove, Goes, Does, CleanSteps
<1>5. CASE OutsideMove /\ op' = op
  <2>1. op # NoOp
    BY <1>2, <1>5
  <2>2. Keeps(s)
    BY <1>1, <1>3, <1>5, <2>1, OutsideKeeps
  <2>3. life[s] = Nothing
    BY <1>2, <1>5 DEF OutsideMove, PersistMove
  <2>4. "row" \in disk[s]
    BY <2>2 DEF Keeps, Markers
  <2>5. {"messages", "baseline"} \cap disk[s] # {}
    BY <1>5, <2>3, <2>4 DEF PlainOK, ListOK
  <2> QED
    BY <2>2, <2>5 DEF Keeps
<1>6. CASE Recovered /\ op'.at = op.kind
  <2>1. /\ UNCHANGED <<disk, life>> /\ Recorded = {} /\ Uncounted = {} /\ op.kind = "list"
    BY <1>6 DEF Recovered
  <2>2. ~Skipped(s)
    BY <2>1 DEF Skipped
  <2>3. disk[s] \cap Slot = {}
    BY <2>1, <2>2 DEF Recorded
  <2>4. "row" \in disk[s] /\ life[s] = Nothing
    BY <2>1
  <2>5. "messages" \in disk[s] \/ "baseline" \in disk[s]
    BY <2>1, <2>2, <2>3, <2>4 DEF Uncounted
  <2> QED
    BY <2>1, <2>5
<1> QED
  BY <1>4, <1>5, <1>6

\* The runs of a creation and of a resumption write the baseline.
LEMMA BaselineRuns ==
  /\ \A verb \in {"add", "remove"} : "baseline" \in WhatOf(CreateFiles(verb))
  /\ \A s : "baseline" \in disk[s] \cup
        WhatOf(ModelRecord("return") \o <<Step("add", {"row"}, "return")>> \o CatchUp(s))
<1> DEFINE S == IndexRun
           m == Step("add", {"model"}, "return")
           r == Step("add", {"row"}, "return")
           g == Step("add", {"messages"}, "return")
           b == Step("add", {"baseline"}, "return")
<1>1. m \in S /\ r \in S /\ g \in S /\ b \in S /\ b.what = {"baseline"}
  BY AdditionStep, StepFields DEF IndexRun, IndexArts
<1>2. ASSUME NEW verb \in {"add", "remove"} PROVE "baseline" \in WhatOf(CreateFiles(verb))
  <2> DEFINE T == CreateRun
             x == Step(verb, {"familiar"}, "return")
             y == Step("add", {"model"}, "create.undo")
             z == Step("add", {"baseline"}, "create.undo")
  <2>1. x \in T /\ y \in T /\ z \in T /\ z.what = {"baseline"}
    <3>1. x \in T
      <4>1. CASE verb = "add"
        BY <4>1, AdditionStep DEF CreateRun
      <4>2. CASE verb = "remove"
        BY <4>2, RemovalStep DEF CreateRun
      <4> QED
        BY <4>1, <4>2
    <3>2. y \in T /\ z \in T
      BY AdditionStep DEF CreateRun
    <3> QED
      BY <3>1, <3>2, StepFields
  <2>2. CreateFiles(verb) = (<<x>> \o <<y>>) \o <<z>>
    BY DEF CreateFiles, ModelRecord, Baseline
  <2> HIDE DEF x, y, z, T
  <2> DEFINE px == <<x>>
             py == <<y>>
             pz == <<z>>
  <2>3. px \in Seq(T) /\ py \in Seq(T) /\ pz \in Seq(T)
    BY <2>1
  <2>4. "baseline" \in WhatOf(pz)
    <3>1. DOMAIN pz = {1} /\ pz[1] = z
      OBVIOUS
    <3> HIDE DEF pz
    <3> QED
      BY <2>1, <3>1 DEF WhatOf
  <2> HIDE DEF px, py, pz
  <2> DEFINE q == px \o py
  <2>5. "baseline" \in WhatOf(q \o pz)
    <3>1. q \in Seq(T)
      BY <2>3, RunsJoin
    <3> HIDE DEF q
    <3> QED
      BY <2>3, <2>4, <3>1, RunsJoin
  <2> QED
    BY <2>2, <2>5 DEF px, py, pz
<1>3. ASSUME NEW s
      PROVE  "baseline" \in disk[s] \cup
               WhatOf(ModelRecord("return") \o <<Step("add", {"row"}, "return")>> \o CatchUp(s))
  <2>1. ModelRecord("return") = <<m>> /\ Baseline("return") = <<b>>
    BY DEF ModelRecord, Baseline
  <2> HIDE DEF m, r, g, b, S
  <2> DEFINE pm == <<m>>
             pr == <<r>>
             pg == <<g>>
             pb == <<b>>
  <2>3. pm \in Seq(S) /\ pr \in Seq(S) /\ pg \in Seq(S) /\ pb \in Seq(S)
    BY <1>1
  <2>4. "baseline" \in WhatOf(pb)
    <3>1. DOMAIN pb = {1} /\ pb[1] = b
      OBVIOUS
    <3> HIDE DEF pb
    <3> QED
      BY <1>1, <3>1 DEF WhatOf
  <2> HIDE DEF pm, pr, pg, pb
  <2>5. pg \o pb \in Seq(S) /\ "baseline" \in WhatOf(pg \o pb)
    BY <2>3, <2>4, RunsJoin
  <2> DEFINE c == "baseline" \notin disk[s]
             w == When(c, pg \o pb)
  <2>6. w \in Seq(S) /\ (c => "baseline" \in WhatOf(w))
    <3>1. c \in BOOLEAN
      OBVIOUS
    <3> HIDE DEF c
    <3> QED
      BY <2>5, <3>1, WhenRun
  <2> HIDE DEF w
  <2> DEFINE q == pm \o pr
  <2>7. q \in Seq(S)
    BY <2>3, RunsJoin
  <2>8. c => "baseline" \in WhatOf(q \o w)
    <3> HIDE DEF q, c
    <3> QED
      BY <2>6, <2>7, RunsJoin
  <2>9. CatchUp(s) = w
    BY <2>1 DEF CatchUp, w, pg, pb, g
  <2>10. ModelRecord("return") \o <<Step("add", {"row"}, "return")>> \o CatchUp(s)
           = (pm \o pr) \o w
    BY <2>1, <2>9 DEF r, pm, pr
  <2> QED
    BY <2>8, <2>10
<1> QED
  BY <1>2, <1>3

LEMMA CreateStep == ASSUME LifeInv, PlainOK, Next PROVE CreateOK'
<1>1. TypeInv /\ op \in Ops /\ PlaceOK /\ RunOK /\ CreateOK
  BY DEF LifeInv, TypeInv, OpOK, PlainOK
<1> DEFINE Creating == op.at \in {"create.undo", "failed"} \/ (op.at = "attach" /\ op.kind = "create")
<1>2. CASE op' = NoOp
  BY <1>2, NoOpTyped DEF CreateOK
<1>3. CASE TakeStep /\ op' # NoOp
  <2> DEFINE step == Head(op.todo)
  <2>0. /\ op.at \in RunPlaces /\ op.todo # <<>>
        /\ ToGo = step.what \cup WhatOf(Tail(op.todo))
        /\ IF step.verb = "remove" THEN Removes(op.job, step.what) ELSE Adds(op.job, step.what)
        /\ \/ Taken(step) \/ Collected(step) \/ Returned(step)
           \/ Diverted(step) /\ Diversion
    BY <1>1, <1>3, TakeEffect
  <2>1. /\ op.at \in RunPlaces /\ op.todo # <<>>
        /\ ToGo = step.what \cup WhatOf(Tail(op.todo))
        /\ IF step.verb = "remove" THEN Removes(op.job, step.what) ELSE Adds(op.job, step.what)
        /\ \/ Taken(step) \/ Collected(step)
           \/ Diverted(step) /\ Diversion
    <3> HIDE DEF step
    <3> QED
      BY <1>3, <2>0 DEF Returned
  <2>2. op'.id = op.id /\ op'.kind = op.kind
    BY <2>1 DEF Taken, Collected, Diverted, Carried
  <2>3. \/ op'.at = op.at /\ op'.todo = Tail(op.todo)
        \/ Diversion
    BY <2>1 DEF Taken, Collected
  <2>4. op.at \in {"attach", "failed"} => op.job = op.id
    BY <1>1, <2>1 DEF RunOK
  <2>5. /\ op.at = "attach" /\ op.kind = "create" =>
             \/ step.verb = "remove" /\ step.what \subseteq {"familiar"}
             \/ step.verb = "add" /\ step.what \subseteq {"familiar", "model", "baseline"}
        /\ op.at = "attach" /\ op.kind = "resume" => step.verb = "add"
        /\ op.at = "attach" => step.orelse # "collect"
        /\ op.at = "failed" => step.verb = "remove"
    <3>1. op.at = "attach" => op.kind \in {"create", "resume"}
      BY <1>1 DEF PlaceOK
    <3> QED
      BY <1>1, <2>1, <3>1, FirstStep
  <2> HIDE DEF step
  <2>6. Creating' => disk'[op'.id] \cap {"transcript", "row", "messages"} = {}
    <3> SUFFICES ASSUME Creating' PROVE disk'[op.id] \cap {"transcript", "row", "messages"} = {}
      BY <2>2
    <3>1. Creating /\ op.at \in {"attach", "failed"} /\ op.job = op.id
      BY <2>1, <2>2, <2>3, <2>4 DEF Diversion, RunPlaces
    <3>2. disk[op.id] \cap {"transcript", "row", "messages"} = {}
      BY <1>1, <3>1 DEF CreateOK
    <3>3. step.verb = "remove" \/ step.what \subseteq {"familiar", "model", "baseline"}
      BY <2>5, <3>1
    <3> QED
      BY <2>1, <3>1, <3>2, <3>3 DEF Removes, Adds
  <2>7. op'.at = "attach" => "baseline" \in disk'[op'.id] \cup ToGo'
    <3> SUFFICES ASSUME op'.at = "attach" PROVE "baseline" \in disk'[op.id] \cup WhatOf(op'.todo)
      BY <2>2 DEF ToGo, WhatOf
    <3>1. op.at = "attach" /\ op'.todo = Tail(op.todo) /\ op.job = op.id
      BY <2>3, <2>4 DEF Diversion
    <3>2. Taken(step)
      BY <2>1, <2>5, <3>1 DEF Collected, Diversion
    <3>3. "baseline" \in disk[op.id] \cup step.what \cup WhatOf(Tail(op.todo))
      BY <1>1, <2>1, <3>1 DEF CreateOK
    <3>4. op.kind \in {"create", "resume"}
      BY <1>1, <3>1 DEF PlaceOK
    <3>5. CASE step.verb = "remove"
      <4>1. step.what \subseteq {"familiar"}
        BY <2>5, <3>1, <3>4, <3>5
      <4> QED
        BY <2>1, <3>1, <3>3, <3>5, <4>1 DEF Removes
    <3>6. CASE step.verb # "remove"
      <4>1. step.what \subseteq disk'[op.job] /\ disk[op.job] \subseteq disk'[op.job]
        BY <2>1, <3>2, <3>6 DEF Taken, Adds
      <4> QED
        BY <3>1, <3>3, <4>1
    <3> QED
      BY <3>5, <3>6
  <2> QED
    BY <2>6, <2>7 DEF CreateOK
<1>4. CASE ~TakeStep /\ op' # NoOp
  <2>1. CASE op'.at \notin {"attach", "failed", "create.undo"}
    BY <2>1 DEF CreateOK
  <2>2. CASE OutsideMove /\ op' = op /\ op'.at \in {"attach", "failed", "create.undo"}
    <3>1. op.id \in Ids
      BY <1>1, <2>2 DEF PlaceOK, CreateSteps
    <3>2. Keeps(op.id)
      BY <1>1, <1>4, <2>2, <3>1, OutsideKeeps
    <3>3. disk'[op.id] \cap {"transcript", "row", "messages"} \subseteq disk[op.id]
      BY <3>2 DEF Keeps, Markers
    <3>4. ToGo' = ToGo
      BY <2>2 DEF ToGo
    <3> QED
      BY <1>1, <2>2, <3>2, <3>3, <3>4 DEF CreateOK, Keeps
  <2>3. CASE UserMove /\ op.at = "create.undo" /\ op'.at = "failed"
    <3>1. op'.id = op.id /\ UNCHANGED disk
      BY <1>4, <2>3 DEF UserMove, Does, Goes
    <3> QED
      BY <1>1, <2>3, <3>1 DEF CreateOK
  <2>4. CASE UserMove /\ op.at = "create.write" /\ op'.at = "attach"
    <3>1. op # NoOp
      BY <2>4, NoOpTyped
    <3>2. CreateWrite
      BY <1>1, <1>4, <2>4, <3>1, ActsAt
    <3>3. PICK verb \in {"add", "remove"} : Do(op.id, CreateFiles(verb), "attach")
      BY <3>2 DEF CreateWrite
    <3>4. op'.id = op.id /\ op'.todo = CreateFiles(verb) /\ UNCHANGED disk
      BY <1>1, <3>2, <3>3 DEF CreateWrite, Do, Ops
    <3>5. "baseline" \in ToGo'
      BY <3>4, BaselineRuns DEF ToGo, WhatOf
    <3>6. disk[op.id] \subseteq {"goal"}
      BY <2>4 DEF LifeInv, NewOK
    <3> QED
      BY <3>4, <3>5, <3>6 DEF CreateOK
  <2>5. CASE UserMove /\ op.at = "resume" /\ op'.at = "attach"
    <3>1. op # NoOp /\ op.kind = "resume"
      BY <1>1, <2>5, NoOpTyped DEF PlaceOK
    <3>2. Resume
      BY <1>1, <1>4, <2>5, <3>1, ActsAt
    <3> DEFINE run == ModelRecord("return") \o <<Step("add", {"row"}, "return")>> \o CatchUp(op.id)
    <3>3. Do(op.id, run, "attach") /\ UNCHANGED disk
      BY <1>4, <3>2 DEF Resume, Return
    <3>4. "baseline" \in disk[op.id] \cup WhatOf(run)
      BY BaselineRuns
    <3> HIDE DEF run
    <3>5. op'.id = op.id /\ op'.todo = run /\ op'.kind = "resume"
      BY <1>1, <3>1, <3>3 DEF Do, Ops
    <3>6. "baseline" \in disk[op.id] \cup ToGo'
      BY <3>4, <3>5 DEF ToGo, WhatOf
    <3> QED
      BY <2>5, <3>3, <3>5, <3>6 DEF CreateOK
  <2>6. \/ op'.at \notin {"attach", "failed", "create.undo"}
        \/ OutsideMove /\ op' = op
        \/ UserMove /\ op.at = "create.undo" /\ op'.at = "failed"
        \/ UserMove /\ op.at \in {"create.write", "resume"} /\ op'.at = "attach"
    <3>1. Recovered => op.kind \in Kinds
      <4>1. Recovered => op.at = "recover" /\ op # NoOp
        BY NoOpTyped DEF Recovered, At
      <4> QED
        BY <1>1, <4>1 DEF PlaceOK, Ops
    <3>2. BeginMove => op'.at = "preflight"
      BY DEF BeginMove
    <3>3. StageMove => op'.at \in StageSteps
      BY <1>4 DEF StageMove, Goes, Does, StageSteps
    <3> QED
      BY <1>1, <1>4, <3>1, <3>2, <3>3, QuietTo DEF Kinds, CleanSteps, StageSteps
  <2> QED
    BY <2>1, <2>2, <2>3, <2>4, <2>5, <2>6
<1> QED
  BY <1>2, <1>3, <1>4

\* Recovery rebuilds an index only over a record that no writer leaves.
Repairing(run) == \E k \in DOMAIN run : Clears(run[k], {"baseline"}) \/ Writes(run[k], Slot)

LEMMA PlainScripts == ~Repairing(PublishRecord) /\ ~Repairing(DropRecord)
<1>1. ~Repairing(PublishRecord)
  <2> DEFINE a == Step("add", {"row"}, "return")
             b == Step("add", {"messages"}, "return")
             c == Step("remove", Slot, "return")
             r == <<a, b, c>>
  <2>1. \A x \in {a, b, c} : ~Clears(x, {"baseline"}) /\ ~Writes(x, Slot)
    BY StepEffects DEF Slot
  <2>2. PublishRecord = r
    BY DEF PublishRecord
  <2> HIDE DEF a, b, c
  <2>3. \A k \in DOMAIN r : r[k] \in {a, b, c}
    OBVIOUS
  <2> QED
    BY <2>1, <2>2, <2>3 DEF Repairing
<1>2. ~Repairing(DropRecord)
  <2> DEFINE c == Step("remove", Slot, "return")
             r == <<c>>
  <2>1. ~Clears(c, {"baseline"}) /\ ~Writes(c, Slot)
    BY StepEffects DEF Slot
  <2>2. DropRecord = r
    BY DEF DropRecord
  <2> HIDE DEF c
  <2>3. \A k \in DOMAIN r : r[k] = c
    OBVIOUS
  <2> QED
    BY <2>1, <2>2, <2>3 DEF Repairing
<1> QED
  BY <1>1, <1>2

LEMMA RepairStep == ASSUME LifeInv, PlainOK, Next PROVE RepairOK'
<1> SUFFICES ASSUME op'.at = "recover", Repairing(op'.todo)
             PROVE  life'[op'.job].state # "active"
  BY DEF RepairOK, Repairing
<1>1. TypeInv /\ op \in Ops /\ PlaceOK
  BY DEF LifeInv, TypeInv, OpOK
<1>2. op' # NoOp
  BY NoOpTyped
<1>3. op.at = "recover" /\ Repairing(op.todo) => life[op.job].state # "active"
  BY DEF PlainOK, RepairOK, Repairing
<1>4. CASE TakeStep
  <2> DEFINE step == Head(op.todo)
  <2>1. /\ UNCHANGED life
        /\ \A i \in DOMAIN Tail(op.todo) : i + 1 \in DOMAIN op.todo
                                           /\ Tail(op.todo)[i] = op.todo[i + 1]
        /\ \/ Taken(step) \/ Collected(step) \/ Returned(step)
           \/ Diverted(step) /\ Diversion
    BY <1>1, <1>4, TakeEffect
  <2> HIDE DEF step
  <2>2. op'.job = op.job /\ op'.at = op.at /\ op'.todo = Tail(op.todo)
    BY <1>2, <2>1 DEF Taken, Collected, Returned, Carried, Diversion
  <2>3. Repairing(op.todo)
    BY <2>1, <2>2 DEF Repairing
  <2> QED
    BY <1>3, <2>1, <2>2, <2>3
<1>5. CASE ~TakeStep /\ op' = op
  <2>1. op.todo # <<>>
    BY <1>5 DEF Repairing
  <2>2. op.job \in Ids /\ op # NoOp
    BY <1>1, <1>2, <1>5, <2>1 DEF PlaceOK
  <2> QED
    BY <1>1, <1>3, <1>5, <2>2, OutsideKeeps
<1>6. CASE ~TakeStep /\ Starts
  <2>1. \A s, run, p : Do(s, run, p) => op'.at = p /\ op'.todo = run /\ op'.job = s
    BY <1>1 DEF Do, Ops
  <2>2. CASE ResolveRecord
    <3>1. PICK s \in Recorded : \E script \in Scripts(s) : Do(s, script, "recover")
      BY <2>2 DEF ResolveRecord
    <3>2. PICK script \in Scripts(s) : Do(s, script, "recover")
      BY <3>1
    <3>3. s \in Ids /\ op'.job = s /\ op'.todo = script /\ UNCHANGED life
      BY <2>1, <2>2, <3>2 DEF ResolveRecord, Recorded
    <3>4. script # PublishRecord /\ script # DropRecord
      BY <3>3, PlainScripts
    <3>5. "reconciling" \in disk[s] \/ "oversized" \in disk[s]
      BY <3>2, <3>4 DEF Scripts
    <3> QED
      BY <3>3, <3>5 DEF PlainOK, ActiveOK
  <2>3. CASE ReconcileLegacy
    <3>1. PICK s \in Uncounted : Do(s, Reconcile, "recover")
      BY <2>3 DEF ReconcileLegacy
    <3>2. op'.job = s /\ UNCHANGED life /\ life[s] = Nothing
      BY <2>1, <2>3, <3>1 DEF ReconcileLegacy, Uncounted
    <3> QED
      BY <3>2 DEF Nothing
  <2>4. CASE CreateWrite \/ Resume \/ Fork \/ ForkStaged
    BY <1>2, <2>1, <2>4 DEF CreateWrite, Resume, Fork, ForkStaged, Return
  <2>5. CASE ForkPublish
    <3>1. op'.at \in {"fork.commit", "undo"}
      BY <1>1, <2>5 DEF ForkPublish, Ops
    <3> QED
      BY <3>1
  <2>6. CASE RowsGone \/ RecordsGone
    <3>1. Goto("restore") => op'.at = "restore"
      BY <1>1 DEF Goto, Ops
    <3> QED
      BY <2>1, <2>6, <3>1 DEF RowsGone, RecordsGone
  <2> QED
    BY <1>6, <2>2, <2>3, <2>4, <2>5, <2>6 DEF Starts
<1>7. op'.todo # <<>>
  BY DEF Repairing
<1> QED
  BY <1>1, <1>4, <1>5, <1>6, <1>7, RunsStart DEF Waits, SafeRuns

-----------------------------------------------------------------------------
(* How far a fork has come *)

LEMMA PublicationLast ==
  /\ {"messages", "baseline"} \subseteq WhatOf(Publication)
  /\ \A k \in DOMAIN Publication : Publication[k].verb = "remove" => k = Len(Publication)
<1> DEFINE a == Step("add", {"model"}, "undo")
           b == Step("index", {"row"}, "undo")
           c == Step("add", {"messages"}, "undo")
           d == Step("add", {"baseline"}, "undo")
           e == Step("remove", {"forkmark"}, "undo")
           S == {a, b, c, d, e}
           r == <<a, b, c, d>>
           t == <<e>>
<1>1. Publication = r \o t
  BY DEF Publication, Unmark
<1>2. /\ a.verb = "add" /\ b.verb = "index" /\ c.verb = "add" /\ d.verb = "add"
      /\ c.what = {"messages"} /\ d.what = {"baseline"}
  BY StepFields
<1> HIDE DEF a, b, c, d, e
<1>3. /\ r \in Seq(S) /\ t \in Seq(S) /\ Len(r) = 4 /\ Len(t) = 1 /\ DOMAIN r = 1..4
      /\ r[1] = a /\ r[2] = b /\ r[3] = c /\ r[4] = d
  OBVIOUS
<1> HIDE DEF r, t, S
<1>4. {"messages", "baseline"} \subseteq WhatOf(r)
  BY <1>2, <1>3 DEF WhatOf
<1>5. WhatOf(r \o t) = WhatOf(r) \cup WhatOf(t) /\ r \o t \in Seq(S)
  BY <1>3, RunsJoin
<1>6. /\ Len(r \o t) = 5
      /\ \A k \in 1..4 : (r \o t)[k] = r[k]
  <2>1. /\ Len(r \o t) = Len(r) + Len(t)
        /\ \A i \in 1..Len(r) + Len(t) : (r \o t)[i] = IF i <= Len(r) THEN r[i] ELSE t[i - Len(r)]
    BY <1>3, ConcatProperties
  <2> QED
    BY <1>3, <2>1
<1>7. DOMAIN (r \o t) = 1..5
  BY <1>5, <1>6, LenProperties
<1>8. ASSUME NEW k \in DOMAIN (r \o t), (r \o t)[k].verb = "remove" PROVE k = 5
  <2>1. k \in 1..5
    BY <1>7
  <2>2. CASE k \in 1..4
    <3>1. (r \o t)[k] = r[k]
      BY <1>6, <2>2
    <3>2. r[k].verb # "remove"
      BY <1>2, <1>3, <2>2
    <3> QED
      BY <1>8, <3>1, <3>2
  <2> QED
    BY <2>1, <2>2
<1> QED
  BY <1>1, <1>4, <1>5, <1>6, <1>8

LEMMA TailLength ==
  ASSUME NEW S, NEW todo \in Seq(S), todo # <<>>
  PROVE  /\ Tail(todo) \in Seq(S) /\ Len(todo) = Len(Tail(todo)) + 1
         /\ Len(Tail(todo)) \in Nat /\ (Len(todo) = 1 => Tail(todo) = <<>>)
<1>1. /\ Tail(todo) \in Seq(S) /\ Len(Tail(todo)) = Len(todo) - 1
      /\ Len(todo) \in Nat /\ Len(Tail(todo)) \in Nat
  BY HeadTailProperties, LenProperties
<1> DEFINE t == Tail(todo)
<1>2. t \in Seq(S) /\ (Len(t) = 0 => t = <<>>)
  <2>1. t \in Seq(S)
    BY <1>1
  <2> HIDE DEF t
  <2> QED
    BY <2>1, EmptySeq
<1> QED
  BY <1>1, <1>2

\* A step that is taken is remembered where it wrote the row.
LEMMA TakeIndexed ==
  ASSUME op \in Ops, TakeStep, op' # NoOp
  PROVE  op'.indexed = (op.indexed \/ Head(op.todo).verb = "index")
<1> DEFINE step == Head(op.todo)
           after == [op EXCEPT !.todo = Tail(@),
                               !.indexed = @ \/ step.verb = "index",
                               !.published = @ \cup IF step.verb = "publish"
                                                    THEN step.what ELSE {}]
           failed == [after EXCEPT !.errs = TRUE,
                                   !.todo = IF step.orelse = "collect" THEN @ ELSE <<>>,
                                   !.at = IF step.orelse = "collect" THEN @ ELSE step.orelse]
<1>1. op' = after \/ op' = failed \/ op' = [failed EXCEPT !.published = op.published]
  BY DEF TakeStep, Return
<1>2. after.indexed = (op.indexed \/ step.verb = "index")
  BY DEF Ops
<1>3. DOMAIN after = DOMAIN op
  OBVIOUS
<1> HIDE DEF after
<1>4. failed.indexed = after.indexed
  OBVIOUS
<1>5. [failed EXCEPT !.published = op.published].indexed = failed.indexed
  OBVIOUS
<1> HIDE DEF failed, step
<1> QED
  BY <1>1, <1>2, <1>4, <1>5 DEF step

\* Where a fork goes while a run is taken.
LEMMA TakeStage ==
  ASSUME LifeInv, MarkedOn, StageOK, faults \in Nat, TakeStep, op' # NoOp, op'.at \in StageSteps
  PROVE  StageOK'
<1> DEFINE step == Head(op.todo)
           D == disk[op.id]
           E == disk'[op.id]
<1>1. TypeInv /\ op \in Ops /\ PlaceOK /\ RunOK
  BY DEF LifeInv, TypeInv, OpOK
<1>2. /\ op.at \in RunPlaces /\ op.todo # <<>> /\ UNCHANGED life
      /\ ToGo = step.what \cup WhatOf(Tail(op.todo))
      /\ step = op.todo[1] /\ 1 \in DOMAIN op.todo
      /\ IF step.verb = "remove" THEN Removes(op.job, step.what) ELSE Adds(op.job, step.what)
  BY <1>1, TakeEffect
<1>a. \/ Taken(step) \/ Collected(step) \/ Returned(step)
      \/ Diverted(step) /\ Diversion
  BY <1>1, TakeEffect
<1>3. op'.indexed = (op.indexed \/ step.verb = "index")
  BY <1>1, TakeIndexed
<1>4. ToGo' = WhatOf(op'.todo)
  BY DEF ToGo, WhatOf
<1>5. \A i \in DOMAIN Tail(op.todo) : /\ i + 1 \in DOMAIN op.todo
                                      /\ Tail(op.todo)[i] = op.todo[i + 1]
  BY <1>1, TakeEffect
<1>6. Len(op.todo) = Len(Tail(op.todo)) + 1 /\ Len(Tail(op.todo)) \in Nat
      /\ (Len(op.todo) = 1 => Tail(op.todo) = <<>>)
  <2>1. op.todo \in Seq(Steps)
    BY <1>1 DEF Ops
  <2> QED
    BY <1>2, <2>1, TailLength
<1> HIDE DEF step
<1>7. \/ Taken(step) \/ Collected(step)
      \/ Diverted(step) /\ Diversion
  BY <1>a DEF Returned
<1>8. /\ op'.id = op.id /\ op'.quarantined = op.quarantined
      /\ \/ op'.at = op.at /\ op'.todo = Tail(op.todo)
         \/ Diversion /\ op'.todo = <<>> /\ Diverted(step)
  BY <1>7 DEF Taken, Collected, Diverted, Carried
<1>9. op.at \in StageSteps /\ op.job = op.id
  <2>1. op.at \in StageSteps
    BY <1>8 DEF Diversion, StageSteps
  <2> QED
    BY <1>1, <2>1 DEF PlaceOK
<1>10. /\ step.verb = "remove" => E \subseteq D /\ D \ step.what \subseteq E
       /\ step.verb # "remove" => D \subseteq E /\ E \subseteq D \cup step.what
       /\ Taken(step) => IF step.verb = "remove" THEN step.what \cap E = {} ELSE step.what \subseteq E
  <2>1. step.verb = "remove" => E \subseteq D /\ D \ step.what \subseteq E
    BY <1>2, <1>9 DEF Removes
  <2>2. step.verb # "remove" => D \subseteq E /\ E \subseteq D \cup step.what
    BY <1>2, <1>9 DEF Adds
  <2>3. Taken(step) => IF step.verb = "remove" THEN step.what \cap E = {} ELSE step.what \subseteq E
    BY <1>9 DEF Taken, Known, Carried
  <2> QED
    BY <2>1, <2>2, <2>3
<1>11. /\ op.at = "fork.publish" =>
            /\ step.orelse # "collect"
            /\ \/ step.verb = "remove" /\ step.what \subseteq {"stage"}
               \/ step.verb # "remove" /\ step.verb # "index"
                    /\ step.what \subseteq {"forkmark", "stage", "transcript", "familiar"}
       /\ op.at = "fork.commit" =>
            /\ step.orelse = "undo"
            /\ \/ step.verb = "remove" /\ step.what = {"forkmark"}
               \/ step.verb = "add" /\ step.what \subseteq {"model", "messages", "baseline"}
               \/ step.verb = "index" /\ step.what = {"row"}
       /\ op.at \in Undoing => \/ step.verb = "remove"
                               \/ step.verb = "add" /\ step.what = {"forkmark"}
  BY <1>1, <1>2, FirstStep DEF step, RunPlaces, Undoing
<1>12. op.at \in {"fork.publish", "fork.commit"} \cup Undoing
  BY <1>9 DEF StageSteps, Undoing
<1>13. op.at \in {"fork.publish", "fork.commit"} => Taken(step) \/ (Diverted(step) /\ Diversion)
  BY <1>7, <1>11 DEF Collected
<1>14. /\ op.quarantined => life[op.id] = Quarantine
       /\ ~op.quarantined => D \cap Listing = {} /\ op.at # "fork.commit"
       /\ ~op.indexed => D \cap {"row", "messages"} = {}
  BY <1>9 DEF StageOK
<1>15. ~op.quarantined => E \cap Listing = {}
  BY <1>10, <1>11, <1>12, <1>14 DEF Listing
<1>16. ~op'.indexed => E \cap {"row", "messages"} = {}
  <2> SUFFICES ASSUME ~op'.indexed PROVE E \cap {"row", "messages"} = {}
    OBVIOUS
  <2>1. ~op.indexed /\ step.verb # "index"
    BY <1>3
  <2>2. CASE op.at = "fork.commit"
    <3>1. op.todo \in {Publication, Tail(Publication)}
      BY <2>1, <2>2 DEF MarkedOn
    <3>2. step.verb = "index" \/ step = Step("add", {"model"}, "undo")
      BY <3>1, <1>2, PublicationShape DEF step
    <3>3. step.what = {"model"} /\ step.verb = "add"
      BY <2>1, <3>2, StepFields
    <3> QED
      BY <1>10, <1>14, <2>1, <3>3
  <2>3. CASE op.at # "fork.commit"
    BY <1>10, <1>11, <1>12, <1>14, <2>1, <2>3
  <2> QED
    BY <2>2, <2>3
<1>17. op'.at = "fork.publish" => /\ ~op'.quarantined /\ "transcript" \in E \cup ToGo'
                                  /\ "forkmark" \in E
  <2> SUFFICES ASSUME op'.at = "fork.publish"
               PROVE  /\ ~op.quarantined /\ "transcript" \in E \cup WhatOf(op'.todo)
                      /\ "forkmark" \in E
    BY <1>4, <1>8
  <2>1. op.at = "fork.publish" /\ op'.todo = Tail(op.todo) /\ Taken(step)
    BY <1>8, <1>13 DEF Diversion
  <2>2. ~op.quarantined /\ "transcript" \in D \cup step.what \cup WhatOf(Tail(op.todo))
    BY <1>2, <2>1 DEF StageOK
  <2>3. "transcript" \in E \cup WhatOf(Tail(op.todo))
    BY <1>10, <1>11, <2>1, <2>2
  <2>4. "forkmark" \in D \/ (step.verb = "add" /\ step.what = {"forkmark"})
    <3>1. "forkmark" \in D \/ op.todo = Staging(TRUE) \/ op.todo = Staging(FALSE)
      BY <2>1 DEF StageOK
    <3>2. \A familiar \in BOOLEAN : op.todo = Staging(familiar) =>
            step.verb = "add" /\ step.what = {"forkmark"}
      BY StagingHead DEF step
    <3> QED
      BY <3>1, <3>2
  <2>5. "forkmark" \in E
    BY <1>10, <1>11, <2>1, <2>4
  <2> QED
    BY <2>1, <2>2, <2>3, <2>5
<1>18. op'.at = "fork.commit" =>
         /\ op'.quarantined /\ "transcript" \in E
         /\ {"messages", "baseline"} \subseteq E \cup ToGo'
         /\ op'.todo # <<>> => "forkmark" \in E
         /\ \A k \in DOMAIN op'.todo : op'.todo[k].verb = "remove" => k = Len(op'.todo)
  <2> SUFFICES ASSUME op'.at = "fork.commit"
               PROVE  /\ op.quarantined /\ "transcript" \in E
                      /\ {"messages", "baseline"} \subseteq E \cup WhatOf(op'.todo)
                      /\ op'.todo # <<>> => "forkmark" \in E
                      /\ \A k \in DOMAIN op'.todo :
                            op'.todo[k].verb = "remove" => k = Len(op'.todo)
    BY <1>4, <1>8
  <2>1. op.at = "fork.commit" /\ op'.todo = Tail(op.todo) /\ Taken(step)
    BY <1>8, <1>13 DEF Diversion
  <2>2. /\ op.quarantined /\ "transcript" \in D /\ "forkmark" \in D
        /\ {"messages", "baseline"} \subseteq D \cup step.what \cup WhatOf(Tail(op.todo))
        /\ \A k \in DOMAIN op.todo : op.todo[k].verb = "remove" => k = Len(op.todo)
    BY <1>2, <2>1 DEF StageOK
  <2>3. "transcript" \in E /\ {"messages", "baseline"} \subseteq E \cup WhatOf(Tail(op.todo))
    BY <1>10, <1>11, <2>1, <2>2
  <2>4. Tail(op.todo) # <<>> => "forkmark" \in E
    <3>1. step.verb = "remove" => Len(op.todo) = 1
      BY <1>2, <2>2
    <3> QED
      BY <1>6, <1>10, <2>2, <3>1
  <2>5. ASSUME NEW k \in DOMAIN Tail(op.todo), Tail(op.todo)[k].verb = "remove"
        PROVE  k = Len(Tail(op.todo))
    <3>1. k + 1 = Len(op.todo)
      BY <1>5, <2>2, <2>5
    <3>2. k \in Nat
      <4>1. op.todo \in Seq(Steps)
        BY <1>1 DEF Ops
      <4>2. Tail(op.todo) \in Seq(Steps)
        BY <1>2, <4>1
      <4>3. DOMAIN Tail(op.todo) = 1..Len(Tail(op.todo))
        BY <4>2, LenProperties
      <4> QED
        BY <4>3
    <3> QED
      BY <1>6, <3>1, <3>2
  <2> QED
    BY <2>1, <2>2, <2>3, <2>4, <2>5
<1>19. op'.at \in Undoing => faults' # 0
  <2>1. CASE op.at \in Undoing
    <3>1. faults # 0
      BY <2>1 DEF StageOK
    <3> QED
      BY <1>7, <3>1 DEF Taken, Collected, Diverted, Fault
  <2>2. CASE op.at \notin Undoing
    <3>1. op'.at \in Undoing => Diverted(step)
      BY <1>8, <2>2
    <3> QED
      BY <3>1 DEF Diverted, Fault
  <2> QED
    BY <2>1, <2>2
<1>20. ~op'.errs /\ op'.at \in Undoing =>
         /\ Taken(step) /\ ~op.errs /\ op'.at = op.at /\ op'.todo = Tail(op.todo)
         /\ E \cap Listing \subseteq D
         /\ op.at \in {"undo.index", "undo.files"} => E \cap Listing \cap step.what = {}
  <2> SUFFICES ASSUME ~op'.errs, op'.at \in Undoing
               PROVE  /\ Taken(step) /\ ~op.errs /\ op'.at = op.at /\ op'.todo = Tail(op.todo)
                      /\ E \cap Listing \subseteq D /\ E \cap Listing \cap step.what = {}
    OBVIOUS
  <2>1. Taken(step) /\ ~op.errs /\ op'.at = op.at /\ op'.todo = Tail(op.todo)
    BY <1>7 DEF Taken, Collected, Diverted
  <2>2. step.verb = "remove" \/ step.what = {"forkmark"}
    BY <1>11, <2>1
  <2> QED
    BY <1>10, <2>1, <2>2 DEF Listing
<1>21. ~op'.errs =>
         /\ op'.at = "undo.index" => E \cap {"baseline"} \subseteq ToGo'
         /\ op'.at = "undo.files" => "baseline" \notin E /\ E \cap {"row", "messages"} \subseteq ToGo'
         /\ op'.at \in {"undo.mark", "undo.remark", "undone"} => E \cap Listing = {}
  <2> SUFFICES ASSUME ~op'.errs, op'.at \in Undoing
               PROVE  /\ op.at = "undo.index" => E \cap {"baseline"} \subseteq WhatOf(Tail(op.todo))
                      /\ op.at = "undo.files" =>
                           "baseline" \notin E /\ E \cap {"row", "messages"} \subseteq WhatOf(Tail(op.todo))
                      /\ op.at \in {"undo.mark", "undo.remark", "undone"} => E \cap Listing = {}
    BY <1>4, <1>20 DEF Undoing
  <2>1. /\ ~op.errs /\ E \cap Listing \subseteq D
        /\ op.at \in {"undo.index", "undo.files"} => E \cap Listing \cap step.what = {}
    BY <1>20
  <2>2. op.at = "undo.index" => D \cap {"baseline"} \subseteq step.what \cup WhatOf(Tail(op.todo))
    BY <1>2, <2>1 DEF StageOK
  <2>3. op.at = "undo.files" =>
          "baseline" \notin D /\ D \cap {"row", "messages"} \subseteq step.what \cup WhatOf(Tail(op.todo))
    BY <1>2, <2>1 DEF StageOK
  <2>4. op.at \in {"undo.mark", "undo.remark", "undone"} => D \cap Listing = {}
    BY <2>1 DEF StageOK
  <2> QED
    BY <2>1, <2>2, <2>3, <2>4 DEF Listing
<1>22. /\ op'.quarantined => life'[op'.id] = Quarantine
       /\ ~op'.quarantined => disk'[op'.id] \cap Listing = {}
       /\ ~op'.indexed => disk'[op'.id] \cap {"row", "messages"} = {}
  BY <1>2, <1>8, <1>14, <1>15, <1>16
<1> QED
  BY <1>8, <1>17, <1>18, <1>19, <1>21, <1>22 DEF StageOK

\* Only the publication of a fork quarantines it for the operation.
LEMMA QuarantinedFrom ==
  ASSUME op \in Ops, Next, ~TakeStep
  PROVE  op'.quarantined = op.quarantined \/ op'.quarantined = FALSE \/ op.at = "fork.publish"
<1> DEFINE Same == op'.quarantined = op.quarantined \/ op'.quarantined = FALSE
<1>1. Return => Same
  BY DEF Return, NoOp
<1>2. \A p : Goto(p) => Same
  BY DEF Goto, Ops
<1>3. \A s, m, b : Clean(s, m, b) => Same
  BY DEF Clean, Ops
<1>4. \A s, steps, p : Do(s, steps, p) \/ Then(steps, p) => Same
  BY DEF Do, Then, Ops
<1>5. \A s, b : BeginDeletion(s, b) \/ BeginReuse(s, b) => Same
  BY <1>1, <1>3 DEF BeginDeletion, BeginReuse
<1>6. CASE EnsureMarker \/ RecordsGone \/ RowsGone \/ FilesGone \/ Restore \/ Cleaned
  BY <1>1, <1>2, <1>4, <1>6 DEF EnsureMarker, RecordsGone, RowsGone, FilesGone, Restore, Cleaned
<1>7. CASE \/ Preflight \/ RecoverMarked \/ RefuseRecord \/ DeleteUnpublished \/ DeleteGhost
           \/ Recovered \/ ResolveRecord \/ ReconcileLegacy
  BY <1>1, <1>2, <1>3, <1>4, <1>5, <1>7
     DEF Preflight, RecoverMarked, RefuseRecord, DeleteUnpublished, DeleteGhost, Recovered,
         ResolveRecord, ReconcileLegacy
<1>8. CASE List \/ Delete \/ Deleted \/ Create \/ CreateUndo \/ Failed \/ Attach
  BY <1>1, <1>2, <1>4, <1>5, <1>8
     DEF List, Delete, Deleted, Create, CreateUndo, Failed, Attach
<1>9. CASE ForkId \/ ForkCommit \/ CreateWrite \/ Resume \/ Fork \/ ForkStaged
  BY <1>1, <1>2, <1>4, <1>5, <1>9 DEF ForkId, ForkCommit, CreateWrite, Resume, Fork, ForkStaged
<1>10. CASE Undo \/ UndoIndex \/ UndoFiles \/ UndoMark \/ UndoRemark \/ Undone
  <2>1. CASE Undo
    <3>1. /\ [op EXCEPT !.at = "undone", !.errs = TRUE].quarantined = op.quarantined
          /\ [op EXCEPT !.dropped = TRUE].quarantined = op.quarantined
      BY DEF Ops
    <3> QED
      BY <1>1, <1>4, <2>1, <3>1 DEF Undo
  <2> QED
    BY <1>1, <1>4, <1>10, <2>1 DEF UndoIndex, UndoFiles, UndoMark, UndoRemark, Undone
<1>11. CASE BeginAny
  <2>1. \A k, s, src : Begin(k, s, src) => op'.quarantined = FALSE
    BY DEF Begin, NoOp
  <2> QED
    BY <1>11, <2>1 DEF BeginAny
<1>12. CASE \E h \in Handles : Persist(h) \/ GoalWrite(h) \/ DropHandle(h)
  BY <1>12 DEF Persist, GoalWrite, DropHandle
<1>13. CASE Crash \/ PowerLoss
  BY <1>13 DEF Crash, PowerLoss, Restart, NoOp
<1>14. CASE ForkPublish
  BY <1>14 DEF ForkPublish, At
<1> QED
  BY <1>6, <1>7, <1>8, <1>9, <1>10, <1>11, <1>12, <1>13, <1>14 DEF Next, Working

\* Outside a fork nothing is quarantined by it.
LEMMA UnstagedOK ==
  ASSUME LifeInv, StageOK, Next, op'.at \notin StageSteps
  PROVE  StageOK'
<1>1. TypeInv /\ op \in Ops
  BY DEF LifeInv, TypeInv, OpOK
<1>2. ~op'.quarantined
  <2>1. CASE op' = NoOp
    BY <2>1 DEF NoOp
  <2>2. CASE TakeStep /\ op' # NoOp
    <3> DEFINE step == Head(op.todo)
    <3>1. \/ Taken(step) \/ Collected(step) \/ Returned(step)
          \/ Diverted(step) /\ Diversion
      BY <1>1, <2>2, TakeEffect
    <3> HIDE DEF step
    <3>2. op'.quarantined = op.quarantined /\ (op'.at = op.at \/ Diversion)
      BY <2>2, <3>1 DEF Taken, Collected, Returned, Diverted, Carried
    <3>3. op.at \notin StageSteps
      BY <3>2 DEF Diversion, StageSteps
    <3> QED
      BY <3>2, <3>3 DEF StageOK
  <2>3. CASE ~TakeStep /\ op' # NoOp
    <3>1. op.at \notin StageSteps
      <4>1. CASE OutsideMove
        BY <2>3, <4>1 DEF OutsideMove
      <4>2. CASE StageMove
        BY <2>3, <4>2 DEF StageMove, Goes, Does, StageSteps
      <4>3. CASE UserMove
        BY <2>3, <4>3 DEF UserMove, StageSteps
      <4>4. CASE RecoverMove \/ Recovered
        BY <4>4 DEF RecoverMove, Recovered, At, StageSteps
      <4>5. CASE BeginMove
        BY <4>5, NoOpTyped DEF BeginMove, StageSteps
      <4>6. CASE CleanMove /\ op.at \in CleanSteps
        BY <4>6 DEF CleanSteps, StageSteps
      <4> QED
        BY <1>1, <2>3, <4>1, <4>2, <4>3, <4>4, <4>5, <4>6, QuietMoves
    <3>2. ~op.quarantined /\ op.at # "fork.publish"
      BY <3>1 DEF StageOK, StageSteps
    <3> QED
      BY <1>1, <2>3, <3>2, QuarantinedFrom
  <2> QED
    BY <2>1, <2>2, <2>3
<1> QED
  BY <1>2 DEF StageOK, StageSteps, Undoing

\* The runs that begin and end a fork, and that undo one.
LEMMA StageRuns ==
  ASSUME op \in Ops
  PROVE  /\ Publication \in Seq(Steps) /\ \A f \in BOOLEAN : Staging(f) # <<>>
         /\ "baseline" \in WhatOf(Records)
         /\ op.indexed => {"row", "messages"} \subseteq WhatOf(Unindexing)
<1>1. Publication \in Seq(Steps)
  BY PublicationShape, ForkRuns
<1>2. \A f \in BOOLEAN : Staging(f) # <<>>
  <2>1. WhatOf(<<>>) = {}
    BY DEF WhatOf
  <2> QED
    BY <2>1, ForkRuns
<1>3. "baseline" \in WhatOf(Records)
  BY RecordsRun DEF RecordArts
<1>4. op.indexed => {"row", "messages"} \subseteq WhatOf(Unindexing)
  <2> DEFINE s1 == Step("add", {"forkmark"}, "collect")
             s2 == Step("remove", {"row", "messages"}, "undone")
             a == <<s1, s2>>
  <2>1. s2.what = {"row", "messages"}
    BY StepFields
  <2>2. op.indexed => Unindexing = a
    BY DEF Unindexing, When
  <2> HIDE DEF s1, s2
  <2>3. WhatOf(a) = s1.what \cup s2.what
    BY DEF WhatOf
  <2> HIDE DEF a
  <2> QED
    BY <2>1, <2>2, <2>3
<1> QED
  BY <1>1, <1>2, <1>3, <1>4

\* What is left alone at a place.
LEMMA StayStage ==
  ASSUME StageOK, op' = op, life' = life, op.id \in Ids, Keeps(op.id),
         op.at \in StageSteps, faults # 0 => faults' # 0
  PROVE  StageOK'
<1> DEFINE D == disk[op.id]
           E == disk'[op.id]
<1>1. D \subseteq E /\ E \cap (Listing \cup {"transcript"}) = D \cap (Listing \cup {"transcript"})
  BY DEF Keeps, Markers, Listing
<1>2. op'.id = op.id /\ ToGo' = ToGo
  BY DEF ToGo
<1>3. /\ op.quarantined => life[op.id] = Quarantine
      /\ ~op.quarantined => D \cap Listing = {}
      /\ ~op.indexed => D \cap {"row", "messages"} = {}
  BY DEF StageOK
<1>4. /\ ~op.quarantined => E \cap Listing = {}
      /\ ~op.indexed => E \cap {"row", "messages"} = {}
  BY <1>1, <1>3 DEF Listing
<1>5. op.at = "fork.publish" =>
        /\ ~op.quarantined /\ "transcript" \in E \cup ToGo
        /\ "forkmark" \in E \/ op.todo \in {Staging(TRUE), Staging(FALSE)}
  BY <1>1 DEF StageOK
<1>6. op.at = "fork.commit" =>
        /\ op.quarantined /\ "transcript" \in E
        /\ {"messages", "baseline"} \subseteq E \cup ToGo
        /\ op.todo # <<>> => "forkmark" \in E
        /\ \A k \in DOMAIN op.todo : op.todo[k].verb = "remove" => k = Len(op.todo)
  BY <1>1 DEF StageOK
<1>7. op.at \in Undoing => faults' # 0
  BY DEF StageOK
<1>8. ~op.errs =>
        /\ op.at = "undo.index" => E \cap {"baseline"} \subseteq ToGo
        /\ op.at = "undo.files" => "baseline" \notin E /\ E \cap {"row", "messages"} \subseteq ToGo
        /\ op.at \in {"undo.mark", "undo.remark", "undone"} => E \cap Listing = {}
  <2> SUFFICES ASSUME ~op.errs
               PROVE  /\ op.at = "undo.index" => E \cap {"baseline"} \subseteq ToGo
                      /\ op.at = "undo.files" =>
                           "baseline" \notin E /\ E \cap {"row", "messages"} \subseteq ToGo
                      /\ op.at \in {"undo.mark", "undo.remark", "undone"} => E \cap Listing = {}
    OBVIOUS
  <2>1. /\ op.at = "undo.index" => D \cap {"baseline"} \subseteq ToGo
        /\ op.at = "undo.files" => "baseline" \notin D /\ D \cap {"row", "messages"} \subseteq ToGo
        /\ op.at \in {"undo.mark", "undo.remark", "undone"} => D \cap Listing = {}
    BY DEF StageOK
  <2> QED
    BY <1>1, <2>1 DEF Listing
<1> QED
  BY <1>2, <1>3, <1>4, <1>5, <1>6, <1>7, <1>8 DEF StageOK

\* A fork is being undone.
LEMMA UndoingStage ==
  ASSUME faults' # 0, op'.at \in Undoing, op'.id = op.id, UNCHANGED disk,
         op'.quarantined = op.quarantined, op'.indexed = op.indexed,
         op.quarantined => life'[op.id] = Quarantine,
         ~op.quarantined => disk[op.id] \cap Listing = {},
         ~op.indexed => disk[op.id] \cap {"row", "messages"} = {},
         ~op'.errs =>
           /\ op'.at = "undo.index" => disk[op.id] \cap {"baseline"} \subseteq ToGo'
           /\ op'.at = "undo.files" =>
                "baseline" \notin disk[op.id] /\ disk[op.id] \cap {"row", "messages"} \subseteq ToGo'
           /\ op'.at \in {"undo.mark", "undo.remark", "undone"} => disk[op.id] \cap Listing = {}
  PROVE  StageOK'
BY DEF StageOK, Undoing, StageSteps

\* Where a fork goes between its runs.
LEMMA QuietStage ==
  ASSUME LifeInv, StageOK, faults \in Nat, Next, ~TakeStep, op'.at \in StageSteps
  PROVE  StageOK'
<1> DEFINE D == disk[op.id]
<1>1. TypeInv /\ op \in Ops /\ PlaceOK
  BY DEF LifeInv, TypeInv, OpOK
<1>2. op' # NoOp
  BY NoOpTyped DEF StageSteps
<1>3. faults # 0 => faults' # 0
  BY FaultsStep DEF Fault
<1>4. /\ \A s, run, p : Do(s, run, p) =>
           /\ op'.at = p /\ op'.todo = run /\ op'.id = op.id /\ op'.errs = FALSE
           /\ op'.quarantined = op.quarantined /\ op'.indexed = op.indexed
      /\ \A run, p : Then(run, p) =>
           /\ op'.at = p /\ op'.todo = run /\ op'.id = op.id /\ op'.errs = op.errs
           /\ op'.quarantined = op.quarantined /\ op'.indexed = op.indexed
  BY <1>1 DEF Do, Then, Ops
<1>5. ToGo' = WhatOf(op'.todo)
  BY DEF ToGo, WhatOf
<1>6. CASE op' = op /\ UNCHANGED life
  <2>1. op.id \in Ids /\ op # NoOp
    BY <1>1, <1>2, <1>6 DEF PlaceOK, ForkSteps
  <2>2. Keeps(op.id)
    BY <1>1, <1>6, <2>1, OutsideKeeps
  <2> QED
    BY <1>3, <1>6, <2>1, <2>2, StayStage
<1>7. CASE ForkStaged
  <2>1. HasFamiliar(op.src) \in BOOLEAN /\ Do(op.id, Staging(HasFamiliar(op.src)), "fork.publish")
    BY <1>7 DEF HasFamiliar, ForkStaged
  <2>2. /\ op'.at = "fork.publish" /\ op'.todo \in {Staging(TRUE), Staging(FALSE)}
        /\ "transcript" \in WhatOf(op'.todo) /\ op'.id = op.id
        /\ op'.quarantined = op.quarantined
    BY <1>4, <2>1, ForkRuns
  <2>3. UNCHANGED disk /\ D \subseteq {"goal"} /\ ~op.quarantined
    BY <1>7 DEF ForkStaged, At, LifeInv, NewOK, StageOK, StageSteps
  <2> QED
    BY <1>5, <2>2, <2>3 DEF StageOK, Listing, Undoing
<1>8. CASE op.at \in StageSteps
  <2>1. /\ op.quarantined => life[op.id] = Quarantine
        /\ ~op.quarantined => D \cap Listing = {}
        /\ ~op.indexed => D \cap {"row", "messages"} = {}
    BY <1>8 DEF StageOK
  <2>2. op.id \in Ids
    BY <1>1, <1>8 DEF PlaceOK, ForkSteps, Places, StageSteps
  <2>3. life \in [Ids -> {Nothing, Tombstone, Quarantine} \cup {Active(g) : g \in Gens}]
    BY <1>1 DEF TypeInv, TypeOK
  <2>4. CASE ForkPublish
    <3>1. /\ op.todo = <<>> /\ op.at = "fork.publish" /\ UNCHANGED disk
          /\ life'[op.id] = Quarantine
      BY <2>2, <2>3, <2>4 DEF ForkPublish, At
    <3>2. /\ "transcript" \in D \cup ToGo
          /\ "forkmark" \in D \/ op.todo \in {Staging(TRUE), Staging(FALSE)}
      BY <3>1 DEF StageOK
    <3>3. "transcript" \in D /\ "forkmark" \in D
      <4>1. ToGo = {}
        BY <3>1, NothingToDo
      <4>2. op.todo # Staging(TRUE) /\ op.todo # Staging(FALSE)
        BY <1>1, <3>1, StageRuns
      <4> QED
        BY <3>2, <4>1, <4>2
    <3>4. op'.id = op.id /\ op'.quarantined = TRUE /\ op'.indexed = op.indexed /\ op'.errs = op.errs
      BY <1>1, <2>4 DEF ForkPublish, Ops
    <3>5. \/ op'.at = "fork.commit" /\ op'.todo = Publication
          \/ op'.at = "undo" /\ Fault
      BY <1>1, <2>4 DEF ForkPublish, Ops
    <3>6. op'.at = "undo" => faults' # 0
      BY <3>5 DEF Fault
    <3>7. CASE op'.at = "undo"
      BY <2>1, <3>1, <3>4, <3>6, <3>7 DEF StageOK, Undoing
    <3>8. CASE op'.at = "fork.commit" /\ op'.todo = Publication
      <4>1. {"messages", "baseline"} \subseteq ToGo'
        BY <1>5, <3>8, PublicationLast
      <4>2. \A k \in DOMAIN op'.todo : op'.todo[k].verb = "remove" => k = Len(op'.todo)
        BY <3>8, PublicationLast
      <4> QED
        BY <2>1, <3>1, <3>3, <3>4, <3>8, <4>1, <4>2 DEF StageOK, Undoing
    <3> QED
      BY <3>5, <3>7, <3>8
  <2>5. CASE Undo
    <3>1. op.at = "undo" /\ UNCHANGED disk /\ faults # 0
      BY <2>5 DEF Undo, At, StageOK, Undoing
    <3>2. /\ op'.id = op.id /\ op'.quarantined = op.quarantined /\ op'.indexed = op.indexed
          /\ \/ op'.at = "undone" /\ op'.errs
             \/ op'.at = "undo.index" /\ op'.todo = Records
             \/ op'.at = "undo"
      <4>1. /\ [op EXCEPT !.at = "undone", !.errs = TRUE].quarantined = op.quarantined
            /\ [op EXCEPT !.at = "undone", !.errs = TRUE].id = op.id
            /\ [op EXCEPT !.at = "undone", !.errs = TRUE].indexed = op.indexed
            /\ [op EXCEPT !.at = "undone", !.errs = TRUE].at = "undone"
            /\ [op EXCEPT !.at = "undone", !.errs = TRUE].errs = TRUE
            /\ [op EXCEPT !.dropped = TRUE].quarantined = op.quarantined
            /\ [op EXCEPT !.dropped = TRUE].id = op.id
            /\ [op EXCEPT !.dropped = TRUE].indexed = op.indexed
            /\ [op EXCEPT !.dropped = TRUE].at = op.at
        BY <1>1 DEF Ops
      <4>2. \/ op' = [op EXCEPT !.at = "undone", !.errs = TRUE]
            \/ op' = [op EXCEPT !.dropped = TRUE]
            \/ Do(op.id, Records, "undo.index")
        BY <1>2, <2>5 DEF Undo, Return
      <4>3. Do(op.id, Records, "undo.index") =>
              /\ op'.id = op.id /\ op'.quarantined = op.quarantined /\ op'.indexed = op.indexed
              /\ op'.at = "undo.index" /\ op'.todo = Records
        BY <1>4
      <4> QED
        BY <3>1, <4>1, <4>2, <4>3
    <3>3. op.quarantined => life'[op.id] = Quarantine
      <4>1. life' = life \/ (op.quarantined /\ life' = [life EXCEPT ![op.id] = Quarantine])
             \/ ~op.quarantined
        BY <2>5 DEF Undo
      <4> QED
        BY <2>1, <2>2, <2>3, <4>1
    <3>4. op'.at = "undo.index" => "baseline" \in ToGo'
      BY <1>1, <1>5, <3>2, StageRuns
    <3>5. op'.at \in Undoing /\ faults' # 0
      BY <1>3, <3>1, <3>2 DEF Undoing
    <3>6. ~op'.errs => op'.at \in {"undo", "undo.index"}
      BY <3>2
    <3> QED
      BY <2>1, <3>1, <3>2, <3>3, <3>4, <3>5, <3>6, UndoingStage
  <2>6. CASE UndoIndex
    <3>1. /\ op.at = "undo.index" /\ op.todo = <<>> /\ UNCHANGED <<disk, life>>
          /\ Then(Unindexing, "undo.files") /\ faults # 0
      BY <2>6 DEF UndoIndex, At, StageOK, Undoing, Unindexing
    <3>2. ~op.errs => "baseline" \notin D
      <4>1. ToGo = {}
        BY <3>1, NothingToDo
      <4>2. ~op.errs => D \cap {"baseline"} \subseteq ToGo
        BY <3>1 DEF StageOK
      <4> QED
        BY <4>1, <4>2
    <3>3. op.indexed => {"row", "messages"} \subseteq ToGo'
      BY <1>1, <1>4, <1>5, <3>1, StageRuns
    <3>4. /\ op'.at = "undo.files" /\ op'.id = op.id /\ op'.errs = op.errs
          /\ op'.quarantined = op.quarantined /\ op'.indexed = op.indexed
      BY <1>4, <3>1
    <3>5. ~op.errs => "baseline" \notin D /\ D \cap {"row", "messages"} \subseteq ToGo'
      BY <2>1, <3>2, <3>3
    <3>6. op'.at \in Undoing /\ faults' # 0
      BY <1>3, <3>1, <3>4 DEF Undoing
    <3>7. op.quarantined => life'[op.id] = Quarantine
      BY <2>1, <3>1
    <3> QED
      BY <2>1, <3>1, <3>4, <3>5, <3>6, <3>7, UndoingStage
  <2>7. CASE UndoFiles
    <3>1. /\ op.at = "undo.files" /\ op.todo = <<>> /\ UNCHANGED <<disk, life>>
          /\ Then(Unpublishing, "undo.mark") /\ faults # 0
      BY <2>7 DEF UndoFiles, At, StageOK, Undoing, Unpublishing
    <3>2. ~op.errs => D \cap Listing = {}
      <4>1. ToGo = {}
        BY <3>1, NothingToDo
      <4>2. ~op.errs => "baseline" \notin D /\ D \cap {"row", "messages"} \subseteq ToGo
        BY <3>1 DEF StageOK
      <4> QED
        BY <4>1, <4>2 DEF Listing
    <3>4. /\ op'.at = "undo.mark" /\ op'.id = op.id /\ op'.errs = op.errs
          /\ op'.quarantined = op.quarantined /\ op'.indexed = op.indexed
      BY <1>4, <3>1
    <3>6. op'.at \in Undoing /\ faults' # 0
      BY <1>3, <3>1, <3>2, <3>4 DEF Undoing
    <3>7. op.quarantined => life'[op.id] = Quarantine
      BY <2>1, <3>1, <3>2
    <3> QED
      BY <2>1, <3>1, <3>2, <3>4, <3>6, <3>7, UndoingStage
  <2>8. CASE UndoMark \/ UndoRemark
    <3>1. PICK run : Then(run, "undone")
      BY <2>8 DEF UndoMark, UndoRemark
    <3>2. /\ op.at \in {"undo.mark", "undo.remark"} /\ UNCHANGED <<disk, life>> /\ faults # 0
          /\ ~op.errs => D \cap Listing = {}
      BY <2>8 DEF UndoMark, UndoRemark, At, StageOK, Undoing
    <3>4. /\ op'.at = "undone" /\ op'.id = op.id /\ op'.errs = op.errs
          /\ op'.quarantined = op.quarantined /\ op'.indexed = op.indexed
      BY <1>4, <3>1
    <3>6. op'.at \in Undoing /\ faults' # 0
      BY <1>3, <3>1, <3>2, <3>4 DEF Undoing
    <3>7. op.quarantined => life'[op.id] = Quarantine
      BY <2>1, <3>1, <3>2
    <3> QED
      BY <2>1, <3>1, <3>2, <3>4, <3>6, <3>7, UndoingStage
  <2>9. CASE Undone
    BY <1>2, <2>9 DEF Undone, Return
  <2>10. CASE op.at = "fork.commit"
    <3>1. op # NoOp /\ (ForkCommit => op' = NoOp)
      BY <2>10, NoOpTyped DEF ForkCommit, Return
    <3> QED
      BY <1>1, <1>2, <1>6, <2>10, <3>1, ActsAt
  <2> QED
    BY <1>1, <1>2, <1>6, <1>8, <2>4, <2>5, <2>6, <2>7, <2>8, <2>9, <2>10, ActsAt, NoOpTyped DEF StageSteps
<1>9. op.at \in StageSteps \/ ForkStaged \/ (op' = op /\ UNCHANGED life)
  <2>1. CASE OutsideMove /\ op' = op
    BY <1>2, <2>1 DEF OutsideMove, PersistMove
  <2>2. CASE UserMove /\ op.at = "fork.stage"
    <3>1. op # NoOp
      BY <2>2, NoOpTyped
    <3> QED
      BY <1>1, <1>2, <2>2, <3>1, ActsAt
  <2>3. CASE StageMove
    BY <2>3 DEF StageMove
  <2>4. Recovered => op.kind \in Kinds
    <3>1. Recovered => op.at = "recover" /\ op # NoOp
      BY NoOpTyped DEF Recovered, At
    <3> QED
      BY <1>1, <3>1 DEF PlaceOK, Ops
  <2>5. BeginMove => op'.at = "preflight"
    BY DEF BeginMove
  <2> QED
    BY <1>1, <1>2, <2>1, <2>2, <2>3, <2>4, <2>5, QuietTo DEF Kinds, CleanSteps, StageSteps
<1> QED
  BY <1>6, <1>7, <1>8, <1>9

LEMMA StageStep == ASSUME LifeInv, MarkedOn, PlainOK, faults \in Nat, Next PROVE StageOK'
<1>1. StageOK
  BY DEF PlainOK
<1>2. CASE op'.at \notin StageSteps
  BY <1>1, <1>2, UnstagedOK
<1>3. CASE op'.at \in StageSteps /\ TakeStep
  <2>1. op' # NoOp
    BY <1>3, NoOpTyped DEF StageSteps
  <2> QED
    BY <1>1, <1>3, <2>1, TakeStage
<1>4. CASE op'.at \in StageSteps /\ ~TakeStep
  BY <1>1, <1>4, QuietStage
<1> QED
  BY <1>2, <1>3, <1>4

LEMMA PlainStep ==
  ASSUME LifeInv, MarkedOn, PlainOK, faults \in Nat, Next
  PROVE  PlainOK'
<1>1. SlotsOK
  BY DEF PlainOK
<1> QED
  BY <1>1, ActiveStep, SlotsStep, ListStep, CreateStep, RepairStep, StageStep DEF PlainOK

-----------------------------------------------------------------------------
(* Runs that keep a session whole *)

LEMMA BareRest ==
  ASSUME NEW D, D \cap {"row", "messages", "transcript", "record"} = {} PROVE RestOK(D)
BY DEF RestOK

\* What the first step of such a run leaves, done or cut off.
LEMMA OrderedHead ==
  ASSUME NEW todo \in Seq(Steps), todo # <<>>, NEW D, NEW E, RestOK(D), Ordered(todo, D),
         "transcript" \in D \/ Head(todo).verb = "remove",
         "transcript" \in D => "transcript" \in E,
         Head(todo).verb = "remove" => E \subseteq D /\ D \ Head(todo).what \subseteq E,
         Head(todo).verb # "remove" => D \subseteq E /\ E \subseteq D \cup Head(todo).what
  PROVE  RestOK(E)
<1> DEFINE h == Head(todo)
<1>1. 1 \in DOMAIN todo /\ h = todo[1]
  BY RunShrinks
<1>2. /\ Writes(h, {"baseline"}) => Held(todo, 1, D, {"messages"})
      /\ Clears(h, Slot) => IF "transcript" \in D THEN Held(todo, 1, D, {"messages"})
                                                  ELSE "row" \notin D
      /\ Clears(h, {"messages"}) => Held(todo, 1, D, Slot) /\ ~Clears(h, Slot)
      /\ Writes(h, Slot) => h.what \cap Slot = {"reconciling"} /\ "record" \notin D
  BY <1>1 DEF Ordered
<1>3. /\ Writes(h, {"baseline"}) => "messages" \in D
      /\ Clears(h, Slot) => IF "transcript" \in D THEN "messages" \in D ELSE "row" \notin D
      /\ Clears(h, {"messages"}) => D \cap Slot # {} /\ ~Clears(h, Slot)
  <2>1. \A A : Held(todo, 1, D, A) => D \cap A # {}
    BY HeldNow
  <2>2. Held(todo, 1, D, {"messages"}) => "messages" \in D
    BY <2>1
  <2>3. Held(todo, 1, D, Slot) => D \cap Slot # {}
    BY <2>1
  <2> QED
    BY <1>2, <2>2, <2>3
<1>4. /\ h.verb = "remove" => E \subseteq D /\ D \ h.what \subseteq E
      /\ h.verb # "remove" => D \subseteq E /\ E \subseteq D \cup h.what
      /\ "transcript" \in D \/ h.verb = "remove"
  OBVIOUS
<1> HIDE DEF h
<1>5. /\ {"row", "messages"} \subseteq D /\ "transcript" \notin D => "oversized" \in D
      /\ "baseline" \in D /\ D \cap Slot = {} /\ D \cap {"row", "transcript"} # {} => "messages" \in D
      /\ "record" \in D => D \cap {"oversized", "reconciling"} = {}
  BY DEF RestOK
<1>6. CASE h.verb = "remove"
  <2>1. {"row", "messages"} \subseteq E /\ "transcript" \notin E => "oversized" \in E
    BY <1>3, <1>4, <1>5, <1>6 DEF Clears, Slot
  <2>2. ASSUME "baseline" \in E, E \cap Slot = {}, E \cap {"row", "transcript"} # {}
        PROVE  "messages" \in E
    <3>1. "baseline" \in D /\ D \cap {"row", "transcript"} # {}
      BY <1>4, <1>6, <2>2
    <3>2. CASE D \cap Slot = {}
      BY <1>3, <1>4, <1>5, <1>6, <3>1, <3>2 DEF Clears
    <3>3. CASE D \cap Slot # {}
      <4>1. Clears(h, Slot)
        BY <1>4, <1>6, <2>2, <3>3 DEF Clears
      <4>2. "messages" \in D
        BY <1>3, <3>1, <4>1
      <4> QED
        BY <1>3, <1>4, <1>6, <4>1, <4>2 DEF Clears
    <3> QED
      BY <3>2, <3>3
  <2>3. "record" \in E => E \cap {"oversized", "reconciling"} = {}
    BY <1>4, <1>5, <1>6
  <2> QED
    BY <2>1, <2>2, <2>3 DEF RestOK
<1>7. CASE h.verb # "remove"
  <2>1. "transcript" \in E
    BY <1>4, <1>7
  <2>2. "baseline" \in E /\ E \cap Slot = {} => "messages" \in E
    <3>1. E \cap Slot = {} => D \cap Slot = {}
      BY <1>4, <1>7
    <3>2. "baseline" \in E => "baseline" \in D \/ Writes(h, {"baseline"})
      BY <1>4, <1>7 DEF Writes
    <3> QED
      BY <1>3, <1>4, <1>5, <1>7, <3>1, <3>2
  <2>3. "record" \in E => E \cap {"oversized", "reconciling"} = {}
    <3>1. CASE Writes(h, Slot)
      BY <1>2, <1>4, <1>7, <3>1 DEF Slot
    <3>2. CASE ~Writes(h, Slot)
      <4>1. E \cap Slot = D \cap Slot
        BY <1>4, <1>7, <3>2 DEF Writes
      <4> QED
        BY <1>5, <4>1 DEF Slot
    <3> QED
      BY <3>1, <3>2
  <2> QED
    BY <2>1, <2>2, <2>3 DEF RestOK
<1> QED
  BY <1>6, <1>7

LEMMA OrderedOn ==
  ASSUME NEW todo \in Seq(Steps), todo # <<>>, NEW D, NEW E, Ordered(todo, D),
         "transcript" \in D \/ Head(todo).verb = "remove",
         "transcript" \in D <=> "transcript" \in E,
         Head(todo).verb = "remove" => E \subseteq D /\ D \ Head(todo).what \subseteq E,
         Head(todo).verb # "remove" => /\ D \cup Head(todo).what \subseteq E
                                       /\ E \subseteq D \cup Head(todo).what
  PROVE  Ordered(Tail(todo), E)
<1> DEFINE h == Head(todo)
           t == Tail(todo)
<1>1. \A A : D \cap A # {} /\ ~Clears(h, A) => E \cap A # {}
  BY DEF Clears
<1>2. \A A : Writes(h, A) => E \cap A # {}
  BY DEF Writes
<1>3. \A k \in DOMAIN t : k \in Nat /\ k # 0 /\ k + 1 \in DOMAIN todo /\ t[k] = todo[k + 1]
  <2>1. t \in Seq(Steps)
    BY RunShrinks
  <2>2. DOMAIN t = 1..Len(t) /\ Len(t) \in Nat
    BY <2>1, LenProperties
  <2>3. \A k \in DOMAIN t : k + 1 \in DOMAIN todo /\ t[k] = todo[k + 1]
    BY RunShrinks
  <2> QED
    BY <2>2, <2>3
<1>4. ASSUME NEW k \in DOMAIN t, NEW A, Held(todo, k + 1, D, A) PROVE Held(t, k, E, A)
  BY <1>1, <1>2, <1>3, <1>4, HeldOn
<1>5. "record" \notin D => "record" \notin E
  <2>1. 1 \in DOMAIN todo /\ h = todo[1]
    BY RunShrinks
  <2>2. Writes(h, Slot) => h.what \cap Slot = {"reconciling"}
    BY <2>1 DEF Ordered
  <2>3. h.verb # "remove" => "record" \notin h.what
    BY <2>2 DEF Writes, Slot
  <2> QED
    BY <2>3
<1>6. "transcript" \notin D /\ "row" \notin D => "row" \notin E
  OBVIOUS
<1> HIDE DEF t, h
<1>7. ASSUME NEW k \in DOMAIN t
      PROVE  /\ Writes(t[k], {"baseline"}) => Held(t, k, E, {"messages"})
             /\ Clears(t[k], Slot) => IF "transcript" \in E THEN Held(t, k, E, {"messages"})
                                                            ELSE "row" \notin E
             /\ Clears(t[k], {"messages"}) => Held(t, k, E, Slot) /\ ~Clears(t[k], Slot)
             /\ Writes(t[k], Slot) => t[k].what \cap Slot = {"reconciling"} /\ "record" \notin E
  <2>1. k + 1 \in DOMAIN todo /\ t[k] = todo[k + 1]
    BY <1>3
  <2>2. /\ Held(todo, k + 1, D, {"messages"}) => Held(t, k, E, {"messages"})
        /\ Held(todo, k + 1, D, Slot) => Held(t, k, E, Slot)
    BY <1>4
  <2>3. /\ Writes(t[k], {"baseline"}) => Held(todo, k + 1, D, {"messages"})
        /\ Clears(t[k], Slot) => IF "transcript" \in D THEN Held(todo, k + 1, D, {"messages"})
                                                       ELSE "row" \notin D
        /\ Clears(t[k], {"messages"}) => Held(todo, k + 1, D, Slot) /\ ~Clears(t[k], Slot)
        /\ Writes(t[k], Slot) => t[k].what \cap Slot = {"reconciling"} /\ "record" \notin D
    BY <2>1 DEF Ordered
  <2> QED
    BY <1>5, <1>6, <2>2, <2>3
<1> QED
  BY <1>7 DEF Ordered, t

LEMMA OrderedGrows ==
  ASSUME NEW todo, NEW D, NEW E, D \subseteq E, E \subseteq D \cup Markers \cup {"goal"},
         Ordered(todo, D)
  PROVE  Ordered(todo, E)
<1>1. /\ "transcript" \in D <=> "transcript" \in E
      /\ "row" \in D <=> "row" \in E
      /\ "record" \in D <=> "record" \in E
  BY DEF Markers
<1>2. \A k, A : Held(todo, k, D, A) => Held(todo, k, E, A)
  BY HeldGrows
<1> QED
  BY <1>1, <1>2 DEF Ordered

-----------------------------------------------------------------------------
(* The runs of recovery, resume and fork *)

\* A step that rests on nothing.
Free(step) == /\ ~Writes(step, {"baseline"}) /\ ~Writes(step, Slot)
              /\ ~Clears(step, Slot) /\ ~Clears(step, {"messages"})

LEMMA SevenOrdered ==
  ASSUME NEW a, NEW b, NEW c, NEW d, NEW e, NEW f, NEW g, NEW D,
         Free(a), ~Writes(b, {"baseline"}), ~Clears(b, Slot), ~Clears(b, {"messages"}),
         Writes(b, Slot) => b.what \cap Slot = {"reconciling"} /\ "record" \notin D,
         Writes(b, Slot) \/ D \cap Slot # {},
         c.verb = "remove", c.what = {"row", "messages"}, Free(d),
         Free(e), Writes(e, {"messages"}), f.verb = "add", f.what = {"baseline"},
         g.verb = "remove", g.what = Slot, "transcript" \in D
  PROVE  Ordered(<<a, b, c, d, e, f, g>>, D)
<1> DEFINE r == <<a, b, c, d, e, f, g>>
<1>1. /\ DOMAIN r = 1..7
      /\ r[1] = a /\ r[2] = b /\ r[3] = c /\ r[4] = d /\ r[5] = e /\ r[6] = f /\ r[7] = g
  OBVIOUS
<1> HIDE DEF r
<1>2. ~Writes(c, {"baseline"}) /\ ~Writes(c, Slot) /\ ~Clears(c, Slot)
  BY DEF Clears, Writes, Slot
<1>3. ~Writes(f, Slot) /\ ~Clears(f, Slot) /\ ~Clears(f, {"messages"})
  BY DEF Clears, Writes, Slot
<1>4. ~Clears(g, {"messages"}) /\ ~Writes(g, {"baseline"}) /\ ~Writes(g, Slot)
  BY DEF Clears, Writes, Slot
<1>5. Held(r, 3, D, Slot)
  <2>1. CASE Writes(b, Slot)
    <3>1. 2 \in 1..(3 - 1) /\ (2 + 1)..(3 - 1) = {}
      OBVIOUS
    <3> QED
      BY <1>1, <2>1, <3>1 DEF Held
  <2>2. CASE D \cap Slot # {}
    <3>1. 1..(3 - 1) = {1, 2}
      OBVIOUS
    <3> QED
      BY <1>1, <2>2, <3>1 DEF Held, Free
  <2> QED
    BY <2>1, <2>2
<1>6. Held(r, 6, D, {"messages"})
  <2>1. 5 \in 1..(6 - 1) /\ (5 + 1)..(6 - 1) = {}
    OBVIOUS
  <2> QED
    BY <1>1, <2>1 DEF Held
<1>7. Held(r, 7, D, {"messages"})
  <2>1. 5 \in 1..(7 - 1) /\ (5 + 1)..(7 - 1) = {6}
    OBVIOUS
  <2> QED
    BY <1>1, <1>3, <2>1 DEF Held
<1>8. \A k \in DOMAIN r : \/ k \in {1, 4, 5} /\ Free(r[k])
                          \/ k = 2 \/ k = 3 \/ k = 6 \/ k = 7
  BY <1>1
<1>9. Ordered(r, D)
  BY <1>1, <1>2, <1>3, <1>4, <1>5, <1>6, <1>7, <1>8 DEF Ordered, Free
<1> QED
  BY <1>9 DEF r

LEMMA ReconcileOrdered ==
  ASSUME NEW D, "transcript" \in D, "record" \notin D PROVE Ordered(Reconcile, D)
<1> DEFINE a == Step("add", {"model"}, "return")
           b == Step("add", {"reconciling"}, "return")
           c == Step("remove", {"row", "messages"}, "return")
           d == Step("add", {"row"}, "return")
           e == Step("add", {"messages"}, "return")
           f == Step("add", {"baseline"}, "return")
           g == Step("remove", Slot, "return")
<1>1. /\ Free(a) /\ Free(d) /\ Free(e) /\ Writes(e, {"messages"})
      /\ ~Writes(b, {"baseline"}) /\ ~Clears(b, Slot) /\ ~Clears(b, {"messages"}) /\ Writes(b, Slot)
  BY StepEffects DEF Free, Slot
<1>2. /\ b.what \cap Slot = {"reconciling"}
      /\ c.verb = "remove" /\ c.what = {"row", "messages"} /\ g.verb = "remove" /\ g.what = Slot
      /\ f.verb = "add" /\ f.what = {"baseline"}
  BY StepFields DEF Slot
<1>3. Reconcile = <<a, b, c, d, e, f, g>>
  BY DEF Reconcile
<1> HIDE DEF a, b, c, d, e, f, g
<1> QED
  BY <1>1, <1>2, <1>3, SevenOrdered

LEMMA RebuildOrdered ==
  ASSUME NEW D, "transcript" \in D, D \cap Slot # {} PROVE Ordered(Rebuild, D)
<1> DEFINE a == Step("add", {"model"}, "return")
           b == Step("remove", {"baseline"}, "return")
           c == Step("remove", {"row", "messages"}, "return")
           d == Step("add", {"row"}, "return")
           e == Step("add", {"messages"}, "return")
           f == Step("add", {"baseline"}, "return")
           g == Step("remove", Slot, "return")
<1>1. /\ Free(a) /\ Free(b) /\ Free(d) /\ Free(e) /\ Writes(e, {"messages"})
  BY StepEffects DEF Free, Slot
<1>2. /\ c.verb = "remove" /\ c.what = {"row", "messages"} /\ g.verb = "remove" /\ g.what = Slot
      /\ f.verb = "add" /\ f.what = {"baseline"}
  BY StepFields
<1>3. Rebuild = <<a, b, c, d, e, f, g>>
  BY DEF Rebuild
<1> HIDE DEF a, b, c, d, e, f, g
<1>4. ~Writes(b, {"baseline"}) /\ ~Clears(b, Slot) /\ ~Clears(b, {"messages"}) /\ ~Writes(b, Slot)
  BY <1>1 DEF Free
<1> QED
  BY <1>1, <1>2, <1>3, <1>4, SevenOrdered

LEMMA PublishOrdered == ASSUME NEW D, "transcript" \in D PROVE Ordered(PublishRecord, D)
<1> DEFINE a == Step("add", {"row"}, "return")
           b == Step("add", {"messages"}, "return")
           c == Step("remove", Slot, "return")
           r == <<a, b, c>>
<1>1. /\ Free(a) /\ Free(b) /\ Writes(b, {"messages"})
      /\ ~Writes(c, {"baseline"}) /\ ~Writes(c, Slot) /\ ~Clears(c, {"messages"})
  BY StepEffects DEF Free, Slot
<1>2. PublishRecord = r
  BY DEF PublishRecord
<1> HIDE DEF a, b, c
<1>3. DOMAIN r = 1..3 /\ r[1] = a /\ r[2] = b /\ r[3] = c
  OBVIOUS
<1> HIDE DEF r
<1>4. Held(r, 3, D, {"messages"})
  <2>1. 2 \in 1..(3 - 1) /\ (2 + 1)..(3 - 1) = {}
    OBVIOUS
  <2> QED
    BY <1>1, <1>3, <2>1 DEF Held
<1>5. \A k \in DOMAIN r : (k \in {1, 2} /\ Free(r[k])) \/ k = 3
  BY <1>1, <1>3
<1> QED
  BY <1>1, <1>2, <1>3, <1>4, <1>5 DEF Ordered, Free

LEMMA DropOrdered ==
  ASSUME NEW D, IF "transcript" \in D THEN "messages" \in D ELSE "row" \notin D
  PROVE  Ordered(DropRecord, D)
<1> DEFINE c == Step("remove", Slot, "return")
           r == <<c>>
<1>1. ~Writes(c, {"baseline"}) /\ ~Writes(c, Slot) /\ ~Clears(c, {"messages"})
  BY StepEffects DEF Slot
<1>2. DropRecord = r
  BY DEF DropRecord
<1> HIDE DEF c
<1>3. DOMAIN r = {1} /\ r[1] = c
  OBVIOUS
<1> HIDE DEF r
<1>4. "messages" \in D => Held(r, 1, D, {"messages"})
  <2>1. 1..(1 - 1) = {}
    OBVIOUS
  <2> QED
    BY <2>1 DEF Held
<1> QED
  BY <1>1, <1>2, <1>3, <1>4 DEF Ordered

\* Writes only, and the baseline after messages.
Vouched(t) ==
  \A k \in DOMAIN t : /\ t[k].verb # "remove" /\ t[k].what \cap Slot = {}
                      /\ "baseline" \in t[k].what => \E i \in 1..(k - 1) : "messages" \in t[i].what

LEMMA VouchedOrdered ==
  ASSUME NEW S, NEW t \in Seq(S), Vouched(t), NEW D PROVE Ordered(t, D)
<1>1. DOMAIN t = 1..Len(t) /\ Len(t) \in Nat
  BY LenProperties
<1>2. ASSUME NEW k \in DOMAIN t, "baseline" \in t[k].what PROVE Held(t, k, D, {"messages"})
  <2>1. PICK i \in 1..(k - 1) : "messages" \in t[i].what
    BY <1>2 DEF Vouched
  <2>2. \A l \in 1..(k - 1) : l \in DOMAIN t
    BY <1>1
  <2>3. \A l \in 1..(k - 1) : t[l].verb # "remove"
    BY <2>2 DEF Vouched
  <2>4. Writes(t[i], {"messages"})
    BY <2>1, <2>3 DEF Writes
  <2>5. \A l \in (i + 1)..(k - 1) : l \in 1..(k - 1)
    BY <1>1
  <2>6. \A l \in (i + 1)..(k - 1) : ~Clears(t[l], {"messages"})
    BY <2>3, <2>5 DEF Clears
  <2> QED
    BY <2>1, <2>4, <2>6 DEF Held
<1> QED
  BY <1>2 DEF Vouched, Ordered, Writes, Clears

LEMMA VouchedJoin ==
  ASSUME NEW S, NEW x \in S, NEW t \in Seq(S), Vouched(t),
         x.verb # "remove", x.what \cap (Slot \cup {"baseline"}) = {}
  PROVE  <<x>> \o t \in Seq(S) /\ Vouched(<<x>> \o t)
<1> DEFINE r == <<x>> \o t
<1>1. /\ r \in Seq(S) /\ Len(r) = 1 + Len(t) /\ Len(t) \in Nat /\ r[1] = x
      /\ \A i \in 1..Len(t) : r[i + 1] = t[i]
  <2> DEFINE y == <<x>>
  <2>1. y \in Seq(S) /\ Len(y) = 1 /\ y[1] = x
    OBVIOUS
  <2>2. Len(t) \in Nat
    BY LenProperties
  <2> HIDE DEF y
  <2>3. /\ y \o t \in Seq(S) /\ Len(y \o t) = Len(y) + Len(t)
        /\ \A i \in 1..Len(y) + Len(t) : (y \o t)[i] = IF i <= Len(y) THEN y[i] ELSE t[i - Len(y)]
    BY <2>1, ConcatProperties
  <2>4. (y \o t)[1] = x /\ \A i \in 1..Len(t) : (y \o t)[i + 1] = t[i]
    BY <2>1, <2>2, <2>3
  <2> QED
    BY <2>1, <2>2, <2>3, <2>4 DEF y
<1> HIDE DEF r
<1>2. DOMAIN r = 1..Len(r) /\ DOMAIN t = 1..Len(t)
  BY <1>1, LenProperties
<1>3. ASSUME NEW k \in DOMAIN r
      PROVE  /\ r[k].verb # "remove" /\ r[k].what \cap Slot = {}
             /\ "baseline" \in r[k].what => \E i \in 1..(k - 1) : "messages" \in r[i].what
  <2>1. CASE k = 1
    BY <1>1, <2>1
  <2>2. CASE k # 1
    <3>1. k - 1 \in DOMAIN t /\ (k - 1) + 1 = k /\ r[k] = t[k - 1]
      <4>1. k - 1 \in 1..Len(t) /\ (k - 1) + 1 = k
        BY <1>1, <1>2, <2>2
      <4>2. r[(k - 1) + 1] = t[k - 1]
        BY <1>1, <4>1
      <4> QED
        BY <1>2, <4>1, <4>2
    <3>2. /\ t[k - 1].verb # "remove" /\ t[k - 1].what \cap Slot = {}
          /\ "baseline" \in t[k - 1].what => \E i \in 1..((k - 1) - 1) : "messages" \in t[i].what
      BY <3>1 DEF Vouched
    <3>3. ASSUME NEW i \in 1..((k - 1) - 1), "messages" \in t[i].what
          PROVE  \E n \in 1..(k - 1) : "messages" \in r[n].what
      <4>1. i \in 1..Len(t) /\ i + 1 \in 1..(k - 1)
        BY <1>1, <1>2, <2>2
      <4>2. r[i + 1] = t[i]
        BY <1>1, <4>1
      <4> QED
        BY <3>3, <4>1, <4>2
    <3> QED
      BY <3>1, <3>2, <3>3
  <2> QED
    BY <2>1, <2>2
<1>4. Vouched(r)
  BY <1>3 DEF Vouched
<1> QED
  BY <1>1, <1>4 DEF r

LEMMA IndexOrdered ==
  ASSUME NEW s, NEW D
  PROVE  /\ Ordered(ModelRecord("return") \o <<Step("add", {"row"}, "return")>> \o CatchUp(s), D)
         /\ Ordered(ModelRecord("return")
                      \o When("baseline" \notin disk[s],
                              <<Step("add", {"row"}, "return")>> \o CatchUp(s)), D)
<1> DEFINE a == Step("add", {"model"}, "return")
           w == Step("add", {"row"}, "return")
           m == Step("add", {"messages"}, "return")
           b == Step("add", {"baseline"}, "return")
           c == CatchUp(s)
           S == {a, w, m, b}
<1>1. /\ \A x \in S : x.verb = "add" /\ x.what \cap Slot = {}
      /\ a.what = {"model"} /\ w.what = {"row"} /\ m.what = {"messages"} /\ b.what = {"baseline"}
  BY StepFields DEF Slot
<1>2. c = (IF "baseline" \notin disk[s] THEN <<m>> \o <<b>> ELSE <<>>)
  BY DEF CatchUp, When, Baseline
<1>3. a \in S /\ w \in S /\ m \in S /\ b \in S
  OBVIOUS
<1> HIDE DEF a, w, m, b, c, S
<1>4. <<>> \in Seq(S) /\ Vouched(<<>>)
  BY DEF Vouched
<1>5. <<m>> \o <<b>> \in Seq(S) /\ Vouched(<<m>> \o <<b>>)
  <2> DEFINE y == <<m>>
             z == <<b>>
  <2>1. y \in Seq(S) /\ Len(y) = 1 /\ y[1] = m /\ z \in Seq(S) /\ Len(z) = 1 /\ z[1] = b
    BY <1>3
  <2> HIDE DEF y, z
  <2>2. /\ y \o z \in Seq(S) /\ Len(y \o z) = Len(y) + Len(z)
        /\ \A i \in 1..Len(y) + Len(z) : (y \o z)[i] = IF i <= Len(y) THEN y[i] ELSE z[i - Len(y)]
    BY <2>1, ConcatProperties
  <2> DEFINE r == y \o z
  <2>3. r \in Seq(S) /\ Len(r) = 2 /\ r[1] = m /\ r[2] = b
    BY <2>1, <2>2
  <2> HIDE DEF r
  <2>4. DOMAIN r = 1..2
    BY <2>3, LenProperties
  <2>5. 1 \in 1..(2 - 1)
    OBVIOUS
  <2>6. \A k \in DOMAIN r : k = 1 \/ k = 2
    BY <2>4
  <2>7. \A k \in DOMAIN r : r[k].verb # "remove" /\ r[k].what \cap Slot = {}
    BY <1>1, <1>3, <2>3, <2>6
  <2>8. \A k \in DOMAIN r : "baseline" \in r[k].what => \E i \in 1..(k - 1) : "messages" \in r[i].what
    BY <1>1, <2>3, <2>5, <2>6
  <2> QED
    BY <2>3, <2>7, <2>8 DEF Vouched, r, y, z
<1>6. c \in Seq(S) /\ Vouched(c)
  BY <1>2, <1>4, <1>5
<1>7. <<w>> \o c \in Seq(S) /\ Vouched(<<w>> \o c)
  <2>1. w.verb # "remove" /\ w.what \cap (Slot \cup {"baseline"}) = {}
    BY <1>1, <1>3
  <2> QED
    BY <1>3, <1>6, <2>1, VouchedJoin
<1>8. ASSUME NEW t \in Seq(S), Vouched(t) PROVE Ordered(<<a>> \o t, D)
  <2>1. a.verb # "remove" /\ a.what \cap (Slot \cup {"baseline"}) = {}
    BY <1>1, <1>3
  <2>2. <<a>> \o t \in Seq(S) /\ Vouched(<<a>> \o t)
    BY <1>3, <1>8, <2>1, VouchedJoin
  <2> DEFINE r == <<a>> \o t
  <2> HIDE DEF r
  <2>3. r \in Seq(S) /\ Vouched(r)
    BY <2>2 DEF r
  <2>4. Ordered(r, D)
    BY <2>3, VouchedOrdered
  <2> QED
    BY <2>4 DEF r
<1>9. Ordered(<<a>> \o (<<w>> \o c), D) /\ Ordered(<<a>> \o <<>>, D)
  BY <1>4, <1>7, <1>8
<1>10. (<<a>> \o <<w>>) \o c = <<a>> \o (<<w>> \o c)
  <2>1. <<a>> \in Seq(S) /\ <<w>> \in Seq(S)
    BY <1>3
  <2> QED
    BY <1>6, <2>1, ConcatAssociative
<1> QED
  BY <1>9, <1>10 DEF ModelRecord, When, a, w, c

-----------------------------------------------------------------------------
(* Every session stays settled *)

\* A fork that is published or undone is whole, marked or fenced by an error.
LEMMA StageSettled ==
  ASSUME OpOK, StageOK, SlotsOK, op.at \in StageSteps PROVE Settled(op.id)
<1> DEFINE D == disk[op.id]
<1>1. op.id \in Ids /\ Past
  BY DEF OpOK, PlaceOK, Past, ForkSteps
<1>2. D \cap Slot = {}
  BY <1>1 DEF SlotsOK
<1>3. CASE ~op.quarantined
  <2>1. D \cap Listing = {}
    BY <1>3 DEF StageOK
  <2>2. RestOK(D)
    BY <1>2, <2>1 DEF RestOK, Listing, Slot
  <2> QED
    BY <2>2 DEF Settled
<1>4. CASE op.quarantined /\ op.at = "fork.commit"
  <2>1. CASE op.todo # <<>>
    BY <1>4, <2>1 DEF StageOK, Settled, Marks, Markers
  <2>2. CASE op.todo = <<>>
    <3>1. ToGo = {}
      BY <2>2, NothingToDo
    <3>2. {"transcript", "messages", "baseline"} \subseteq D
      BY <1>4, <3>1 DEF StageOK
    <3>3. RestOK(D)
      BY <1>2, <3>2 DEF RestOK, Slot
    <3> QED
      BY <3>3 DEF Settled
  <2> QED
    BY <2>1, <2>2
<1>5. CASE op.quarantined /\ op.at \in Undoing
  BY <1>5 DEF StageOK, Settled, Fenced
<1>6. op.at = "fork.publish" => ~op.quarantined
  BY DEF StageOK
<1> QED
  BY <1>3, <1>4, <1>5, <1>6 DEF StageSteps, Undoing

LEMMA StageSettledOn ==
  (OpOK /\ StageOK /\ SlotsOK /\ op.at \in StageSteps)' => Settled(op.id)'
<1>1. OpOK /\ StageOK /\ SlotsOK /\ op.at \in StageSteps => Settled(op.id)
  BY StageSettled
<1> QED
  BY <1>1, PTL

\* An index is written for a transcript.
LEMMA RestingReads ==
  ASSUME LifeInv, TakeStep, Resting
  PROVE  "transcript" \in disk[op.job] \/ Head(op.todo).verb = "remove"
<1> DEFINE step == Head(op.todo)
<1>1. TypeInv /\ PlaceOK /\ RunOK
  BY DEF LifeInv, TypeInv, OpOK
<1>2. op.todo # <<>> /\ step = op.todo[1] /\ 1 \in DOMAIN op.todo
  BY <1>1, TakeEffect
<1> HIDE DEF step
<1>3. op.at = "recover" /\ step.verb # "remove" => "transcript" \in disk[op.job]
  BY <1>2 DEF LifeInv, NewOK
<1>4. op.at = "fork.id" => "transcript" \in disk[op.job]
  BY <1>1, <1>2 DEF LifeInv, NewOK, RunOK
<1>5. op.at = "attach" /\ op.kind = "resume" => "transcript" \in disk[op.job]
  BY <1>1, <1>2 DEF LifeInv, NewOK, RunOK
<1> QED
  BY <1>3, <1>4, <1>5 DEF Resting, step

\* A step that repairs an index leaves it at rest.
LEMMA RestingRest ==
  ASSUME LifeInv, TakeStep, Resting, Settled(op.job), OrderOK
  PROVE  RestOK(disk'[op.job]) \/ (faults # 0 /\ Fenced(op.job))
<1> DEFINE step == Head(op.todo)
           D == disk[op.job]
           E == disk'[op.job]
<1> SUFFICES ASSUME ~(faults # 0 /\ Fenced(op.job)) PROVE RestOK(E)
  OBVIOUS
<1>1. TypeInv /\ op \in Ops /\ PlaceOK /\ RunOK
  BY DEF LifeInv, TypeInv, OpOK
<1>2. /\ op.job \in Ids /\ op.todo # <<>> /\ op.todo \in Seq(Steps)
      /\ step = op.todo[1] /\ 1 \in DOMAIN op.todo
      /\ IF step.verb = "remove" THEN Removes(op.job, step.what) ELSE Adds(op.job, step.what)
  BY <1>1, TakeEffect DEF Ops
<1>3. step.what \cap (Markers \cup {"transcript", "goal"}) = {}
  BY <1>1, TakeWrites DEF Resting, Plain
<1>4. ~Fenced(op.job) /\ Ordered(op.todo, D)
  BY <1>2 DEF OrderOK
<1>5. Marks(op.job) = {}
  <2>1. CASE op.at = "recover"
    BY <1>2, <1>4, <2>1 DEF LifeInv, MarksOK, Recovering
  <2>2. CASE op.at \in {"fork.id", "attach"}
    BY <1>2, <2>2 DEF LifeInv, MarksOK, Quiet
  <2> QED
    BY <2>1, <2>2 DEF Resting
<1>6. RestOK(D)
  BY <1>4, <1>5 DEF Settled
<1>7. "transcript" \in D \/ step.verb = "remove"
  BY RestingReads
<1>8. /\ step.verb = "remove" => E \subseteq D /\ D \ step.what \subseteq E
      /\ step.verb # "remove" => D \subseteq E /\ E \subseteq D \cup step.what
  BY <1>2 DEF Removes, Adds
<1>9. "transcript" \in D => "transcript" \in E
  BY <1>3, <1>8
<1> QED
  BY <1>2, <1>4, <1>6, <1>7, <1>8, <1>9, OrderedHead

\* No step of a run unsettles the session it is for, whether it is done, fails
\* or is cut off.
LEMMA TakeSettled ==
  ASSUME LifeInv, LifeInv', MarkedOn', PlainOK, PlainOK', faults \in Nat, Next, TakeStep,
         \A s \in Ids : Settled(s), OrderOK, NEW s \in Ids
  PROVE  Settled(s)'
<1> DEFINE step == Head(op.todo)
           D == disk[op.job]
           E == disk'[op.job]
<1>1. TypeInv /\ op \in Ops /\ PlaceOK /\ RunOK /\ OpOK'
  BY DEF LifeInv, TypeInv, OpOK
<1>2. /\ op.job \in Ids /\ op.todo # <<>> /\ op.at \in RunPlaces
      /\ OthersStay(op.job) /\ UNCHANGED life
      /\ IF step.verb = "remove" THEN Removes(op.job, step.what) ELSE Adds(op.job, step.what)
  BY <1>1, TakeEffect
<1>3. \/ Taken(step) \/ Collected(step) \/ Returned(step)
      \/ Diverted(step) /\ Diversion
  BY <1>1, TakeEffect
<1>4. faults # 0 => faults' # 0
  BY FaultsStep DEF Fault
<1>5. \A t \in Ids : Fenced(t)' <=> Fenced(t)
  BY <1>2 DEF Fenced
<1>6. CASE s # op.job
  <2>1. disk'[s] = disk[s] /\ Settled(s)
    BY <1>2, <1>6 DEF OthersStay
  <2> QED
    BY <1>4, <1>5, <2>1 DEF Settled, Marks
<1>7. SUFFICES ASSUME s = op.job PROVE RestOK(E) \/ E \cap Markers # {} \/ (faults' # 0 /\ Fenced(op.job))
  BY <1>5, <1>6 DEF Settled, Marks
<1>8. /\ step.verb = "remove" => E \subseteq D /\ D \ step.what \subseteq E
      /\ step.verb # "remove" => D \subseteq E /\ E \subseteq D \cup step.what
  BY <1>2 DEF Removes, Adds
<1>9. /\ op.at \in {"records", "files", "failed"} => step.orelse = "collect"
      /\ op.at \in {"databases", "cleaned"} => step.orelse = "restore"
      /\ op.at \in {"records", "databases", "files", "cleaned", "failed"} => step.verb = "remove"
      /\ op.at = "attach" /\ op.kind = "create" =>
           step.what \subseteq {"familiar"} \/ step.what \subseteq {"model", "baseline"}
      /\ op.at = "fork.publish" => \/ step.orelse = "return" /\ step.what \subseteq {"forkmark"}
                                   \/ step.orelse = "undo"
      /\ op.at \in {"fork.commit", "undo.index", "undo.files", "undo.mark", "undone"} =>
           step.orelse # "return"
  BY <1>1, <1>2, FirstStep
<1> HIDE DEF step
<1>10. CASE op.at \in {"records", "databases", "files"}
  <2>1. op.mark \in Markers /\ Fenced(op.job)
    BY <1>1, <1>10 DEF PlaceOK, LifeInv, MarksOK, CleanSteps
  <2>2. \/ op'.at = op.at /\ op'.mark = op.mark /\ op'.job = op.job
        \/ Fault
    BY <1>3, <1>9, <1>10 DEF Taken, Collected, Returned, Diverted, Carried
  <2>3. Fault => faults' # 0
    BY DEF Fault
  <2>4. op'.at = op.at /\ op'.mark = op.mark /\ op'.job = op.job => op.mark \in E
    BY <1>10 DEF MarkedOn
  <2> QED
    BY <2>1, <2>2, <2>3, <2>4
<1>11. CASE op.at = "cleaned"
  <2>1. D \subseteq {"goal", op.mark} /\ op.mark \in Markers
    BY <1>1, <1>11 DEF PlaceOK, LifeInv, CleanOK, CleanSteps
  <2>2. E \cap {"row", "messages", "transcript", "record"} = {}
    BY <1>8, <1>9, <1>11, <2>1 DEF Markers
  <2> QED
    BY <2>2, BareRest
<1>12. CASE op.at = "failed" \/ (op.at = "attach" /\ op.kind = "create")
  <2>1. op.job = op.id
    BY <1>1, <1>2, <1>12 DEF RunOK
  <2>2. D \cap {"transcript", "row", "messages"} = {}
    BY <1>12, <2>1 DEF PlainOK, CreateOK
  <2>3. "record" \notin D
    BY <1>2, <1>12 DEF PlainOK, SlotsOK, Past, CreateSteps, Slot
  <2>4. E \cap {"row", "messages", "transcript", "record"} = {}
    BY <1>8, <1>9, <1>12, <2>2, <2>3
  <2> QED
    BY <2>4, BareRest
<1>13. CASE Resting
  <2>1. RestOK(E) \/ (faults # 0 /\ Fenced(op.job))
    BY <1>2, <1>13, RestingRest
  <2> QED
    BY <1>4, <2>1
<1>14. CASE op.at \in StageSteps
  <2>1. op.job = op.id /\ StageOK /\ SlotsOK
    BY <1>1, <1>14 DEF PlaceOK, PlainOK
  <2>2. CASE Returned(step)
    <3>1. op.at = "fork.publish" /\ step.what \subseteq {"forkmark"}
      BY <1>2, <1>9, <1>14, <2>2 DEF Returned, RunPlaces, StageSteps
    <3>2. D \cap Listing = {} /\ D \cap Slot = {}
      BY <1>2, <1>14, <2>1, <3>1 DEF StageOK, SlotsOK, Past
    <3>3. RestOK(E)
      BY <1>8, <3>1, <3>2 DEF RestOK, Listing, Slot
    <3> QED
      BY <3>3
  <2>3. CASE ~Returned(step)
    <3>1. op'.id = op.id /\ op'.at \in StageSteps
      BY <1>3, <1>14, <2>3 DEF Taken, Collected, Diverted, Carried, Diversion, StageSteps
    <3>2. StageOK' /\ SlotsOK'
      BY DEF PlainOK
    <3>3. Settled(op.id)'
      BY <1>1, <3>1, <3>2, StageSettledOn
    <3>4. \/ RestOK(disk'[op'.id]) \/ disk'[op'.id] \cap Markers # {}
          \/ faults' # 0 /\ life'[op'.id] \in {Tombstone, Quarantine}
      BY <3>3 DEF Settled, Marks, Fenced
    <3> QED
      BY <1>2, <2>1, <3>1, <3>4 DEF Fenced
  <2> QED
    BY <2>2, <2>3
<1>15. op.at = "attach" => op.kind \in {"create", "resume"}
  BY <1>1 DEF PlaceOK
<1> QED
  BY <1>2, <1>10, <1>11, <1>12, <1>13, <1>14, <1>15 DEF RunPlaces, Resting, StageSteps

\* Who is let out of its fence is at rest.
LEMMA Unfenced ==
  ASSUME LifeInv, PlainOK, crashes \in Nat, crashes' = 0, Next, ~TakeStep,
         NEW s \in Ids, Fenced(s), ~Fenced(s)'
  PROVE  RestOK(disk[s])
<1> DEFINE D == disk[s]
<1>1. TypeInv /\ op \in Ops /\ PlaceOK
  BY DEF LifeInv, TypeInv, OpOK
<1>2. life'[s] # life[s] /\ life'[s] \notin {Tombstone, Quarantine}
  BY DEF Fenced
<1>3. Nothing \notin {Tombstone, Quarantine}
  BY DEF Nothing, Tombstone, Quarantine
<1>4. CASE CleanMove /\ op.at \in CleanSteps /\ op.mark \in Markers
  <2>1. op.at = "cleaned" /\ s = op.job
    BY <1>2, <1>4 DEF CleanMove
  <2>2. D \subseteq {"goal", op.mark}
    BY <2>1 DEF LifeInv, CleanOK
  <2>3. D \cap {"row", "messages", "transcript", "record"} = {}
    BY <1>4, <2>2 DEF Markers
  <2> QED
    BY <2>3, BareRest
<1>5. CASE RecoverMove
  <2>1. life'[s] \in {life[s], Tombstone, Quarantine}
    BY <1>5 DEF RecoverMove, DeletionMove, OtherLives
  <2> QED
    BY <1>2, <2>1
<1>6. CASE UserMove /\ op.todo = <<>>
  <2>1. op.at \in {"attach", "fork.commit"} /\ s = op.id
    BY <1>2, <1>6 DEF UserMove, DeletionMove, ReuseMove, OtherLives
  <2>2. CASE op.at = "attach"
    <3>1. op.kind \in {"create", "resume"}
      BY <1>1, <2>2 DEF PlaceOK
    <3>2. op.kind # "resume"
      BY <2>1, <2>2 DEF LifeInv, NewOK
    <3>3. D \cap {"transcript", "row", "messages"} = {}
      BY <2>1, <2>2, <3>1, <3>2 DEF PlainOK, CreateOK
    <3>4. "record" \notin D
      BY <2>2 DEF PlainOK, SlotsOK, Past, Slot
    <3>5. D \cap {"row", "messages", "transcript", "record"} = {}
      BY <3>3, <3>4
    <3> QED
      BY <3>5, BareRest
  <2>3. CASE op.at = "fork.commit"
    <3>1. ToGo = {}
      BY <1>6, NothingToDo
    <3>2. {"transcript", "messages", "baseline"} \subseteq D
      BY <2>1, <2>3, <3>1 DEF PlainOK, StageOK, StageSteps
    <3>3. D \cap Slot = {}
      BY <2>3 DEF PlainOK, SlotsOK, Past, StageSteps
    <3> QED
      BY <3>2, <3>3 DEF RestOK, Slot
  <2> QED
    BY <2>1, <2>2, <2>3
<1>7. CASE StageMove
  <2>1. op.at = "undone" /\ s = op.id
    BY <1>2, <1>7 DEF StageMove, OtherLives
  <2>2. Undone
    <3>1. op # NoOp
      BY <2>1, NoOpTyped
    <3>2. Crash \/ PowerLoss => crashes' = crashes + 1
      BY DEF Crash, PowerLoss, Restart
    <3>3. crashes + 1 # 0
      OBVIOUS
    <3> QED
      BY <1>1, <1>2, <2>1, <3>1, <3>2, <3>3, ActsAt
  <2>3. ~op.errs
    BY <1>1, <1>2, <2>1, <2>2 DEF Undone, TypeInv, TypeOK
  <2>4. D \cap Listing = {} /\ D \cap Slot = {}
    BY <2>1, <2>3 DEF PlainOK, StageOK, SlotsOK, Past, StageSteps
  <2> QED
    BY <2>4 DEF RestOK, Listing, Slot
<1>8. CASE BeginMove
  BY <1>2, <1>8 DEF BeginMove
<1>9. CASE OutsideMove
  <2>1. crashes' # crashes + 1
    OBVIOUS
  <2> QED
    BY <1>2, <1>9, <2>1 DEF OutsideMove, PersistMove
<1>10. Recovered => UNCHANGED life
  BY DEF Recovered
<1> QED
  BY <1>1, <1>2, <1>4, <1>5, <1>6, <1>7, <1>8, <1>9, <1>10, QuietMoves

\* A crash or a loss of power, when no call has failed.
LEMMA LostNothing ==
  ASSUME TypeInv, faults = 0 => TracedOK, crashes \in Nat, faults' = 0 \/ crashes' = 0,
         Crash \/ PowerLoss
  PROVE  faults = 0 /\ faults' = 0 /\ disk' = disk
<1>1. crashes' = crashes + 1 /\ faults' = faults
  BY DEF Crash, PowerLoss, Restart
<1>2. faults = 0 /\ faults' = 0
  BY <1>1
<1>3. CASE Crash
  BY <1>2, <1>3 DEF Crash
<1>4. CASE PowerLoss
  <2>1. PICK kept \in SUBSET Unsynced :
          disk' = [s \in Ids |-> (disk[s] \cap dur[s]) \cup {a \in Artifacts : <<s, a>> \in kept}]
    BY <1>4 DEF PowerLoss
  <2>2. dur = disk /\ disk \in [Ids -> SUBSET Artifacts]
    BY <1>2 DEF TracedOK, TypeInv, TypeOK
  <2>3. Unsynced = {}
    BY <2>2 DEF Unsynced
  <2> QED
    BY <1>2, <2>1, <2>2, <2>3
<1> QED
  BY <1>3, <1>4

\* Between the runs sessions stay settled.
LEMMA QuietSettled ==
  ASSUME LifeInv, PlainOK, faults \in Nat, faults = 0 => TracedOK, crashes \in Nat,
         faults' = 0 \/ crashes' = 0, Next, ~TakeStep, NEW s \in Ids, Settled(s)
  PROVE  Settled(s)'
<1>1. TypeInv /\ TypeOK /\ StoreOK
  BY DEF LifeInv, TypeInv
<1>2. faults # 0 => faults' # 0
  BY FaultsStep DEF Fault
<1>3. CASE \E h \in Handles : Persist(h)
  <2>1. PICK h \in Handles : Persist(h)
    BY <1>3
  <2>2. /\ open[h].id \in Ids /\ life[open[h].id].state = "active"
        /\ OthersStay(open[h].id) /\ UNCHANGED life
    BY <1>1, <2>1, PersistShape
  <2>3. /\ RestOK(disk[open[h].id]) => RestOK(disk'[open[h].id])
        /\ Marks(open[h].id) = {}
    BY <1>1, <2>1, PersistRest DEF LifeInv, PlainOK
  <2>4. ~Fenced(open[h].id)
    BY <2>2 DEF Fenced, Tombstone, Quarantine
  <2>5. CASE s = open[h].id
    BY <2>3, <2>4, <2>5 DEF Settled
  <2>6. CASE s # open[h].id
    <3>1. disk'[s] = disk[s] /\ life'[s] = life[s]
      BY <2>2, <2>6 DEF OthersStay
    <3> QED
      BY <1>2, <3>1 DEF Settled, Marks, Fenced
  <2> QED
    BY <2>5, <2>6
<1>4. CASE PowerLoss
  <2>1. faults = 0 /\ disk' = disk
    BY <1>1, <1>4, LostNothing
  <2> QED
    BY <2>1 DEF Settled, Marks
<1>5. CASE \A t \in Ids : Keeps(t)
  <2>1. disk[s] \subseteq disk'[s] /\ disk'[s] \subseteq disk[s] \cup Markers \cup {"goal"}
    BY <1>5 DEF Keeps
  <2>2. CASE RestOK(disk[s])
    <3>1. \A a \in {"row", "messages", "transcript", "baseline"} \cup Slot :
            a \in disk'[s] <=> a \in disk[s]
      BY <2>1 DEF Markers, Slot
    <3>2. RestOK(disk'[s])
      BY <2>2, <3>1 DEF RestOK, Slot
    <3> QED
      BY <3>2 DEF Settled
  <2>3. CASE Marks(s) # {}
    BY <2>1, <2>3 DEF Settled, Marks
  <2>4. CASE faults # 0 /\ Fenced(s) /\ ~RestOK(disk[s])
    <3>1. faults' # 0 /\ crashes' = 0
      BY <1>2, <2>4
    <3>2. Fenced(s)'
      BY <2>4, <3>1, Unfenced
    <3> QED
      BY <3>1, <3>2 DEF Settled
  <2> QED
    BY <2>2, <2>3, <2>4 DEF Settled
<1> QED
  BY <1>1, <1>3, <1>4, <1>5, QuietStores

\* As long as no call has failed nothing of the index of a fenced session is
\* there without a marker, but while a fork is being committed.
LEMMA TakeFenced ==
  ASSUME LifeInv, MarkedOn', PlainOK, faults = 0, ~Fault, FencedOK, OrderOK, TakeStep,
         NEW s \in Ids, Fenced(s)', Marks(s)' = {}
  PROVE  \/ disk'[s] \cap (Slot \cup {"row", "messages"}) = {}
         \/ op'.at = "fork.commit" /\ s = op'.id
<1> DEFINE step == Head(op.todo)
           D == disk[op.job]
           E == disk'[op.job]
<1>1. TypeInv /\ op \in Ops /\ PlaceOK /\ RunOK
  BY DEF LifeInv, TypeInv, OpOK
<1>2. /\ op.job \in Ids /\ op.todo # <<>> /\ op.at \in RunPlaces
      /\ OthersStay(op.job) /\ UNCHANGED life
      /\ IF step.verb = "remove" THEN Removes(op.job, step.what) ELSE Adds(op.job, step.what)
  BY <1>1, TakeEffect
<1>3. \/ Taken(step) \/ Collected(step) \/ Returned(step)
      \/ Diverted(step) /\ Diversion
  BY <1>1, TakeEffect
<1>4. /\ step.verb = "remove" => E \subseteq D /\ D \ step.what \subseteq E
      /\ step.verb # "remove" => D \subseteq E /\ E \subseteq D \cup step.what
  BY <1>2 DEF Removes, Adds
<1>5. /\ op.at \in {"cleaned", "failed"} => step.verb = "remove"
      /\ op.at = "attach" /\ op.kind = "create" =>
           step.what \subseteq {"familiar"} \/ step.what \subseteq {"model", "baseline"}
      /\ op.at = "fork.publish" =>
           \/ step.what \subseteq {"forkmark"} \/ step.what \subseteq {"stage"}
           \/ step.what = {"transcript"} \/ step.what = {"familiar"}
  BY <1>1, <1>2, FirstStep
<1> HIDE DEF step
<1>6. op'.at = op.at /\ op'.mark = op.mark /\ op'.job = op.job /\ op'.id = op.id
  BY <1>3 DEF Taken, Collected, Returned, Diverted, Carried
<1>7. Fenced(s)
  BY <1>2 DEF Fenced
<1>8. op.at \in StageSteps => op.job = op.id
  BY <1>1 DEF PlaceOK
<1>9. CASE s # op.job
  <2>1. disk'[s] = disk[s]
    BY <1>2, <1>9 DEF OthersStay
  <2>2. Marks(s) = {}
    BY <2>1 DEF Marks
  <2> QED
    BY <1>7, <1>8, <1>9, <2>1, <2>2 DEF FencedOK, StageSteps
<1>10. CASE s = op.job /\ op.at \in {"records", "databases", "files"}
  <2>1. op.mark \in E /\ op.mark \in Markers
    BY <1>1, <1>6, <1>10 DEF MarkedOn, PlaceOK, CleanSteps
  <2> QED
    BY <1>10, <2>1 DEF Marks
<1>11. CASE s = op.job /\ op.at = "cleaned"
  <2>1. D \subseteq {"goal", op.mark} /\ op.mark \in Markers
    BY <1>1, <1>11 DEF PlaceOK, LifeInv, CleanOK, CleanSteps
  <2> QED
    BY <1>4, <1>5, <1>11, <2>1 DEF Markers, Slot
<1>12. CASE s = op.job /\ (op.at = "failed" \/ (op.at = "attach" /\ op.kind = "create"))
  <2>1. D \cap {"transcript", "row", "messages"} = {}
    BY <1>1, <1>2, <1>12 DEF PlainOK, CreateOK, RunOK
  <2>2. D \cap Slot = {}
    BY <1>2, <1>12 DEF PlainOK, SlotsOK, Past, CreateSteps
  <2> QED
    BY <1>4, <1>5, <1>12, <2>1, <2>2 DEF Slot
<1>13. CASE s = op.job /\ Resting
  BY <1>2, <1>7, <1>13 DEF OrderOK
<1>14. CASE s = op.job /\ op.at = "fork.publish"
  <2>1. D \cap Listing = {}
    BY <1>8, <1>14 DEF PlainOK, StageOK, StageSteps
  <2>2. D \cap Slot = {}
    BY <1>2, <1>14 DEF PlainOK, SlotsOK, Past, StageSteps
  <2> QED
    BY <1>4, <1>5, <1>14, <2>1, <2>2 DEF Slot, Listing
<1>15. CASE s = op.job /\ op.at = "fork.commit"
  BY <1>6, <1>8, <1>15 DEF StageSteps
<1>16. op.at \notin Undoing
  BY DEF PlainOK, StageOK
<1>17. op.at = "attach" => op.kind \in {"create", "resume"}
  BY <1>1 DEF PlaceOK
<1> QED
  BY <1>2, <1>9, <1>10, <1>11, <1>12, <1>13, <1>14, <1>15, <1>16, <1>17
     DEF RunPlaces, Resting, Undoing

LEMMA QuietFenced ==
  ASSUME LifeInv, PlainOK, faults = 0, TracedOK, ~Fault, FencedOK, Next, ~TakeStep,
         NEW s \in Ids, Fenced(s)', Marks(s)' = {}
  PROVE  \/ disk'[s] \cap (Slot \cup {"row", "messages"}) = {}
         \/ op'.at = "fork.commit" /\ s = op'.id
<1>1. TypeInv /\ TypeOK /\ StoreOK
  BY DEF LifeInv, TypeInv
<1>2. op.at = "fork.commit" => op' = op \/ life'[op.id] \notin {Tombstone, Quarantine}
  BY QuietPlaces
<1>3. Fenced(s) \/ (op'.at = "fork.commit" /\ s = op'.id)
  BY QuietPlaces
<1>4. SUFFICES ASSUME Fenced(s) PROVE \/ disk'[s] \cap (Slot \cup {"row", "messages"}) = {}
                                      \/ op'.at = "fork.commit" /\ s = op'.id
  BY <1>3
<1>5. op.at = "fork.commit" /\ s = op.id => op' = op
  BY <1>2 DEF Fenced
<1>6. Marks(s) = {} => \/ disk[s] \cap (Slot \cup {"row", "messages"}) = {}
                       \/ op.at = "fork.commit" /\ s = op.id
  BY <1>4 DEF FencedOK
<1>7. CASE \E h \in Handles : Persist(h)
  <2>1. PICK h \in Handles : Persist(h)
    BY <1>7
  <2>2. /\ life[open[h].id].state = "active" /\ OthersStay(open[h].id) /\ op' = op
    BY <1>1, <2>1, PersistShape
  <2>3. s # open[h].id
    BY <1>4, <2>2 DEF Fenced, Tombstone, Quarantine
  <2>4. disk'[s] = disk[s]
    BY <2>2, <2>3 DEF OthersStay
  <2> QED
    BY <1>6, <2>2, <2>4 DEF Marks
<1>8. CASE PowerLoss
  BY <1>8 DEF PowerLoss, Restart, Fenced, Nothing, Tombstone, Quarantine
<1>9. CASE \A t \in Ids : Keeps(t)
  <2>1. disk[s] \subseteq disk'[s] /\ disk'[s] \subseteq disk[s] \cup Markers \cup {"goal"}
    BY <1>9 DEF Keeps
  <2>2. Marks(s) = {}
    BY <2>1 DEF Marks
  <2>3. disk'[s] \cap (Slot \cup {"row", "messages"}) = disk[s] \cap (Slot \cup {"row", "messages"})
    BY <2>1 DEF Markers, Slot
  <2> QED
    BY <1>5, <1>6, <2>2, <2>3
<1> QED
  BY <1>1, <1>7, <1>8, <1>9, QuietStores

-----------------------------------------------------------------------------
(* Every run that repairs an index keeps it at rest *)

LEMMA TakeOrdered ==
  ASSUME LifeInv, faults \in Nat, OrderOK, Next, TakeStep PROVE OrderOK'
<1> DEFINE step == Head(op.todo)
           D == disk[op.job]
           E == disk'[op.job]
<1> SUFFICES ASSUME Resting', op'.todo # <<>>
             PROVE  \/ faults' # 0 /\ Fenced(op.job)' /\ op'.job = op.job
                    \/ ~Fenced(op.job)' /\ op'.job = op.job /\ Ordered(op'.todo, E)
  BY DEF OrderOK, Fenced
<1>1. TypeInv /\ op \in Ops /\ PlaceOK /\ RunOK
  BY DEF LifeInv, TypeInv, OpOK
<1>2. /\ op.job \in Ids /\ op.todo # <<>> /\ op.todo \in Seq(Steps) /\ UNCHANGED life
      /\ IF step.verb = "remove" THEN Removes(op.job, step.what) ELSE Adds(op.job, step.what)
  BY <1>1, TakeEffect DEF Ops
<1>3. \/ Taken(step) \/ Collected(step) \/ Returned(step)
      \/ Diverted(step) /\ Diversion
  BY <1>1, TakeEffect
<1>4. op' # NoOp
  BY NoOpTyped
<1>5. /\ op.at \in {"recover", "fork.id"} => step.orelse = "return"
      /\ op.at = "attach" /\ op.kind = "resume" => step.orelse = "return"
  BY <1>1, <1>2, FirstStep
<1>6. Resting => step.what \cap (Markers \cup {"transcript", "goal"}) = {}
  BY <1>1, TakeWrites DEF Resting, Plain
<1>7. Resting => "transcript" \in D \/ step.verb = "remove"
  BY RestingReads
<1> HIDE DEF step
<1>8. op'.at = op.at /\ op'.kind = op.kind
  BY <1>2, <1>3, <1>4 DEF Taken, Collected, Returned, Diverted, Carried, Resting, Diversion
<1>9. Resting
  BY <1>8 DEF Resting
<1>10. Taken(step)
  BY <1>3, <1>4, <1>5, <1>9 DEF Collected, Returned, Diverted, Resting
<1>11. /\ step.verb = "remove" => E \subseteq D /\ D \ step.what \subseteq E
       /\ step.verb # "remove" => D \cup step.what \subseteq E /\ E \subseteq D \cup step.what
  <2>1. step.verb # "remove" => step.what \subseteq E
    BY <1>10 DEF Taken
  <2> QED
    BY <1>2, <2>1 DEF Removes, Adds
<1>12. "transcript" \in D <=> "transcript" \in E
  BY <1>6, <1>9, <1>11
<1>13. op'.job = op.job /\ op'.todo = Tail(op.todo) /\ faults' = faults
       /\ (Fenced(op.job)' <=> Fenced(op.job))
  BY <1>2, <1>10 DEF Taken, Carried, Fenced
<1>14. Ordered(op.todo, D) => Ordered(Tail(op.todo), E)
  BY <1>2, <1>7, <1>9, <1>11, <1>12, OrderedOn DEF step
<1> QED
  BY <1>2, <1>9, <1>13, <1>14 DEF OrderOK

LEMMA ScriptsOrdered ==
  ASSUME NEW s \in Ids, Available(s), RestOK(disk[s]), NEW script \in Scripts(s)
  PROVE  Ordered(script, disk[s])
<1> DEFINE D == disk[s]
<1>1. /\ {"row", "messages"} \subseteq D /\ "transcript" \notin D => "oversized" \in D
      /\ "record" \in D => D \cap {"oversized", "reconciling"} = {}
  BY DEF RestOK
<1>2. \/ script = PublishRecord /\ {"record", "transcript"} \subseteq D
      \/ /\ script = DropRecord
         /\ \/ {"record", "transcript", "messages"} \subseteq D
            \/ "record" \in D /\ "transcript" \notin D /\ ("row" \in D => "messages" \in D)
      \/ script = Reconcile /\ {"reconciling", "transcript", "model"} \subseteq D
      \/ script = Rebuild /\ {"oversized", "transcript", "model"} \subseteq D
  BY DEF Scripts
<1>3. CASE script = PublishRecord /\ "transcript" \in D
  BY <1>3, PublishOrdered
<1>4. CASE script = DropRecord /\ (IF "transcript" \in D THEN "messages" \in D ELSE "row" \notin D)
  BY <1>4, DropOrdered
<1>5. CASE script = Reconcile /\ "transcript" \in D /\ "record" \notin D
  BY <1>5, ReconcileOrdered
<1>6. CASE script = Rebuild /\ "transcript" \in D /\ D \cap Slot # {}
  BY <1>6, RebuildOrdered
<1> QED
  BY <1>1, <1>2, <1>3, <1>4, <1>5, <1>6 DEF Slot

\* The runs of recovery, resume and fork rest on what they find.
LEMMA StartsOrdered ==
  ASSUME LifeInv, faults \in Nat, FencedOK, \A s \in Ids : Settled(s), Starts, Resting',
         op'.todo # <<>>
  PROVE  \/ faults' # 0 /\ Fenced(op'.job) /\ UNCHANGED life
         \/ ~Fenced(op'.job) /\ UNCHANGED life /\ Ordered(op'.todo, disk'[op'.job])
<1>1. TypeInv /\ TypeOK /\ op \in Ops /\ PlaceOK
  BY DEF LifeInv, TypeInv, OpOK
<1>2. /\ \A s, run, p : Do(s, run, p) =>
           op'.at = p /\ op'.todo = run /\ op'.job = s /\ op'.kind = op.kind
      /\ \A p : Goto(p) => op'.at = p
  BY <1>1 DEF Do, Goto, Ops
<1>3. \A s \in Ids : Available(s) <=> ~Fenced(s)
  <2> SUFFICES ASSUME NEW s \in Ids PROVE Available(s) <=> ~Fenced(s)
    OBVIOUS
  <2>1. life[s] \in {Nothing, Tombstone, Quarantine} \/ \E g \in Gens : life[s] = Active(g)
    BY <1>1 DEF TypeOK
  <2>2. /\ Nothing.state = "none" /\ Tombstone.state = "tombstoned"
        /\ Quarantine.state = "pendingFork" /\ \A g \in Gens : Active(g).state = "active"
    BY DEF Nothing, Tombstone, Quarantine, Active
  <2>3. CASE life[s] \in {Tombstone, Quarantine}
    BY <2>2, <2>3 DEF Available, Fenced
  <2>4. CASE life[s] \notin {Tombstone, Quarantine}
    <3>1. life[s].state \in {"none", "active"}
      BY <2>1, <2>2, <2>4
    <3> QED
      BY <2>4, <3>1 DEF Available, Fenced
  <2> QED
    BY <2>3, <2>4
<1>4. CASE ResolveRecord
  <2>1. PICK s \in Recorded : \E script \in Scripts(s) : Do(s, script, "recover")
    BY <1>4 DEF ResolveRecord
  <2>2. PICK script \in Scripts(s) : Do(s, script, "recover")
    BY <2>1
  <2>3. /\ s \in Ids /\ disk[s] \cap Slot # {} /\ op.at = "recover" /\ Marks(s) = {}
        /\ UNCHANGED <<disk, life, faults>>
    BY <1>4, <2>1
       DEF ResolveRecord, Recorded, DeletionMarked, ForkMarked, Marks, Markers, At, bounds
  <2>4. op'.job = s /\ op'.todo = script
    BY <1>2, <2>2
  <2>5. CASE Fenced(s)
    <3>1. faults # 0
      BY <2>3, <2>5 DEF FencedOK
    <3> QED
      BY <2>3, <2>4, <2>5, <3>1
  <2>6. CASE ~Fenced(s)
    <3>1. RestOK(disk[s])
      BY <2>3, <2>6 DEF Settled
    <3>2. Ordered(script, disk[s])
      BY <1>3, <2>3, <2>6, <3>1, ScriptsOrdered
    <3> QED
      BY <2>3, <2>4, <2>6, <3>2
  <2> QED
    BY <2>5, <2>6
<1>5. CASE ReconcileLegacy
  <2>1. PICK s \in Uncounted : "transcript" \in disk[s] /\ Do(s, Reconcile, "recover")
    BY <1>5 DEF ReconcileLegacy
  <2>2. s \in Ids /\ life[s] = Nothing /\ disk[s] \cap Slot = {} /\ UNCHANGED <<disk, life, faults>>
    BY <1>5, <2>1 DEF ReconcileLegacy, Uncounted, bounds
  <2>3. op'.job = s /\ op'.todo = Reconcile
    BY <1>2, <2>1
  <2>4. ~Fenced(s)
    BY <2>2 DEF Fenced, Nothing, Tombstone, Quarantine
  <2>5. Ordered(Reconcile, disk[s])
    BY <2>1, <2>2, ReconcileOrdered DEF Slot
  <2> QED
    BY <2>2, <2>3, <2>4, <2>5
<1>6. CASE Resume
  <2> DEFINE run == ModelRecord("return") \o <<Step("add", {"row"}, "return")>> \o CatchUp(op.id)
  <2>1. Ordered(run, disk[op.id])
    BY IndexOrdered
  <2>2. op.at = "resume" /\ op.id \in Ids /\ UNCHANGED <<disk, life>>
    BY <1>1, <1>6 DEF Resume, At, PlaceOK
  <2>3. Return => op'.todo = <<>>
    BY NoOpTyped DEF Return
  <2>4. Available(op.id) /\ Do(op.id, run, "attach")
    BY <1>6, <2>3 DEF Resume
  <2> HIDE DEF run
  <2> QED
    BY <1>2, <1>3, <2>1, <2>2, <2>4
<1>7. CASE Fork
  <2> DEFINE run == ModelRecord("return")
                      \o When("baseline" \notin disk[op.src],
                              <<Step("add", {"row"}, "return")>> \o CatchUp(op.src))
  <2>1. Ordered(run, disk[op.src])
    BY IndexOrdered
  <2>2. op.at = "fork" /\ op.src \in Ids /\ UNCHANGED <<disk, life>>
    BY <1>1, <1>7 DEF Fork, At, PlaceOK, ForkSteps
  <2>3. Return => op'.todo = <<>>
    BY NoOpTyped DEF Return
  <2>4. Available(op.src) /\ Do(op.src, run, "fork.id")
    BY <1>7, <2>3 DEF Fork
  <2> HIDE DEF run
  <2> QED
    BY <1>2, <1>3, <2>1, <2>2, <2>4
<1>8. CASE CreateWrite
  <2>1. op.kind = "create"
    BY <1>1, <1>8 DEF CreateWrite, At, PlaceOK, CreateSteps
  <2>2. op'.at = "attach" /\ op'.kind = op.kind
    BY <1>2, <1>8 DEF CreateWrite
  <2> QED
    BY <2>1, <2>2 DEF Resting
<1>9. CASE ForkPublish
  <2>1. op'.at \in {"fork.commit", "undo"}
    BY <1>1, <1>9 DEF ForkPublish, Ops
  <2> QED
    BY <2>1 DEF Resting
<1>10. CASE ForkStaged \/ RowsGone \/ RecordsGone
  <2>1. op'.at \in {"fork.publish", "files", "restore", "databases"}
    BY <1>2, <1>10 DEF ForkStaged, RowsGone, RecordsGone
  <2> QED
    BY <2>1 DEF Resting
<1> QED
  BY <1>4, <1>5, <1>6, <1>7, <1>8, <1>9, <1>10 DEF Starts

LEMMA QuietOrdered ==
  ASSUME LifeInv, faults \in Nat, FencedOK, \A s \in Ids : Settled(s), OrderOK, Next, ~TakeStep
  PROVE  OrderOK'
<1> SUFFICES ASSUME Resting', op'.todo # <<>>
             PROVE  \/ faults' # 0 /\ life'[op'.job] \in {Tombstone, Quarantine}
                    \/ /\ life'[op'.job] \notin {Tombstone, Quarantine}
                       /\ Ordered(op'.todo, disk'[op'.job])
  BY DEF OrderOK, Fenced
<1>1. TypeInv /\ op \in Ops /\ PlaceOK
  BY DEF LifeInv, TypeInv, OpOK
<1>2. Starts \/ op' = op
  <2>1. op'.at \in Waits
    BY DEF Resting, Waits, SafeRuns
  <2> QED
    BY <1>1, <2>1, RunsStart
<1>3. CASE Starts
  BY <1>3, StartsOrdered DEF Fenced
<1>4. CASE op' = op
  <2>1. op # NoOp /\ op.job \in Ids /\ op.todo # <<>> /\ Resting
    BY <1>1, <1>4, NoOpTyped DEF PlaceOK, Resting
  <2>2. Keeps(op.job)
    BY <1>1, <1>4, <2>1, OutsideKeeps
  <2>3. OutsideMove
    BY <1>1, <2>1, QuietMoves DEF Recovered, At, BeginMove
  <2>4. UNCHANGED life
    BY <1>4, <2>1, <2>3 DEF OutsideMove, PersistMove
  <2>5. faults # 0 => faults' # 0
    BY FaultsStep DEF Fault
  <2>6. Ordered(op.todo, disk[op.job]) => Ordered(op.todo, disk'[op.job])
    BY <2>2, OrderedGrows DEF Keeps
  <2> QED
    BY <1>4, <2>1, <2>4, <2>5, <2>6 DEF OrderOK, Fenced
<1> QED
  BY <1>2, <1>3, <1>4

-----------------------------------------------------------------------------
(* What the browser is shown *)

\* No call has failed, or nothing has died: a death on top of an error may leave
\* what nothing vouches for.
Calm == faults = 0 \/ crashes = 0

CalmOK == (\A s \in Ids : Settled(s)) /\ FencedOK /\ OrderOK

WholeInv == TracedInv /\ PlainOK /\ crashes \in Nat /\ (Calm => CalmOK)

LEMMA CrashesStep == ASSUME Next PROVE UNCHANGED crashes \/ crashes' = crashes + 1
<1>1. CASE TakeStep
  BY <1>1 DEF TakeStep
<1>2. CASE EnsureMarker \/ RecordsGone \/ RowsGone \/ FilesGone \/ Restore \/ Cleaned
  BY <1>2 DEF EnsureMarker, RecordsGone, RowsGone, FilesGone, Restore, Cleaned, bounds
<1>3. CASE \/ Preflight \/ RecoverMarked \/ ResolveRecord \/ RefuseRecord \/ DeleteUnpublished
           \/ DeleteGhost \/ ReconcileLegacy \/ Recovered
  BY <1>3 DEF Preflight, RecoverMarked, ResolveRecord, RefuseRecord, DeleteUnpublished,
     DeleteGhost, ReconcileLegacy, Recovered, bounds
<1>4. CASE \/ List \/ Delete \/ Deleted \/ Create \/ CreateWrite \/ CreateUndo \/ Failed
           \/ Resume \/ Attach
  BY <1>4
     DEF List, Delete, Deleted, Create, CreateWrite, CreateUndo, Failed, Resume, Attach, bounds
<1>5. CASE \/ Fork \/ ForkId \/ ForkStaged \/ ForkPublish \/ ForkCommit
           \/ Undo \/ UndoIndex \/ UndoFiles \/ UndoMark \/ UndoRemark \/ Undone
  BY <1>5, SMTT(30) DEF Fork, ForkId, ForkStaged, ForkPublish, ForkCommit,
     Undo, UndoIndex, UndoFiles, UndoMark, UndoRemark, Undone, bounds
<1>6. CASE BeginAny
  BY <1>6, Zenon DEF BeginAny, Begin, bounds
<1>7. CASE \E h \in Handles : Persist(h) \/ GoalWrite(h) \/ DropHandle(h)
  BY <1>7 DEF Persist, GoalWrite, DropHandle, bounds
<1>8. CASE Crash \/ PowerLoss
  BY <1>8 DEF Crash, PowerLoss, Restart
<1> QED
  BY <1>1, <1>2, <1>3, <1>4, <1>5, <1>6, <1>7, <1>8 DEF Next, Working

LEMMA CalmStep ==
  ASSUME WholeInv, LifeInv', MarkedOn', PlainOK', Calm', Next
  PROVE  Calm /\ CalmOK'
<1>1. LifeInv /\ PlainOK /\ faults \in Nat /\ (faults = 0 => TracedOK) /\ crashes \in Nat
  BY DEF WholeInv, TracedInv
<1>2. faults' = 0 => faults = 0 /\ ~Fault
  BY <1>1, NoFault
<1>3. crashes' = 0 => crashes = 0
  BY <1>1, CrashesStep
<1>4. Calm /\ FencedOK /\ OrderOK /\ \A s \in Ids : Settled(s)
  BY <1>2, <1>3 DEF Calm, WholeInv, CalmOK
<1>5. ASSUME NEW s \in Ids PROVE Settled(s)'
  <2>1. CASE TakeStep
    BY <1>1, <1>4, <2>1, TakeSettled
  <2>2. CASE ~TakeStep
    <3>1. Settled(s) /\ (faults' = 0 \/ crashes' = 0)
      BY <1>4 DEF Calm
    <3> QED
      BY <1>1, <2>2, <3>1, QuietSettled
  <2> QED
    BY <2>1, <2>2
<1>6. FencedOK'
  <2> SUFFICES ASSUME faults' = 0, NEW s \in Ids, Fenced(s)', Marks(s)' = {}
               PROVE  \/ disk'[s] \cap (Slot \cup {"row", "messages"}) = {}
                      \/ op'.at = "fork.commit" /\ s = op'.id
    BY DEF FencedOK
  <2>1. faults = 0 /\ ~Fault /\ TracedOK
    BY <1>1, <1>2
  <2>2. CASE TakeStep
    BY <1>1, <1>4, <2>1, <2>2, TakeFenced
  <2>3. CASE ~TakeStep
    BY <1>1, <1>4, <2>1, <2>3, QuietFenced
  <2> QED
    BY <2>2, <2>3
<1>7. OrderOK'
  BY <1>1, <1>4, TakeOrdered, QuietOrdered
<1> QED
  BY <1>4, <1>5, <1>6, <1>7 DEF CalmOK

LEMMA WholeStep == ASSUME WholeInv, [Next]_vars PROVE WholeInv'
<1>1. TracedInv'
  BY TracedStep DEF WholeInv
<1>2. CASE Next
  <2>1. PlainOK'
    BY <1>2, PlainStep DEF WholeInv, TracedInv
  <2>2. crashes' \in Nat
    BY <1>2, CrashesStep DEF WholeInv
  <2>3. LifeInv' /\ MarkedOn'
    BY <1>1 DEF TracedInv
  <2>4. Calm' => CalmOK'
    BY <1>2, <2>1, <2>3, CalmStep
  <2> QED
    BY <1>1, <2>1, <2>2, <2>4 DEF WholeInv
<1>3. CASE UNCHANGED vars
  <2>1. UNCHANGED <<disk, dur, life, op, faults, crashes>>
    BY <1>3 DEF vars, bounds
  <2>2. PlainOK => PlainOK'
    <3>1. ToGo' = ToGo
      BY <2>1 DEF ToGo
    <3>2. (ActiveOK => ActiveOK') /\ (SlotsOK => SlotsOK') /\ (ListOK => ListOK')
      BY <2>1 DEF ActiveOK, SlotsOK, Past, ListOK
    <3>3. (CreateOK => CreateOK') /\ (RepairOK => RepairOK')
      BY <2>1, <3>1 DEF CreateOK, RepairOK
    <3>4. StageOK => StageOK'
      BY <2>1, <3>1 DEF StageOK
    <3> QED
      BY <3>2, <3>3, <3>4 DEF PlainOK
  <2>3. (Calm' => Calm) /\ (CalmOK => CalmOK')
    BY <2>1 DEF Calm, CalmOK, Settled, FencedOK, OrderOK, Resting, Marks, Fenced
  <2> QED
    BY <1>1, <2>1, <2>2, <2>3 DEF WholeInv
<1> QED
  BY <1>2, <1>3

LEMMA WholeInit == ASSUME LeftsWhole, LeftsTraced, Init PROVE WholeInv
<1>1. /\ op.at = "idle" /\ op.todo = <<>> /\ op.kind = "none" /\ ~op.quarantined
      /\ faults = 0 /\ crashes = 0
  BY NoOpTyped DEF Init, NoOp
<1>2. TracedInv
  BY TracedInit
<1>3. \A s \in Ids : disk[s] \in Lefts /\ life[s] = Nothing
  BY DEF Init
<1>4. Nothing.state # "active" /\ Nothing \notin {Tombstone, Quarantine}
  BY DEF Nothing, Tombstone, Quarantine
<1>5. \A s \in Ids : Settled(s)
  BY <1>3 DEF LeftsWhole, Settled, Marks
<1>6. FencedOK
  BY <1>3, <1>4 DEF FencedOK, Fenced
<1>7. OrderOK
  BY <1>1 DEF OrderOK
<1>8. ActiveOK
  BY <1>3, <1>4 DEF ActiveOK
<1>9. SlotsOK /\ ListOK /\ CreateOK /\ RepairOK
  BY <1>1 DEF SlotsOK, Past, ListOK, CreateOK, RepairOK, CreateSteps, StageSteps, CleanSteps
<1>10. StageOK
  BY <1>1 DEF StageOK, StageSteps, Undoing
<1> QED
  BY <1>1, <1>2, <1>5, <1>6, <1>7, <1>8, <1>9, <1>10 DEF WholeInv, PlainOK, CalmOK

\* What list_sessions answers has its transcript and its messages and no marker,
\* wherever processes died or power was lost, as long as no call failed, and
\* whatever failed, as long as nothing died, if the store that was found held
\* no session that is half there without a marker.
THEOREM ShownWholeAlways ==
  ASSUME LeftsWhole, LeftsTraced
  PROVE  Spec => [](faults = 0 \/ crashes = 0 => ShownWhole)
<1>1. ASSUME WholeInv, faults = 0 \/ crashes = 0, At("list"), NEW s \in Listed
      PROVE  {"transcript", "messages"} \subseteq disk[s] /\ disk[s] \cap Markers = {}
  <2>1. LifeInv /\ TypeOK /\ PlainOK /\ Settled(s) /\ s \in Ids /\ "row" \in disk[s] /\ Available(s)
    BY <1>1 DEF WholeInv, TracedInv, LifeInv, TypeInv, Calm, CalmOK, Listed
  <2>2. op.at = "list"
    BY <1>1 DEF At
  <2>3. Marks(s) = {}
    BY <2>1, <2>2 DEF LifeInv, MarksOK, Quiet
  <2>4. disk[s] \cap Slot = {}
    BY <2>1, <2>2 DEF PlainOK, SlotsOK, Past
  <2>5. ~Fenced(s)
    BY <2>1 DEF Available, Fenced, Tombstone, Quarantine
  <2>6. RestOK(disk[s])
    BY <2>1, <2>3, <2>5 DEF Settled
  <2>7. {"messages", "baseline"} \cap disk[s] # {}
    <3>1. life[s] = Nothing \/ \E g \in Gens : life[s] = Active(g)
      BY <2>1, <2>5 DEF TypeOK, Fenced
    <3>2. CASE life[s] = Nothing
      BY <2>1, <2>2, <3>2 DEF PlainOK, ListOK
    <3>3. CASE \E g \in Gens : life[s] = Active(g)
      <4>1. life[s].state = "active"
        BY <3>3 DEF Active
      <4> QED
        BY <2>1, <4>1 DEF PlainOK, ActiveOK
    <3> QED
      BY <3>1, <3>2, <3>3
  <2>8. {"transcript", "messages"} \subseteq disk[s]
    BY <2>1, <2>4, <2>6, <2>7 DEF RestOK, Slot
  <2> QED
    BY <2>3, <2>8 DEF Marks
<1>2. WholeInv => (faults = 0 \/ crashes = 0 => ShownWhole)
  BY <1>1 DEF ShownWhole
<1>3. Init => WholeInv
  BY WholeInit
<1>4. WholeInv /\ [Next]_vars => WholeInv'
  BY WholeStep
<1> QED
  BY <1>2, <1>3, <1>4, PTL DEF Spec
==============================================================================
