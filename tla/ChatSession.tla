---------------------------- MODULE ChatSession ----------------------------
(***************************************************************************)
(* One ChatSession object (rust/ffi/src/chat.rs) and the durable goal of   *)
(* its session (rust/ffi/src/goals.rs).                                    *)
(*                                                                         *)
(* The app calls the object from many tasks: send, retry, start_goal and   *)
(* resume_goal claim the session (busy and a fresh cancellation token,     *)
(* published together under the cancel lock) and run the model;            *)
(* pause_goal, clear_goal and stop claim nothing and may come at any time, *)
(* between any two awaits of a run.  One action is the code between two    *)
(* awaits.  Each operation on the goal database is one blocking closure    *)
(* and one action.                                                         *)
(*                                                                         *)
(* The engine is external: a turn consumes tokens and ends, or not, as it  *)
(* likes; the goal store (claurst_core::GoalStore) is modelled by the      *)
(* operations the code calls.  Persisting messages either works or answers *)
(* an error (module SessionPersistence says what it does).  A call that    *)
(* finds the session busy is refused and changes nothing: no action.       *)
(***************************************************************************)
EXTENDS Naturals, FiniteSets

CONSTANTS
  Callers,    \* tasks of the app that call the session
  MaxTurns,   \* claurst_core::MAX_GOAL_TURNS
  Budgets,    \* token budgets a goal is started with
  Costs,      \* tokens one turn may consume
  MaxRuns,    \* bound: claims of the session
  MaxFaults,  \* bound: failing calls
  MaxCrashes  \* bound: process deaths

NoBudget == 0

ASSUME ConstantsAssumption ==
  /\ MaxTurns \in Nat \ {0}
  /\ Budgets \subseteq Nat
  /\ Costs \subseteq Nat
  /\ MaxRuns \in Nat /\ MaxFaults \in Nat /\ MaxCrashes \in Nat

VARIABLES
  busy,       \* ChatSession.busy
  current,    \* the token in ChatSession.cancel
  cancelled,  \* tokens that are cancelled
  issued,     \* tokens issued so far
  goal,       \* the session's row in the goal database
  created,    \* goals created so far
  tail,       \* role of the last message of ChatSession.messages
  call,       \* per caller: the call it makes, its place in it, its locals
  lastRun,    \* how the last start_goal or resume_goal ended
  counted,    \* tokens of the goal's recorded turns
  halfDone,   \* a pause or clear wrote the goal and then answered an error
  faults, crashes

store == <<goal, created, counted>>
token == <<current, cancelled, issued>>
vars == <<busy, token, store, tail, call, lastRun, halfDone, faults, crashes>>

-----------------------------------------------------------------------------
(* Data *)

NoToken == 0
NoId == 0

Statuses == {"active", "paused", "limited", "complete"}
Goal == [id : Nat \ {NoId}, status : Statuses, turns : Nat, tokens : Nat,
         budget : Nat]
NoGoal == [id |-> NoId, status |-> "none", turns |-> 0, tokens |-> 0,
           budget |-> NoBudget]

Roles == {"none", "user", "assistant"}
Outcomes == {"none", "end", "error", "cancelled"}

TurnSteps == {"prompt", "check", "build", "turn", "journal"}
GoalSteps == {"create", "load", "reactivate", "pause", "record", "snapshot",
              "final"}
RunSteps == TurnSteps \cup GoalSteps
Steps == RunSteps \cup {"idle", "stopping"}

Kinds == {"none", "send", "retry", "goal", "control"}

\* owns is the goal the run works on, start its tokens when the run began,
\* used what the run's CostTracker has counted, cost the last turn's share,
\* last the role the working messages end with.
Call == [kind : Kinds, at : Steps, token : Nat, owns : Nat, start : Nat,
         used : Nat, cost : Nat, last : Roles, outcome : Outcomes]
IdleCall == [kind |-> "none", at |-> "idle", token |-> NoToken, owns |-> NoId,
             start |-> 0, used |-> 0, cost |-> 0, last |-> "none",
             outcome |-> "none"]

At(c, step) == call[c].at = step
Running(c) == call[c].at \in RunSteps
IsCancelled(c) == call[c].token \in cancelled

\* The goal the caller's run works on is still the session's goal.
Owned(c) == goal.id # NoId /\ goal.id = call[c].owns

-----------------------------------------------------------------------------
Init == /\ busy = FALSE
        /\ current = NoToken
        /\ cancelled = {}
        /\ issued = 0
        /\ goal = NoGoal
        /\ created = 0
        /\ tail = "none"
        /\ call = [c \in Callers |-> IdleCall]
        /\ lastRun = "none"
        /\ counted = 0
        /\ halfDone = FALSE
        /\ faults = 0
        /\ crashes = 0

(* Control *)

Goto(c, step) == call' = [call EXCEPT ![c].at = step]
Return(c) == call' = [call EXCEPT ![c] = IdleCall]

Fault == faults < MaxFaults /\ faults' = faults + 1
NoFault == UNCHANGED faults

\* The call returns; a run gives the session back first.
Finish(c) == busy' = FALSE /\ Return(c)

\* start_goal or resume_goal returns, with a result or with an error.
FinishGoal(c, answer) == Finish(c) /\ lastRun' = answer

-----------------------------------------------------------------------------
(* Claiming the session: claim_goal_run and the head of run_turn *)

\* The new token is not published: a stop cancels the last run's.
ClaimKeepsToken(c, kind, step) ==
  /\ ~busy
  /\ busy' = TRUE
  /\ issued' = issued + 1
  /\ UNCHANGED <<current, cancelled>>
  /\ call' = [call EXCEPT ![c] = [IdleCall EXCEPT !.kind = kind, !.at = step,
                                                  !.token = issued + 1]]

ClaimUnchecked(c, kind, step) ==
  /\ busy' = TRUE
  /\ issued' = issued + 1
  /\ current' = issued + 1
  /\ UNCHANGED cancelled
  /\ call' = [call EXCEPT ![c] = [IdleCall EXCEPT !.kind = kind, !.at = step,
                                                  !.token = issued + 1]]

Claim(c, kind, step) ==
  /\ ~busy
  /\ busy' = TRUE
  /\ issued' = issued + 1
  /\ current' = issued + 1
  /\ UNCHANGED cancelled
  /\ call' = [call EXCEPT ![c] = [IdleCall EXCEPT !.kind = kind, !.at = step,
                                                  !.token = issued + 1]]

BeginRun(c) ==
  /\ At(c, "idle")
  /\ issued < MaxRuns
  /\ \/ Claim(c, "send", "prompt")
     \/ Claim(c, "retry", "prompt")
     \/ Claim(c, "goal", "create")
     \/ Claim(c, "goal", "load")
  /\ halfDone' = FALSE
  /\ UNCHANGED <<store, tail, lastRun, faults, crashes>>

-----------------------------------------------------------------------------
(* The goal database, as goals.rs uses it.  A store operation that fails may *)
(* have been committed: the second read or the check of the files that follow *)
(* it (GoalStorage::with_path) may be what failed.                            *)

\* goals::create: set_goal replaces whatever goal the session had.
NewGoal(budget) == [id |-> created + 1, status |-> "active", turns |-> 0,
                    tokens |-> 0, budget |-> budget]

SetGoal == /\ \E budget \in Budgets : goal' = NewGoal(budget)
           /\ created' = created + 1
           /\ counted' = 0

\* start_goal gives the session back when the goal cannot be created.
CreateFailsBusy(c) ==
  Fault /\ UNCHANGED busy /\ Return(c) /\ lastRun' = "error"

CreateFails(c) == Fault /\ FinishGoal(c, "error")

Create(c) ==
  /\ At(c, "create")
  /\ \/ /\ SetGoal
        /\ call' = [call EXCEPT ![c].at = "prompt", ![c].owns = created + 1]
        /\ NoFault
        /\ UNCHANGED <<busy, lastRun>>
     \/ FinishGoal(c, "error") /\ NoFault /\ UNCHANGED store   \* no objective
     \/ CreateFails(c) /\ (SetGoal \/ UNCHANGED store)
  /\ UNCHANGED <<token, tail, halfDone, crashes>>

\* validate_resume
ResumableAnyTurns(g) == g.status = "paused"

Resumable(g) == g.status = "paused" /\ g.turns < MaxTurns

\* goals::resume reads and validates in one closure and writes in another.
LoadGoal(c) ==
  /\ At(c, "load")
  /\ \/ /\ Resumable(goal)
        /\ Goto(c, "reactivate")
        /\ NoFault
        /\ UNCHANGED <<busy, lastRun>>
     \/ ~Resumable(goal) /\ NoFault /\ FinishGoal(c, "error")
     \/ Fault /\ FinishGoal(c, "error")
  /\ UNCHANGED <<token, store, tail, halfDone, crashes>>

Activated == goal.status = "paused" /\ goal' = [goal EXCEPT !.status = "active"]

\* No continuation message is added here: the first turn of the resumed run
\* starts from the messages as they are.
Reactivate(c) ==
  /\ At(c, "reactivate")
  /\ \/ /\ Activated
        /\ call' = [call EXCEPT ![c].at = "check", ![c].owns = goal.id,
                                ![c].start = goal.tokens, ![c].last = tail]
        /\ NoFault
        /\ UNCHANGED <<busy, lastRun>>
     \/ /\ goal.status # "paused"
        /\ UNCHANGED goal
        /\ NoFault
        /\ FinishGoal(c, "error")
     \/ (Activated \/ UNCHANGED goal) /\ Fault /\ FinishGoal(c, "error")
  /\ UNCHANGED <<token, created, counted, tail, halfDone, crashes>>

\* pause_active_goal: a paused goal stays paused, any other one is an error.
Pausable(g) == g.status \in {"active", "paused"}
Paused(g) == [g EXCEPT !.status = "paused"]

\* goals::pause_owned, the tail of pause_goal_result and goal_runtime_result.
\* A goal that is gone is the result "cleared"; one that has completed, or ran
\* out of budget, is an error.
LeavesActive(c) == UNCHANGED goal /\ NoFault /\ FinishGoal(c, "ok")

PausesUnread(c) == goal' = Paused(goal) /\ NoFault /\ FinishGoal(c, "ok")

PauseOwned(c) ==
  \/ ~Owned(c) /\ UNCHANGED goal /\ NoFault /\ FinishGoal(c, "ok")
  \/ /\ Owned(c) /\ Pausable(goal)
     /\ goal' = Paused(goal)
     /\ NoFault
     /\ FinishGoal(c, "ok")
  \/ /\ Owned(c) /\ ~Pausable(goal)
     /\ UNCHANGED goal
     /\ NoFault
     /\ FinishGoal(c, "error")
  \/ /\ \/ UNCHANGED goal
        \/ Owned(c) /\ Pausable(goal) /\ goal' = Paused(goal)
     /\ Fault
     /\ FinishGoal(c, "error")

PauseResult(c) ==
  /\ At(c, "pause")
  /\ PauseOwned(c)
  /\ UNCHANGED <<token, created, counted, tail, halfDone, crashes>>

\* record_completed_turn: the absolute total of the run, never less than before.
TotalRefreshed(c) == goal.tokens + call[c].used

Total(c) == call[c].start + call[c].used

Recorded(c) ==
  [goal EXCEPT !.turns = @ + 1,
               !.tokens = IF Total(c) > @ THEN Total(c) ELSE @]

OverBudget(g) == g.budget # NoBudget /\ g.tokens >= g.budget

\* The goal after the turn is recorded and the limits are looked at.
Continued(c) ==
  LET g == Recorded(c)
  IN CASE g.status = "active" /\ g.turns >= MaxTurns -> Paused(g)
       [] g.status = "active" /\ g.turns < MaxTurns /\ OverBudget(g) ->
            [g EXCEPT !.status = "limited"]
       [] OTHER -> g

\* goals::continue_after_turn: the turn is recorded; then the goal goes on, or
\* is stopped by the turn limit or its budget, or has been stopped already.
RecordTurn(c) ==
  /\ At(c, "record")
  /\ \/ /\ ~Owned(c)
        /\ NoFault
        /\ FinishGoal(c, "ok")
        /\ UNCHANGED <<goal, counted>>
     \/ /\ Owned(c)
        /\ goal' = Continued(c)
        /\ counted' = counted + call[c].cost
        /\ Goto(c, IF goal'.status = "active" THEN "snapshot" ELSE "final")
        /\ NoFault
        /\ UNCHANGED <<busy, lastRun>>
     \/ /\ Fault
        /\ \/ UNCHANGED <<goal, counted>>
           \/ /\ Owned(c)
              /\ goal' \in {Recorded(c), Continued(c)}
              /\ counted' = counted + call[c].cost
        /\ FinishGoal(c, "error")
  /\ UNCHANGED <<token, created, tail, halfDone, crashes>>

\* required_snapshot, then the continuation message; or the run's result.
Snapshot(c) ==
  /\ At(c, "snapshot")
  /\ \/ /\ goal # NoGoal
        /\ call' = [call EXCEPT ![c].at = "check", ![c].owns = goal.id,
                                ![c].last = "user"]
        /\ NoFault
        /\ UNCHANGED <<busy, lastRun>>
     \/ goal = NoGoal /\ NoFault /\ FinishGoal(c, "error")
     \/ Fault /\ FinishGoal(c, "error")
  /\ UNCHANGED <<token, store, tail, halfDone, crashes>>

Final(c) ==
  /\ At(c, "final")
  /\ \/ goal # NoGoal /\ NoFault /\ FinishGoal(c, "ok")
     \/ goal = NoGoal /\ NoFault /\ FinishGoal(c, "error")
     \/ Fault /\ FinishGoal(c, "error")
  /\ UNCHANGED <<token, store, tail, halfDone, crashes>>

-----------------------------------------------------------------------------
(* run_turn and the loop of run_goal *)

\* The call returns with an error; what that means depends on the kind of run.
Fail(c) == /\ Finish(c)
           /\ lastRun' = IF call[c].kind = "goal" THEN "error" ELSE lastRun

\* The user message is appended and persisted.  A goal run gives up when it
\* cannot be persisted, a chat turn goes on; retry appends nothing and needs a
\* message that still waits for its answer.
Prompt(c) ==
  /\ At(c, "prompt")
  /\ \/ /\ call[c].kind = "retry" => tail = "user"
        /\ tail' = "user"
        /\ call' = [call EXCEPT ![c].at = "check", ![c].last = "user"]
        /\ NoFault
        /\ UNCHANGED <<busy, lastRun>>
     \/ /\ call[c].kind = "retry" /\ tail # "user"
        /\ NoFault
        /\ Fail(c)
        /\ UNCHANGED tail
     \/ /\ call[c].kind = "goal"
        /\ Fault
        /\ tail' = "user"
        /\ Fail(c)
  /\ UNCHANGED <<token, store, halfDone, crashes>>

Check(c) ==
  /\ At(c, "check")
  /\ IF ~IsCancelled(c) THEN Goto(c, "build") /\ UNCHANGED busy
     ELSE IF call[c].kind = "goal" THEN Goto(c, "pause") /\ UNCHANGED busy
     ELSE Finish(c)
  /\ UNCHANGED <<token, store, tail, lastRun, halfDone, faults, crashes>>

\* build_loop_inputs and sandbox_goal_tools
Build(c) ==
  /\ At(c, "build")
  /\ \/ Goto(c, "turn") /\ NoFault /\ UNCHANGED <<busy, lastRun>>
     \/ Fault /\ Fail(c)
  /\ UNCHANGED <<token, store, tail, halfDone, crashes>>

\* During a goal's turn the model may call GoalComplete.
CompleteGoal(c) ==
  /\ At(c, "turn") /\ call[c].kind = "goal"
  /\ goal.status = "active"
  /\ goal' = [goal EXCEPT !.status = "complete"]
  /\ UNCHANGED <<busy, token, created, counted, tail, call, lastRun, halfDone,
                 faults, crashes>>

\* run_query_loop returns: at the end of the turn, with an error (or at a
\* limit), or cancelled.
Turn(c) ==
  /\ At(c, "turn")
  /\ \E cost \in Costs, outcome \in {"end", "error", "cancelled"} :
       /\ outcome = "cancelled" => IsCancelled(c)
       /\ call' = [call EXCEPT ![c].at = "journal", ![c].cost = cost,
                               ![c].used = @ + cost, ![c].outcome = outcome]
  /\ UNCHANGED <<busy, token, store, tail, lastRun, halfDone, faults, crashes>>

\* The forwarder is joined and what the turn produced is persisted.
Journal(c) ==
  /\ At(c, "journal")
  /\ tail' \in {"user", "assistant"}
  /\ IF call[c].kind # "goal" THEN Finish(c) /\ NoFault /\ UNCHANGED lastRun
     ELSE \/ /\ Goto(c, IF call[c].outcome = "end" THEN "record" ELSE "pause")
             /\ NoFault
             /\ UNCHANGED <<busy, lastRun>>
          \/ Fault /\ Fail(c)
  /\ UNCHANGED <<token, store, halfDone, crashes>>

-----------------------------------------------------------------------------
(* The calls that claim nothing *)

\* stop
Cancel == cancelled' = cancelled \cup {current}

Stop ==
  /\ Cancel
  /\ UNCHANGED <<busy, current, issued, store, tail, call, lastRun, halfDone,
                 faults, crashes>>

\* pause_goal writes the pause first and stops then; if the write answers an
\* error, committed or not, it does not stop.
Pause(c) ==
  /\ At(c, "idle")
  /\ Pausable(goal)
  /\ goal' = Paused(goal)
  /\ \/ /\ call' = [call EXCEPT ![c].kind = "control", ![c].at = "stopping"]
        /\ NoFault
        /\ UNCHANGED halfDone
     \/ Fault /\ halfDone' = TRUE /\ UNCHANGED call
  /\ UNCHANGED <<busy, token, created, counted, tail, lastRun, crashes>>

\* clear_goal removes the goal first; there may be none.
Clear(c) ==
  /\ At(c, "idle")
  /\ goal' = NoGoal
  /\ counted' = 0
  /\ \/ /\ call' = [call EXCEPT ![c].kind = "control", ![c].at = "stopping"]
        /\ NoFault
        /\ UNCHANGED halfDone
     \/ Fault /\ halfDone' = TRUE /\ UNCHANGED call
  /\ UNCHANGED <<busy, token, created, tail, lastRun, crashes>>

StopForgotten(c) ==
  /\ At(c, "stopping")
  /\ Return(c)
  /\ UNCHANGED <<busy, token, store, tail, lastRun, halfDone, faults, crashes>>

StopAfter(c) ==
  /\ At(c, "stopping")
  /\ Cancel
  /\ Return(c)
  /\ UNCHANGED <<busy, current, issued, store, tail, lastRun, halfDone, faults,
                 crashes>>

\* The process dies; the next one opens the session again (resume_session).
\* The transcript may lack the last messages of a turn that ran.
Crash ==
  /\ crashes < MaxCrashes /\ crashes' = crashes + 1
  /\ busy' = FALSE
  /\ current' = NoToken /\ cancelled' = {} /\ UNCHANGED issued
  /\ call' = [c \in Callers |-> IdleCall]
  /\ tail' \in Roles
  /\ lastRun' = "lost"
  /\ halfDone' = FALSE
  /\ UNCHANGED <<store, faults>>

-----------------------------------------------------------------------------
\* What a call that has claimed the session, or has to stop it, does next.
Advance(c) ==
  \/ Create(c) \/ LoadGoal(c) \/ Reactivate(c) \/ Prompt(c) \/ Check(c)
  \/ Build(c) \/ Turn(c) \/ Journal(c) \/ PauseResult(c) \/ RecordTurn(c)
  \/ Snapshot(c) \/ Final(c) \/ StopAfter(c)

Next == \/ \E c \in Callers : \/ BeginRun(c) \/ Advance(c) \/ CompleteGoal(c)
                              \/ Pause(c) \/ Clear(c)
        \/ Stop
        \/ Crash

Spec == Init /\ [][Next]_vars

\* Tokio polls every task again that can go on, and a turn of the engine ends.
FairSpec == Spec /\ \A c \in Callers : WF_vars(Advance(c))

-----------------------------------------------------------------------------
(* Properties *)

\* Every variable has its type.
TypeOK ==
  /\ busy \in BOOLEAN
  /\ current \in Nat /\ cancelled \subseteq Nat /\ issued \in Nat
  /\ goal \in Goal \cup {NoGoal}
  /\ created \in Nat /\ counted \in Nat
  /\ tail \in Roles
  /\ call \in [Callers -> Call]
  /\ halfDone \in BOOLEAN
  /\ lastRun \in {"none", "ok", "error", "lost"}
  /\ faults \in Nat /\ crashes \in Nat

\* The session is busy exactly while one call runs on it: never two, and no
\* early return forgets to give it back.
OneRun ==
  /\ \A c, d \in Callers : Running(c) /\ Running(d) => c = d
  /\ busy <=> \E c \in Callers : Running(c)

\* A stop reaches the run: the token a run looks at is the one stop cancels.
OwnToken == \A c \in Callers : Running(c) => call[c].token = current

\* Nobody works on a goal whose pause, or removal, pause_goal or clear_goal has
\* answered: the run is cancelled, or is about to be by the call that has just
\* written the goal.  (halfDone: that call failed after its write.)
Working == {"prompt", "check", "build", "turn", "journal", "record", "snapshot"}

PauseReaches ==
  \A c \in Callers :
    call[c].kind = "goal" /\ call[c].at \in Working
      /\ (~Owned(c) \/ goal.status = "paused") =>
        \/ IsCancelled(c)
        \/ halfDone
        \/ \E d \in Callers : At(d, "stopping")

\* A run that returned a result left no goal active behind: an active goal
\* without a run means the run failed, or died with the process.
AnsweredStops ==
  ~busy /\ goal.status = "active" => lastRun \in {"error", "lost"}

\* Usage is counted once: the stored tokens are those of the recorded turns,
\* across the turns of a run (its cost tracker is cumulative), across pauses
\* and resumes, and with turns that failed or were cancelled in between.
UsageExact == goal # NoGoal => goal.tokens = counted

\* No model turn is started for a goal that has used up its turns, however
\* often it was paused and resumed and whatever failed.
TurnsBounded ==
  \A c \in Callers :
    call[c].kind = "goal" /\ At(c, "turn") /\ Owned(c) => goal.turns < MaxTurns

\* Every claimed session is given back.
BusyEnds == busy ~> ~busy

\* A run that has begun its turns (its goal is created or activated, its prompt
\* is persisted) and then returns, with an error too, does not leave the goal it
\* works on active.
GoalStops ==
  [][\A c \in Callers :
       call[c].kind = "goal" /\ call[c].at \in {"check", "build", "turn", "journal"}
       /\ Owned(c) /\ call'[c].at = "idle"
       => goal'.status # "active"]_vars

\* No goal is active in a process that has not run it yet.
LaunchPauses == lastRun = "lost" => busy \/ goal.status # "active"

\* A model turn starts from a message of the user, or the continuation message.
TurnsPrompted ==
  \A c \in Callers : At(c, "turn") => call[c].last = "user"

\* Every step of the session, a failing one and the death of the process too,
\* is a step the lifecycle of a goal allows, or none: only a running call makes
\* a goal active, a finished goal is never revived, a turn is recorded once.
Abstract == INSTANCE GoalLifecycle
              WITH running <- \E c \in Callers : Running(c)

Lifecycle == Abstract!Spec
=============================================================================
