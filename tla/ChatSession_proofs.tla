------------------------- MODULE ChatSession_proofs -------------------------
(***************************************************************************)
(* The safety properties of ChatSession for any set of callers, any turn   *)
(* limit, budgets and costs, and any number of runs, faults and crashes.   *)
(***************************************************************************)
EXTENDS ChatSession, TLAPS

\* The run works on a goal of its own, from its creation or resumption on.
Works(c) == call[c].kind = "goal" /\ call[c].at \in Working \cup {"pause", "final"}

\* Steps at which the next model turn of a goal may still be allowed.
Turning == {"prompt", "check", "build", "turn", "snapshot"}

KindFits(c) ==
  /\ call[c].at \in GoalSteps => call[c].kind = "goal"
  /\ call[c].at \in TurnSteps => call[c].kind \in {"send", "retry", "goal"}

\* Nobody replaces the goal of a running run; it may be cleared.
OwnsGoal(c) == Works(c) => goal = NoGoal \/ goal.id = call[c].owns

\* What the run has counted is what the goal has, plus the last turn's share
\* until that turn is recorded.
Accounts(c) ==
  /\ call[c].at \in {"create", "load", "reactivate"} =>
       call[c].start = 0 /\ call[c].used = 0
  /\ call[c].at \in {"journal", "record"} => call[c].cost \in Costs
  /\ call[c].kind = "goal" /\ goal # NoGoal =>
       /\ call[c].at \in Turning => call[c].start + call[c].used = goal.tokens
       /\ call[c].at \in {"journal", "record"} =>
            call[c].start + call[c].used = goal.tokens + call[c].cost

TurnsLeft(c) ==
  call[c].kind = "goal" /\ call[c].at \in Turning \cup {"reactivate"} =>
    goal.turns < MaxTurns

Reached(c) ==
  call[c].kind = "goal" /\ call[c].at \in Working
    /\ (~Owned(c) \/ goal.status = "paused") =>
      \/ IsCancelled(c)
      \/ halfDone
      \/ \E d \in Callers : At(d, "stopping")

RunOK(c) ==
  /\ KindFits(c)
  /\ OwnsGoal(c)
  /\ Accounts(c)
  /\ TurnsLeft(c)
  /\ At(c, "final") => goal.status # "active"
  /\ Running(c) => call[c].token = current
  /\ Reached(c)

\* An active goal nobody works on is the legacy of an error or a death.
Unattended ==
  goal.status = "active" /\ (\A c \in Callers : ~Works(c)) =>
    lastRun \in {"error", "lost"}

Inv == /\ TypeOK
       /\ OneRun
       /\ \A c \in Callers : RunOK(c)
       /\ UsageExact
       /\ Unattended

-----------------------------------------------------------------------------
\* The invariant holds before anybody calls the session.
LEMMA InitInv == Init => Inv
<1> SUFFICES ASSUME Init PROVE Inv
  OBVIOUS
<1>1. TypeOK
  BY DEF Init, TypeOK, NoGoal, IdleCall, Call, Kinds, Steps, Roles, Outcomes,
         NoToken, NoId
<1>2. \A c \in Callers : call[c] = IdleCall
  BY DEF Init
<1>3. OneRun
  BY <1>2 DEF Init, OneRun, Running, IdleCall, RunSteps, TurnSteps, GoalSteps
<1>4. \A c \in Callers : RunOK(c)
  BY <1>2 DEF RunOK, KindFits, OwnsGoal, Works, Accounts, TurnsLeft, Reached,
              Running, At, IdleCall, RunSteps, TurnSteps, GoalSteps, Working,
              Turning
<1>5. UsageExact /\ Unattended
  BY DEF Init, UsageExact, Unattended, NoGoal
<1> QED
  BY <1>1, <1>3, <1>4, <1>5 DEF Inv

Answers == {"none", "ok", "error", "lost"}

StoreTyped == /\ goal \in Goal \cup {NoGoal}
              /\ created \in Nat
              /\ counted \in Nat

\* What a step of a running call leaves typed, whatever it does to the goal.
LEMMA StepTyped ==
  ASSUME Inv, UNCHANGED <<token, halfDone, crashes>>, Fault \/ NoFault,
         call' \in [Callers -> Call], busy' \in BOOLEAN, StoreTyped',
         tail' \in Roles, lastRun' \in Answers
  PROVE  TypeOK'
<1>1. faults' \in Nat
  BY DEF Fault, NoFault, Inv, TypeOK
<1> QED
  BY <1>1 DEF Inv, TypeOK, token, StoreTyped, Answers

\* What a step of the running call owes the invariant: only its own place may
\* change, and it gives the session back exactly when it stops running.
LEMMA RunStep ==
  ASSUME NEW c \in Callers, Inv, Running(c),
         UNCHANGED <<token, halfDone, crashes>>, Fault \/ NoFault,
         call' \in [Callers -> Call], busy' \in BOOLEAN, StoreTyped',
         tail' \in Roles, lastRun' \in Answers,
         \A d \in Callers : d # c => call'[d] = call[d],
         busy' <=> Running(c)',
         RunOK(c)', UsageExact', Unattended'
  PROVE  Inv'
<1>1. \A d \in Callers : d # c => ~Running(d) /\ ~Running(d)'
  BY DEF Inv, OneRun, Running
<1>2. OneRun'
  BY <1>1 DEF OneRun
<1>3. ASSUME NEW d \in Callers, d # c PROVE RunOK(d)'
  <2>1. call'[d] = call[d] /\ call[d].at \notin RunSteps
    BY <1>1, <1>3 DEF Running
  <2> QED
    BY <2>1 DEF RunOK, KindFits, OwnsGoal, Works, Accounts, TurnsLeft, Reached,
                Running, At, RunSteps, TurnSteps, GoalSteps, Working, Turning
<1> QED
  BY <1>2, <1>3, StepTyped DEF Inv

LEMMA IdleTyped == IdleCall \in Call
BY DEF IdleCall, Call, Kinds, Steps, Roles, Outcomes, NoToken, NoId

\* A call that returns forgets its locals; the session is given back.
LEMMA FinishCall ==
  ASSUME NEW c \in Callers, TypeOK, Finish(c)
  PROVE  /\ call' \in [Callers -> Call]
         /\ \A d \in Callers : d # c => call'[d] = call[d]
         /\ call'[c] = IdleCall
         /\ busy' = FALSE
BY IdleTyped DEF Finish, Return, TypeOK

\* Moving a call on changes nothing else of it.
LEMMA GotoCall ==
  ASSUME NEW c \in Callers, NEW step \in Steps, TypeOK, Goto(c, step)
  PROVE  /\ call' \in [Callers -> Call]
         /\ \A d \in Callers : d # c => call'[d] = call[d]
         /\ call'[c] = [call[c] EXCEPT !.at = step]
BY DEF Goto, TypeOK, Call

\* A run that returns keeps the invariant if the goal it leaves behind does.
LEMMA RunEnds ==
  ASSUME NEW c \in Callers, Inv, Running(c), Finish(c),
         UNCHANGED <<token, halfDone, crashes>>, Fault \/ NoFault,
         StoreTyped', tail' \in Roles, lastRun' \in Answers,
         UsageExact', Unattended'
  PROVE  Inv'
<1>1. /\ call' \in [Callers -> Call]
      /\ \A d \in Callers : d # c => call'[d] = call[d]
      /\ call'[c] = IdleCall
      /\ busy' = FALSE
  BY FinishCall DEF Inv
<1>2. ~Running(c)'
  BY <1>1 DEF Running, IdleCall, RunSteps, TurnSteps, GoalSteps
<1>3. RunOK(c)'
  BY <1>1, <1>2
     DEF RunOK, KindFits, OwnsGoal, Works, Accounts, TurnsLeft, Reached, At,
         Running, IdleCall, RunSteps, TurnSteps, GoalSteps, Working, Turning
<1> QED
  BY <1>1, <1>2, <1>3, RunStep

\* A goal run that fails leaves lastRun telling so.
LEMMA RunFails ==
  ASSUME NEW c \in Callers, Inv, Running(c), FinishGoal(c, "error"),
         UNCHANGED <<token, halfDone, crashes>>, Fault \/ NoFault,
         StoreTyped', tail' \in Roles, UsageExact'
  PROVE  Inv'
<1>1. Finish(c) /\ Unattended' /\ lastRun' \in Answers
  BY DEF FinishGoal, Unattended, Answers
<1> QED
  BY <1>1, RunEnds

\* A run that goes on keeps its token and the session.
LEMMA RunMoves ==
  ASSUME NEW c \in Callers, Inv, Running(c),
         NEW r \in Call, call' = [call EXCEPT ![c] = r],
         r.at \in RunSteps, r.token = call[c].token,
         UNCHANGED <<busy, lastRun>>,
         UNCHANGED <<token, halfDone, crashes>>, Fault \/ NoFault,
         StoreTyped', tail' \in Roles,
         KindFits(c)', OwnsGoal(c)', Accounts(c)', TurnsLeft(c)', Reached(c)',
         r.at = "final" => goal'.status # "active",
         UsageExact', Unattended'
  PROVE  Inv'
<1>1. /\ call' \in [Callers -> Call]
      /\ \A d \in Callers : d # c => call'[d] = call[d]
      /\ call'[c] = r
  BY DEF Inv, TypeOK
<1>2. busy' \in BOOLEAN /\ lastRun' \in Answers
  BY DEF Inv, TypeOK, Answers
<1>3. Running(c)' /\ (busy' <=> Running(c)')
  BY <1>1 DEF Inv, OneRun, Running
<1>4. call'[c].token = current'
  BY <1>1 DEF Inv, RunOK, token
<1>5. RunOK(c)'
  BY <1>1, <1>4 DEF RunOK, At
<1> QED
  BY <1>1, <1>2, <1>3, <1>5, RunStep


-----------------------------------------------------------------------------
(* One lemma per action *)

\* Claiming: nobody runs, the token published is the claimer's own.
LEMMA BeginRunInv ==
  ASSUME NEW c \in Callers, Inv, BeginRun(c)
  PROVE  Inv'
<1>1. PICK kind \in {"send", "retry", "goal"}, step \in {"prompt", "create", "load"} :
        /\ Claim(c, kind, step)
        /\ step # "prompt" <=> kind = "goal"
  BY DEF BeginRun
<1> DEFINE r == [IdleCall EXCEPT !.kind = kind, !.at = step, !.token = issued + 1]
<1>2. /\ \A d \in Callers : d # c => call'[d] = call[d]
      /\ call'[c] = r
      /\ call' \in [Callers -> Call]
  <2>1. issued + 1 \in Nat
    BY DEF Inv, TypeOK
  <2>2. r \in Call
    BY <2>1 DEF IdleCall, Call, Kinds, Steps, RunSteps, TurnSteps, GoalSteps,
                Roles, Outcomes, NoToken, NoId
  <2> QED
    BY <1>1, <2>2 DEF Claim, Inv, TypeOK
<1>3. TypeOK'
  <2>1. /\ busy' \in BOOLEAN /\ current' \in Nat /\ issued' \in Nat
        /\ cancelled' = cancelled
    BY <1>1 DEF Claim, Inv, TypeOK
  <2>2. /\ halfDone' \in BOOLEAN /\ goal' = goal /\ created' = created /\ counted' = counted
        /\ tail' = tail /\ lastRun' = lastRun
        /\ faults' = faults /\ crashes' = crashes
    BY DEF BeginRun, store
  <2> QED
    BY <1>2, <2>1, <2>2 DEF Inv, TypeOK
<1>4. \A d \in Callers : ~Running(d)
  BY <1>1 DEF Claim, Inv, OneRun
<1>5. Running(c)'
  BY <1>2 DEF Running, IdleCall, RunSteps, TurnSteps, GoalSteps
<1>6. OneRun'
  BY <1>1, <1>2, <1>4, <1>5 DEF OneRun, Claim, Running
<1>7. RunOK(c)'
  BY <1>1, <1>2
     DEF RunOK, KindFits, OwnsGoal, Works, Accounts, TurnsLeft, Reached, At,
         Running, Claim, IdleCall, RunSteps, TurnSteps, GoalSteps, Working,
         Turning
<1>8. ASSUME NEW d \in Callers, d # c PROVE RunOK(d)'
  <2>1. call'[d] = call[d] /\ call[d].at \notin RunSteps
    BY <1>2, <1>4, <1>8 DEF Running
  <2> QED
    BY <2>1 DEF RunOK, KindFits, OwnsGoal, Works, Accounts, TurnsLeft, Reached,
                Running, At, RunSteps, TurnSteps, GoalSteps, Working, Turning
<1>9. UsageExact'
  BY DEF BeginRun, Inv, UsageExact, store
<1>10. Unattended'
  <2>1. \A d \in Callers : ~Works(d)
    BY <1>4 DEF Works, Running, RunSteps, TurnSteps, GoalSteps, Working
  <2> QED
    BY <2>1 DEF BeginRun, Inv, Unattended, store
<1> QED
  BY <1>3, <1>6, <1>7, <1>8, <1>9, <1>10 DEF Inv

LEMMA LoadGoalInv ==
  ASSUME NEW c \in Callers, Inv, LoadGoal(c)
  PROVE  Inv'
<1>1. Running(c) /\ At(c, "load") /\ call[c].kind = "goal"
  BY DEF LoadGoal, At, Running, RunSteps, GoalSteps, Inv, RunOK, KindFits
<1>2. /\ UNCHANGED <<token, halfDone, crashes>> /\ (Fault \/ NoFault)
      /\ StoreTyped' /\ tail' \in Roles /\ UsageExact'
  BY DEF LoadGoal, Inv, TypeOK, UsageExact, StoreTyped, store
<1>3. CASE FinishGoal(c, "error")
  BY <1>1, <1>2, <1>3, RunFails
<1>4. CASE /\ Resumable(goal)
           /\ Goto(c, "reactivate")
           /\ UNCHANGED <<busy, lastRun>>
  <2> DEFINE r == [call[c] EXCEPT !.at = "reactivate"]
  <2>1. /\ r \in Call /\ call' = [call EXCEPT ![c] = r]
        /\ r.at \in RunSteps /\ r.token = call[c].token /\ r.at # "final"
    BY <1>4 DEF Goto, Inv, TypeOK, Call, Steps, RunSteps, GoalSteps
  <2>2. /\ call'[c].at = "reactivate" /\ call'[c].kind = "goal"
        /\ call'[c].start = call[c].start /\ call'[c].used = call[c].used
    BY <1>1, <2>1 DEF Inv, TypeOK, Call
  <2>3. KindFits(c)' /\ OwnsGoal(c)' /\ TurnsLeft(c)' /\ Reached(c)'
    BY <1>4, <2>2 DEF KindFits, OwnsGoal, Works, TurnsLeft, Reached, LoadGoal,
                      Resumable, store, GoalSteps, TurnSteps, Working
  <2>4. Accounts(c)'
    BY <1>1, <2>2 DEF Inv, RunOK, Accounts, At, Turning
  <2>5. Unattended'
    BY <1>4 DEF LoadGoal, Resumable, Unattended, store
  <2> QED
    BY <1>1, <1>2, <1>4, <2>1, <2>3, <2>4, <2>5, RunMoves
<1> QED
  BY <1>3, <1>4 DEF LoadGoal

\* A new goal has no turns and no tokens, and the run owns it.
LEMMA CreateInv ==
  ASSUME NEW c \in Callers, Inv, Create(c)
  PROVE  Inv'
<1>1. Running(c) /\ At(c, "create") /\ call[c].kind = "goal"
  BY DEF Create, At, Running, RunSteps, GoalSteps, Inv, RunOK, KindFits
<1>2. UNCHANGED <<token, halfDone, crashes>> /\ tail' \in Roles
  BY DEF Create, Inv, TypeOK
<1>3. Fault \/ NoFault
  BY DEF Create, CreateFails
<1>4. ASSUME SetGoal
      PROVE  /\ goal' \in Goal /\ goal'.id = created + 1
             /\ goal'.status = "active" /\ goal'.turns = 0 /\ goal'.tokens = 0
             /\ counted' = 0 /\ created' = created + 1
             /\ created + 1 \in Nat \ {0}
  BY <1>4, ConstantsAssumption
     DEF SetGoal, NewGoal, Goal, Statuses, NoId, Inv, TypeOK
<1>5. StoreTyped' /\ UsageExact'
  <2>1. CASE SetGoal
    BY <1>4, <2>1 DEF StoreTyped, UsageExact
  <2>2. CASE UNCHANGED store
    BY <2>2 DEF StoreTyped, UsageExact, store, Inv, TypeOK
  <2> QED
    BY <2>1, <2>2 DEF Create
<1>6. CASE FinishGoal(c, "error")
  BY <1>1, <1>2, <1>3, <1>5, <1>6, RunFails
<1>7. CASE /\ SetGoal
           /\ call' = [call EXCEPT ![c].at = "prompt", ![c].owns = created + 1]
           /\ UNCHANGED <<busy, lastRun>>
  <2> DEFINE r == [call[c] EXCEPT !.at = "prompt", !.owns = created + 1]
  <2>1. created + 1 \in Nat
    BY <1>4, <1>7
  <2>2. /\ r \in Call /\ call' = [call EXCEPT ![c] = r]
        /\ r.at \in RunSteps /\ r.token = call[c].token /\ r.at # "final"
    BY <1>7, <2>1 DEF Inv, TypeOK, Call, Steps, RunSteps, TurnSteps
  <2>3. /\ call'[c].at = "prompt" /\ call'[c].kind = "goal"
        /\ call'[c].owns = created + 1
        /\ call'[c].start = call[c].start /\ call'[c].used = call[c].used
    BY <1>1, <2>2 DEF Inv, TypeOK, Call
  <2>4. call[c].start = 0 /\ call[c].used = 0
    BY <1>1 DEF Inv, RunOK, Accounts, At
  <2>5. KindFits(c)' /\ OwnsGoal(c)' /\ TurnsLeft(c)'
    BY <1>4, <1>7, <2>3, ConstantsAssumption
       DEF KindFits, OwnsGoal, TurnsLeft, GoalSteps, TurnSteps, Turning
  <2>6. Accounts(c)'
    BY <1>4, <1>7, <2>3, <2>4 DEF Accounts, Turning
  <2>7. Reached(c)'
    BY <1>4, <1>7, <2>3 DEF Reached, Owned, NoId
  <2>8. Unattended'
    BY <2>3 DEF Unattended, Works, Working
  <2> QED
    BY <1>1, <1>2, <1>3, <1>5, <1>7, <2>2, <2>5, <2>6, <2>7, <2>8, RunMoves
<1> QED
  BY <1>6, <1>7 DEF Create, CreateFails

\* The resumed goal is what LoadGoal validated, unless it was cleared; the run
\* starts counting from its tokens.
LEMMA ReactivateInv ==
  ASSUME NEW c \in Callers, Inv, Reactivate(c)
  PROVE  Inv'
<1>1. Running(c) /\ At(c, "reactivate") /\ call[c].kind = "goal"
  BY DEF Reactivate, At, Running, RunSteps, GoalSteps, Inv, RunOK, KindFits
<1>2. /\ UNCHANGED <<token, halfDone, crashes>> /\ (Fault \/ NoFault)
      /\ tail' = tail /\ tail \in Roles /\ counted' = counted /\ created' = created
  BY DEF Reactivate, Inv, TypeOK
<1>3. ASSUME Activated
      PROVE  /\ goal \in Goal /\ goal' \in Goal /\ goal' # NoGoal
             /\ goal.status = "paused" /\ goal'.status = "active"
             /\ goal'.id = goal.id /\ goal'.turns = goal.turns
             /\ goal'.tokens = goal.tokens /\ goal # NoGoal
             /\ goal.id \in Nat /\ goal.id # NoId /\ goal.tokens \in Nat
  BY <1>3 DEF Activated, Inv, TypeOK, Goal, NoGoal, Statuses, NoId
<1>4. StoreTyped' /\ UsageExact'
  <2>1. CASE Activated
    BY <1>2, <1>3, <2>1 DEF StoreTyped, UsageExact, Inv, TypeOK
  <2>2. CASE goal' = goal
    BY <1>2, <2>2 DEF StoreTyped, UsageExact, Inv, TypeOK
  <2> QED
    BY <2>1, <2>2 DEF Reactivate
<1>5. CASE FinishGoal(c, "error")
  BY <1>1, <1>2, <1>4, <1>5, RunFails
<1>6. CASE /\ Activated
           /\ call' = [call EXCEPT ![c].at = "check", ![c].owns = goal.id,
                                   ![c].start = goal.tokens, ![c].last = tail]
           /\ UNCHANGED <<busy, lastRun>>
  <2> DEFINE r == [call[c] EXCEPT !.at = "check", !.owns = goal.id,
                                  !.start = goal.tokens, !.last = tail]
  <2>1. /\ r \in Call /\ call' = [call EXCEPT ![c] = r]
        /\ r.at \in RunSteps /\ r.token = call[c].token /\ r.at # "final"
    BY <1>2, <1>3, <1>6 DEF Inv, TypeOK, Call, Steps, RunSteps, TurnSteps
  <2>2. /\ call'[c].at = "check" /\ call'[c].kind = "goal"
        /\ call'[c].owns = goal.id
        /\ call'[c].start = goal.tokens /\ call'[c].used = call[c].used
    BY <1>1, <2>1 DEF Inv, TypeOK, Call
  <2>3. call[c].used = 0 /\ goal.turns < MaxTurns
    BY <1>1 DEF Inv, RunOK, Accounts, TurnsLeft, At
  <2>4. KindFits(c)' /\ OwnsGoal(c)' /\ TurnsLeft(c)'
    BY <1>3, <1>6, <2>2, <2>3 DEF KindFits, OwnsGoal, TurnsLeft, GoalSteps,
                                  TurnSteps
  <2>5. Accounts(c)'
    BY <1>3, <1>6, <2>2, <2>3 DEF Accounts, Turning
  <2>6. Reached(c)'
    BY <1>3, <1>6, <2>2 DEF Reached, Owned
  <2>7. Unattended'
    BY <2>2 DEF Unattended, Works, Working
  <2> QED
    BY <1>1, <1>2, <1>4, <1>6, <2>1, <2>4, <2>5, <2>6, <2>7, RunMoves
<1> QED
  BY <1>5, <1>6 DEF Reactivate

\* A run may be given back in the middle of a turn's steps: a goal run answers
\* an error, a chat turn leaves the goal as it was.
LEMMA RunGivesUp ==
  ASSUME NEW c \in Callers, Inv, Running(c), Fail(c), call[c].at \in TurnSteps,
         UNCHANGED <<token, store, halfDone, crashes>>, Fault \/ NoFault,
         tail' \in Roles
  PROVE  Inv'
<1>1. StoreTyped' /\ UsageExact' /\ lastRun' \in Answers
  BY DEF StoreTyped, UsageExact, Inv, TypeOK, store, Fail, Answers
<1>2. CASE call[c].kind = "goal"
  <2>1. FinishGoal(c, "error")
    BY <1>2 DEF Fail, FinishGoal
  <2> QED
    BY <1>1, <2>1, RunFails
<1>3. CASE call[c].kind # "goal"
  <2>1. \A d \in Callers : ~Works(d)
    BY <1>3 DEF Inv, OneRun, Works, Running, RunSteps, TurnSteps, GoalSteps,
                Working
  <2>2. Unattended'
    BY <1>3, <2>1 DEF Inv, Unattended, Fail, store
  <2> QED
    BY <1>1, <2>2, RunEnds DEF Fail
<1> QED
  BY <1>2, <1>3

\* A step from one place of a turn to the next: the goal is left alone, and
\* the turn's share is added when the turn ends.
LEMMA TurnMoves ==
  ASSUME NEW c \in Callers, Inv, call[c].at \in TurnSteps,
         NEW r \in Call, call' = [call EXCEPT ![c] = r],
         r.kind = call[c].kind, r.token = call[c].token,
         r.owns = call[c].owns, r.start = call[c].start,
         \/ /\ r.at \in {"check", "build", "turn"}
            /\ call[c].at \in {"prompt", "check", "build"}
            /\ r.used = call[c].used
         \/ /\ r.at = "journal" /\ call[c].at = "turn"
            /\ r.used = call[c].used + r.cost /\ r.cost \in Costs
         \/ /\ r.at \in {"record", "pause"} /\ r.kind = "goal"
            /\ r.at = "record" =>
                 /\ call[c].at = "journal"
                 /\ r.used = call[c].used /\ r.cost = call[c].cost,
         UNCHANGED <<busy, lastRun>>,
         UNCHANGED <<token, store, halfDone, crashes>>, Fault \/ NoFault,
         tail' \in Roles
  PROVE  Inv'
<1>1. /\ call'[c] = r
      /\ \A d \in Callers : d # c => call'[d] = call[d]
  BY DEF Inv, TypeOK
<1>2. Running(c) /\ r.at \in RunSteps /\ r.at # "final"
  BY DEF Running, RunSteps, TurnSteps, GoalSteps
<1>3. goal' = goal /\ created' = created /\ counted' = counted
  BY DEF store
<1>4. StoreTyped' /\ UsageExact'
  BY <1>3 DEF StoreTyped, UsageExact, Inv, TypeOK
<1>5. KindFits(c)' /\ OwnsGoal(c)' /\ TurnsLeft(c)'
  BY <1>1, <1>3 DEF Inv, RunOK, KindFits, OwnsGoal, Works, TurnsLeft, TurnSteps,
                    GoalSteps, Working, Turning
<1>6. Accounts(c)'
  <2>1. /\ call[c].start \in Nat /\ call[c].used \in Nat /\ r.cost \in Nat
        /\ goal # NoGoal => goal.tokens \in Nat
    BY DEF Inv, TypeOK, Call, Goal
  <2>2. Accounts(c)
    BY DEF Inv, RunOK
  <2> QED
    BY <1>1, <1>3, <2>1, <2>2 DEF Accounts, Turning
<1>7. Reached(c)'
  <2>1. CASE r.kind = "goal" /\ r.at \in Working
    <3>1. call[c].at \in Working /\ Reached(c)
      BY DEF Inv, RunOK, Working, TurnSteps
    <3>2. ~At(c, "stopping")
      BY DEF At, TurnSteps
    <3> QED
      BY <1>1, <1>3, <2>1, <3>1, <3>2
         DEF Reached, Owned, IsCancelled, At, token
  <2>2. CASE ~(r.kind = "goal" /\ r.at \in Working)
    BY <1>1, <2>2 DEF Reached
  <2> QED
    BY <2>1, <2>2
<1>8. Unattended'
  <2>1. ASSUME NEW d \in Callers, Works(d) PROVE Works(d)'
    BY <1>1, <2>1 DEF Works, Working, TurnSteps
  <2> QED
    BY <1>3, <2>1 DEF Inv, Unattended
<1> QED
  BY <1>2, <1>4, <1>5, <1>6, <1>7, <1>8, RunMoves

LEMMA PromptInv ==
  ASSUME NEW c \in Callers, Inv, Prompt(c)
  PROVE  Inv'
<1>1. At(c, "prompt") /\ call[c].at \in TurnSteps /\ Running(c)
  BY DEF Prompt, At, Running, RunSteps, TurnSteps
<1>2. /\ UNCHANGED <<token, store, halfDone, crashes>> /\ (Fault \/ NoFault)
      /\ tail' \in Roles
  BY DEF Prompt, Inv, TypeOK, Roles
<1>3. CASE Fail(c)
  BY <1>1, <1>2, <1>3, RunGivesUp
<1>4. CASE /\ call' = [call EXCEPT ![c].at = "check", ![c].last = "user"]
           /\ UNCHANGED <<busy, lastRun>>
  <2> DEFINE r == [call[c] EXCEPT !.at = "check", !.last = "user"]
  <2>1. /\ r \in Call /\ call' = [call EXCEPT ![c] = r]
        /\ r.at = "check" /\ r.kind = call[c].kind /\ r.token = call[c].token
        /\ r.owns = call[c].owns /\ r.start = call[c].start
        /\ r.used = call[c].used
    BY <1>4 DEF Inv, TypeOK, Call, Steps, RunSteps, TurnSteps, Roles
  <2> QED
    BY <1>1, <1>2, <1>4, <2>1, TurnMoves DEF At
<1> QED
  BY <1>3, <1>4 DEF Prompt

\* A cancelled chat turn is given back here, a cancelled goal run pauses first.
LEMMA CheckInv ==
  ASSUME NEW c \in Callers, Inv, Check(c)
  PROVE  Inv'
<1>1. At(c, "check") /\ call[c].at \in TurnSteps /\ Running(c)
  BY DEF Check, At, Running, RunSteps, TurnSteps
<1>2. /\ UNCHANGED <<token, store, halfDone, crashes>> /\ NoFault
      /\ tail' \in Roles /\ UNCHANGED lastRun
  BY DEF Check, Inv, TypeOK, NoFault
<1>3. CASE Finish(c) /\ call[c].kind # "goal"
  BY <1>1, <1>2, <1>3, RunGivesUp DEF Fail
<1>4. ASSUME NEW step \in {"build", "pause"}, Goto(c, step), UNCHANGED busy,
             step = "pause" => call[c].kind = "goal"
      PROVE  Inv'
  <2> DEFINE r == [call[c] EXCEPT !.at = step]
  <2>1. /\ r \in Call /\ call' = [call EXCEPT ![c] = r]
        /\ r.at = step /\ r.kind = call[c].kind /\ r.token = call[c].token
        /\ r.owns = call[c].owns /\ r.start = call[c].start
        /\ r.used = call[c].used
    BY <1>4 DEF Goto, Inv, TypeOK, Call, Steps, RunSteps, TurnSteps, GoalSteps
  <2> QED
    BY <1>1, <1>2, <1>4, <2>1, TurnMoves DEF At
<1> QED
  BY <1>3, <1>4 DEF Check

LEMMA BuildInv ==
  ASSUME NEW c \in Callers, Inv, Build(c)
  PROVE  Inv'
<1>1. At(c, "build") /\ call[c].at \in TurnSteps /\ Running(c)
  BY DEF Build, At, Running, RunSteps, TurnSteps
<1>2. /\ UNCHANGED <<token, store, halfDone, crashes>> /\ (Fault \/ NoFault)
      /\ tail' \in Roles
  BY DEF Build, Inv, TypeOK
<1>3. CASE Fail(c)
  BY <1>1, <1>2, <1>3, RunGivesUp
<1>4. CASE Goto(c, "turn") /\ UNCHANGED <<busy, lastRun>>
  <2> DEFINE r == [call[c] EXCEPT !.at = "turn"]
  <2>1. /\ r \in Call /\ call' = [call EXCEPT ![c] = r]
        /\ r.at = "turn" /\ r.kind = call[c].kind /\ r.token = call[c].token
        /\ r.owns = call[c].owns /\ r.start = call[c].start
        /\ r.used = call[c].used
    BY <1>4 DEF Goto, Inv, TypeOK, Call, Steps, RunSteps, TurnSteps
  <2> QED
    BY <1>1, <1>2, <1>4, <2>1, TurnMoves DEF At
<1> QED
  BY <1>3, <1>4 DEF Build

\* However the turn ends, its tokens are counted by the run before anything
\* else looks at them.
LEMMA TurnInv ==
  ASSUME NEW c \in Callers, Inv, Turn(c)
  PROVE  Inv'
<1>1. At(c, "turn") /\ call[c].at \in TurnSteps
  BY DEF Turn, At, TurnSteps
<1>2. /\ UNCHANGED <<token, store, halfDone, crashes>> /\ NoFault
      /\ tail' \in Roles /\ UNCHANGED <<busy, lastRun>>
  BY DEF Turn, Inv, TypeOK, NoFault
<1>3. PICK cost \in Costs, outcome \in {"end", "error", "cancelled"} :
        call' = [call EXCEPT ![c].at = "journal", ![c].cost = cost,
                             ![c].used = @ + cost, ![c].outcome = outcome]
  BY DEF Turn
<1> DEFINE r == [call[c] EXCEPT !.at = "journal", !.cost = cost,
                                !.used = @ + cost, !.outcome = outcome]
<1>4. cost \in Nat /\ call[c].used + cost \in Nat
  BY ConstantsAssumption DEF Inv, TypeOK, Call
<1>5. /\ r \in Call /\ call' = [call EXCEPT ![c] = r]
      /\ r.at = "journal" /\ r.kind = call[c].kind /\ r.token = call[c].token
      /\ r.owns = call[c].owns /\ r.start = call[c].start
      /\ r.used = call[c].used + r.cost /\ r.cost \in Costs
  BY <1>3, <1>4 DEF Inv, TypeOK, Call, Steps, RunSteps, TurnSteps, Outcomes
<1> QED
  BY <1>1, <1>2, <1>5, TurnMoves DEF At

LEMMA JournalInv ==
  ASSUME NEW c \in Callers, Inv, Journal(c)
  PROVE  Inv'
<1>1. At(c, "journal") /\ call[c].at \in TurnSteps /\ Running(c)
  BY DEF Journal, At, Running, RunSteps, TurnSteps
<1>2. /\ UNCHANGED <<token, store, halfDone, crashes>> /\ (Fault \/ NoFault)
      /\ tail' \in Roles
  BY DEF Journal, Roles
<1>3. CASE Fail(c)
  BY <1>1, <1>2, <1>3, RunGivesUp
<1>4. CASE call[c].kind # "goal" /\ Finish(c) /\ UNCHANGED lastRun
  BY <1>1, <1>2, <1>4, RunGivesUp DEF Fail
<1>5. ASSUME NEW step \in {"record", "pause"}, Goto(c, step),
             UNCHANGED <<busy, lastRun>>, call[c].kind = "goal"
      PROVE  Inv'
  <2> DEFINE r == [call[c] EXCEPT !.at = step]
  <2>1. /\ r \in Call /\ call' = [call EXCEPT ![c] = r]
        /\ r.at = step /\ r.kind = call[c].kind /\ r.token = call[c].token
        /\ r.owns = call[c].owns /\ r.start = call[c].start
        /\ r.used = call[c].used /\ r.cost = call[c].cost
    BY <1>5 DEF Goto, Inv, TypeOK, Call, Steps, RunSteps, GoalSteps
  <2> QED
    BY <1>1, <1>2, <1>5, <2>1, TurnMoves DEF At
<1> QED
  BY <1>3, <1>4, <1>5 DEF Journal

\* A run whose goal is not its own any more has no goal left to look after.
LEMMA NotOwned ==
  ASSUME NEW c \in Callers, Inv, Works(c), ~Owned(c)
  PROVE  goal = NoGoal
BY DEF Inv, RunOK, OwnsGoal, Owned, TypeOK, Goal

LEMMA PausedFacts ==
  ASSUME Inv, Pausable(goal)
  PROVE  /\ goal \in Goal /\ Paused(goal) \in Goal
         /\ Paused(goal).status = "paused" /\ Paused(goal) # NoGoal
         /\ Paused(goal).id = goal.id /\ Paused(goal).turns = goal.turns
         /\ Paused(goal).tokens = goal.tokens
BY DEF Pausable, Paused, Inv, TypeOK, Goal, NoGoal, Statuses

LEMMA PauseResultInv ==
  ASSUME NEW c \in Callers, Inv, PauseResult(c)
  PROVE  Inv'
<1>1. Running(c) /\ call[c].at = "pause" /\ Works(c)
  BY DEF PauseResult, At, Running, RunSteps, GoalSteps, Inv, RunOK, KindFits,
         Works
<1>2. /\ UNCHANGED <<token, halfDone, crashes>> /\ (Fault \/ NoFault)
      /\ tail' \in Roles /\ created' = created /\ counted' = counted
  BY DEF PauseResult, PauseOwned, Inv, TypeOK
<1>3. goal' = goal \/ (Pausable(goal) /\ goal' = Paused(goal))
  BY DEF PauseResult, PauseOwned
<1>4. StoreTyped' /\ UsageExact'
  <2>1. CASE goal' = goal
    BY <1>2, <2>1 DEF StoreTyped, UsageExact, Inv, TypeOK
  <2>2. CASE Pausable(goal) /\ goal' = Paused(goal)
    BY <1>2, <2>2, PausedFacts DEF StoreTyped, UsageExact, Inv, TypeOK, Pausable,
                                   NoGoal
  <2> QED
    BY <1>3, <2>1, <2>2
<1>5. CASE FinishGoal(c, "error")
  BY <1>1, <1>2, <1>4, <1>5, RunFails
<1>6. CASE FinishGoal(c, "ok") /\ goal'.status # "active"
  BY <1>1, <1>2, <1>4, <1>6, RunEnds DEF FinishGoal, Unattended, Answers
<1>7. ASSUME ~Owned(c), UNCHANGED goal PROVE goal'.status # "active"
  BY <1>1, <1>7, NotOwned DEF NoGoal
<1>8. ASSUME Pausable(goal), goal' = Paused(goal) PROVE goal'.status # "active"
  BY <1>8, PausedFacts
<1> QED
  BY <1>5, <1>6, <1>7, <1>8 DEF PauseResult, PauseOwned

\* Recording adds the last turn's share and nothing else; a goal that goes on
\* has turns left.
LEMMA ContinuedFacts ==
  ASSUME NEW c \in Callers, Inv, goal \in Goal,
         call[c].start + call[c].used = goal.tokens + call[c].cost,
         NEW g \in {Recorded(c), Continued(c)}
  PROVE  /\ g \in Goal /\ g # NoGoal /\ g.id = goal.id
         /\ g.tokens = goal.tokens + call[c].cost
         /\ Continued(c).status = "active" =>
              goal.status = "active" /\ Continued(c).turns < MaxTurns
<1>1. /\ goal.tokens \in Nat /\ goal.turns \in Nat /\ goal.id # NoId
      /\ call[c].cost \in Nat
  BY DEF Inv, TypeOK, Goal, Call
<1> DEFINE total == goal.tokens + call[c].cost
<1>2. Recorded(c) = [goal EXCEPT !.turns = @ + 1, !.tokens = total]
  <2>1. Total(c) = total
    BY DEF Total
  <2>2. (IF total > goal.tokens THEN total ELSE goal.tokens) = total
    BY <1>1
  <2> QED
    BY <2>1, <2>2 DEF Recorded, Goal
<1>5. total \in Nat /\ goal.turns + 1 \in Nat
  BY <1>1
<1>3. /\ Recorded(c) \in Goal /\ Recorded(c).id = goal.id
      /\ Recorded(c).tokens = total /\ Recorded(c).status = goal.status
      /\ Recorded(c).turns \in Nat
  <2> DEFINE g2 == [goal EXCEPT !.turns = @ + 1, !.tokens = total]
  <2> HIDE DEF total
  <2>1. g2 \in Goal /\ g2.id = goal.id /\ g2.tokens = total
        /\ g2.status = goal.status /\ g2.turns = goal.turns + 1
    BY <1>5 DEF Goal
  <2> QED
    BY <1>2, <1>5, <2>1
<1> HIDE DEF total
<1>4. /\ Continued(c) \in Goal /\ Continued(c).id = goal.id
      /\ Continued(c).tokens = total
      /\ Continued(c).status = "active" =>
           goal.status = "active" /\ Continued(c).turns < MaxTurns
  BY <1>3, ConstantsAssumption
     DEF Continued, Paused, Goal, Statuses
<1> QED
  BY <1>1, <1>3, <1>4 DEF total, NoGoal, NoId

LEMMA RecordTurnInv ==
  ASSUME NEW c \in Callers, Inv, RecordTurn(c)
  PROVE  Inv'
<1>1. /\ Running(c) /\ At(c, "record") /\ call[c].at = "record"
      /\ call[c].kind = "goal" /\ Works(c)
  BY DEF RecordTurn, At, Running, RunSteps, GoalSteps, Inv, RunOK, KindFits,
         Works, Working
<1>2. /\ UNCHANGED <<token, halfDone, crashes>> /\ (Fault \/ NoFault)
      /\ tail' \in Roles /\ created' = created
  BY DEF RecordTurn, Inv, TypeOK
<1>3. ASSUME Owned(c)
      PROVE  /\ goal \in Goal /\ goal # NoGoal
             /\ call[c].start + call[c].used = goal.tokens + call[c].cost
             /\ goal.id = call[c].owns
  BY <1>1, <1>3 DEF Owned, Inv, TypeOK, NoGoal, RunOK, Accounts
<1>4. call[c].cost \in Nat /\ counted \in Nat
  BY DEF Inv, TypeOK, Call
<1>5. ASSUME NEW g \in {Recorded(c), Continued(c)}, Owned(c), goal' = g,
             counted' = counted + call[c].cost
      PROVE  StoreTyped' /\ UsageExact'
  BY <1>2, <1>3, <1>4, <1>5, ContinuedFacts
     DEF StoreTyped, UsageExact, Inv, TypeOK
<1>6. ASSUME UNCHANGED <<goal, counted>> PROVE StoreTyped' /\ UsageExact'
  BY <1>2, <1>6 DEF StoreTyped, UsageExact, Inv, TypeOK
<1>7. StoreTyped' /\ UsageExact'
  BY <1>5, <1>6 DEF RecordTurn
<1>8. CASE FinishGoal(c, "error")
  BY <1>1, <1>2, <1>7, <1>8, RunFails
<1>9. CASE ~Owned(c) /\ FinishGoal(c, "ok") /\ UNCHANGED goal
  <2>1. goal' = NoGoal
    BY <1>1, <1>9, NotOwned
  <2> QED
    BY <1>1, <1>2, <1>7, <1>9, <2>1, RunEnds
       DEF FinishGoal, Unattended, Answers, NoGoal
<1>10. CASE /\ Owned(c) /\ goal' = Continued(c)
            /\ Goto(c, IF goal'.status = "active" THEN "snapshot" ELSE "final")
            /\ counted' = counted + call[c].cost
            /\ UNCHANGED <<busy, lastRun>>
  <2> DEFINE step == IF goal'.status = "active" THEN "snapshot" ELSE "final"
             r == [call[c] EXCEPT !.at = step]
  <2>1. step \in {"snapshot", "final"} /\ (step = "final" => goal'.status # "active")
    OBVIOUS
  <2>2. /\ r \in Call /\ call' = [call EXCEPT ![c] = r]
        /\ r.at \in RunSteps /\ r.token = call[c].token /\ r.at = step
    BY <1>10, <2>1 DEF Goto, Inv, TypeOK, Call, Steps, RunSteps, GoalSteps
  <2>3. /\ call'[c].at = step /\ call'[c].kind = "goal"
        /\ call'[c].owns = call[c].owns /\ call'[c].start = call[c].start
        /\ call'[c].used = call[c].used /\ call'[c].token = call[c].token
        /\ \A d \in Callers : d # c => call'[d] = call[d]
    BY <1>1, <2>2 DEF Inv, TypeOK, Call
  <2> HIDE DEF step, r
  <2>4. /\ goal' \in Goal /\ goal' # NoGoal /\ goal'.id = call[c].owns
        /\ goal'.tokens = goal.tokens + call[c].cost
        /\ step = "snapshot" => goal'.status = "active" /\ goal'.turns < MaxTurns
    <3>1. /\ goal'.id = goal.id /\ goal'.tokens = goal.tokens + call[c].cost
          /\ goal' \in Goal /\ goal' # NoGoal
          /\ goal'.status = "active" => goal'.turns < MaxTurns
      BY <1>3, <1>10, ContinuedFacts
    <3> QED
      BY <1>3, <1>10, <3>1 DEF step
  <2>5. KindFits(c)' /\ OwnsGoal(c)' /\ TurnsLeft(c)'
    BY <2>1, <2>3, <2>4 DEF KindFits, OwnsGoal, TurnsLeft, GoalSteps, TurnSteps,
                            Turning
  <2>6. Accounts(c)'
    BY <1>3, <1>10, <2>1, <2>3, <2>4 DEF Accounts, Turning
  <2>7. Reached(c)'
    BY <2>1, <2>3, <2>4 DEF Reached, Owned, Working, Goal
  <2>8. Unattended'
    BY <2>1, <2>3 DEF Unattended, Works, Working
  <2> QED
    BY <1>1, <1>2, <1>7, <1>10, <2>1, <2>2, <2>5, <2>6, <2>7, <2>8, RunMoves
<1> QED
  BY <1>8, <1>9, <1>10 DEF RecordTurn

LEMMA SnapshotInv ==
  ASSUME NEW c \in Callers, Inv, Snapshot(c)
  PROVE  Inv'
<1>1. Running(c) /\ call[c].at = "snapshot" /\ call[c].kind = "goal"
  BY DEF Snapshot, At, Running, RunSteps, GoalSteps, Inv, RunOK, KindFits
<1>2. /\ UNCHANGED <<token, halfDone, crashes>> /\ (Fault \/ NoFault)
      /\ tail' \in Roles /\ goal' = goal /\ StoreTyped' /\ UsageExact'
  BY DEF Snapshot, Inv, TypeOK, StoreTyped, UsageExact, store
<1>3. CASE FinishGoal(c, "error")
  BY <1>1, <1>2, <1>3, RunFails
<1>4. CASE /\ goal # NoGoal
           /\ call' = [call EXCEPT ![c].at = "check", ![c].owns = goal.id,
                                   ![c].last = "user"]
           /\ UNCHANGED <<busy, lastRun>>
  <2> DEFINE r == [call[c] EXCEPT !.at = "check", !.owns = goal.id,
                                  !.last = "user"]
  <2>1. goal.id \in Nat /\ goal.id # NoId
    BY <1>4 DEF Inv, TypeOK, Goal
  <2>2. /\ r \in Call /\ call' = [call EXCEPT ![c] = r]
        /\ r.at \in RunSteps /\ r.token = call[c].token /\ r.at # "final"
    BY <1>4, <2>1 DEF Inv, TypeOK, Call, Steps, RunSteps, TurnSteps, Roles
  <2>3. /\ call'[c].at = "check" /\ call'[c].kind = "goal"
        /\ call'[c].owns = goal.id /\ call'[c].start = call[c].start
        /\ call'[c].used = call[c].used /\ call'[c].token = call[c].token
        /\ \A d \in Callers : d # c => call'[d] = call[d]
    BY <1>1, <2>2 DEF Inv, TypeOK, Call
  <2>4. KindFits(c)' /\ OwnsGoal(c)' /\ TurnsLeft(c)' /\ Accounts(c)'
    BY <1>1, <1>2, <2>3 DEF KindFits, OwnsGoal, TurnsLeft, Accounts, Inv, RunOK,
                            GoalSteps, TurnSteps, Turning
  <2>5. Reached(c)'
    <3>1. Owned(c)'
      BY <1>2, <2>1, <2>3 DEF Owned
    <3>2. ASSUME goal.status = "paused"
          PROVE  IsCancelled(c) \/ halfDone \/ \E d \in Callers : At(d, "stopping")
      BY <1>1, <3>2 DEF Inv, RunOK, Reached, Working
    <3> QED
      BY <1>1, <1>2, <2>3, <3>1, <3>2 DEF Reached, IsCancelled, At, token
  <2>6. Unattended'
    BY <2>3 DEF Unattended, Works, Working
  <2> QED
    BY <1>1, <1>2, <1>4, <2>2, <2>4, <2>5, <2>6, RunMoves
<1> QED
  BY <1>3, <1>4 DEF Snapshot

LEMMA FinalInv ==
  ASSUME NEW c \in Callers, Inv, Final(c)
  PROVE  Inv'
<1>1. Running(c) /\ At(c, "final") /\ goal.status # "active"
  BY DEF Final, At, Running, RunSteps, GoalSteps, Inv, RunOK
<1>2. /\ UNCHANGED <<token, halfDone, crashes>> /\ (Fault \/ NoFault)
      /\ tail' \in Roles /\ goal' = goal /\ StoreTyped' /\ UsageExact'
  BY DEF Final, Inv, TypeOK, StoreTyped, UsageExact, store
<1>3. CASE FinishGoal(c, "error")
  BY <1>1, <1>2, <1>3, RunFails
<1>4. CASE FinishGoal(c, "ok")
  BY <1>1, <1>2, <1>4, RunEnds DEF FinishGoal, Unattended, Answers
<1> QED
  BY <1>3, <1>4 DEF Final

\* GoalComplete changes the status of the goal only.
LEMMA CompleteGoalInv ==
  ASSUME NEW c \in Callers, Inv, CompleteGoal(c)
  PROVE  Inv'
<1>1. /\ goal \in Goal /\ goal' \in Goal /\ goal' # NoGoal /\ goal # NoGoal
      /\ goal'.status = "complete" /\ goal'.id = goal.id
      /\ goal'.turns = goal.turns /\ goal'.tokens = goal.tokens
  BY DEF CompleteGoal, Inv, TypeOK, Goal, NoGoal, Statuses
<1>2. UNCHANGED <<busy, created, counted, tail, call, lastRun, halfDone, faults,
                  crashes>> /\ UNCHANGED token
  BY DEF CompleteGoal
<1>3. TypeOK'
  BY <1>1, <1>2 DEF Inv, TypeOK, token
<1>4. OneRun'
  BY <1>2 DEF Inv, OneRun, Running
<1>5. ASSUME NEW d \in Callers PROVE RunOK(d)'
  BY <1>1, <1>2 DEF Inv, RunOK, KindFits, OwnsGoal, Works, Accounts, TurnsLeft,
                    Reached, Owned, IsCancelled, At, Running, token
<1>6. UsageExact' /\ Unattended'
  BY <1>1, <1>2 DEF Inv, UsageExact, Unattended
<1> QED
  BY <1>3, <1>4, <1>5, <1>6 DEF Inv

\* pause_goal and clear_goal take the goal from under a run; the stop that
\* reaches that run is still to come, or never comes (halfDone).
LEMMA ControlStep ==
  ASSUME NEW c \in Callers, Inv, At(c, "idle"),
         UNCHANGED token, UNCHANGED <<busy, created, tail, lastRun, crashes>>,
         \/ goal' = NoGoal /\ counted' = 0
         \/ Pausable(goal) /\ goal' = Paused(goal) /\ counted' = counted,
         \/ /\ call' = [call EXCEPT ![c].kind = "control", ![c].at = "stopping"]
            /\ NoFault
            /\ UNCHANGED halfDone
         \/ Fault /\ halfDone' = TRUE /\ UNCHANGED call
  PROVE  Inv'
<1>1. /\ goal' \in Goal \cup {NoGoal} /\ goal'.status # "active"
      /\ goal' # NoGoal => /\ goal # NoGoal /\ goal'.id = goal.id
                           /\ goal'.turns = goal.turns
                           /\ goal'.tokens = goal.tokens
  BY PausedFacts DEF NoGoal, Pausable
<1>2. /\ call' \in [Callers -> Call]
      /\ \A d \in Callers : d # c => call'[d] = call[d]
      /\ call'[c].at \in {"idle", "stopping"}
      /\ call'[c].at = "stopping" \/ halfDone'
  BY DEF Inv, TypeOK, Call, Kinds, Steps, At
<1>3. counted' \in Nat /\ faults' \in Nat /\ halfDone' \in BOOLEAN
  <2>1. counted' \in Nat
    BY DEF Inv, TypeOK
  <2>2. faults' \in Nat
    BY DEF Inv, TypeOK, Fault, NoFault
  <2>3. halfDone' \in BOOLEAN
    BY DEF Inv, TypeOK
  <2> QED
    BY <2>1, <2>2, <2>3
<1>4. TypeOK'
  BY <1>1, <1>2, <1>3 DEF Inv, TypeOK, token
<1>5. ~Running(c) /\ ~Running(c)'
  BY <1>2 DEF At, Running, RunSteps, TurnSteps, GoalSteps
<1>6. OneRun'
  BY <1>2, <1>5 DEF Inv, OneRun, Running
<1>7. RunOK(c)'
  BY <1>2, <1>5 DEF RunOK, KindFits, OwnsGoal, Works, Accounts, TurnsLeft,
                    Reached, At, RunSteps, TurnSteps, GoalSteps, Working, Turning
<1>8. ASSUME NEW d \in Callers, d # c PROVE RunOK(d)'
  <2>1. call'[d] = call[d]
    BY <1>2, <1>8
  <2>2. KindFits(d)' /\ (Running(d)' => call'[d].token = current')
    BY <2>1 DEF Inv, RunOK, KindFits, Running, token
  <2>3. OwnsGoal(d)' /\ Accounts(d)'
    BY <1>1, <2>1 DEF Inv, RunOK, OwnsGoal, Works, Accounts
  <2>4. TurnsLeft(d)'
    BY <1>1, <2>1, ConstantsAssumption DEF Inv, RunOK, TurnsLeft, NoGoal
  <2>5. Reached(d)'
    BY <1>2 DEF Reached, At
  <2> QED
    BY <1>1, <2>1, <2>2, <2>3, <2>4, <2>5 DEF RunOK
<1>9. UsageExact' /\ Unattended'
  BY <1>1 DEF Inv, UsageExact, Unattended
<1> QED
  BY <1>4, <1>6, <1>7, <1>8, <1>9 DEF Inv

LEMMA ControlInv ==
  ASSUME NEW c \in Callers, Inv, Pause(c) \/ Clear(c)
  PROVE  Inv'
<1>1. CASE Pause(c)
  BY <1>1, ControlStep DEF Pause
<1>2. CASE Clear(c)
  BY <1>2, ControlStep DEF Clear
<1> QED
  BY <1>1, <1>2

\* Cancelling the session's token cancels the token of whoever runs.
LEMMA StopAfterInv ==
  ASSUME NEW c \in Callers, Inv, StopAfter(c)
  PROVE  Inv'
<1>1. /\ call' \in [Callers -> Call] /\ call'[c] = IdleCall
      /\ \A d \in Callers : d # c => call'[d] = call[d]
  BY IdleTyped DEF StopAfter, Return, Inv, TypeOK
<1>2. /\ UNCHANGED <<busy, current, goal, created, counted, lastRun, halfDone>>
      /\ cancelled' = cancelled \cup {current}
      /\ UNCHANGED <<issued, tail, faults, crashes>>
  BY DEF StopAfter, Cancel, store
<1>3. TypeOK'
  BY <1>1, <1>2 DEF Inv, TypeOK
<1>4. ~Running(c) /\ ~Running(c)' /\ ~Works(c)
  BY <1>1 DEF StopAfter, At, Running, IdleCall, RunSteps, TurnSteps, GoalSteps,
              Works, Working
<1>5. OneRun'
  BY <1>1, <1>2, <1>4 DEF Inv, OneRun, Running
<1>6. RunOK(c)'
  BY <1>1, <1>4 DEF RunOK, KindFits, OwnsGoal, Works, Accounts, TurnsLeft,
                    Reached, At, IdleCall, RunSteps, TurnSteps, GoalSteps,
                    Working, Turning
<1>7. ASSUME NEW d \in Callers, d # c PROVE RunOK(d)'
  <2>1. call'[d] = call[d] /\ RunOK(d)
    BY <1>1, <1>7 DEF Inv
  <2>2. Reached(d)'
    <3>1. CASE Running(d)
      BY <1>2, <2>1, <3>1 DEF RunOK, Reached, IsCancelled
    <3>2. CASE ~Running(d)
      BY <2>1, <3>2 DEF Running, Reached, Working, RunSteps, TurnSteps, GoalSteps
    <3> QED
      BY <3>1, <3>2
  <2> QED
    BY <1>2, <2>1, <2>2 DEF RunOK, KindFits, OwnsGoal, Works, Accounts, TurnsLeft,
                            At, Running
<1>8. UsageExact' /\ Unattended'
  <2>1. ASSUME NEW d \in Callers, Works(d) PROVE Works(d)'
    BY <1>1, <1>4, <2>1 DEF Works
  <2> QED
    BY <1>2, <2>1 DEF Inv, UsageExact, Unattended
<1> QED
  BY <1>3, <1>5, <1>6, <1>7, <1>8 DEF Inv

LEMMA StopInv ==
  ASSUME Inv, Stop
  PROVE  Inv'
<1>1. /\ UNCHANGED <<busy, current, goal, created, counted, lastRun, halfDone>>
      /\ cancelled' = cancelled \cup {current}
      /\ UNCHANGED <<issued, tail, faults, crashes>> /\ call' = call
  BY DEF Stop, Cancel, store
<1>2. TypeOK' /\ OneRun' /\ UsageExact' /\ Unattended'
  BY <1>1 DEF Inv, TypeOK, OneRun, Running, UsageExact, Unattended, Works
<1>3. ASSUME NEW d \in Callers PROVE RunOK(d)'
  BY <1>1 DEF Inv, RunOK, KindFits, OwnsGoal, Works, Accounts, TurnsLeft, Reached,
              Owned, IsCancelled, At, Running
<1> QED
  BY <1>2, <1>3 DEF Inv

LEMMA CrashInv ==
  ASSUME Inv, Crash
  PROVE  Inv'
<1>1. \A d \in Callers : call'[d] = IdleCall
  BY DEF Crash
<1>2. TypeOK'
  <2>1. call' \in [Callers -> Call] /\ crashes' \in Nat
    BY IdleTyped DEF Crash, Inv, TypeOK
  <2>2. busy' \in BOOLEAN /\ current' \in Nat /\ cancelled' \subseteq Nat
    BY DEF Crash, NoToken
  <2>3. /\ issued' = issued /\ goal' = goal /\ created' = created
        /\ counted' = counted /\ faults' = faults /\ tail' \in Roles
        /\ lastRun' = "lost" /\ halfDone' = FALSE
    BY DEF Crash, store
  <2> QED
    BY <2>1, <2>2, <2>3 DEF Inv, TypeOK
<1>3. OneRun'
  BY <1>1 DEF Crash, OneRun, Running, IdleCall, RunSteps, TurnSteps, GoalSteps
<1>4. ASSUME NEW d \in Callers PROVE RunOK(d)'
  BY <1>1 DEF RunOK, KindFits, OwnsGoal, Works, Accounts, TurnsLeft, Reached,
              At, Running, IdleCall, RunSteps, TurnSteps, GoalSteps, Working,
              Turning
<1>5. UsageExact' /\ Unattended'
  BY DEF Crash, Inv, UsageExact, Unattended, store
<1> QED
  BY <1>2, <1>3, <1>4, <1>5 DEF Inv

LEMMA StutterInv ==
  ASSUME Inv, UNCHANGED vars
  PROVE  Inv'
<1>1. /\ UNCHANGED <<busy, current, cancelled, issued, goal, created, counted>>
      /\ UNCHANGED <<tail, call, lastRun, halfDone, faults, crashes>>
  BY DEF vars, token, store
<1>2. TypeOK' /\ OneRun' /\ UsageExact' /\ Unattended'
  BY <1>1 DEF Inv, TypeOK, OneRun, Running, UsageExact, Unattended, Works
<1>3. ASSUME NEW d \in Callers PROVE RunOK(d)'
  BY <1>1 DEF Inv, RunOK, KindFits, OwnsGoal, Works, Accounts, TurnsLeft, Reached,
              Owned, IsCancelled, At, Running
<1> QED
  BY <1>2, <1>3 DEF Inv

-----------------------------------------------------------------------------
(* The theorems *)

\* The inductive invariant: who runs, on which goal, with which token, and how
\* its own accounts stand to those of the stored goal.
THEOREM RunInvariant == Spec => []Inv
<1>1. Inv /\ [Next]_vars => Inv'
  <2> SUFFICES ASSUME Inv, [Next]_vars PROVE Inv'
    OBVIOUS
  <2>1. ASSUME NEW c \in Callers, Advance(c) PROVE Inv'
    BY <2>1, CreateInv, LoadGoalInv, ReactivateInv, PromptInv, CheckInv, BuildInv,
       TurnInv, JournalInv, PauseResultInv, RecordTurnInv, SnapshotInv, FinalInv,
       StopAfterInv
       DEF Advance
  <2> QED
    BY <2>1, BeginRunInv, CompleteGoalInv, ControlInv, StopInv, CrashInv,
       StutterInv
       DEF Next
<1> QED
  BY <1>1, InitInv, PTL DEF Spec

\* Every reachable state of a chat session is well typed (chat.rs, goals.rs).
THEOREM TypeCorrect == Spec => []TypeOK
BY RunInvariant, PTL DEF Inv

\* claim_goal_run and run_turn never let two calls run, and every return gives
\* the session back.
THEOREM OneRunAlways == Spec => []OneRun
BY RunInvariant, PTL DEF Inv

\* stop cancels the token the running call looks at.
THEOREM OwnTokenAlways == Spec => []OwnToken
<1>1. Inv => OwnToken
  BY DEF Inv, RunOK, OwnToken
<1> QED
  BY <1>1, RunInvariant, PTL

\* A pause or clear that was answered has reached, or is about to reach, the
\* run that worked on the goal.
THEOREM PauseReachesAlways == Spec => []PauseReaches
<1>1. Inv => PauseReaches
  BY DEF Inv, RunOK, Reached, PauseReaches
<1> QED
  BY <1>1, RunInvariant, PTL

\* A run that answers leaves no goal active.
THEOREM AnsweredStopsAlways == Spec => []AnsweredStops
<1>1. ASSUME Inv PROVE AnsweredStops
  <2>1. ASSUME NEW c \in Callers, Works(c) PROVE Running(c)
    BY <2>1 DEF Works, Running, Working, RunSteps, TurnSteps, GoalSteps
  <2> QED
    BY <1>1, <2>1 DEF Inv, OneRun, Unattended, AnsweredStops
<1> QED
  BY <1>1, RunInvariant, PTL

\* The stored tokens of a goal are those of its recorded turns.
THEOREM UsageExactAlways == Spec => []UsageExact
BY RunInvariant, PTL DEF Inv

\* No model turn is started for a goal at its turn limit.
THEOREM TurnsBoundedAlways == Spec => []TurnsBounded
<1>1. Inv => TurnsBounded
  BY DEF Inv, RunOK, TurnsLeft, TurnsBounded, At, Turning
<1> QED
  BY <1>1, RunInvariant, PTL

-----------------------------------------------------------------------------
(* ChatSession implements GoalLifecycle *)

\* The lifecycle's step, with "somebody runs" for its running.
Step == /\ (\E c \in Callers : Running(c)) \/ ~(\E c \in Callers : Running(c))'
        /\ \/ Abstract!Start
           \/ /\ UNCHANGED created
              /\ \/ Abstract!Resume \/ Abstract!Record \/ Abstract!Complete
                 \/ Abstract!Pause \/ Abstract!Clear \/ UNCHANGED goal

LEMMA StepChanges ==
  ASSUME Step
  PROVE  Abstract!Change
BY DEF Step, Abstract!Change

\* A step of a call that runs, and that leaves the goal alone.
LEMMA RunKeeps ==
  ASSUME NEW c \in Callers, Running(c), UNCHANGED <<goal, created>>
  PROVE  Abstract!Change
BY StepChanges DEF Step

LEMMA CreateSteps ==
  ASSUME NEW c \in Callers, Create(c)
  PROVE  Abstract!Change
<1>1. Running(c)
  BY DEF Create, At, Running, RunSteps, GoalSteps
<1>2. CASE SetGoal
  <2>1. Abstract!Start
    BY <1>1, <1>2 DEF SetGoal, NewGoal, Abstract!Start
  <2> QED
    BY <1>1, <2>1, StepChanges DEF Step
<1>3. CASE UNCHANGED store
  BY <1>1, <1>3, RunKeeps DEF store
<1> QED
  BY <1>2, <1>3 DEF Create

LEMMA ReactivateSteps ==
  ASSUME NEW c \in Callers, Inv, Reactivate(c)
  PROVE  Abstract!Change
<1>1. Running(c) /\ At(c, "reactivate") /\ call[c].kind = "goal"
  BY DEF Reactivate, At, Running, RunSteps, GoalSteps, Inv, RunOK, KindFits
<1>2. created' = created
  BY DEF Reactivate
<1>3. CASE Activated
  <2>1. goal.turns < MaxTurns
    BY <1>1 DEF Inv, RunOK, TurnsLeft, At
  <2>2. Abstract!Resume
    BY <1>1, <1>3, <2>1 DEF Activated, Abstract!Resume
  <2> QED
    BY <1>1, <1>2, <2>2, StepChanges DEF Step
<1>4. CASE goal' = goal
  BY <1>1, <1>2, <1>4, RunKeeps
<1> QED
  BY <1>3, <1>4 DEF Reactivate

\* Pausing a paused goal is no step of the lifecycle.
LEMMA PausedSteps ==
  ASSUME Inv, Pausable(goal), goal' = Paused(goal)
  PROVE  Abstract!Pause \/ goal' = goal
<1>1. CASE goal.status = "active"
  BY <1>1 DEF Paused, Abstract!Pause
<1>2. CASE goal.status = "paused"
  BY <1>2, PausedFacts DEF Paused, Goal
<1> QED
  BY <1>1, <1>2 DEF Pausable

LEMMA PauseResultSteps ==
  ASSUME NEW c \in Callers, Inv, PauseResult(c)
  PROVE  Abstract!Change
<1>1. Running(c) /\ created' = created
  BY DEF PauseResult, At, Running, RunSteps, GoalSteps
<1>2. goal' = goal \/ Abstract!Pause
  BY PausedSteps DEF PauseResult, PauseOwned
<1> QED
  BY <1>1, <1>2, StepChanges DEF Step

LEMMA RecordTurnSteps ==
  ASSUME NEW c \in Callers, Inv, RecordTurn(c)
  PROVE  Abstract!Change
<1>1. /\ Running(c) /\ call[c].at = "record" /\ call[c].kind = "goal"
      /\ created' = created
  BY DEF RecordTurn, At, Running, RunSteps, GoalSteps, Inv, RunOK, KindFits
<1>2. CASE goal' = goal
  BY <1>1, <1>2, RunKeeps
<1>3. CASE Owned(c) /\ goal' \in {Recorded(c), Continued(c)}
  <2> DEFINE cost == call[c].cost
             g == [goal EXCEPT !.turns = @ + 1, !.tokens = @ + cost]
  <2>1. /\ goal \in Goal /\ goal # NoGoal
        /\ call[c].start + call[c].used = goal.tokens + cost
        /\ cost \in Costs
    BY <1>1, <1>3 DEF Owned, Inv, TypeOK, NoGoal, RunOK, Accounts
  <2>2. Recorded(c) = g
    <3>1. goal.tokens \in Nat /\ cost \in Nat
      BY <2>1, ConstantsAssumption DEF Goal
    <3>2. Total(c) = goal.tokens + cost
      BY <2>1 DEF Total
    <3>3. (IF goal.tokens + cost > goal.tokens THEN goal.tokens + cost
           ELSE goal.tokens) = goal.tokens + cost
      BY <3>1
    <3> QED
      BY <2>1, <3>2, <3>3 DEF Recorded, Goal
  <2>3. /\ g.status = goal.status /\ g.budget = goal.budget /\ g \in Goal
        /\ g.turns \in Nat
    <3>a. cost \in Nat
      BY <2>1, ConstantsAssumption
    <3>b. goal.tokens \in Nat /\ goal.turns \in Nat
      BY <2>1 DEF Goal
    <3>1. goal.tokens + cost \in Nat /\ goal.turns + 1 \in Nat
      BY <3>a, <3>b
    <3> HIDE DEF cost
    <3> QED
      BY <2>1, <3>1 DEF Goal
  <2> HIDE DEF cost
  <2>4. goal' = g \/ (goal.status = "active"
                      /\ \E s \in Abstract!Stopped(g) :
                           goal' = [g EXCEPT !.status = s])
    <3>1. CASE goal' = Recorded(c)
      BY <2>2, <3>1
    <3>2. CASE goal' = Continued(c)
      <4>1. CASE g.status = "active" /\ g.turns >= MaxTurns
        <5>1. "paused" \in Abstract!Stopped(g)
          BY <4>1 DEF Abstract!Stopped
        <5>2. goal' = [g EXCEPT !.status = "paused"]
          <6>1. ~(g.turns < MaxTurns)
            BY <2>3, <4>1, ConstantsAssumption
          <6> QED
            BY <2>2, <3>2, <4>1, <6>1 DEF Continued, Paused
        <5> QED
          BY <2>3, <4>1, <5>1, <5>2
      <4>2. CASE g.status = "active" /\ g.turns < MaxTurns /\ OverBudget(g)
        <5>1. "limited" \in Abstract!Stopped(g)
          BY <4>2 DEF Abstract!Stopped, OverBudget, NoBudget
        <5>2. ~(g.turns >= MaxTurns)
          BY <2>3, <4>2, ConstantsAssumption
        <5>3. goal' = [g EXCEPT !.status = "limited"]
          BY <2>2, <3>2, <4>2, <5>2 DEF Continued
        <5> QED
          BY <2>3, <4>2, <5>1, <5>3
      <4>3. CASE goal' = g
        BY <4>3
      <4> QED
        BY <2>2, <3>2, <4>1, <4>2, <4>3 DEF Continued
    <3> QED
      BY <1>3, <3>1, <3>2
  <2>5. Abstract!Record
    BY <1>1, <2>1, <2>4 DEF Abstract!Record, Abstract!Exists, Abstract!NoGoal,
                            NoGoal, NoId, NoBudget
  <2> QED
    BY <1>1, <2>5, StepChanges DEF Step
<1> QED
  BY <1>2, <1>3 DEF RecordTurn

LEMMA CompleteGoalSteps ==
  ASSUME NEW c \in Callers, CompleteGoal(c)
  PROVE  Abstract!Change
<1>1. Running(c)
  BY DEF CompleteGoal, At, Running, RunSteps, TurnSteps
<1>2. Abstract!Complete
  BY <1>1 DEF CompleteGoal, Abstract!Complete
<1> QED
  BY <1>1, <1>2, StepChanges DEF Step, CompleteGoal

\* Steps of calls that do not run: nobody starts to run.
LEMMA ControlSteps ==
  ASSUME NEW c \in Callers, Inv, Pause(c) \/ Clear(c) \/ StopAfter(c)
  PROVE  Abstract!Change
<1>1. \A d \in Callers : d # c => call'[d] = call[d]
  BY DEF Pause, Clear, StopAfter, Return, Inv, TypeOK
<1>2. call'[c].at \in {"idle", "stopping"}
  BY DEF Pause, Clear, StopAfter, Return, Inv, TypeOK, At, Call, IdleCall
<1>3. \A d \in Callers : Running(d)' => Running(d)
  BY <1>1, <1>2 DEF Running, RunSteps, TurnSteps, GoalSteps
<1>4. /\ created' = created
      /\ goal' = goal \/ Abstract!Pause \/ Abstract!Clear
  <2>1. CASE Pause(c)
    BY <2>1, PausedSteps DEF Pause
  <2>2. CASE Clear(c)
    BY <2>2 DEF Clear, Abstract!Clear, Abstract!NoGoal, NoGoal, NoId, NoBudget
  <2>3. CASE StopAfter(c)
    BY <2>3 DEF StopAfter, store
  <2> QED
    BY <2>1, <2>2, <2>3
<1> QED
  BY <1>3, <1>4, StepChanges DEF Step

LEMMA BeginRunSteps ==
  ASSUME NEW c \in Callers, Inv, BeginRun(c)
  PROVE  Abstract!Begin
<1>1. PICK kind \in {"send", "retry", "goal"}, step \in {"prompt", "create", "load"} :
        Claim(c, kind, step)
  BY DEF BeginRun
<1>2. ~\E d \in Callers : Running(d)
  BY <1>1 DEF Claim, Inv, OneRun
<1>3. call'[c].at = step
  BY <1>1 DEF Claim, Inv, TypeOK, IdleCall
<1>4. Running(c)'
  BY <1>3 DEF Running, RunSteps, TurnSteps, GoalSteps
<1> QED
  BY <1>2, <1>4 DEF Abstract!Begin, BeginRun, store

LEMMA SessionSteps ==
  ASSUME Inv, [Next]_vars
  PROVE  [Abstract!Next]_(Abstract!vars)
<1>1. ASSUME NEW c \in Callers, Advance(c) PROVE Abstract!Change
  <2>1. CASE \/ LoadGoal(c) \/ Prompt(c) \/ Check(c) \/ Build(c) \/ Turn(c)
             \/ Journal(c) \/ Snapshot(c) \/ Final(c)
    <3>1. Running(c) /\ UNCHANGED <<goal, created>>
      BY <2>1 DEF LoadGoal, Prompt, Check, Build, Turn, Journal, Snapshot, Final,
                  At, Running, RunSteps, TurnSteps, GoalSteps, store
    <3> QED
      BY <3>1, RunKeeps
  <2> QED
    BY <1>1, <2>1, CreateSteps, ReactivateSteps, PauseResultSteps,
       RecordTurnSteps, ControlSteps
       DEF Advance
<1>2. ASSUME Stop \/ Crash \/ UNCHANGED vars
      PROVE  Abstract!Change
  <2>1. UNCHANGED <<goal, created>>
    BY <1>2 DEF Stop, Crash, store, vars
  <2>2. \A d \in Callers : Running(d)' => Running(d)
    BY <1>2 DEF Stop, Crash, vars, Running, IdleCall, RunSteps, TurnSteps, GoalSteps
  <2> QED
    BY <2>1, <2>2, StepChanges DEF Step
<1> QED
  BY <1>1, <1>2, BeginRunSteps, CompleteGoalSteps, ControlSteps
     DEF Next, Abstract!Next

\* Whatever calls are made on a session, wherever they fail or the process
\* dies, its goal only does what GoalLifecycle allows.
THEOREM Implements == Spec => Lifecycle
<1>1. Init => Abstract!Init
  BY DEF Init, Abstract!Init, Abstract!NoGoal, NoGoal, NoId, NoBudget, Running,
         IdleCall, RunSteps, TurnSteps, GoalSteps
<1>2. Inv /\ [Next]_vars => [Abstract!Next]_(Abstract!vars)
  BY SessionSteps
<1> QED
  BY <1>1, <1>2, RunInvariant, PTL DEF Spec, Lifecycle, Abstract!Spec
=============================================================================
