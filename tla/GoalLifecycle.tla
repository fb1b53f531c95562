---------------------------- MODULE GoalLifecycle ----------------------------
(***************************************************************************)
(* What a session promises about its durable goal, whatever calls are made *)
(* on it and wherever they fail (goals.rs as its callers may rely on it):  *)
(*                                                                         *)
(*   - only a running call creates a goal, makes it active, records turns  *)
(*     or completes it; anybody may pause or clear it at any time;         *)
(*   - a goal is resumed only from a pause and only with turns left; one   *)
(*     that is complete or out of budget never becomes active or paused;   *)
(*   - a turn is recorded once, with its own tokens;                       *)
(*   - a goal that is replaced or cleared never comes back.                *)
(*                                                                         *)
(* Nothing is said of how a call gets there, only of the stored goal and   *)
(* of whether somebody runs.                                               *)
(***************************************************************************)
EXTENDS Naturals

CONSTANTS
  MaxTurns,   \* turns a goal may take on its own
  Budgets,    \* token budgets, 0 for none
  Costs       \* tokens of one turn

VARIABLES
  goal,       \* the stored goal
  created,    \* goals created so far
  running     \* somebody runs the session

vars == <<goal, created, running>>

NoGoal == [id |-> 0, status |-> "none", turns |-> 0, tokens |-> 0, budget |-> 0]

Init == goal = NoGoal /\ created = 0 /\ running = FALSE

Exists == goal # NoGoal

Start == /\ running
         /\ created' = created + 1
         /\ \E budget \in Budgets :
              goal' = [id |-> created', status |-> "active", turns |-> 0,
                       tokens |-> 0, budget |-> budget]

Resume == /\ running
          /\ goal.status = "paused" /\ goal.turns < MaxTurns
          /\ goal' = [goal EXCEPT !.status = "active"]

\* After a turn an active goal may be at its turn limit or out of budget.
Stopped(g) ==
  {"active"} \cup {s \in {"paused"} : g.turns >= MaxTurns}
             \cup {s \in {"limited"} : g.budget # 0 /\ g.tokens >= g.budget}

Record == /\ running /\ Exists
          /\ \E cost \in Costs :
               LET g == [goal EXCEPT !.turns = @ + 1, !.tokens = @ + cost]
               IN \/ goal' = g
                  \/ /\ goal.status = "active"
                     /\ \E s \in Stopped(g) : goal' = [g EXCEPT !.status = s]

Complete == /\ running
            /\ goal.status = "active"
            /\ goal' = [goal EXCEPT !.status = "complete"]

Pause == /\ goal.status = "active"
         /\ goal' = [goal EXCEPT !.status = "paused"]

Clear == goal' = NoGoal

\* A run starts with the goal as it is; it may end together with its last
\* change of the goal, or with none.
Begin == ~running /\ running' = TRUE /\ UNCHANGED <<goal, created>>

Change ==
  /\ running' \in {running, FALSE}
  /\ \/ Start
     \/ /\ UNCHANGED created
        /\ Resume \/ Record \/ Complete \/ Pause \/ Clear \/ UNCHANGED goal

Next == Begin \/ Change

Spec == Init /\ [][Next]_vars
=============================================================================
