----------------------------- MODULE ChatSurface -----------------------------
(***************************************************************************)
(* The on-device chat between the screen and the tools.  `ChatModel`       *)
(* (ChatModel.swift) runs on the main actor and is interrupted at an await *)
(* only; one operation at a time owns it, and an operation that comes back *)
(* after a stop or a reset finds that it is no longer the active one.  The *)
(* session's turn (chat.rs) runs on its own, asks before it writes, and    *)
(* waits for the answer; every callback is a task of its own on the main   *)
(* actor, dropped there if the transcript has changed meanwhile.           *)
(***************************************************************************)
EXTENDS Naturals, Sequences, SequencesExt

CONSTANTS
    Tools,       \* the tools that write
    MaxOps,      \* sends and resumes
    MaxAsks,     \* approval requests
    MaxModes     \* changes of the permission mode

ASSUME SurfaceAssumption == {MaxOps, MaxAsks, MaxModes} \subseteq Nat
VARIABLES
    oper,            \* each operation: where it is, the session it drives
    activeOp,        \* activeOperationGeneration, 0 for nil
    opSession,     \* activeOperationSession
    session,       \* the live session, 0 for nil
    tgen,          \* transcriptGeneration
    shownMode,     \* permissionMode
    onScreen,      \* pendingApproval, 0 for nil
    queue,         \* approvalQueue
    dismissing,    \* the sheet is gone and its onDismiss has not run yet
    turn,          \* of each session: the turn, its token, its permission state
    ask,           \* approval requests
    yes,           \* what the user has agreed to: a request, or a session's tool
    unasked,       \* a write ran that nothing the user chose covers
    modes          \* changes of the mode so far

surfaceVars == <<oper, activeOp, opSession, session, tgen, shownMode, onScreen, queue,
                 dismissing, turn, ask, yes, unasked, modes>>
screenVars == <<onScreen, queue, dismissing>>
ownerVars  == <<activeOp, opSession>>
consentVars == <<yes, unasked>>

Ops  == 1..MaxOps            \* a session is named by the operation that made it
Asks == 1..MaxAsks
Modes == {"default", "acceptEdits", "plan"}
Decisions == {"allow", "allowSession", "deny"}
Named == Tools \union {"none"}

NoOp   == [phase |-> "unused", of |-> 0, gen |-> 0, mode |-> "default"]
NoTurn == [phase |-> "idle", gen |-> 0, ask |-> 0, cancelled |-> FALSE, mode |-> "default",
           allowed |-> {}]
NoAsk  == [phase |-> "unused", of |-> 0, gen |-> 0, tool |-> "none", answer |-> "none"]

SurfaceTypeOK ==
    /\ oper \in [Ops -> [phase : {"unused", "starting", "resuming", "loading", "calling",
                                  "running", "done"},
                         of : 0..MaxOps, gen : Nat, mode : Modes]]
    /\ {activeOp, opSession, session} \subseteq 0..MaxOps /\ tgen \in Nat
    /\ shownMode \in Modes /\ onScreen \in 0..MaxAsks /\ queue \in Seq(Asks)
    /\ dismissing \in BOOLEAN
    /\ turn \in [Ops -> [phase : {"idle", "running", "asking", "returning"}, gen : Nat,
                         ask : 0..MaxAsks, cancelled : BOOLEAN, mode : Modes,
                         allowed : SUBSET Named]]
    /\ ask \in [Asks -> [phase : {"unused", "posted", "shown", "queued", "gone"},
                         of : 0..MaxOps, gen : Nat, tool : Named,
                         answer : Decisions \union {"none"}]]
    /\ yes \subseteq [of : 0..MaxOps, ask : Asks, tool : Named, all : BOOLEAN]
    /\ unasked \in BOOLEAN /\ modes \in 0..MaxModes

SurfaceInit ==
    /\ oper = [o \in Ops |-> NoOp] /\ activeOp = 0 /\ opSession = 0
    /\ session = 0 /\ tgen = 0
    /\ shownMode = "default" /\ onScreen = 0 /\ queue = <<>> /\ dismissing = FALSE
    /\ turn = [s \in Ops |-> NoTurn] /\ ask = [r \in Asks |-> NoAsk]
    /\ yes = {} /\ unasked = FALSE /\ modes = 0

(***************************************************************************)
(* Operations of the model.                                                *)
(***************************************************************************)
Next1(o) == oper[o].phase = "unused" /\ \A n \in Ops : n < o => oper[n].phase # "unused"
Enters(o, phase, s, gen) ==
    oper' = [oper EXCEPT ![o] = [phase |-> phase, of |-> s, gen |-> gen, mode |-> shownMode]]
OpEnds(o) == oper' = [oper EXCEPT ![o].phase = "done"]
FinishOperation(o) ==
    IF activeOp = o THEN activeOp' = 0 /\ opSession' = 0 ELSE UNCHANGED ownerVars
Claim(o) == activeOp = 0 /\ activeOp' = o

Cancelled(s) == IF s = 0 THEN turn ELSE [turn EXCEPT ![s].cancelled = TRUE]

(* A responder that is released: without an answer, or used up.            *)
Dropped(rs) ==
    [r \in Asks |-> IF r \in rs THEN [NoAsk EXCEPT !.phase = "gone"] ELSE ask[r]]
OnSheet == ({onScreen} \union ToSet(queue)) \ {0}

(* send and startGoal: the live session, when its settings are the same,   *)
(* or a new one, with the mode that is shown now.                          *)
Send(o, reuse) ==
    /\ Next1(o) /\ Claim(o)
    /\ IF reuse
       THEN /\ session # 0 /\ opSession' = session
            /\ Enters(o, "calling", session, tgen)
       ELSE opSession' = 0 /\ Enters(o, "starting", o, tgen)
    /\ UNCHANGED <<session, tgen, shownMode, screenVars, turn, ask, consentVars, modes>>

BeginResume(o) ==
    /\ Next1(o) /\ Claim(o) /\ opSession' = 0
    /\ Enters(o, "resuming", o, tgen)
    /\ UNCHANGED <<session, tgen, shownMode, screenVars, turn, ask, consentVars, modes>>

(* A new handle comes with the mode read before the await, and no tool of  *)
(* it is allowed yet.  Mutant: what the session before it was allowed.     *)
NewTurnInherits(o) ==
    [NoTurn EXCEPT !.mode = oper[o].mode,
                   !.allowed = IF session = 0 THEN {} ELSE turn[session].allowed]
NewTurn(o) == [NoTurn EXCEPT !.mode = oper[o].mode]

Started(o) ==
    /\ oper[o].phase = "starting"
    /\ IF activeOp = o
       THEN /\ tgen' = tgen + 1 /\ session' = o /\ opSession' = o
            /\ oper' = [oper EXCEPT ![o].phase = "calling", ![o].gen = tgen']
            /\ turn' = [turn EXCEPT ![o] = NewTurn(o)]
       ELSE OpEnds(o) /\ UNCHANGED <<tgen, session, opSession, turn>>
    /\ UNCHANGED <<activeOp, shownMode, screenVars, ask, consentVars, modes>>

(* The resumed handle is there; its transcript is another await away.      *)
Resumed(o) ==
    /\ oper[o].phase = "resuming"
    /\ IF activeOp = o THEN oper' = [oper EXCEPT ![o].phase = "loading"] ELSE OpEnds(o)
    /\ UNCHANGED <<ownerVars, session, tgen, shownMode, screenVars, turn, ask, consentVars, modes>>

(* clearSessionState, but for the session itself.                          *)
ClearSheet ==
    /\ ask' = Dropped(OnSheet)
    /\ onScreen' = 0 /\ queue' = <<>> /\ dismissing' = (dismissing \/ onScreen # 0)

Loaded(o) ==
    /\ oper[o].phase = "loading"
    /\ OpEnds(o)
    /\ IF activeOp = o
       THEN /\ tgen' = tgen + 1 /\ session' = o
            /\ turn' = [Cancelled(session) EXCEPT ![o] = NewTurn(o)]
            /\ ClearSheet
       ELSE UNCHANGED <<tgen, session, turn, ask, screenVars>>
    /\ FinishOperation(o)
    /\ UNCHANGED <<shownMode, consentVars, modes>>

StartFails(o) ==
    /\ oper[o].phase \in {"starting", "resuming"}
    /\ OpEnds(o) /\ FinishOperation(o)
    /\ UNCHANGED <<session, tgen, shownMode, screenVars, turn, ask, consentVars, modes>>

(* stop: the running session, or the operation while it has none.          *)
Stop ==
    /\ activeOp # 0 \/ session # 0
    /\ IF activeOp = 0 THEN turn' = Cancelled(session) /\ UNCHANGED ownerVars
       ELSE IF opSession # 0 THEN turn' = Cancelled(opSession) /\ UNCHANGED ownerVars
       ELSE activeOp' = 0 /\ UNCHANGED <<opSession, turn>>
    /\ UNCHANGED <<oper, session, tgen, shownMode, screenVars, ask, consentVars, modes>>

Reset ==
    /\ activeOp # 0 \/ session # 0
    /\ turn' = Cancelled(IF opSession # 0 THEN opSession ELSE session)
    /\ activeOp' = 0 /\ opSession' = 0 /\ session' = 0
    /\ tgen' = tgen + 1
    /\ ClearSheet
    /\ UNCHANGED <<oper, shownMode, consentVars, modes>>

(* permissionMode's didSet reaches the live session, and no other.         *)
SetMode(m) ==
    /\ m # shownMode /\ modes < MaxModes /\ modes' = modes + 1
    /\ shownMode' = m
    /\ turn' = IF session = 0 THEN turn ELSE [turn EXCEPT ![session].mode = m]
    /\ UNCHANGED <<oper, ownerVars, session, tgen, screenVars, ask, consentVars>>

(***************************************************************************)
(* The turn.                                                               *)
(***************************************************************************)
(* run_turn claims the session, with a token of its own; until then a stop *)
(* reaches the token of the turn before.                                   *)
ClaimTurn(o) ==
    /\ oper[o].phase = "calling"
    /\ LET s == oper[o].of IN
       IF turn[s].phase = "idle"
       THEN /\ turn' = [turn EXCEPT ![s].phase = "running", ![s].gen = oper[o].gen,
                                    ![s].cancelled = FALSE]
            /\ oper' = [oper EXCEPT ![o].phase = "running"]
            /\ UNCHANGED ownerVars
       ELSE OpEnds(o) /\ FinishOperation(o) /\ UNCHANGED turn
    /\ UNCHANGED <<session, tgen, shownMode, screenVars, ask, consentVars, modes>>

(* The user's word for a write of tool t by session s: the mode the        *)
(* session is in, or a yes that stands for the tool in this session.       *)
Standing(s, t) ==
    \/ turn[s].mode = "acceptEdits"
    \/ turn[s].mode = "default" /\ \E y \in yes : y.of = s /\ y.tool = t /\ y.all
(* A write runs, with the user's word or without it.                       *)
Ran(word) == unasked' = (unasked \/ ~word) /\ UNCHANGED yes

(* SandboxedTool::execute for a write, up to the question: the mode        *)
(* decides (a refusal, and one for a path outside, changes nothing here).  *)
WriteTool(s, t) ==
    /\ turn[s].phase = "running"
    /\ IF turn[s].mode = "acceptEdits" \/ (turn[s].mode = "default" /\ t \in turn[s].allowed)
       THEN Ran(Standing(s, t)) /\ UNCHANGED <<turn, ask>>
       ELSE /\ turn[s].mode = "default"
            /\ \E r \in Asks :
                  /\ ask[r].phase = "unused"
                  /\ \A q \in Asks : q < r => ask[q].phase # "unused"
                  /\ ask' = [ask EXCEPT ![r] = [NoAsk EXCEPT
                                !.phase = "posted", !.of = s, !.gen = turn[s].gen,
                                !.tool = t]]
                  /\ turn' = [turn EXCEPT ![s].phase = "asking", ![s].ask = r]
            /\ UNCHANGED consentVars
    /\ UNCHANGED <<oper, ownerVars, session, tgen, shownMode, screenVars, modes>>

(* The answer, or the release of the responder, wakes authorize_write.     *)
Resolved(r) == ask[r].answer # "none" \/ ask[r].phase = "gone"

AskAnswered(s) ==
    /\ turn[s].phase = "asking" /\ Resolved(turn[s].ask)
    /\ LET a == ask[turn[s].ask] IN
       /\ turn' = [turn EXCEPT ![s].phase = "running", ![s].ask = 0,
                               ![s].allowed = IF a.answer = "allowSession"
                                              THEN @ \union {a.tool} ELSE @]
       /\ IF a.answer \in {"allow", "allowSession"}
          THEN Ran(\E y \in yes : y.of = s /\ y.ask = turn[s].ask /\ y.tool = a.tool)
          ELSE UNCHANGED consentVars
       /\ ask' = Dropped({turn[s].ask})
    /\ UNCHANGED <<oper, ownerVars, session, tgen, shownMode, screenVars, modes>>

(* The loop ends, or gives up a question because its token is cancelled.   *)
TurnEnds(s) ==
    /\ turn[s].phase = "running" \/ (turn[s].phase = "asking" /\ turn[s].cancelled)
    /\ turn' = [turn EXCEPT ![s].phase = "returning", ![s].ask = 0]
    /\ UNCHANGED <<oper, ownerVars, session, tgen, shownMode, screenVars, ask, consentVars, modes>>

(* busy is cleared, one terminal callback is made, and the call returns.   *)
Returns(o) ==
    /\ oper[o].phase = "running" /\ turn[oper[o].of].phase = "returning"
    /\ turn' = [turn EXCEPT ![oper[o].of].phase = "idle"]
    /\ OpEnds(o) /\ FinishOperation(o)
    /\ UNCHANGED <<session, tgen, shownMode, screenVars, ask, consentVars, modes>>

(***************************************************************************)
(* Approvals on screen.                                                    *)
(***************************************************************************)
(* The guard of receiveApproval: a request of another transcript.          *)
(* Mutant: there is none.                                                  *)
NeverStale(r) == FALSE
Stale(r) == ask[r].gen # tgen
ReceiveApproval(r) ==
    /\ ask[r].phase = "posted"
    /\ IF Stale(r)
       THEN ask' = Dropped({r}) /\ UNCHANGED screenVars
       ELSE IF onScreen = 0
       THEN /\ ask' = [ask EXCEPT ![r].phase = "shown"] /\ onScreen' = r
            /\ dismissing' \in {FALSE, dismissing} /\ UNCHANGED queue
       ELSE /\ ask' = [ask EXCEPT ![r].phase = "queued"] /\ queue' = Append(queue, r)
            /\ UNCHANGED <<onScreen, dismissing>>
    /\ UNCHANGED <<oper, ownerVars, session, tgen, shownMode, turn, consentVars, modes>>

Respond(d) ==
    /\ onScreen # 0
    /\ LET a == ask[onScreen] IN
       /\ ask' = [ask EXCEPT ![onScreen] = [NoAsk EXCEPT !.phase = "gone", !.answer = d,
                                                         !.tool = a.tool]]
       /\ yes' = IF d = "deny" THEN yes
                 ELSE yes \union {[of |-> a.of, ask |-> onScreen, tool |-> a.tool,
                                   all |-> d = "allowSession"]}
    /\ onScreen' = 0 /\ dismissing' = TRUE
    /\ UNCHANGED <<oper, ownerVars, session, tgen, shownMode, queue, turn, unasked, modes>>

SwipeAway ==
    /\ onScreen # 0
    /\ ask' = Dropped({onScreen})
    /\ onScreen' = 0 /\ dismissing' = TRUE
    /\ UNCHANGED <<oper, ownerVars, session, tgen, shownMode, queue, turn, consentVars, modes>>

ApprovalDismissed ==
    /\ dismissing /\ dismissing' = FALSE
    /\ IF onScreen = 0 /\ queue # <<>>
       THEN /\ onScreen' = Head(queue) /\ queue' = Tail(queue)
            /\ ask' = [ask EXCEPT ![Head(queue)].phase = "shown"]
       ELSE UNCHANGED <<onScreen, queue, ask>>
    /\ UNCHANGED <<oper, ownerVars, session, tgen, shownMode, turn, consentVars, modes>>

SurfaceNext ==
    \/ Stop \/ Reset \/ SwipeAway \/ ApprovalDismissed
    \/ \E m \in Modes : SetMode(m)
    \/ \E d \in Decisions : Respond(d)
    \/ \E r \in Asks : ReceiveApproval(r)
    \/ \E o \in Ops :
          \/ \E reuse \in BOOLEAN : Send(o, reuse)
          \/ BeginResume(o) \/ Started(o) \/ Resumed(o) \/ Loaded(o) \/ StartFails(o)
          \/ ClaimTurn(o) \/ AskAnswered(o) \/ TurnEnds(o) \/ Returns(o)
          \/ \E t \in Tools : WriteTool(o, t)

SurfaceSpec == SurfaceInit /\ [][SurfaceNext]_surfaceVars

(***************************************************************************)
(* Properties.                                                             *)
(***************************************************************************)
(* No turn waits for an answer nobody can give: a request it waits for is  *)
(* on its way, or on screen or in a queue that will get there, and then it *)
(* is the live session's; wherever else it went, the turn is told.  So a   *)
(* session that was left never asks the user of the next one.              *)
AsksReachable ==
    /\ \A s \in Ops : turn[s].phase = "asking" =>
          LET r == turn[s].ask IN
          \/ Resolved(r) \/ ask[r].phase = "posted"
          \/ r \in OnSheet /\ s = session
    /\ queue # <<>> => onScreen # 0 \/ dismissing

(* Nothing is written the user has not agreed to, whatever became of the   *)
(* sheet, the session or the mode while the agent waited: a write runs in  *)
(* a session that accepts edits, by a yes to that very request, or in      *)
(* default mode by a yes to its tool for this session.  So a sheet that    *)
(* went away is a no, plan mode writes nothing it has not asked for        *)
(* before, and what one session was allowed the next one has to ask.       *)
WritesAllowed == ~unasked

(* "Applies to the live session immediately": the mode on screen is the    *)
(* one the live session goes by.                                           *)
ModeShown == session # 0 => turn[session].mode = shownMode
=============================================================================
