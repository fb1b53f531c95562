---------------------------- MODULE Screen_proofs ----------------------------
(***************************************************************************)
(* What the app's screens show and ask, and what they let be done.         *)
(*                                                                         *)
(* The chat: no turn waits for an answer nobody can give, and no session   *)
(* that was left asks the user of the next one, for any number of          *)
(* operations and requests.  The argument: a turn of the live session has  *)
(* the operation that owns the screen, so the session is changed under it  *)
(* only together with the sheet; and of the requests on their way those of *)
(* the transcript on screen are the live session's.                        *)
(*                                                                         *)
(* The chat's writes: none runs that the user has not agreed to, for any   *)
(* tools, sessions and requests.  The argument: a request that is not      *)
(* settled is the waiting session's own, so the answer it gets is about    *)
(* that session's write, and what a session is allowed it was allowed by   *)
(* an answer of its own.                                                   *)
(*                                                                         *)
(* The list of sessions is the store's, for any number of tasks, sessions  *)
(* and failures.  The argument: whoever changes the store begins a refresh *)
(* when he is done, which supersedes every load that read it before; until *)
(* then he is at work, and afterwards only what is read later can be       *)
(* shown.                                                                  *)
(***************************************************************************)
EXTENDS ChatSurface, SessionList, TLAPS

-----------------------------------------------------------------------------
(* The chat's screen                                                        *)

Drives   == {"calling", "running"}
Made(s)  == oper[s].phase \in {"calling", "running", "done"}
Works(s) == turn[s].phase \in {"running", "asking"}

OperRec == [phase : {"unused", "starting", "resuming", "loading", "calling", "running",
                     "done"},
            of : 0..MaxOps, gen : Nat, mode : Modes]
TurnRec == [phase : {"idle", "running", "asking", "returning"}, gen : Nat,
            ask : 0..MaxAsks, cancelled : BOOLEAN, mode : Modes, allowed : SUBSET Named]
AskRec  == [phase : {"unused", "posted", "shown", "queued", "gone"},
            of : 0..MaxOps, gen : Nat, tool : Named,
            answer : Decisions \union {"none"}]
YesRec  == [of : 0..MaxOps, ask : Asks, tool : Named, all : BOOLEAN]

(* Every turn has one operation, and the live session's owns the screen.   *)
Owned ==
    /\ \A o \in Ops : oper[o].phase \in {"starting", "resuming", "loading"} => oper[o].of = o
    /\ \A o \in Ops : oper[o].phase \in Drives => oper[o].of \in Ops /\ Made(oper[o].of)
    /\ session # 0 => Made(session)
    /\ \A o \in Ops : oper[o].phase \in Drives /\ oper[o].of = session
                         => activeOp = o /\ opSession = session
    /\ \A o \in Ops : oper[o].phase = "running" => turn[oper[o].of].phase # "idle"
    /\ \A o, p \in Ops : /\ oper[o].phase = "running" /\ oper[p].phase = "running"
                         /\ oper[o].of = oper[p].of
                         => o = p
    /\ \A s \in Ops : turn[s].phase # "idle" =>
          \E o \in Ops : oper[o].phase = "running" /\ oper[o].of = s

(* The transcript on screen is the live session's.                         *)
Generations ==
    /\ \A o \in Ops : oper[o].gen <= tgen /\ turn[o].gen <= tgen
    /\ \A o \in Ops : oper[o].phase = "calling" /\ oper[o].gen = tgen => oper[o].of = session
    /\ \A s \in Ops : Works(s) /\ turn[s].gen = tgen => s = session

(* The sheet and the requests agree, and nothing is queued twice.          *)
SheetAgrees ==
    /\ onScreen # 0 => ask[onScreen].phase = "shown"
    /\ \A i \in DOMAIN queue : ask[queue[i]].phase = "queued"
    /\ \A i, j \in DOMAIN queue : queue[i] = queue[j] => i = j
    /\ \A r \in Asks : ask[r].answer # "none" => ask[r].phase = "gone"

(* The request a turn waits for carries the turn's transcript.             *)
AskOfTurn ==
    \A s \in Ops : turn[s].phase = "asking" =>
       /\ turn[s].ask \in Asks
       /\ ask[turn[s].ask].phase # "unused"
       /\ Resolved(turn[s].ask) \/ ask[turn[s].ask].gen = turn[s].gen

SurfaceInv ==
    /\ SurfaceTypeOK /\ Owned /\ Generations /\ SheetAgrees /\ AskOfTurn /\ AsksReachable

(***************************************************************************)
(* What the steps have in common.                                          *)
(***************************************************************************)
LEMMA Typed ==
    SurfaceTypeOK =>
       /\ oper \in [Ops -> OperRec] /\ turn \in [Ops -> TurnRec] /\ ask \in [Asks -> AskRec]
       /\ activeOp \in 0..MaxOps /\ opSession \in 0..MaxOps /\ session \in 0..MaxOps
       /\ queue \in Seq(Asks) /\ onScreen \in 0..MaxAsks
       /\ DOMAIN queue = 1..Len(queue) /\ Len(queue) \in Nat
BY DEF SurfaceTypeOK, OperRec, TurnRec, AskRec

LEMMA BlankRecords ==
    /\ NoOp \in OperRec /\ NoTurn \in TurnRec /\ NoAsk \in AskRec
    /\ NoOp.phase = "unused" /\ NoTurn.phase = "idle" /\ NoTurn.gen = 0 /\ NoOp.gen = 0
    /\ NoAsk.answer = "none" /\ NoAsk.phase = "unused"
BY SurfaceAssumption
   DEF NoOp, NoTurn, NoAsk, OperRec, TurnRec, AskRec, Modes, Decisions, Named

(* A dropped request wakes who waits for it.                               *)
LEMMA DroppedAre ==
    ASSUME SurfaceTypeOK, NEW rs \in SUBSET Asks
    PROVE  /\ Dropped(rs) \in [Asks -> AskRec]
           /\ \A r \in Asks : r \notin rs => Dropped(rs)[r] = ask[r]
           /\ \A r \in rs : Dropped(rs)[r].phase = "gone" /\ Dropped(rs)[r].answer = "none"
<1> DEFINE gone == [NoAsk EXCEPT !.phase = "gone"]
<1>1. gone \in AskRec /\ gone.phase = "gone" /\ gone.answer = "none"
  BY BlankRecords DEF NoAsk, AskRec
<1>2. Dropped(rs) = [r \in Asks |-> IF r \in rs THEN gone ELSE ask[r]]
  BY DEF Dropped
<1>3. ask \in [Asks -> AskRec]
  BY Typed
<1> HIDE DEF gone
<1> QED BY <1>1, <1>2, <1>3

LEMMA SheetIsAsks == SurfaceTypeOK => OnSheet \in SUBSET Asks
<1> SUFFICES ASSUME SurfaceTypeOK PROVE OnSheet \subseteq Asks
  OBVIOUS
<1>1. onScreen \in 0..MaxAsks /\ queue \in Seq(Asks)
  BY DEF SurfaceTypeOK
<1>2. \A r \in ToSet(queue) : r \in Asks
  BY <1>1 DEF ToSet
<1>3. onScreen # 0 => onScreen \in Asks
  BY <1>1, SurfaceAssumption DEF Asks
<1> QED BY <1>2, <1>3 DEF OnSheet

(* Who owns what is told by the operations and by which turns there are.   *)
LEMMA OwnedStays ==
    ASSUME Owned, UNCHANGED <<oper, activeOp, opSession, session>>,
           \A s \in Ops : turn'[s].phase = "idle" <=> turn[s].phase = "idle"
    PROVE  Owned'
<1>1. \A o \in Ops : oper[o].phase = "running" => oper[o].of \in Ops
  BY DEF Owned, Drives
<1>2. \A o \in Ops : oper[o].phase = "running" => turn'[oper[o].of].phase # "idle"
  BY <1>1 DEF Owned
<1>3. \A s \in Ops : turn'[s].phase # "idle" =>
        \E o \in Ops : oper[o].phase = "running" /\ oper[o].of = s
  BY DEF Owned
<1> QED BY <1>2, <1>3 DEF Owned, Made

LEMMA GenerationsStay ==
    ASSUME Generations, UNCHANGED <<oper, session, tgen>>,
           \A s \in Ops : turn'[s].gen = turn[s].gen /\ (Works(s)' => Works(s))
    PROVE  Generations'
BY DEF Generations

(* The requests stay; turns may stop waiting, and the session is kept.     *)
LEMMA AsksStay ==
    ASSUME SheetAgrees, AskOfTurn, AsksReachable,
           UNCHANGED <<ask, onScreen, queue, dismissing, session>>,
           \A s \in Ops : turn'[s].phase = "asking" =>
              turn[s].phase = "asking" /\ turn'[s].ask = turn[s].ask /\ turn'[s].gen = turn[s].gen
    PROVE  SheetAgrees' /\ AskOfTurn' /\ AsksReachable'
<1>1. SheetAgrees'
  BY DEF SheetAgrees
<1>2. AskOfTurn'
  BY DEF AskOfTurn, Resolved
<1>3. AsksReachable'
  BY DEF AsksReachable, Resolved, OnSheet
<1> QED BY <1>1, <1>2, <1>3

LEMMA CancelledTurns ==
    ASSUME SurfaceTypeOK, NEW s \in 0..MaxOps
    PROVE  /\ Cancelled(s) \in [Ops -> TurnRec]
           /\ \A u \in Ops : /\ Cancelled(s)[u].phase = turn[u].phase
                             /\ Cancelled(s)[u].gen = turn[u].gen
                             /\ Cancelled(s)[u].ask = turn[u].ask
                             /\ Cancelled(s)[u].allowed = turn[u].allowed
<1>1. turn \in [Ops -> TurnRec] /\ (s # 0 => s \in Ops)
  BY Typed, SurfaceAssumption DEF Ops
<1>2. CASE s = 0
  BY <1>1, <1>2 DEF Cancelled
<1>3. CASE s # 0
  BY <1>1, <1>3 DEF Cancelled, TurnRec
<1> QED BY <1>2, <1>3

LEMMA InitSurface == SurfaceInit => SurfaceInv
<1> SUFFICES ASSUME SurfaceInit PROVE SurfaceInv
  OBVIOUS
<1>1. /\ oper \in [Ops -> OperRec] /\ turn \in [Ops -> TurnRec] /\ ask \in [Asks -> AskRec]
      /\ \A o \in Ops : oper[o] = NoOp /\ turn[o] = NoTurn
      /\ \A r \in Asks : ask[r] = NoAsk
  BY BlankRecords DEF SurfaceInit
<1>2. 0 \in 0..MaxOps /\ 0 \in 0..MaxAsks /\ 0 \in 0..MaxModes
  BY SurfaceAssumption
<1>3. SurfaceTypeOK
  <2>1. "default" \in Modes /\ <<>> \in Seq(Asks) /\ 0 \in Nat
    BY DEF Modes
  <2>2. /\ {activeOp, opSession, session} \subseteq 0..MaxOps /\ tgen \in Nat
        /\ shownMode \in Modes /\ onScreen \in 0..MaxAsks /\ queue \in Seq(Asks)
        /\ modes \in 0..MaxModes
    BY <1>2, <2>1 DEF SurfaceInit
  <2>3. dismissing \in BOOLEAN /\ unasked \in BOOLEAN /\ yes = {}
    BY DEF SurfaceInit
  <2> QED BY <1>1, <2>2, <2>3 DEF SurfaceTypeOK, OperRec, TurnRec, AskRec
<1>4. Owned /\ Generations
  BY <1>1, BlankRecords DEF SurfaceInit, Owned, Generations, Works, Drives
<1>5. SheetAgrees /\ AskOfTurn /\ AsksReachable
  BY <1>1, BlankRecords DEF SurfaceInit, SheetAgrees, AskOfTurn, AsksReachable
<1> QED BY <1>3, <1>4, <1>5 DEF SurfaceInv

(***************************************************************************)
(* Operations of the model.                                                *)
(***************************************************************************)
(* A new operation claims the model: nobody drives the live session then.  *)
LEMMA ClaimKeeps ==
    ASSUME SurfaceInv, NEW o \in Ops, oper[o].phase = "unused", Claim(o),
           NEW stage \in {"starting", "resuming", "calling"}, NEW s \in Ops,
           Enters(o, stage, s, tgen),
           \/ stage # "calling" /\ s = o /\ opSession' = 0
           \/ stage = "calling" /\ s = session /\ session # 0 /\ opSession' = session,
           UNCHANGED <<session, tgen, shownMode, screenVars, turn, ask, consentVars, modes>>
    PROVE  SurfaceInv'
<1> DEFINE new == [phase |-> stage, of |-> s, gen |-> tgen, mode |-> shownMode]
<1>1. /\ oper' = [oper EXCEPT ![o] = new] /\ new \in OperRec
      /\ new.phase = stage /\ new.of = s /\ new.gen = tgen
      /\ activeOp = 0 /\ activeOp' = o /\ o # 0 /\ opSession' \in 0..MaxOps
      /\ oper \in [Ops -> OperRec]
  BY SurfaceAssumption DEF Enters, Claim, SurfaceInv, SurfaceTypeOK, OperRec, Ops
<1> HIDE DEF new
<1>2. /\ oper' \in [Ops -> OperRec] /\ oper'[o] = new
      /\ \A p \in Ops \ {o} : oper'[p] = oper[p]
  BY <1>1
<1>3. SurfaceTypeOK'
  BY <1>1, <1>2, SurfaceAssumption
     DEF SurfaceInv, SurfaceTypeOK, OperRec, screenVars, consentVars, Ops
<1>4. Owned'
  <2>1. \A p \in Ops : Made(p) => Made(p)'
    BY <1>2 DEF Made
  <2>2. \A p \in Ops : oper[p].phase \in Drives => oper[p].of # session
    <3>1. 0 \notin Ops
      BY DEF Ops
    <3> QED BY <1>1, <3>1 DEF SurfaceInv, Owned
  <2>3. session # 0 => session \in Ops
    BY SurfaceAssumption DEF SurfaceInv, SurfaceTypeOK, Ops
  <2>4. \A p \in Ops : oper'[p].phase = "running" <=> oper[p].phase = "running"
    BY <1>1, <1>2
  <2>5. \A p \in Ops : oper'[p].phase \in Drives =>
          \/ p = o /\ stage = "calling" /\ oper'[p].of = session
          \/ p # o /\ oper'[p] = oper[p]
    BY <1>1, <1>2 DEF Drives
  <2>6. \A p \in Ops : oper'[p].phase \in {"starting", "resuming", "loading"}
                         => oper'[p].of = p
    BY <1>1, <1>2 DEF SurfaceInv, Owned
  <2>7. \A p \in Ops : oper'[p].phase \in Drives =>
          /\ oper'[p].of \in Ops /\ Made(oper[p].of)'
          /\ oper'[p].of = session => activeOp' = p /\ opSession' = session
    <3> SUFFICES ASSUME NEW p \in Ops, oper'[p].phase \in Drives
                 PROVE  /\ oper'[p].of \in Ops /\ Made(oper[p].of)'
                        /\ oper'[p].of = session => activeOp' = p /\ opSession' = session
      OBVIOUS
    <3>1. CASE p = o
      <4>1. stage = "calling" /\ oper'[p].of = session /\ session # 0 /\ opSession' = session
        BY <1>1, <1>2, <2>5, <3>1
      <4>2. session \in Ops /\ Made(session)
        BY <2>3, <4>1 DEF SurfaceInv, Owned
      <4>3. Made(session)'
        BY <2>1, <4>2
      <4> QED BY <1>1, <3>1, <4>1, <4>2, <4>3 DEF Made
    <3>2. CASE p # o
      <4>1. oper'[p] = oper[p] /\ oper[p].of \in Ops /\ Made(oper[p].of)
        BY <2>5, <3>2 DEF SurfaceInv, Owned
      <4>2. Made(oper[p].of)'
        BY <2>1, <4>1 DEF Made
      <4> QED BY <2>2, <4>1, <4>2 DEF Made
    <3> QED BY <3>1, <3>2
  <2>8. /\ \A p \in Ops : oper'[p].phase = "running" => turn[oper'[p].of].phase # "idle"
        /\ \A p, q \in Ops : /\ oper'[p].phase = "running" /\ oper'[q].phase = "running"
                             /\ oper'[p].of = oper'[q].of
                             => p = q
    BY <1>1, <1>2, <2>4 DEF SurfaceInv, Owned
  <2>9. \A u \in Ops : turn[u].phase # "idle" =>
          \E p \in Ops : oper'[p].phase = "running" /\ oper'[p].of = u
    BY <1>1, <1>2, <2>4 DEF SurfaceInv, Owned
  <2>10. session # 0 => Made(session)'
    BY <2>1, <2>3 DEF SurfaceInv, Owned, Made
  <2>11. session' = session /\ turn' = turn
    OBVIOUS
  <2> QED BY <2>6, <2>7, <2>8, <2>9, <2>10, <2>11 DEF Owned, Made
<1>5. Generations'
  <2>1. tgen \in Nat /\ UNCHANGED <<session, tgen, turn>>
    BY DEF SurfaceInv, SurfaceTypeOK
  <2>2. tgen <= tgen /\ Generations
    BY <2>1 DEF SurfaceInv
  <2> QED BY <1>1, <1>2, <2>1, <2>2 DEF Generations, Works
<1>6. SheetAgrees' /\ AskOfTurn' /\ AsksReachable'
  BY AsksStay DEF SurfaceInv, screenVars, consentVars
<1> QED BY <1>3, <1>4, <1>5, <1>6 DEF SurfaceInv

LEMMA SendKeeps ==
    ASSUME SurfaceInv, NEW o \in Ops, NEW reuse \in BOOLEAN, Send(o, reuse)
    PROVE  SurfaceInv'
<1>1. CASE reuse
  <2>1. session \in Ops /\ oper[o].phase = "unused"
    BY <1>1, SurfaceAssumption DEF Send, Next1, SurfaceInv, SurfaceTypeOK, Ops
  <2> QED BY <1>1, <2>1, ClaimKeeps DEF Send
<1>2. CASE ~reuse
  BY <1>2, ClaimKeeps DEF Send, Next1
<1> QED BY <1>1, <1>2

LEMMA BeginResumeKeeps ==
    ASSUME SurfaceInv, NEW o \in Ops, BeginResume(o) PROVE SurfaceInv'
BY ClaimKeeps DEF BeginResume, Next1

(* An operation that drives no turn leaves, or goes on without one.        *)
LEMMA OpLeaves ==
    ASSUME SurfaceTypeOK, Owned, Generations, NEW o \in Ops,
           oper[o].phase \in {"starting", "resuming", "loading"},
           NEW stage \in {"loading", "done"}, oper' = [oper EXCEPT ![o].phase = stage],
           UNCHANGED ownerVars \/ (activeOp = o /\ activeOp' = 0 /\ opSession' = 0),
           UNCHANGED <<session, tgen, turn>>
    PROVE  oper' \in [Ops -> OperRec] /\ Owned' /\ Generations'
<1>1. /\ oper \in [Ops -> OperRec] /\ oper' \in [Ops -> OperRec]
      /\ oper'[o].phase = stage /\ oper'[o].of = oper[o].of /\ oper'[o].gen = oper[o].gen
      /\ \A p \in Ops \ {o} : oper'[p] = oper[p]
  BY Typed DEF OperRec
<1>2. \A p \in Ops : oper'[p].phase \in Drives => p # o /\ oper'[p] = oper[p]
  BY <1>1 DEF Drives
<1>3. \A p \in Ops : Made(p) => Made(p)'
  BY <1>1 DEF Made
<1>4. \A p \in Ops : oper'[p].phase = "running" <=> oper[p].phase = "running"
  BY <1>1
<1>5. \A p \in Ops : oper'[p].phase \in {"starting", "resuming", "loading"}
                       => oper'[p].of = p
  BY <1>1 DEF Owned
<1>6. \A p \in Ops : oper'[p].phase \in Drives =>
        /\ oper'[p].of \in Ops /\ Made(oper[p].of)'
        /\ oper'[p].of = session => activeOp' = p /\ opSession' = session
  <2> SUFFICES ASSUME NEW p \in Ops, oper'[p].phase \in Drives
               PROVE  /\ oper'[p].of \in Ops /\ Made(oper[p].of)'
                      /\ oper'[p].of = session => activeOp' = p /\ opSession' = session
    OBVIOUS
  <2>1. p # o /\ oper'[p] = oper[p] /\ oper[p].of \in Ops /\ Made(oper[p].of)
    BY <1>2 DEF Owned
  <2>2. Made(oper[p].of)'
    BY <1>3, <2>1 DEF Made
  <2>3. oper[p].of = session => activeOp = p /\ opSession = session
    BY <1>2, <2>1 DEF Owned
  <2> QED BY <2>1, <2>2, <2>3 DEF ownerVars
<1>7. session # 0 => Made(session)'
  <2>1. session # 0 => session \in Ops
    BY SurfaceAssumption DEF SurfaceTypeOK, Ops
  <2> QED BY <1>3, <2>1 DEF Owned, Made
<1>8. /\ \A p \in Ops : oper'[p].phase = "running" => turn[oper'[p].of].phase # "idle"
      /\ \A p, q \in Ops : /\ oper'[p].phase = "running" /\ oper'[q].phase = "running"
                           /\ oper'[p].of = oper'[q].of
                           => p = q
      /\ \A u \in Ops : turn[u].phase # "idle" =>
            \E p \in Ops : oper'[p].phase = "running" /\ oper'[p].of = u
  BY <1>1, <1>4 DEF Owned
<1>9. Owned'
  BY <1>5, <1>6, <1>7, <1>8 DEF Owned, Made
<1>10. Generations'
  BY <1>1 DEF Generations, Works
<1> QED BY <1>1, <1>9, <1>10

LEMMA ResumedKeeps == ASSUME SurfaceInv, NEW o \in Ops, Resumed(o) PROVE SurfaceInv'
<1>1. PICK stage \in {"loading", "done"} : oper' = [oper EXCEPT ![o].phase = stage]
  BY DEF Resumed, OpEnds
<1>2. oper' \in [Ops -> OperRec] /\ Owned' /\ Generations'
  BY <1>1, OpLeaves DEF Resumed, SurfaceInv
<1>3. SurfaceTypeOK'
  BY <1>2 DEF Resumed, SurfaceInv, SurfaceTypeOK, OperRec, ownerVars, screenVars, consentVars
<1>4. SheetAgrees' /\ AskOfTurn' /\ AsksReachable'
  BY AsksStay DEF Resumed, SurfaceInv, screenVars, consentVars
<1> QED BY <1>2, <1>3, <1>4 DEF SurfaceInv

LEMMA StartFailsKeeps == ASSUME SurfaceInv, NEW o \in Ops, StartFails(o) PROVE SurfaceInv'
<1>1. oper' = [oper EXCEPT ![o].phase = "done"]
  BY DEF StartFails, OpEnds
<1>2. UNCHANGED ownerVars \/ (activeOp = o /\ activeOp' = 0 /\ opSession' = 0)
  BY DEF StartFails, FinishOperation
<1>3. oper' \in [Ops -> OperRec] /\ Owned' /\ Generations'
  BY <1>1, <1>2, OpLeaves DEF StartFails, SurfaceInv
<1>4. activeOp' \in 0..MaxOps /\ opSession' \in 0..MaxOps
  BY <1>2, SurfaceAssumption DEF ownerVars, SurfaceInv, SurfaceTypeOK
<1>5. SurfaceTypeOK'
  BY <1>3, <1>4 DEF StartFails, SurfaceInv, SurfaceTypeOK, OperRec, screenVars, consentVars
<1>6. SheetAgrees' /\ AskOfTurn' /\ AsksReachable'
  BY AsksStay DEF StartFails, SurfaceInv, screenVars, consentVars
<1> QED BY <1>3, <1>5, <1>6 DEF SurfaceInv

(* A session that is not made yet has no turn and no operation.            *)
LEMMA NotMadeYet ==
    ASSUME SurfaceInv, NEW o \in Ops, ~Made(o)
    PROVE  /\ turn[o].phase = "idle"
           /\ \A p \in Ops : oper[p].phase \in Drives => oper[p].of # o
BY DEF SurfaceInv, Owned, Drives

LEMMA NewTurnTyped ==
    ASSUME SurfaceTypeOK, NEW o \in Ops
    PROVE  NewTurn(o) \in TurnRec /\ NewTurn(o).phase = "idle" /\ NewTurn(o).gen = 0
<1>1. oper[o].mode \in Modes
  BY DEF SurfaceTypeOK
<1>2. NoTurn \in TurnRec /\ NoTurn.phase = "idle" /\ NoTurn.gen = 0
  BY BlankRecords
<1> QED BY <1>1, <1>2 DEF NewTurn, TurnRec

(* The new session takes the screen: its operation is the one that owns    *)
(* it, so no turn of the session before still waits.                       *)
LEMMA SessionChanges ==
    ASSUME SurfaceInv, NEW o \in Ops, oper[o].phase \in {"starting", "loading"},
           activeOp = o, session' = o, tgen' = tgen + 1,
           NEW stage \in {"calling", "done"},
           oper' \in [Ops -> OperRec], \A p \in Ops \ {o} : oper'[p] = oper[p],
           oper'[o].phase = stage, oper'[o].of = oper[o].of,
           oper'[o].gen = (IF stage = "calling" THEN tgen' ELSE oper[o].gen),
           stage = "calling" => activeOp' = o /\ opSession' = o,
           NEW turns \in [Ops -> TurnRec],
           \A u \in Ops : turns[u].phase = turn[u].phase /\ turns[u].gen = turn[u].gen,
           turn' = [turns EXCEPT ![o] = NewTurn(o)]
    PROVE  turn' \in [Ops -> TurnRec] /\ Owned' /\ Generations'
<1>1. /\ oper \in [Ops -> OperRec] /\ tgen \in Nat /\ tgen' \in Nat
  BY Typed DEF SurfaceInv, SurfaceTypeOK
<1>2. /\ oper' \in [Ops -> OperRec]
      /\ oper'[o].phase = stage /\ oper'[o].of = oper[o].of
      /\ oper'[o].gen = (IF stage = "calling" THEN tgen' ELSE oper[o].gen)
      /\ \A p \in Ops \ {o} : oper'[p] = oper[p]
  OBVIOUS
<1>3. oper[o].of = o /\ ~Made(o)
  BY DEF SurfaceInv, Owned, Made
<1>4. /\ turn[o].phase = "idle"
      /\ \A p \in Ops : oper[p].phase \in Drives => oper[p].of # o
  BY <1>3, NotMadeYet
<1>5. /\ turn' \in [Ops -> TurnRec] /\ turn'[o].phase = "idle" /\ turn'[o].gen = 0
      /\ \A u \in Ops \ {o} : turn'[u].phase = turn[u].phase /\ turn'[u].gen = turn[u].gen
  BY NewTurnTyped DEF SurfaceInv
<1>6. \A p \in Ops : Made(p) => Made(p)'
  BY <1>2 DEF Made
<1>7. \A p \in Ops : oper'[p].phase \in Drives =>
        \/ p = o /\ stage = "calling"
        \/ p # o /\ oper'[p] = oper[p]
  BY <1>2 DEF Drives
<1>8. \A p \in Ops : oper'[p].phase = "running" => p # o /\ oper'[p] = oper[p]
  BY <1>2
<1>9. /\ \A p \in Ops : oper'[p].phase \in {"starting", "resuming", "loading"}
                          => oper'[p].of = p
      /\ Made(o)'
  BY <1>2 DEF SurfaceInv, Owned, Made
<1>10. \A p \in Ops : oper'[p].phase \in Drives =>
         /\ oper'[p].of \in Ops /\ Made(oper[p].of)'
         /\ oper'[p].of = o => activeOp' = p /\ opSession' = o
  <2> SUFFICES ASSUME NEW p \in Ops, oper'[p].phase \in Drives
               PROVE  /\ oper'[p].of \in Ops /\ Made(oper[p].of)'
                      /\ oper'[p].of = o => activeOp' = p /\ opSession' = o
    OBVIOUS
  <2>1. CASE p = o
    BY <1>2, <1>3, <1>7, <1>9, <2>1 DEF Made
  <2>2. CASE p # o
    <3>1. oper'[p] = oper[p] /\ oper[p].of \in Ops /\ Made(oper[p].of) /\ oper[p].of # o
      BY <1>4, <1>7, <2>2 DEF SurfaceInv, Owned
    <3>2. Made(oper[p].of)'
      BY <1>6, <3>1 DEF Made
    <3> QED BY <3>1, <3>2
  <2> QED BY <2>1, <2>2
<1>11. \A p \in Ops : oper'[p].phase = "running" => turn'[oper'[p].of].phase # "idle"
  <2> SUFFICES ASSUME NEW p \in Ops, oper'[p].phase = "running"
               PROVE  turn'[oper'[p].of].phase # "idle"
    OBVIOUS
  <2>1. oper'[p] = oper[p] /\ oper[p].phase \in Drives /\ oper[p].of \in Ops \ {o}
    BY <1>4, <1>8 DEF Drives, SurfaceInv, Owned
  <2> QED BY <1>5, <1>8, <2>1 DEF SurfaceInv, Owned
<1>12. \A p, q \in Ops : /\ oper'[p].phase = "running" /\ oper'[q].phase = "running"
                         /\ oper'[p].of = oper'[q].of
                         => p = q
  BY <1>8 DEF SurfaceInv, Owned
<1>13. \A u \in Ops : turn'[u].phase # "idle" =>
         \E p \in Ops : oper'[p].phase = "running" /\ oper'[p].of = u
  <2> SUFFICES ASSUME NEW u \in Ops, turn'[u].phase # "idle"
               PROVE  \E p \in Ops : oper'[p].phase = "running" /\ oper'[p].of = u
    OBVIOUS
  <2>1. PICK p \in Ops : oper[p].phase = "running" /\ oper[p].of = u
    BY <1>5 DEF SurfaceInv, Owned
  <2>2. p # o
    BY <2>1
  <2> QED BY <1>2, <2>1, <2>2
<1>14. Owned'
  BY <1>9, <1>10, <1>11, <1>12, <1>13 DEF Owned, Made
<1>15. Generations'
  <2>1. \A p \in Ops : oper[p].gen <= tgen /\ turn[p].gen <= tgen
                       /\ oper[p].gen \in Nat /\ turn[p].gen \in Nat
    BY <1>1 DEF SurfaceInv, Generations, SurfaceTypeOK
  <2>2. \A p \in Ops : oper'[p].gen <= tgen' /\ turn'[p].gen <= tgen'
    BY <1>1, <1>2, <1>5, <2>1
  <2>3. \A p \in Ops : oper'[p].phase = "calling" /\ oper'[p].gen = tgen' => oper'[p].of = o
    BY <1>1, <1>2, <1>3, <2>1
  <2>4. \A u \in Ops : Works(u)' => turn'[u].gen # tgen'
    BY <1>1, <1>5, <2>1 DEF Works
  <2> QED BY <2>2, <2>3, <2>4 DEF Generations
<1> QED BY <1>5, <1>14, <1>15

(* No turn of the live session runs while the operation that owns the      *)
(* screen drives none.                                                     *)
LEMMA NoLiveTurn ==
    ASSUME SurfaceInv, NEW o \in Ops, activeOp = o, oper[o].phase # "running",
           session \in Ops
    PROVE  turn[session].phase = "idle"
BY DEF SurfaceInv, Owned, Drives

LEMMA StartedKeeps == ASSUME SurfaceInv, NEW o \in Ops, Started(o) PROVE SurfaceInv'
<1>1. UNCHANGED <<activeOp, shownMode, onScreen, queue, dismissing, ask, yes, unasked, modes>>
  BY DEF Started, screenVars, consentVars
<1>2. CASE activeOp = o
  <2>1. /\ tgen' = tgen + 1 /\ session' = o /\ opSession' = o /\ oper[o].phase = "starting"
        /\ oper' = [oper EXCEPT ![o].phase = "calling", ![o].gen = tgen']
        /\ turn' = [turn EXCEPT ![o] = NewTurn(o)]
    BY <1>2 DEF Started
  <2>2. oper \in [Ops -> OperRec] /\ tgen' \in Nat /\ turn \in [Ops -> TurnRec]
    <3>1. tgen \in Nat
      BY DEF SurfaceInv, SurfaceTypeOK
    <3> QED BY <2>1, <3>1, Typed DEF SurfaceInv
  <2>3. /\ oper' \in [Ops -> OperRec] /\ oper'[o].phase = "calling"
        /\ oper'[o].of = oper[o].of /\ oper'[o].gen = tgen'
        /\ \A p \in Ops \ {o} : oper'[p] = oper[p]
    BY <2>1, <2>2 DEF OperRec
  <2>4. turn' \in [Ops -> TurnRec] /\ Owned' /\ Generations'
    BY <1>1, <1>2, <2>1, <2>2, <2>3, SessionChanges
  <2>5. SurfaceTypeOK'
    <3>1. {activeOp', opSession', session'} \subseteq 0..MaxOps
      BY <1>1, <2>1, SurfaceAssumption DEF SurfaceInv, SurfaceTypeOK, Ops
    <3>2. oper' \in [Ops -> OperRec] /\ turn' \in [Ops -> TurnRec] /\ tgen' \in Nat
      BY <2>2, <2>3, <2>4
    <3> QED BY <1>1, <3>1, <3>2 DEF SurfaceInv, SurfaceTypeOK, OperRec, TurnRec
  <2>6. SheetAgrees'
    BY <1>1 DEF SurfaceInv, SheetAgrees
  <2>7. ASSUME NEW s \in Ops, turn'[s].phase = "asking"
        PROVE  turn'[s] = turn[s] /\ s # session
    <3>1. s # o
      BY <2>1, <2>2, <2>7, NewTurnTyped DEF SurfaceInv
    <3> QED BY <1>2, <2>1, <2>2, <2>7, <3>1, NoLiveTurn
  <2>8. AskOfTurn'
    BY <1>1, <2>7 DEF SurfaceInv, AskOfTurn, Resolved
  <2>9. AsksReachable'
    BY <1>1, <2>7 DEF SurfaceInv, AsksReachable, Resolved, OnSheet
  <2> QED BY <2>4, <2>5, <2>6, <2>8, <2>9 DEF SurfaceInv
<1>3. CASE activeOp # o
  <2>1. /\ oper' = [oper EXCEPT ![o].phase = "done"] /\ oper[o].phase = "starting"
        /\ UNCHANGED <<tgen, session, opSession, turn>>
    BY <1>3 DEF Started, OpEnds
  <2>2. oper' \in [Ops -> OperRec] /\ Owned' /\ Generations'
    BY <1>1, <2>1, OpLeaves DEF SurfaceInv, ownerVars
  <2>3. SurfaceTypeOK'
    BY <1>1, <2>1, <2>2 DEF SurfaceInv, SurfaceTypeOK, OperRec
  <2>4. SheetAgrees' /\ AskOfTurn' /\ AsksReachable'
    BY <1>1, <2>1, AsksStay DEF SurfaceInv
  <2> QED BY <2>2, <2>3, <2>4 DEF SurfaceInv
<1> QED BY <1>2, <1>3

(* The sheet is cleared: who waited for one of its requests is told.       *)
LEMMA SheetClears ==
    ASSUME SurfaceInv, ClearSheet,
           \A s \in Ops : turn'[s].phase = "asking" =>
              turn[s].phase = "asking" /\ turn'[s].ask = turn[s].ask /\ turn'[s].gen = turn[s].gen
    PROVE  /\ ask' \in [Asks -> AskRec] /\ onScreen' = 0 /\ queue' = <<>>
           /\ dismissing' \in BOOLEAN
           /\ SheetAgrees' /\ AskOfTurn' /\ AsksReachable'
<1>1. /\ ask' \in [Asks -> AskRec] /\ onScreen' = 0 /\ queue' = <<>>
      /\ dismissing' \in BOOLEAN
      /\ \A r \in Asks : r \notin OnSheet => ask'[r] = ask[r]
      /\ \A r \in OnSheet : ask'[r].phase = "gone" /\ ask'[r].answer = "none"
  <2>1. SurfaceTypeOK /\ OnSheet \in SUBSET Asks
    BY SheetIsAsks DEF SurfaceInv
  <2>2. dismissing \in BOOLEAN
    BY <2>1 DEF SurfaceTypeOK
  <2>3. dismissing' \in BOOLEAN
    BY <2>2 DEF ClearSheet
  <2> QED BY <2>1, <2>3, DroppedAre DEF ClearSheet
<1>2. SheetAgrees'
  <2>1. \A r \in Asks : ask'[r].answer # "none" => ask'[r].phase = "gone"
    BY <1>1 DEF SurfaceInv, SheetAgrees
  <2>2. DOMAIN queue' = {}
    BY <1>1
  <2> QED BY <1>1, <2>1, <2>2 DEF SheetAgrees
<1>3. ASSUME NEW s \in Ops, turn'[s].phase = "asking"
      PROVE  /\ turn'[s].ask \in Asks /\ ask'[turn'[s].ask].phase # "unused"
             /\ Resolved(turn[s].ask)' \/ ask'[turn'[s].ask].gen = turn'[s].gen
             /\ Resolved(turn[s].ask)' \/ ask'[turn'[s].ask].phase = "posted"
  <2> DEFINE r == turn[s].ask
  <2>1. /\ turn'[s].ask = r /\ turn'[s].gen = turn[s].gen /\ r \in Asks
        /\ ask[r].phase # "unused"
        /\ Resolved(r) \/ ask[r].gen = turn[s].gen
        /\ Resolved(r) \/ ask[r].phase = "posted" \/ r \in OnSheet
    BY <1>3 DEF SurfaceInv, AskOfTurn, AsksReachable
  <2>2. CASE r \in OnSheet
    BY <1>1, <2>1, <2>2 DEF Resolved
  <2>3. CASE r \notin OnSheet
    <3>1. ask'[r] = ask[r]
      BY <1>1, <2>1, <2>3
    <3> QED BY <2>1, <2>3, <3>1 DEF Resolved
  <2> QED BY <2>2, <2>3
<1>4. AskOfTurn'
  BY <1>3 DEF AskOfTurn, Resolved
<1>5. AsksReachable'
  BY <1>1, <1>3 DEF AsksReachable, Resolved
<1> QED BY <1>1, <1>2, <1>4, <1>5

LEMMA LoadedKeeps == ASSUME SurfaceInv, NEW o \in Ops, Loaded(o) PROVE SurfaceInv'
<1>1. /\ oper' = [oper EXCEPT ![o].phase = "done"] /\ oper[o].phase = "loading"
      /\ UNCHANGED <<shownMode, yes, unasked, modes>>
  BY DEF Loaded, OpEnds, consentVars
<1>2. CASE activeOp = o
  <2>1. /\ tgen' = tgen + 1 /\ session' = o /\ activeOp' = 0 /\ opSession' = 0
        /\ turn' = [Cancelled(session) EXCEPT ![o] = NewTurn(o)] /\ ClearSheet
    BY <1>2 DEF Loaded, FinishOperation
  <2>2. /\ oper \in [Ops -> OperRec] /\ tgen' \in Nat /\ session \in 0..MaxOps
        /\ o \in 0..MaxOps /\ 0 \in 0..MaxOps
    BY <2>1, Typed, SurfaceAssumption DEF SurfaceInv, SurfaceTypeOK, Ops
  <2>3. /\ Cancelled(session) \in [Ops -> TurnRec]
        /\ \A u \in Ops : /\ Cancelled(session)[u].phase = turn[u].phase
                          /\ Cancelled(session)[u].gen = turn[u].gen
                          /\ Cancelled(session)[u].ask = turn[u].ask
    BY <2>2, CancelledTurns DEF SurfaceInv
  <2>4. /\ oper' \in [Ops -> OperRec] /\ oper'[o].phase = "done"
        /\ oper'[o].of = oper[o].of /\ oper'[o].gen = oper[o].gen
        /\ \A p \in Ops \ {o} : oper'[p] = oper[p]
    BY <1>1, <2>2 DEF OperRec
  <2>5. turn' \in [Ops -> TurnRec] /\ Owned' /\ Generations'
    BY <1>1, <1>2, <2>1, <2>3, <2>4, SessionChanges
  <2>6. \A s \in Ops : turn'[s].phase = "asking" =>
          turn[s].phase = "asking" /\ turn'[s].ask = turn[s].ask /\ turn'[s].gen = turn[s].gen
    BY <2>1, <2>3, NewTurnTyped DEF SurfaceInv
  <2>7. /\ ask' \in [Asks -> AskRec] /\ onScreen' = 0 /\ queue' = <<>>
        /\ dismissing' \in BOOLEAN
        /\ SheetAgrees' /\ AskOfTurn' /\ AsksReachable'
    BY <2>1, <2>6, SheetClears
  <2>8. SurfaceTypeOK'
    <3>1. onScreen' \in 0..MaxAsks /\ queue' \in Seq(Asks)
      BY <2>7, SurfaceAssumption
    <3> QED BY <1>1, <2>1, <2>2, <2>4, <2>5, <2>7, <3>1
          DEF SurfaceInv, SurfaceTypeOK, OperRec, TurnRec, AskRec
  <2> QED BY <2>5, <2>7, <2>8 DEF SurfaceInv
<1>3. CASE activeOp # o
  <2>1. UNCHANGED <<tgen, session, turn, ask, onScreen, queue, dismissing, activeOp, opSession>>
    BY <1>3 DEF Loaded, FinishOperation, screenVars, consentVars, ownerVars
  <2>2. oper' \in [Ops -> OperRec] /\ Owned' /\ Generations'
    BY <1>1, <2>1, OpLeaves DEF SurfaceInv, ownerVars
  <2>3. SurfaceTypeOK'
    BY <1>1, <2>1, <2>2 DEF SurfaceInv, SurfaceTypeOK, OperRec
  <2>4. SheetAgrees' /\ AskOfTurn' /\ AsksReachable'
    BY <2>1, AsksStay DEF SurfaceInv
  <2> QED BY <2>2, <2>3, <2>4 DEF SurfaceInv
<1> QED BY <1>2, <1>3

LEMMA StopKeeps == ASSUME SurfaceInv, Stop PROVE SurfaceInv'
<1>1. UNCHANGED <<oper, session, tgen, shownMode, onScreen, queue, dismissing, ask, yes, unasked,
                  modes>>
  BY DEF Stop, screenVars, consentVars
<1>2. session \in 0..MaxOps /\ opSession \in 0..MaxOps /\ activeOp \in 0..MaxOps
      /\ turn \in [Ops -> TurnRec] /\ 0 \in 0..MaxOps
  BY Typed, SurfaceAssumption DEF SurfaceInv
<1>3. /\ turn' \in [Ops -> TurnRec]
      /\ \A u \in Ops : /\ turn'[u].phase = turn[u].phase /\ turn'[u].gen = turn[u].gen
                        /\ turn'[u].ask = turn[u].ask
      /\ UNCHANGED ownerVars \/ (activeOp' = 0 /\ opSession' = opSession /\ opSession = 0)
  <2>1. CASE activeOp = 0
    BY <1>2, <2>1, CancelledTurns DEF Stop, SurfaceInv
  <2>2. CASE activeOp # 0 /\ opSession # 0
    BY <1>2, <2>2, CancelledTurns DEF Stop, SurfaceInv
  <2>3. CASE activeOp # 0 /\ opSession = 0
    BY <1>2, <2>3 DEF Stop
  <2> QED BY <2>1, <2>2, <2>3
<1>4. activeOp' \in 0..MaxOps /\ opSession' \in 0..MaxOps
  BY <1>2, <1>3 DEF ownerVars
<1>5. SurfaceTypeOK'
  BY <1>1, <1>3, <1>4 DEF SurfaceInv, SurfaceTypeOK, TurnRec
<1>6. Owned'
  <2>1. CASE UNCHANGED ownerVars
    BY <1>1, <1>3, <2>1, OwnedStays DEF SurfaceInv, ownerVars
  <2>2. CASE activeOp' = 0 /\ opSession' = opSession /\ opSession = 0
    <3>1. \A o \in Ops : oper[o].phase \in Drives => oper[o].of # session
      BY <2>2 DEF SurfaceInv, Owned, Ops
    <3>2. \A o \in Ops : oper[o].phase = "running" => oper[o].of \in Ops
      BY DEF SurfaceInv, Owned, Drives
    <3>3. /\ \A o \in Ops : oper[o].phase = "running" => turn'[oper[o].of].phase # "idle"
          /\ \A s \in Ops : turn'[s].phase # "idle" =>
                \E o \in Ops : oper[o].phase = "running" /\ oper[o].of = s
      BY <1>3, <3>2 DEF SurfaceInv, Owned
    <3> QED BY <1>1, <3>1, <3>3 DEF SurfaceInv, Owned, Made
  <2> QED BY <1>3, <2>1, <2>2
<1>7. Generations'
  BY <1>1, <1>3, GenerationsStay DEF SurfaceInv, Works
<1>8. SheetAgrees' /\ AskOfTurn' /\ AsksReachable'
  BY <1>1, <1>3, AsksStay DEF SurfaceInv
<1> QED BY <1>5, <1>6, <1>7, <1>8 DEF SurfaceInv

LEMMA ResetKeeps == ASSUME SurfaceInv, Reset PROVE SurfaceInv'
<1>1. /\ turn' = Cancelled(IF opSession # 0 THEN opSession ELSE session)
      /\ activeOp' = 0 /\ opSession' = 0 /\ session' = 0 /\ tgen' = tgen + 1 /\ ClearSheet
      /\ UNCHANGED <<oper, shownMode, yes, unasked, modes>>
  BY DEF Reset, consentVars
<1>2. /\ (IF opSession # 0 THEN opSession ELSE session) \in 0..MaxOps
      /\ 0 \in 0..MaxOps /\ 0 \notin Ops
  BY Typed, SurfaceAssumption DEF SurfaceInv, Ops
<1>3. /\ turn' \in [Ops -> TurnRec]
      /\ \A u \in Ops : /\ turn'[u].phase = turn[u].phase /\ turn'[u].gen = turn[u].gen
                        /\ turn'[u].ask = turn[u].ask
  BY <1>1, <1>2, CancelledTurns DEF SurfaceInv
<1>4. /\ ask' \in [Asks -> AskRec] /\ onScreen' = 0 /\ queue' = <<>>
      /\ dismissing' \in BOOLEAN
      /\ SheetAgrees' /\ AskOfTurn' /\ AsksReachable'
  BY <1>1, <1>3, SheetClears
<1>5. SurfaceTypeOK'
  <2>1. onScreen' \in 0..MaxAsks /\ queue' \in Seq(Asks)
    BY <1>4, SurfaceAssumption
  <2>2. tgen' \in Nat /\ {activeOp', opSession', session'} \subseteq 0..MaxOps
    BY <1>1, <1>2 DEF SurfaceInv, SurfaceTypeOK
  <2> QED BY <1>1, <1>3, <1>4, <2>1, <2>2
        DEF SurfaceInv, SurfaceTypeOK, TurnRec, AskRec
<1>6. Owned'
  <2>1. \A o \in Ops : oper[o].phase \in Drives => oper[o].of \in Ops /\ Made(oper[o].of)
    BY DEF SurfaceInv, Owned
  <2>2. \A o \in Ops : oper[o].phase = "running" => oper[o].of \in Ops
    BY <2>1 DEF Drives
  <2>3. /\ \A o \in Ops : oper[o].phase = "running" => turn'[oper[o].of].phase # "idle"
        /\ \A s \in Ops : turn'[s].phase # "idle" =>
              \E o \in Ops : oper[o].phase = "running" /\ oper[o].of = s
    BY <1>3, <2>2 DEF SurfaceInv, Owned
  <2> QED BY <1>1, <1>2, <2>1, <2>3 DEF SurfaceInv, Owned, Made
<1>7. Generations'
  <2>1. \A o \in Ops : /\ oper[o].gen <= tgen /\ turn[o].gen <= tgen /\ tgen \in Nat
                       /\ oper[o].gen \in Nat /\ turn[o].gen \in Nat
    BY DEF SurfaceInv, Generations, SurfaceTypeOK
  <2> QED BY <1>1, <1>3, <2>1 DEF Generations
<1> QED BY <1>4, <1>5, <1>6, <1>7 DEF SurfaceInv

LEMMA SetModeKeeps == ASSUME SurfaceInv, NEW m \in Modes, SetMode(m) PROVE SurfaceInv'
<1>1. /\ UNCHANGED <<oper, activeOp, opSession, session, tgen, onScreen, queue, dismissing,
                     ask, yes, unasked>>
      /\ shownMode' = m
      /\ turn' = IF session = 0 THEN turn ELSE [turn EXCEPT ![session].mode = m]
  BY DEF SetMode, screenVars, consentVars, ownerVars
<1>2. /\ turn' \in [Ops -> TurnRec]
      /\ \A u \in Ops : /\ turn'[u].phase = turn[u].phase /\ turn'[u].gen = turn[u].gen
                        /\ turn'[u].ask = turn[u].ask
  <2>1. turn \in [Ops -> TurnRec]
    BY Typed DEF SurfaceInv
  <2>2. CASE session = 0
    BY <1>1, <2>1, <2>2
  <2>3. CASE session # 0
    BY <1>1, <2>1, <2>3 DEF TurnRec
  <2> QED BY <2>2, <2>3
<1>3. modes' \in 0..MaxModes
  BY SurfaceAssumption DEF SetMode, SurfaceInv, SurfaceTypeOK
<1>4. SurfaceTypeOK'
  BY <1>1, <1>2, <1>3 DEF SurfaceInv, SurfaceTypeOK, TurnRec
<1>5. Owned' /\ Generations'
  BY <1>1, <1>2, OwnedStays, GenerationsStay DEF SurfaceInv, Works
<1>6. SheetAgrees' /\ AskOfTurn' /\ AsksReachable'
  BY <1>1, <1>2, AsksStay DEF SurfaceInv
<1> QED BY <1>4, <1>5, <1>6 DEF SurfaceInv

(***************************************************************************)
(* The turn.                                                               *)
(***************************************************************************)
(* An operation that drove a session is done with it.                      *)
LEMMA OpFinishes ==
    ASSUME SurfaceInv, NEW o \in Ops, oper[o].phase \in Drives, OpEnds(o),
           FinishOperation(o), UNCHANGED <<session, tgen>>, turn' \in [Ops -> TurnRec],
           \A u \in Ops : /\ turn'[u].gen = turn[u].gen
                          /\ u # oper[o].of => turn'[u].phase = turn[u].phase,
           \/ oper[o].phase = "calling" /\ turn' = turn
           \/ oper[o].phase = "running" /\ turn'[oper[o].of].phase = "idle"
    PROVE  /\ oper' \in [Ops -> OperRec] /\ activeOp' \in 0..MaxOps
           /\ opSession' \in 0..MaxOps /\ Owned' /\ Generations'
<1>1. oper \in [Ops -> OperRec] /\ activeOp \in 0..MaxOps /\ opSession \in 0..MaxOps
  BY Typed DEF SurfaceInv
<1>2. /\ oper' \in [Ops -> OperRec] /\ oper'[o].phase = "done"
      /\ oper'[o].gen = oper[o].gen /\ oper[o].of \in Ops
      /\ \A p \in Ops \ {o} : oper'[p] = oper[p]
  BY <1>1 DEF OpEnds, OperRec, SurfaceInv, Owned
<1>3. UNCHANGED ownerVars \/ (activeOp = o /\ activeOp' = 0 /\ opSession' = 0)
  BY DEF FinishOperation
<1>4. activeOp' \in 0..MaxOps /\ opSession' \in 0..MaxOps
  BY <1>1, <1>3, SurfaceAssumption DEF ownerVars
<1>5. \A p \in Ops : oper'[p].phase \in Drives => p # o /\ oper'[p] = oper[p]
  BY <1>2 DEF Drives
<1>6. \A p \in Ops : Made(p) => Made(p)'
  BY <1>2 DEF Made
<1>7. \A p \in Ops : oper'[p].phase \in Drives =>
        /\ oper'[p].of \in Ops /\ Made(oper[p].of)'
        /\ oper'[p].of = session => activeOp' = p /\ opSession' = session
  <2> SUFFICES ASSUME NEW p \in Ops, oper'[p].phase \in Drives
               PROVE  /\ oper'[p].of \in Ops /\ Made(oper[p].of)'
                      /\ oper'[p].of = session => activeOp' = p /\ opSession' = session
    OBVIOUS
  <2>1. p # o /\ oper'[p] = oper[p] /\ oper[p].of \in Ops /\ Made(oper[p].of)
    BY <1>5 DEF SurfaceInv, Owned
  <2>2. Made(oper[p].of)'
    BY <1>6, <2>1 DEF Made
  <2>3. oper[p].of = session => activeOp = p /\ opSession = session
    BY <1>5, <2>1 DEF SurfaceInv, Owned
  <2> QED BY <1>3, <2>1, <2>2, <2>3 DEF ownerVars
<1>8. session # 0 => Made(session)'
  <2>1. session # 0 => session \in Ops
    BY SurfaceAssumption DEF SurfaceInv, SurfaceTypeOK, Ops
  <2> QED BY <1>6, <2>1 DEF SurfaceInv, Owned, Made
<1>9. \A p \in Ops : oper'[p].phase \in {"starting", "resuming", "loading"}
                       => oper'[p].of = p
  BY <1>2 DEF SurfaceInv, Owned
<1>10. \A p \in Ops : oper'[p].phase = "running" => p # o /\ oper'[p] = oper[p]
  BY <1>2
<1>11. \A p \in Ops : oper'[p].phase = "running" => turn'[oper'[p].of].phase # "idle"
  <2> SUFFICES ASSUME NEW p \in Ops, oper'[p].phase = "running"
               PROVE  turn'[oper'[p].of].phase # "idle"
    OBVIOUS
  <2>1. /\ oper'[p] = oper[p] /\ oper[p].phase = "running" /\ p # o
        /\ oper[p].of \in Ops /\ turn[oper[p].of].phase # "idle"
    BY <1>10 DEF SurfaceInv, Owned, Drives
  <2>2. CASE oper[o].phase = "calling" /\ turn' = turn
    BY <2>1, <2>2
  <2>3. CASE oper[o].phase = "running" /\ turn'[oper[o].of].phase = "idle"
    <3>1. oper[p].of # oper[o].of
      BY <2>1, <2>3 DEF SurfaceInv, Owned
    <3> QED BY <2>1, <3>1
  <2> QED BY <2>2, <2>3
<1>12. \A p, q \in Ops : /\ oper'[p].phase = "running" /\ oper'[q].phase = "running"
                         /\ oper'[p].of = oper'[q].of
                         => p = q
  BY <1>10 DEF SurfaceInv, Owned
<1>13. \A u \in Ops : turn'[u].phase # "idle" =>
         \E p \in Ops : oper'[p].phase = "running" /\ oper'[p].of = u
  <2> SUFFICES ASSUME NEW u \in Ops, turn'[u].phase # "idle"
               PROVE  \E p \in Ops : oper'[p].phase = "running" /\ oper'[p].of = u
    OBVIOUS
  <2>1. /\ turn[u].phase # "idle"
        /\ oper[o].phase = "running" => u # oper[o].of
    OBVIOUS
  <2>2. PICK p \in Ops : oper[p].phase = "running" /\ oper[p].of = u
    BY <2>1 DEF SurfaceInv, Owned
  <2>3. p # o
    BY <2>1, <2>2
  <2> QED BY <1>2, <2>2, <2>3
<1>14. Owned'
  BY <1>7, <1>8, <1>9, <1>11, <1>12, <1>13 DEF Owned, Made
<1>15. Generations'
  <2>1. \A u \in Ops : Works(u)' => Works(u)
    BY DEF Works
  <2>2. \A p \in Ops : /\ oper'[p].gen = oper[p].gen
                       /\ oper'[p].phase = "calling" => oper'[p] = oper[p]
    BY <1>2
  <2> QED BY <2>1, <2>2 DEF SurfaceInv, Generations
<1> QED BY <1>2, <1>4, <1>14, <1>15

LEMMA ClaimTurnKeeps == ASSUME SurfaceInv, NEW o \in Ops, ClaimTurn(o) PROVE SurfaceInv'
<1> DEFINE s == oper[o].of
<1>1. /\ UNCHANGED <<session, tgen, shownMode, onScreen, queue, dismissing, ask, yes, unasked,
                     modes>>
      /\ oper[o].phase = "calling" /\ s \in Ops
      /\ oper \in [Ops -> OperRec] /\ turn \in [Ops -> TurnRec]
  BY Typed DEF ClaimTurn, screenVars, consentVars, SurfaceInv, Owned, Drives
<1>2. CASE turn[s].phase = "idle"
  <2>1. /\ turn' = [turn EXCEPT ![s].phase = "running", ![s].gen = oper[o].gen,
                                ![s].cancelled = FALSE]
        /\ oper' = [oper EXCEPT ![o].phase = "running"]
        /\ UNCHANGED <<activeOp, opSession>>
    BY <1>2 DEF ClaimTurn, ownerVars
  <2>2. /\ turn' \in [Ops -> TurnRec]
        /\ turn'[s].phase = "running" /\ turn'[s].gen = oper[o].gen
        /\ \A u \in Ops \ {s} : turn'[u] = turn[u]
    <3>1. oper[o].gen \in Nat
      BY <1>1 DEF OperRec
    <3> DEFINE new == [turn[s] EXCEPT !.phase = "running", !.gen = oper[o].gen,
                                      !.cancelled = FALSE]
    <3>2. new \in TurnRec /\ new.phase = "running" /\ new.gen = oper[o].gen
      <4>1. turn[s] \in TurnRec
        BY <1>1
      <4> HIDE DEF s
      <4> QED BY <3>1, <4>1 DEF TurnRec
    <3>3. turn' = [turn EXCEPT ![s] = new]
      BY <1>1, <2>1
    <3> HIDE DEF new
    <3> QED BY <1>1, <3>2, <3>3
  <2>3. /\ oper' \in [Ops -> OperRec] /\ oper'[o].phase = "running" /\ oper'[o].of = s
        /\ oper'[o].gen = oper[o].gen
        /\ \A p \in Ops \ {o} : oper'[p] = oper[p]
    BY <1>1, <2>1 DEF OperRec
  <2> HIDE DEF s
  <2>4. SurfaceTypeOK'
    BY <1>1, <2>1, <2>2, <2>3 DEF SurfaceInv, SurfaceTypeOK, OperRec, TurnRec
  <2>5. \A p \in Ops : oper[p].phase = "running" => oper[p].of # s /\ oper[p].of \in Ops
    BY <1>2 DEF SurfaceInv, Owned, Drives
  <2>6. Owned'
    <3>1. \A p \in Ops : Made(p)' <=> Made(p)
      BY <1>1, <2>3 DEF Made
    <3>2. \A p \in Ops : /\ oper'[p].phase \in Drives <=> oper[p].phase \in Drives
                         /\ oper'[p].of = oper[p].of
      BY <1>1, <2>3 DEF Drives, s
    <3>3. \A p \in Ops : oper'[p].phase \in Drives =>
            /\ oper'[p].of \in Ops /\ Made(oper[p].of)'
            /\ oper'[p].of = session => activeOp' = p /\ opSession' = session
      <4> SUFFICES ASSUME NEW p \in Ops, oper'[p].phase \in Drives
                   PROVE  /\ oper'[p].of \in Ops /\ Made(oper[p].of)'
                          /\ oper'[p].of = session => activeOp' = p /\ opSession' = session
        OBVIOUS
      <4>1. /\ oper'[p].of = oper[p].of /\ oper[p].of \in Ops /\ Made(oper[p].of)
            /\ oper[p].of = session => activeOp = p /\ opSession = session
        BY <3>2 DEF SurfaceInv, Owned
      <4>2. Made(oper[p].of)'
        BY <3>1, <4>1 DEF Made
      <4> QED BY <2>1, <4>1, <4>2
    <3>4. \A p \in Ops : oper'[p].phase \in {"starting", "resuming", "loading"}
                           => oper'[p].of = p
      BY <2>3 DEF SurfaceInv, Owned
    <3>5. session # 0 => Made(session)'
      <4>1. session # 0 => session \in Ops
        BY SurfaceAssumption DEF SurfaceInv, SurfaceTypeOK, Ops
      <4> QED BY <1>1, <3>1, <4>1 DEF SurfaceInv, Owned, Made
    <3>6. \A p \in Ops : oper'[p].phase = "running" => turn'[oper'[p].of].phase # "idle"
      <4> SUFFICES ASSUME NEW p \in Ops, oper'[p].phase = "running"
                   PROVE  turn'[oper'[p].of].phase # "idle"
        OBVIOUS
      <4>1. CASE p = o
        BY <2>2, <2>3, <4>1
      <4>2. CASE p # o
        <5>1. /\ oper'[p] = oper[p] /\ oper[p].of \in Ops /\ oper[p].of # s
              /\ turn[oper[p].of].phase # "idle"
          BY <2>3, <2>5, <4>2 DEF SurfaceInv, Owned
        <5> QED BY <2>2, <5>1
      <4> QED BY <4>1, <4>2
    <3>7. \A p, q \in Ops : /\ oper'[p].phase = "running" /\ oper'[q].phase = "running"
                            /\ oper'[p].of = oper'[q].of
                            => p = q
      BY <2>3, <2>5 DEF SurfaceInv, Owned
    <3>8. \A u \in Ops : turn'[u].phase # "idle" =>
            \E p \in Ops : oper'[p].phase = "running" /\ oper'[p].of = u
      <4> SUFFICES ASSUME NEW u \in Ops, turn'[u].phase # "idle"
                   PROVE  \E p \in Ops : oper'[p].phase = "running" /\ oper'[p].of = u
        OBVIOUS
      <4>1. CASE u = s
        BY <2>3, <4>1
      <4>2. CASE u # s
        <5>1. PICK p \in Ops : oper[p].phase = "running" /\ oper[p].of = u
          BY <2>2, <4>2 DEF SurfaceInv, Owned
        <5>2. p # o
          BY <1>1, <5>1
        <5> QED BY <2>3, <5>1, <5>2
      <4> QED BY <4>1, <4>2
    <3> QED BY <1>1, <3>3, <3>4, <3>5, <3>6, <3>7, <3>8 DEF Owned, Made
  <2>7. Generations'
    <3>1. \A p \in Ops : oper'[p].gen <= tgen /\ turn'[p].gen <= tgen
      BY <2>2, <2>3 DEF SurfaceInv, Generations
    <3>2. \A p \in Ops : oper'[p].phase = "calling" /\ oper'[p].gen = tgen
                           => oper'[p].of = session
      BY <2>3 DEF SurfaceInv, Generations
    <3>3. \A u \in Ops : Works(u)' /\ turn'[u].gen = tgen => u = session
      <4>1. oper[o].gen = tgen => s = session
        BY <1>1 DEF SurfaceInv, Generations, s
      <4> QED BY <2>2, <4>1 DEF SurfaceInv, Generations, Works
    <3> QED BY <1>1, <3>1, <3>2, <3>3 DEF Generations
  <2>8. SheetAgrees' /\ AskOfTurn' /\ AsksReachable'
    BY <1>1, <2>2, AsksStay DEF SurfaceInv
  <2> QED BY <2>4, <2>6, <2>7, <2>8 DEF SurfaceInv
<1>3. CASE turn[s].phase # "idle"
  <2>1. OpEnds(o) /\ FinishOperation(o) /\ turn' = turn
    BY <1>3 DEF ClaimTurn
  <2>2. /\ oper' \in [Ops -> OperRec] /\ activeOp' \in 0..MaxOps
        /\ opSession' \in 0..MaxOps /\ Owned' /\ Generations'
    BY <1>1, <2>1, OpFinishes DEF Drives
  <2>3. SurfaceTypeOK'
    BY <1>1, <2>1, <2>2 DEF SurfaceInv, SurfaceTypeOK, OperRec
  <2>4. SheetAgrees' /\ AskOfTurn' /\ AsksReachable'
    BY <1>1, <2>1, AsksStay DEF SurfaceInv
  <2> QED BY <2>2, <2>3, <2>4 DEF SurfaceInv
<1> QED BY <1>2, <1>3

LEMMA ReturnsKeeps == ASSUME SurfaceInv, NEW o \in Ops, Returns(o) PROVE SurfaceInv'
<1> DEFINE s == oper[o].of
<1>1. /\ UNCHANGED <<session, tgen, shownMode, onScreen, queue, dismissing, ask, yes, unasked,
                     modes>>
      /\ oper[o].phase = "running" /\ s \in Ops /\ turn \in [Ops -> TurnRec]
      /\ turn' = [turn EXCEPT ![s].phase = "idle"] /\ OpEnds(o) /\ FinishOperation(o)
  BY Typed DEF Returns, screenVars, consentVars, SurfaceInv, Owned, Drives
<1>2. /\ turn' \in [Ops -> TurnRec] /\ turn'[s].phase = "idle"
      /\ turn'[s].gen = turn[s].gen /\ \A u \in Ops \ {s} : turn'[u] = turn[u]
  BY <1>1 DEF TurnRec
<1>3. \A u \in Ops : /\ turn'[u].gen = turn[u].gen
                     /\ u # oper[o].of => turn'[u].phase = turn[u].phase
  BY <1>2
<1>4. /\ oper' \in [Ops -> OperRec] /\ activeOp' \in 0..MaxOps
      /\ opSession' \in 0..MaxOps /\ Owned' /\ Generations'
  BY <1>1, <1>2, <1>3, OpFinishes DEF Drives
<1>5. SurfaceTypeOK'
  <2>1. UNCHANGED <<session, tgen, shownMode, onScreen, queue, dismissing, ask, yes, unasked,
                    modes>>
    BY <1>1
  <2>2. turn' \in [Ops -> TurnRec]
    BY <1>2
  <2> QED BY <1>4, <2>1, <2>2 DEF SurfaceInv, SurfaceTypeOK, OperRec, TurnRec
<1>6. \A u \in Ops : turn'[u].phase = "asking" => u # s
  BY <1>2
<1>7. SheetAgrees' /\ AskOfTurn' /\ AsksReachable'
  BY <1>1, <1>2, <1>6, AsksStay DEF SurfaceInv
<1> QED BY <1>4, <1>5, <1>7 DEF SurfaceInv

LEMMA TurnEndsKeeps == ASSUME SurfaceInv, NEW s \in Ops, TurnEnds(s) PROVE SurfaceInv'
<1>1. /\ UNCHANGED <<oper, activeOp, opSession, session, tgen, shownMode, onScreen, queue,
                     dismissing, ask, yes, unasked, modes>>
      /\ turn[s].phase \in {"running", "asking"} /\ turn \in [Ops -> TurnRec]
      /\ turn' = [turn EXCEPT ![s].phase = "returning", ![s].ask = 0]
  BY Typed DEF TurnEnds, screenVars, consentVars, ownerVars, SurfaceInv
<1>2. /\ turn' \in [Ops -> TurnRec] /\ turn'[s].phase = "returning"
      /\ turn'[s].gen = turn[s].gen /\ \A u \in Ops \ {s} : turn'[u] = turn[u]
  <2>1. 0 \in 0..MaxAsks
    BY SurfaceAssumption
  <2> QED BY <1>1, <2>1 DEF TurnRec
<1>3. SurfaceTypeOK'
  BY <1>1, <1>2 DEF SurfaceInv, SurfaceTypeOK, TurnRec
<1>4. \A u \in Ops : turn'[u].phase = "idle" <=> turn[u].phase = "idle"
  BY <1>1, <1>2
<1>5. \A u \in Ops : turn'[u].gen = turn[u].gen /\ (Works(u)' => Works(u))
  BY <1>1, <1>2 DEF Works
<1>6. Owned' /\ Generations'
  BY <1>1, <1>4, <1>5, OwnedStays, GenerationsStay DEF SurfaceInv
<1>7. \A u \in Ops : turn'[u].phase = "asking" => turn'[u] = turn[u]
  BY <1>2
<1>8. SheetAgrees' /\ AskOfTurn' /\ AsksReachable'
  BY <1>1, <1>7, AsksStay DEF SurfaceInv
<1> QED BY <1>3, <1>6, <1>8 DEF SurfaceInv

(* A write asks the user: the request is on its way, with the turn's       *)
(* transcript.                                                             *)
LEMMA WriteToolKeeps ==
    ASSUME SurfaceInv, NEW s \in Ops, NEW t \in Tools, WriteTool(s, t) PROVE SurfaceInv'
<1>1. /\ UNCHANGED <<oper, activeOp, opSession, session, tgen, shownMode, onScreen, queue,
                     dismissing, modes>>
      /\ turn[s].phase = "running"
      /\ turn \in [Ops -> TurnRec] /\ ask \in [Asks -> AskRec]
  BY Typed DEF WriteTool, screenVars, consentVars, ownerVars, SurfaceInv
<1>2. CASE Ran(Standing(s, t)) /\ UNCHANGED <<turn, ask>>
  <2>1. unasked' \in BOOLEAN /\ yes' = yes
    BY <1>2 DEF Ran, Standing
  <2>2. SurfaceTypeOK'
    BY <1>1, <1>2, <2>1 DEF SurfaceInv, SurfaceTypeOK
  <2>3. Owned' /\ Generations'
    BY <1>1, <1>2, OwnedStays, GenerationsStay DEF SurfaceInv, Works
  <2>4. SheetAgrees' /\ AskOfTurn' /\ AsksReachable'
    BY <1>1, <1>2, AsksStay DEF SurfaceInv
  <2> QED BY <2>2, <2>3, <2>4 DEF SurfaceInv
<1>3. CASE \E r \in Asks :
             /\ ask[r].phase = "unused"
             /\ ask' = [ask EXCEPT ![r] = [NoAsk EXCEPT
                           !.phase = "posted", !.of = s, !.gen = turn[s].gen,
                           !.tool = t]]
             /\ turn' = [turn EXCEPT ![s].phase = "asking", ![s].ask = r]
             /\ UNCHANGED consentVars
  <2>1. PICK r \in Asks :
             /\ ask[r].phase = "unused"
             /\ ask' = [ask EXCEPT ![r] = [NoAsk EXCEPT
                           !.phase = "posted", !.of = s, !.gen = turn[s].gen,
                           !.tool = t]]
             /\ turn' = [turn EXCEPT ![s].phase = "asking", ![s].ask = r]
             /\ UNCHANGED consentVars
    BY <1>3
  <2> DEFINE new == [NoAsk EXCEPT !.phase = "posted", !.of = s, !.gen = turn[s].gen,
                                  !.tool = t]
  <2>2. /\ new \in AskRec /\ new.phase = "posted" /\ new.gen = turn[s].gen
        /\ new.answer = "none"
    <3>1. s \in 0..MaxOps /\ turn[s].gen \in Nat
      BY <1>1, SurfaceAssumption DEF Ops, TurnRec
    <3>2. t \in Named
      BY DEF Named
    <3> QED BY <3>1, <3>2 DEF NoAsk, AskRec
  <2>3. /\ ask' = [ask EXCEPT ![r] = new] /\ ask[r].phase = "unused"
        /\ turn' = [turn EXCEPT ![s].phase = "asking", ![s].ask = r]
        /\ UNCHANGED <<yes, unasked>>
    BY <2>1 DEF consentVars
  <2> HIDE DEF new
  <2>4. /\ ask' \in [Asks -> AskRec] /\ ask'[r] = new
        /\ \A q \in Asks \ {r} : ask'[q] = ask[q]
    BY <1>1, <2>2, <2>3
  <2>5. /\ turn' \in [Ops -> TurnRec] /\ turn'[s].phase = "asking" /\ turn'[s].ask = r
        /\ turn'[s].gen = turn[s].gen /\ \A u \in Ops \ {s} : turn'[u] = turn[u]
    <3>1. r \in 0..MaxAsks
      BY SurfaceAssumption DEF Asks
    <3> QED BY <1>1, <2>3, <3>1 DEF TurnRec
  <2>6. SurfaceTypeOK'
    BY <1>1, <2>3, <2>4, <2>5 DEF SurfaceInv, SurfaceTypeOK, TurnRec, AskRec
  <2>7. \A u \in Ops : turn'[u].phase = "idle" <=> turn[u].phase = "idle"
    BY <1>1, <2>5
  <2>8. \A u \in Ops : turn'[u].gen = turn[u].gen /\ (Works(u)' => Works(u))
    BY <1>1, <2>5 DEF Works
  <2>9. Owned' /\ Generations'
    BY <1>1, <2>7, <2>8, OwnedStays, GenerationsStay DEF SurfaceInv
  <2>10. SheetAgrees'
    <3>1. onScreen # 0 => onScreen \in Asks /\ onScreen # r
      BY <2>3, SurfaceAssumption DEF SurfaceInv, SurfaceTypeOK, SheetAgrees, Asks
    <3>2. \A i \in DOMAIN queue : queue[i] \in Asks /\ queue[i] # r
      BY <2>3 DEF SurfaceInv, SurfaceTypeOK, SheetAgrees
    <3>3. \A q \in Asks : ask'[q].answer # "none" => ask'[q].phase = "gone"
      BY <2>2, <2>4 DEF SurfaceInv, SheetAgrees
    <3> QED BY <1>1, <2>4, <3>1, <3>2, <3>3 DEF SurfaceInv, SheetAgrees
  <2>11. ASSUME NEW u \in Ops, u # s, turn'[u].phase = "asking"
         PROVE  /\ turn'[u] = turn[u] /\ turn[u].ask \in Asks
                /\ ask'[turn[u].ask] = ask[turn[u].ask]
    <3>1. /\ turn'[u] = turn[u] /\ turn[u].ask \in Asks
          /\ ask[turn[u].ask].phase # "unused"
      BY <2>5, <2>11 DEF SurfaceInv, AskOfTurn
    <3> QED BY <2>3, <2>4, <3>1
  <2>12. AskOfTurn'
    <3> SUFFICES ASSUME NEW u \in Ops, turn'[u].phase = "asking"
                 PROVE  /\ turn'[u].ask \in Asks /\ ask'[turn'[u].ask].phase # "unused"
                        /\ \/ ask'[turn'[u].ask].answer # "none"
                           \/ ask'[turn'[u].ask].phase = "gone"
                           \/ ask'[turn'[u].ask].gen = turn'[u].gen
      BY DEF AskOfTurn, Resolved
    <3>1. CASE u = s
      BY <2>2, <2>4, <2>5, <3>1
    <3>2. CASE u # s
      BY <2>11, <3>2 DEF SurfaceInv, AskOfTurn, Resolved
    <3> QED BY <3>1, <3>2
  <2>13. AsksReachable'
    <3>1. ASSUME NEW u \in Ops, turn'[u].phase = "asking"
          PROVE  \/ ask'[turn'[u].ask].answer # "none"
                 \/ ask'[turn'[u].ask].phase \in {"gone", "posted"}
                 \/ turn'[u].ask \in OnSheet /\ u = session
      <4>1. CASE u = s
        BY <2>2, <2>4, <2>5, <4>1
      <4>2. CASE u # s
        BY <2>11, <3>1, <4>2 DEF SurfaceInv, AsksReachable, Resolved
      <4> QED BY <4>1, <4>2
    <3>2. OnSheet' = OnSheet
      BY <1>1 DEF OnSheet
    <3> QED BY <1>1, <3>1, <3>2 DEF SurfaceInv, AsksReachable, Resolved
  <2> QED BY <2>6, <2>9, <2>10, <2>12, <2>13 DEF SurfaceInv
<1> QED BY <1>2, <1>3 DEF WriteTool

(* A request is settled: who waits for it is told, the sheet does not      *)
(* hold it any longer.                                                     *)
LEMMA AskGone ==
    ASSUME SurfaceInv, NEW r \in Asks, ask[r].phase # "queued", ask'[r].phase = "gone",
           \A q \in Asks \ {r} : ask'[q] = ask[q],
           \/ onScreen' = onScreen /\ onScreen # r /\ dismissing' = dismissing
           \/ onScreen = r /\ onScreen' = 0 /\ dismissing' = TRUE,
           UNCHANGED <<queue, session>>,
           \A s \in Ops : turn'[s].phase = "asking" =>
              turn[s].phase = "asking" /\ turn'[s].ask = turn[s].ask /\ turn'[s].gen = turn[s].gen
    PROVE  SheetAgrees' /\ AskOfTurn' /\ AsksReachable'
<1>1. SheetAgrees'
  <2>1. onScreen' # 0 => onScreen' = onScreen /\ onScreen \in Asks \ {r}
    BY SurfaceAssumption DEF SurfaceInv, SurfaceTypeOK, Asks
  <2>2. \A i \in DOMAIN queue : queue[i] \in Asks \ {r}
    BY DEF SurfaceInv, SurfaceTypeOK, SheetAgrees
  <2>3. \A q \in Asks : ask'[q].answer # "none" => ask'[q].phase = "gone"
    BY DEF SurfaceInv, SheetAgrees
  <2> QED BY <2>1, <2>2, <2>3 DEF SurfaceInv, SheetAgrees
<1>2. ASSUME NEW s \in Ops, turn'[s].phase = "asking"
      PROVE  /\ turn'[s].ask = turn[s].ask /\ turn'[s].gen = turn[s].gen
             /\ turn[s].phase = "asking" /\ turn[s].ask \in Asks
             /\ turn[s].ask = r \/ ask'[turn[s].ask] = ask[turn[s].ask]
  BY <1>2 DEF SurfaceInv, AskOfTurn
<1>3. AskOfTurn'
  <2> SUFFICES ASSUME NEW s \in Ops, turn'[s].phase = "asking"
               PROVE  /\ turn'[s].ask \in Asks /\ ask'[turn'[s].ask].phase # "unused"
                      /\ \/ ask'[turn'[s].ask].answer # "none"
                         \/ ask'[turn'[s].ask].phase = "gone"
                         \/ ask'[turn'[s].ask].gen = turn'[s].gen
    BY DEF AskOfTurn, Resolved
  <2> QED BY <1>2 DEF SurfaceInv, AskOfTurn, Resolved
<1>4. AsksReachable'
  <2>1. ASSUME NEW s \in Ops, turn'[s].phase = "asking"
        PROVE  \/ ask'[turn'[s].ask].answer # "none"
               \/ ask'[turn'[s].ask].phase \in {"gone", "posted"}
               \/ turn'[s].ask \in OnSheet' /\ s = session
    <3>1. CASE turn[s].ask = r
      BY <1>2, <2>1, <3>1
    <3>2. CASE turn[s].ask # r
      <4>1. \/ ask[turn[s].ask].answer # "none"
            \/ ask[turn[s].ask].phase \in {"gone", "posted"}
            \/ turn[s].ask \in OnSheet /\ s = session
        BY <1>2, <2>1 DEF SurfaceInv, AsksReachable, Resolved
      <4>2. turn[s].ask \in OnSheet => turn[s].ask \in OnSheet'
        BY <3>2 DEF OnSheet
      <4> QED BY <1>2, <2>1, <3>2, <4>1, <4>2
    <3> QED BY <3>1, <3>2
  <2>2. queue # <<>> => onScreen' # 0 \/ dismissing'
    BY DEF SurfaceInv, AsksReachable, Asks
  <2> QED BY <2>1, <2>2 DEF AsksReachable, Resolved
<1> QED BY <1>1, <1>3, <1>4

LEMMA AskAnsweredKeeps ==
    ASSUME SurfaceInv, NEW s \in Ops, AskAnswered(s) PROVE SurfaceInv'
<1> DEFINE r == turn[s].ask
<1>1. /\ UNCHANGED <<oper, activeOp, opSession, session, tgen, shownMode, onScreen, queue,
                     dismissing, modes>>
      /\ turn[s].phase = "asking" /\ r \in Asks /\ ask[r].phase = "gone"
      /\ turn \in [Ops -> TurnRec] /\ ask' = Dropped({r})
  BY Typed DEF AskAnswered, screenVars, consentVars, ownerVars, SurfaceInv, AskOfTurn, Resolved,
               SheetAgrees
<1>2. PICK allowed \in SUBSET Named :
        turn' = [turn EXCEPT ![s].phase = "running", ![s].ask = 0, ![s].allowed = allowed]
  <2> DEFINE next == IF ask[r].answer = "allowSession"
                     THEN turn[s].allowed \union {ask[r].tool} ELSE turn[s].allowed
  <2>1. turn' = [turn EXCEPT ![s].phase = "running", ![s].ask = 0, ![s].allowed = next]
    BY <1>1 DEF AskAnswered
  <2>2. turn[s].allowed \subseteq Named /\ ask[r].tool \in Named
    BY <1>1, Typed DEF SurfaceInv, TurnRec, AskRec
  <2>3. next \in SUBSET Named
    BY <2>2
  <2> QED BY <2>1, <2>3
<1>3. /\ turn' \in [Ops -> TurnRec] /\ turn'[s].phase = "running"
      /\ turn'[s].gen = turn[s].gen /\ \A u \in Ops \ {s} : turn'[u] = turn[u]
  <2>1. 0 \in 0..MaxAsks /\ allowed \in SUBSET Named /\ turn[s] \in TurnRec
    BY <1>1, <1>2, SurfaceAssumption
  <2> DEFINE new == [turn[s] EXCEPT !.phase = "running", !.ask = 0, !.allowed = allowed]
  <2>2. new \in TurnRec /\ new.phase = "running" /\ new.gen = turn[s].gen
    BY <2>1 DEF TurnRec
  <2>3. turn' = [turn EXCEPT ![s] = new]
    BY <1>1, <1>2
  <2> HIDE DEF new
  <2> QED BY <1>1, <2>2, <2>3
<1>4. unasked' \in BOOLEAN /\ yes' = yes
  BY DEF AskAnswered, Ran, consentVars, SurfaceInv, SurfaceTypeOK
<1>5. /\ ask' \in [Asks -> AskRec] /\ ask'[r].phase = "gone"
      /\ \A q \in Asks \ {r} : ask'[q] = ask[q]
  BY <1>1, DroppedAre DEF SurfaceInv
<1>6. SurfaceTypeOK'
  <2>1. UNCHANGED <<oper, activeOp, opSession, session, tgen, shownMode, onScreen, queue,
                    dismissing, modes>>
    BY <1>1
  <2>2. turn' \in [Ops -> TurnRec] /\ ask' \in [Asks -> AskRec]
    BY <1>3, <1>5
  <2> QED BY <1>4, <2>1, <2>2 DEF SurfaceInv, SurfaceTypeOK, TurnRec, AskRec
<1>7. \A u \in Ops : turn'[u].phase = "idle" <=> turn[u].phase = "idle"
  BY <1>1, <1>3
<1>8. \A u \in Ops : turn'[u].gen = turn[u].gen /\ (Works(u)' => Works(u))
  BY <1>1, <1>3 DEF Works
<1>9. Owned' /\ Generations'
  BY <1>1, <1>7, <1>8, OwnedStays, GenerationsStay DEF SurfaceInv
<1>10. \A u \in Ops : turn'[u].phase = "asking" => turn'[u] = turn[u]
  BY <1>3
<1>11. onScreen # r
  BY <1>1 DEF SurfaceInv, SheetAgrees, Asks
<1>12. SheetAgrees' /\ AskOfTurn' /\ AsksReachable'
  BY <1>1, <1>5, <1>10, <1>11, AskGone
<1> QED BY <1>6, <1>9, <1>12 DEF SurfaceInv

(***************************************************************************)
(* Approvals on screen.                                                    *)
(***************************************************************************)
(* What the steps on the sheet leave alone.                                *)
LEMMA SheetSteps ==
    ASSUME SurfaceInv, ask' \in [Asks -> AskRec], onScreen' \in 0..MaxAsks,
           queue' \in Seq(Asks), dismissing' \in BOOLEAN,
           yes' = yes \/ yes' \in SUBSET YesRec,
           UNCHANGED <<oper, activeOp, opSession, session, tgen, shownMode, turn, unasked,
                       modes>>
    PROVE  SurfaceTypeOK' /\ Owned' /\ Generations'
<1>1. SurfaceTypeOK'
  BY DEF SurfaceInv, SurfaceTypeOK, AskRec, YesRec
<1>2. Owned' /\ Generations'
  BY OwnedStays, GenerationsStay DEF SurfaceInv, Works
<1> QED BY <1>1, <1>2

(* A request of the transcript on screen is the live session's.            *)
LEMMA ReceiveApprovalKeeps == ASSUME SurfaceInv, NEW r \in Asks, ReceiveApproval(r) PROVE SurfaceInv'
<1>1. /\ UNCHANGED <<oper, activeOp, opSession, session, tgen, shownMode, turn, yes, unasked,
                     modes>>
      /\ ask[r].phase = "posted" /\ ask[r].answer = "none"
      /\ ask \in [Asks -> AskRec] /\ onScreen \in 0..MaxAsks /\ queue \in Seq(Asks)
      /\ dismissing \in BOOLEAN /\ r # 0 /\ r \in 0..MaxAsks /\ 0 \in 0..MaxAsks
  <2>1. /\ UNCHANGED <<oper, activeOp, opSession, session, tgen, shownMode, turn, yes,
                       unasked, modes>>
        /\ ask[r].phase = "posted"
    BY DEF ReceiveApproval, ownerVars, consentVars
  <2>2. /\ ask \in [Asks -> AskRec] /\ onScreen \in 0..MaxAsks /\ queue \in Seq(Asks)
        /\ dismissing \in BOOLEAN
    BY Typed DEF SurfaceInv, SurfaceTypeOK
  <2>3. ask[r].answer # "none" => ask[r].phase = "gone"
    BY DEF SurfaceInv, SheetAgrees
  <2>4. ask[r].answer = "none"
    BY <2>1, <2>3
  <2>5. r # 0 /\ r \in 0..MaxAsks /\ 0 \in 0..MaxAsks
    BY SurfaceAssumption DEF Asks
  <2> QED BY <2>1, <2>2, <2>4, <2>5
<1>2. onScreen # r /\ \A i \in DOMAIN queue : queue[i] # r
  BY <1>1 DEF SurfaceInv, SheetAgrees
<1>3. CASE Stale(r)
  <2>1. ask' = Dropped({r}) /\ UNCHANGED <<onScreen, queue, dismissing>>
    BY <1>3 DEF ReceiveApproval, screenVars, consentVars
  <2>2. /\ ask' \in [Asks -> AskRec] /\ ask'[r].phase = "gone"
        /\ \A q \in Asks \ {r} : ask'[q] = ask[q]
    BY <2>1, DroppedAre DEF SurfaceInv
  <2>3. SurfaceTypeOK' /\ Owned' /\ Generations'
    BY <1>1, <2>1, <2>2, SheetSteps
  <2>4. SheetAgrees' /\ AskOfTurn' /\ AsksReachable'
    BY <1>1, <1>2, <2>1, <2>2, AskGone
  <2> QED BY <2>3, <2>4 DEF SurfaceInv
<1>4. CASE ~Stale(r)
  <2>1. ask[r].gen = tgen
    BY <1>4 DEF Stale
  <2>2. PICK stage \in {"shown", "queued"} :
          /\ ask' = [ask EXCEPT ![r].phase = stage]
          /\ \/ /\ stage = "shown" /\ onScreen = 0 /\ onScreen' = r /\ queue' = queue
                /\ dismissing' \in BOOLEAN
             \/ /\ stage = "queued" /\ onScreen # 0 /\ queue' = Append(queue, r)
                /\ UNCHANGED <<onScreen, dismissing>>
    <3>1. CASE onScreen = 0
      BY <1>1, <1>4, <3>1 DEF ReceiveApproval
    <3>2. CASE onScreen # 0
      BY <1>4, <3>2 DEF ReceiveApproval
    <3> QED BY <3>1, <3>2
  <2>3. /\ ask' \in [Asks -> AskRec] /\ ask'[r].phase = stage /\ ask'[r].gen = ask[r].gen
        /\ ask'[r].answer = "none" /\ \A q \in Asks \ {r} : ask'[q] = ask[q]
    BY <1>1, <2>2 DEF AskRec
  <2>4. /\ onScreen' \in 0..MaxAsks /\ queue' \in Seq(Asks) /\ dismissing' \in BOOLEAN
        /\ onScreen' # 0
    <3>1. CASE stage = "shown"
      BY <1>1, <2>2, <3>1
    <3>2. CASE stage = "queued"
      <4>1. queue' = Append(queue, r) /\ UNCHANGED <<onScreen, dismissing>> /\ onScreen # 0
        BY <2>2, <3>2
      <4>2. queue' \in Seq(Asks)
        BY <1>1, <4>1
      <4> QED BY <1>1, <4>1, <4>2
    <3> QED BY <3>1, <3>2
  <2>5. SurfaceTypeOK' /\ Owned' /\ Generations'
    BY <1>1, <2>3, <2>4, SheetSteps
  <2>6. SheetAgrees'
    <3>1. ask'[onScreen'].phase = "shown"
      <4>1. CASE stage = "shown"
        BY <2>2, <2>3, <4>1
      <4>2. CASE stage = "queued"
        <5>1. onScreen' = onScreen /\ onScreen # 0 /\ onScreen \in Asks \ {r}
          BY <1>1, <1>2, <2>2, <4>2, SurfaceAssumption DEF Asks
        <5> QED BY <2>3, <5>1 DEF SurfaceInv, SheetAgrees
      <4> QED BY <4>1, <4>2
    <3>2. \A i \in DOMAIN queue : queue[i] \in Asks \ {r} /\ ask'[queue[i]].phase = "queued"
      <4>1. \A i \in DOMAIN queue : queue[i] \in Asks \ {r}
        BY <1>1, <1>2
      <4>2. \A i \in DOMAIN queue : ask'[queue[i]] = ask[queue[i]]
        BY <2>3, <4>1
      <4> QED BY <4>1, <4>2 DEF SurfaceInv, SheetAgrees
    <3>3. /\ \A i \in DOMAIN queue' : ask'[queue'[i]].phase = "queued"
          /\ \A i, j \in DOMAIN queue' : queue'[i] = queue'[j] => i = j
      <4>1. CASE stage = "shown"
        BY <2>2, <3>2, <4>1 DEF SurfaceInv, SheetAgrees
      <4>2. CASE stage = "queued"
        <5>1. queue' = Append(queue, r)
          BY <2>2, <4>2
        <5>2. /\ DOMAIN queue = 1..Len(queue) /\ Len(queue) \in Nat
              /\ DOMAIN queue' = 1..(Len(queue) + 1)
              /\ queue'[Len(queue) + 1] = r
              /\ \A i \in 1..Len(queue) : queue'[i] = queue[i]
          BY <1>1, <5>1
        <5>3. \A i \in DOMAIN queue' : i \in DOMAIN queue \/ i = Len(queue) + 1
          BY <5>2
        <5> QED BY <2>3, <3>2, <4>2, <5>2, <5>3 DEF SurfaceInv, SheetAgrees
      <4> QED BY <4>1, <4>2
    <3>4. \A q \in Asks : ask'[q].answer # "none" => ask'[q].phase = "gone"
      BY <2>3 DEF SurfaceInv, SheetAgrees
    <3> QED BY <3>1, <3>3, <3>4 DEF SheetAgrees
  <2>7. AskOfTurn'
    <3> SUFFICES ASSUME NEW s \in Ops, turn[s].phase = "asking"
                 PROVE  /\ turn[s].ask \in Asks /\ ask'[turn[s].ask].phase # "unused"
                        /\ \/ ask'[turn[s].ask].answer # "none"
                           \/ ask'[turn[s].ask].phase = "gone"
                           \/ ask'[turn[s].ask].gen = turn[s].gen
      BY <1>1 DEF AskOfTurn, Resolved
    <3>1. CASE turn[s].ask = r
      BY <1>1, <2>3, <3>1 DEF SurfaceInv, AskOfTurn, Resolved
    <3>2. CASE turn[s].ask # r
      BY <2>3, <3>2 DEF SurfaceInv, AskOfTurn, Resolved
    <3> QED BY <3>1, <3>2
  <2>8. AsksReachable'
    <3>1. OnSheet' = OnSheet \union {r}
      <4>1. CASE stage = "shown"
        BY <1>1, <2>2, <4>1 DEF OnSheet
      <4>2. CASE stage = "queued"
        <5>1. queue' = Append(queue, r) /\ onScreen' = onScreen
          BY <2>2, <4>2
        <5>2. ToSet(queue') = ToSet(queue) \union {r}
          BY <1>1, <5>1 DEF ToSet
        <5> QED BY <1>1, <5>1, <5>2 DEF OnSheet
      <4> QED BY <4>1, <4>2
    <3>2. ASSUME NEW s \in Ops, turn[s].phase = "asking"
          PROVE  \/ ask'[turn[s].ask].answer # "none"
                 \/ ask'[turn[s].ask].phase \in {"gone", "posted"}
                 \/ turn[s].ask \in OnSheet' /\ s = session
      <4>1. CASE turn[s].ask = r
        <5>1. turn[s].gen = tgen
          BY <1>1, <2>1, <3>2, <4>1 DEF SurfaceInv, AskOfTurn, Resolved
        <5>2. s = session
          BY <3>2, <5>1 DEF SurfaceInv, Generations, Works
        <5> QED BY <3>1, <4>1, <5>2
      <4>2. CASE turn[s].ask # r
        <5>1. turn[s].ask \in Asks
          BY <3>2 DEF SurfaceInv, AskOfTurn
        <5> QED BY <2>3, <3>1, <3>2, <4>2, <5>1 DEF SurfaceInv, AsksReachable, Resolved
      <4> QED BY <4>1, <4>2
    <3> QED BY <1>1, <2>4, <3>2 DEF AsksReachable, Resolved
  <2> QED BY <2>5, <2>6, <2>7, <2>8 DEF SurfaceInv
<1> QED BY <1>3, <1>4

(* The answer, and the responder used up: the turn hears it.               *)
LEMMA RespondKeeps ==
    ASSUME SurfaceInv, NEW d \in Decisions, Respond(d) PROVE SurfaceInv'
<1> DEFINE r == onScreen
           new == [NoAsk EXCEPT !.phase = "gone", !.answer = d, !.tool = ask[r].tool]
<1>1. /\ UNCHANGED <<oper, activeOp, opSession, session, tgen, shownMode, turn, unasked,
                     modes, queue>>
      /\ r \in Asks /\ ask \in [Asks -> AskRec] /\ queue \in Seq(Asks)
      /\ onScreen' = 0 /\ dismissing' = TRUE /\ 0 \in 0..MaxAsks
      /\ ask[r].phase = "shown"
  <2>1. /\ onScreen \in 0..MaxAsks /\ onScreen # 0 /\ queue \in Seq(Asks)
        /\ ask \in [Asks -> AskRec] /\ ask[onScreen].phase = "shown" /\ 0 \in 0..MaxAsks
    BY Typed, SurfaceAssumption DEF Respond, SurfaceInv, SheetAgrees
  <2> QED BY <2>1, SurfaceAssumption DEF Respond, ownerVars, Asks
<1>2. new \in AskRec /\ new.phase = "gone"
  <2>1. ask[r].tool \in Named
    BY <1>1 DEF AskRec
  <2>2. 0 \in 0..MaxOps
    BY SurfaceAssumption
  <2> QED BY <2>1, <2>2 DEF NoAsk, AskRec
<1>3. ask' = [ask EXCEPT ![r] = new]
  BY DEF Respond
<1> HIDE DEF new
<1>7. yes' = yes \/ yes' \in SUBSET YesRec
  <2>1. ask[r].of \in 0..MaxOps /\ ask[r].tool \in Named /\ yes \subseteq YesRec
    BY <1>1 DEF AskRec, YesRec, SurfaceInv, SurfaceTypeOK
  <2> DEFINE agreed == [of |-> ask[r].of, ask |-> r, tool |-> ask[r].tool,
                        all |-> d = "allowSession"]
  <2>2. agreed \in YesRec
    BY <1>1, <2>1 DEF YesRec
  <2>3. yes' = yes \/ yes' = yes \union {agreed}
    BY DEF Respond
  <2> QED BY <2>1, <2>2, <2>3
<1>4. /\ ask' \in [Asks -> AskRec] /\ ask'[r].phase = "gone"
      /\ \A q \in Asks \ {r} : ask'[q] = ask[q]
  BY <1>1, <1>2, <1>3
<1>5. SurfaceTypeOK' /\ Owned' /\ Generations'
  BY <1>1, <1>4, <1>7, SheetSteps
<1>6. SheetAgrees' /\ AskOfTurn' /\ AsksReachable'
  BY <1>1, <1>4, AskGone
<1> QED BY <1>5, <1>6 DEF SurfaceInv

LEMMA SwipeAwayKeeps == ASSUME SurfaceInv, SwipeAway PROVE SurfaceInv'
<1> DEFINE r == onScreen
<1>1. /\ UNCHANGED <<oper, activeOp, opSession, session, tgen, shownMode, turn, yes, unasked,
                     modes, queue>>
      /\ r \in Asks /\ ask' = Dropped({r}) /\ queue \in Seq(Asks)
      /\ onScreen' = 0 /\ dismissing' = TRUE /\ 0 \in 0..MaxAsks
      /\ ask[r].phase = "shown"
  BY Typed, SurfaceAssumption
     DEF SwipeAway, ownerVars, consentVars, SurfaceInv, SurfaceTypeOK, SheetAgrees, Asks
<1>2. /\ ask' \in [Asks -> AskRec] /\ ask'[r].phase = "gone"
      /\ \A q \in Asks \ {r} : ask'[q] = ask[q]
  BY <1>1, DroppedAre DEF SurfaceInv
<1>3. SurfaceTypeOK' /\ Owned' /\ Generations'
  BY <1>1, <1>2, SheetSteps
<1>4. SheetAgrees' /\ AskOfTurn' /\ AsksReachable'
  BY <1>1, <1>2, AskGone
<1> QED BY <1>3, <1>4 DEF SurfaceInv

(* The next of the queue takes the screen.                                 *)
LEMMA DismissedKeeps == ASSUME SurfaceInv, ApprovalDismissed PROVE SurfaceInv'
<1>1. /\ UNCHANGED <<oper, activeOp, opSession, session, tgen, shownMode, turn, yes, unasked,
                     modes>>
      /\ dismissing' = FALSE
      /\ ask \in [Asks -> AskRec] /\ onScreen \in 0..MaxAsks /\ queue \in Seq(Asks)
  BY Typed DEF ApprovalDismissed, ownerVars, consentVars, SurfaceInv
<1>2. CASE onScreen = 0 /\ queue # <<>>
  <2> DEFINE r == Head(queue)
             rest == Tail(queue)
  <2>1. /\ onScreen' = r /\ queue' = rest /\ ask' = [ask EXCEPT ![r].phase = "shown"]
    BY <1>2 DEF ApprovalDismissed
  <2>2. /\ Len(queue) \in Nat \ {0} /\ DOMAIN queue = 1..Len(queue) /\ r = queue[1]
        /\ rest \in Seq(Asks) /\ Len(rest) = Len(queue) - 1
        /\ DOMAIN rest = 1..Len(rest) /\ r \in Asks
        /\ \A i \in 1..Len(rest) : rest[i] = queue[i + 1]
    BY <1>1, <1>2
  <2> HIDE DEF rest, r
  <2>3. \A i \in DOMAIN rest : i + 1 \in DOMAIN queue /\ i + 1 # 1 /\ 1 \in DOMAIN queue
    BY <2>2
  <2>4. \A i \in DOMAIN rest : rest[i] \in Asks \ {r}
    <3> SUFFICES ASSUME NEW i \in DOMAIN rest PROVE rest[i] \in Asks \ {r}
      OBVIOUS
    <3>1. rest[i] = queue[i + 1] /\ i + 1 \in DOMAIN queue /\ i + 1 # 1 /\ 1 \in DOMAIN queue
      BY <2>2, <2>3
    <3>2. queue[i + 1] # queue[1]
      BY <3>1 DEF SurfaceInv, SheetAgrees
    <3> QED BY <1>1, <2>2, <3>1, <3>2
  <2>5. /\ ask' \in [Asks -> AskRec] /\ ask'[r].phase = "shown"
        /\ ask'[r].gen = ask[r].gen /\ ask'[r].answer = ask[r].answer
        /\ \A q \in Asks \ {r} : ask'[q] = ask[q]
    BY <1>1, <2>1, <2>2 DEF AskRec
  <2>6. r \in 0..MaxAsks /\ r # 0
    BY <2>2, SurfaceAssumption DEF Asks
  <2>7. SurfaceTypeOK' /\ Owned' /\ Generations'
    <3>1. onScreen' \in 0..MaxAsks /\ queue' \in Seq(Asks) /\ dismissing' \in BOOLEAN
      BY <1>1, <2>1, <2>2, <2>6
    <3> QED BY <1>1, <2>5, <3>1, SheetSteps
  <2>8. ask[r].phase = "queued" /\ ask[r].answer = "none"
    <3>1. 1 \in DOMAIN queue
      BY <2>2
    <3>2. ask[r].phase = "queued"
      BY <2>2, <3>1 DEF SurfaceInv, SheetAgrees
    <3> QED BY <2>2, <3>2 DEF SurfaceInv, SheetAgrees
  <2>9. SheetAgrees'
    <3>1. \A i \in DOMAIN rest : ask'[rest[i]].phase = "queued"
      <4> SUFFICES ASSUME NEW i \in DOMAIN rest PROVE ask'[rest[i]].phase = "queued"
        OBVIOUS
      <4>1. rest[i] = queue[i + 1] /\ i + 1 \in DOMAIN queue
        BY <2>2, <2>3
      <4>2. ask[rest[i]].phase = "queued"
        BY <4>1 DEF SurfaceInv, SheetAgrees
      <4> QED BY <2>4, <2>5, <4>2
    <3>2. \A i, j \in DOMAIN rest : rest[i] = rest[j] => i = j
      <4> SUFFICES ASSUME NEW i \in DOMAIN rest, NEW j \in DOMAIN rest, rest[i] = rest[j]
                   PROVE  i = j
        OBVIOUS
      <4>1. /\ rest[i] = queue[i + 1] /\ i + 1 \in DOMAIN queue
            /\ rest[j] = queue[j + 1] /\ j + 1 \in DOMAIN queue
        BY <2>2, <2>3
      <4>2. i + 1 = j + 1
        BY <4>1 DEF SurfaceInv, SheetAgrees
      <4>3. i \in Nat /\ j \in Nat
        BY <2>2
      <4> QED BY <4>2, <4>3
    <3>3. \A q \in Asks : ask'[q].answer # "none" => ask'[q].phase = "gone"
      BY <2>5, <2>8 DEF SurfaceInv, SheetAgrees
    <3> QED BY <2>1, <2>5, <3>1, <3>2, <3>3 DEF SheetAgrees
  <2>10. ASSUME NEW s \in Ops, turn[s].phase = "asking"
         PROVE  /\ turn[s].ask \in Asks /\ ask[turn[s].ask].phase # "unused"
                /\ ask'[turn[s].ask].gen = ask[turn[s].ask].gen
                /\ ask'[turn[s].ask].answer = ask[turn[s].ask].answer
                /\ turn[s].ask = r \/ ask'[turn[s].ask].phase = ask[turn[s].ask].phase
    <3>1. turn[s].ask \in Asks /\ ask[turn[s].ask].phase # "unused"
      BY <2>10 DEF SurfaceInv, AskOfTurn
    <3>2. CASE turn[s].ask = r
      BY <2>5, <3>1, <3>2
    <3>3. CASE turn[s].ask # r
      BY <2>5, <3>1, <3>3
    <3> QED BY <3>2, <3>3
  <2>11. AskOfTurn'
    <3> SUFFICES ASSUME NEW s \in Ops, turn[s].phase = "asking"
                 PROVE  /\ turn[s].ask \in Asks /\ ask'[turn[s].ask].phase # "unused"
                        /\ \/ ask'[turn[s].ask].answer # "none"
                           \/ ask'[turn[s].ask].phase = "gone"
                           \/ ask'[turn[s].ask].gen = turn[s].gen
      BY <1>1 DEF AskOfTurn, Resolved
    <3>1. \/ ask[turn[s].ask].answer # "none"
          \/ ask[turn[s].ask].phase = "gone"
          \/ ask[turn[s].ask].gen = turn[s].gen
      BY DEF SurfaceInv, AskOfTurn, Resolved
    <3>2. CASE turn[s].ask = r
      BY <2>5, <2>8, <2>10, <3>1, <3>2
    <3>3. CASE turn[s].ask # r
      BY <2>10, <3>1, <3>3
    <3> QED BY <3>2, <3>3
  <2>12. OnSheet' = OnSheet
    <3>1. ToSet(queue) = ToSet(rest) \union {r}
      <4>1. \A q \in ToSet(queue) : q = r \/ q \in ToSet(rest)
        <5> SUFFICES ASSUME NEW q \in ToSet(queue), q # r PROVE q \in ToSet(rest)
          OBVIOUS
        <5>1. PICK i \in DOMAIN queue : q = queue[i]
          BY DEF ToSet
        <5>2. i \in 2..Len(queue) /\ i - 1 \in 1..Len(rest) /\ (i - 1) + 1 = i
          BY <2>2, <5>1
        <5>3. rest[i - 1] = q /\ i - 1 \in DOMAIN rest
          BY <2>2, <5>1, <5>2
        <5> QED BY <5>3 DEF ToSet
      <4>2. r \in ToSet(queue)
        <5>1. 1 \in DOMAIN queue
          BY <2>2
        <5> QED BY <2>2, <5>1 DEF ToSet
      <4>3. \A q \in ToSet(rest) : q \in ToSet(queue)
        <5> SUFFICES ASSUME NEW i \in DOMAIN rest PROVE rest[i] \in ToSet(queue)
          BY DEF ToSet
        <5> QED BY <2>2, <2>3 DEF ToSet
      <4> QED BY <4>1, <4>2, <4>3
    <3>2. OnSheet = ToSet(queue) \ {0}
      BY <1>2 DEF OnSheet
    <3>3. OnSheet' = ({r} \union ToSet(rest)) \ {0}
      BY <2>1 DEF OnSheet
    <3> QED BY <3>1, <3>2, <3>3
  <2>13. AsksReachable'
    <3>1. ASSUME NEW s \in Ops, turn[s].phase = "asking"
          PROVE  \/ ask'[turn[s].ask].answer # "none"
                 \/ ask'[turn[s].ask].phase \in {"gone", "posted"}
                 \/ turn[s].ask \in OnSheet /\ s = session
      <4>1. \/ ask[turn[s].ask].answer # "none"
            \/ ask[turn[s].ask].phase \in {"gone", "posted"}
            \/ turn[s].ask \in OnSheet /\ s = session
        BY <3>1 DEF SurfaceInv, AsksReachable, Resolved
      <4>2. CASE turn[s].ask = r
        BY <2>8, <4>1, <4>2
      <4>3. CASE turn[s].ask # r
        BY <2>10, <3>1, <4>1, <4>3
      <4> QED BY <4>2, <4>3
    <3> QED BY <1>1, <2>1, <2>6, <2>12, <3>1 DEF AsksReachable, Resolved
  <2> QED BY <2>7, <2>9, <2>11, <2>13 DEF SurfaceInv
<1>3. CASE ~(onScreen = 0 /\ queue # <<>>)
  <2>1. UNCHANGED <<onScreen, queue, ask>>
    BY <1>3 DEF ApprovalDismissed
  <2>2. SurfaceTypeOK' /\ Owned' /\ Generations'
    BY <1>1, <2>1, SheetSteps
  <2>3. SheetAgrees' /\ AskOfTurn'
    BY <1>1, <2>1 DEF SurfaceInv, SheetAgrees, AskOfTurn, Resolved
  <2>4. AsksReachable'
    BY <1>1, <1>3, <2>1 DEF SurfaceInv, AsksReachable, Resolved, OnSheet
  <2> QED BY <2>2, <2>3, <2>4 DEF SurfaceInv
<1> QED BY <1>2, <1>3

(***************************************************************************)
(* Every step.                                                             *)
(***************************************************************************)
LEMMA SurfaceStutter == ASSUME SurfaceInv, UNCHANGED surfaceVars PROVE SurfaceInv'
BY DEF surfaceVars, SurfaceInv, SurfaceTypeOK, Owned, Made, Generations, Works, SheetAgrees,
       AskOfTurn, AsksReachable, Resolved, OnSheet

LEMMA SurfaceStep == SurfaceInv /\ [SurfaceNext]_surfaceVars => SurfaceInv'
<1> SUFFICES ASSUME SurfaceInv, [SurfaceNext]_surfaceVars PROVE SurfaceInv'
  OBVIOUS
<1>1. CASE UNCHANGED surfaceVars
  BY <1>1, SurfaceStutter
<1>2. CASE Stop \/ Reset \/ SwipeAway \/ ApprovalDismissed
  BY <1>2, StopKeeps, ResetKeeps, SwipeAwayKeeps, DismissedKeeps
<1>3. CASE \E m \in Modes : SetMode(m)
  BY <1>3, SetModeKeeps
<1>4. CASE \E d \in Decisions : Respond(d)
  BY <1>4, RespondKeeps
<1>5. CASE \E r \in Asks : ReceiveApproval(r)
  BY <1>5, ReceiveApprovalKeeps
<1>6. ASSUME NEW o \in Ops, \E reuse \in BOOLEAN : Send(o, reuse) PROVE SurfaceInv'
  BY <1>6, SendKeeps
<1>7. ASSUME NEW o \in Ops,
             \/ BeginResume(o) \/ Started(o) \/ Resumed(o) \/ Loaded(o) \/ StartFails(o)
      PROVE  SurfaceInv'
  BY <1>7, BeginResumeKeeps, StartedKeeps, ResumedKeeps, LoadedKeeps, StartFailsKeeps
<1>8. ASSUME NEW o \in Ops,
             ClaimTurn(o) \/ AskAnswered(o) \/ TurnEnds(o) \/ Returns(o)
      PROVE  SurfaceInv'
  BY <1>8, ClaimTurnKeeps, AskAnsweredKeeps, TurnEndsKeeps, ReturnsKeeps
<1>9. ASSUME NEW o \in Ops, NEW t \in Tools, WriteTool(o, t) PROVE SurfaceInv'
  BY <1>9, WriteToolKeeps
<1> QED BY <1>1, <1>2, <1>3, <1>4, <1>5, <1>6, <1>7, <1>8, <1>9 DEF SurfaceNext

(***************************************************************************)
(* The theorems.                                                           *)
(***************************************************************************)
(* The inductive invariant: who drives which turn, whose the transcript on *)
(* screen is, and where the requests are, at every moment of the chat.     *)
THEOREM SurfaceInvariant == SurfaceSpec => []SurfaceInv
BY InitSurface, SurfaceStep, PTL DEF SurfaceSpec

(* The chat's variables keep their types: an operation, a turn and a       *)
(* request are only ever in a stage the code has.                          *)
THEOREM SurfaceTypeCorrect == SurfaceSpec => []SurfaceTypeOK
<1>1. SurfaceInv => SurfaceTypeOK
  BY DEF SurfaceInv
<1> QED BY <1>1, SurfaceInvariant, PTL

(* No turn waits for an answer nobody can give (receiveApproval and        *)
(* clearSessionState of ChatModel, authorize_write of chat.rs), and no     *)
(* session that was left asks the user of the next one.                    *)
THEOREM TurnsAreHeard == SurfaceSpec => []AsksReachable
<1>1. SurfaceInv => AsksReachable
  BY DEF SurfaceInv
<1> QED BY <1>1, SurfaceInvariant, PTL

-----------------------------------------------------------------------------
(* The chat's writes                                                        *)

Agrees == {"allow", "allowSession"}
(* The user's word for all that was let through, and for what is about to  *)
(* be; a request that is not settled is the waiting session's.             *)
AllowedByWord ==
    \A s \in Ops : \A t \in turn[s].allowed : \E y \in yes : y.of = s /\ y.tool = t /\ y.all
AnsweredByWord ==
    \A s \in Ops : turn[s].phase = "asking" /\ ask[turn[s].ask].answer \in Agrees =>
       \E y \in yes : /\ y.of = s /\ y.ask = turn[s].ask
                      /\ y.tool = ask[turn[s].ask].tool
                      /\ ask[turn[s].ask].answer = "allowSession" => y.all
AskedOfItself ==
    \A s \in Ops : turn[s].phase = "asking" =>
       ask[turn[s].ask].phase = "gone" \/ ask[turn[s].ask].of = s
ConsentInv == WritesAllowed /\ AllowedByWord /\ AnsweredByWord /\ AskedOfItself

(* Requests that move on, or are dropped, while no turn gains anything.    *)
LEMMA ConsentStays ==
    ASSUME SurfaceInv, ConsentInv, UNCHANGED consentVars,
           \A s \in Ops : /\ turn'[s].allowed \subseteq turn[s].allowed
                          /\ turn'[s].phase = "asking" =>
                                turn[s].phase = "asking" /\ turn'[s].ask = turn[s].ask,
           \A r \in Asks :
              \/ ask'[r] = ask[r]
              \/ ask'[r].phase = "gone" /\ ask'[r].answer = "none"
              \/ ask'[r].of = ask[r].of /\ ask'[r].answer = "none" /\ ask[r].phase # "gone"
    PROVE  ConsentInv'
<1>1. WritesAllowed' /\ yes' = yes
  BY DEF consentVars, ConsentInv, WritesAllowed
<1>2. AllowedByWord'
  BY <1>1 DEF ConsentInv, AllowedByWord
<1>3. \A s \in Ops : turn'[s].phase = "asking" => turn[s].ask \in Asks
  BY DEF SurfaceInv, AskOfTurn
<1>4. AnsweredByWord'
  <2> SUFFICES ASSUME NEW s \in Ops, turn'[s].phase = "asking",
                      ask'[turn'[s].ask].answer \in Agrees
               PROVE  \E y \in yes : /\ y.of = s /\ y.ask = turn'[s].ask
                                     /\ y.tool = ask'[turn'[s].ask].tool
                                     /\ ask'[turn'[s].ask].answer = "allowSession" => y.all
    BY <1>1 DEF AnsweredByWord
  <2>1. turn[s].phase = "asking" /\ turn'[s].ask = turn[s].ask /\ turn[s].ask \in Asks
    BY <1>3
  <2>2. ask'[turn[s].ask] = ask[turn[s].ask]
    BY <2>1 DEF Agrees
  <2> QED BY <2>1, <2>2 DEF ConsentInv, AnsweredByWord
<1>5. AskedOfItself'
  BY <1>3 DEF ConsentInv, AskedOfItself
<1> QED BY <1>1, <1>2, <1>4, <1>5 DEF ConsentInv

LEMMA DroppedOrKept ==
    ASSUME SurfaceInv, NEW rs \in SUBSET Asks, ask' = Dropped(rs)
    PROVE  \A r \in Asks : \/ ask'[r] = ask[r]
                           \/ ask'[r].phase = "gone" /\ ask'[r].answer = "none"
BY DroppedAre DEF SurfaceInv

(* A turn's own steps, and the ones of its operation, keep what it is      *)
(* allowed and ask nothing new.                                            *)
LEMMA TurnsGainNothing ==
    ASSUME SurfaceInv,
           \/ UNCHANGED turn
           \/ \E s \in 0..MaxOps : turn' = Cancelled(s)
           \/ \E o \in Ops, s \in 0..MaxOps : turn' = [Cancelled(s) EXCEPT ![o] = NewTurn(o)]
           \/ \E o \in Ops : turn' = [turn EXCEPT ![o] = NewTurn(o)]
           \/ \E s \in Ops, m \in Modes : turn' = [turn EXCEPT ![s].mode = m]
           \/ \E s \in Ops, g \in Nat : turn' = [turn EXCEPT ![s].phase = "running",
                                              ![s].gen = g, ![s].cancelled = FALSE]
           \/ \E o \in Ops : turn' = [turn EXCEPT ![o].phase = "returning", ![o].ask = 0]
           \/ \E s \in Ops : turn' = [turn EXCEPT ![s].phase = "idle"]
    PROVE  \A s \in Ops : /\ turn'[s].allowed \subseteq turn[s].allowed
                          /\ turn'[s].phase = "asking" =>
                                turn[s].phase = "asking" /\ turn'[s].ask = turn[s].ask
<1>1. turn \in [Ops -> TurnRec]
  BY Typed DEF SurfaceInv
<1>2. \A o \in Ops : /\ NewTurn(o) \in TurnRec /\ NewTurn(o).phase = "idle"
                     /\ NewTurn(o).allowed = {}
  <2>1. \A o \in Ops : NewTurn(o) \in TurnRec /\ NewTurn(o).phase = "idle"
    BY NewTurnTyped DEF SurfaceInv
  <2>2. \A o \in Ops : NewTurn(o).allowed = {}
    BY DEF NewTurn, NoTurn
  <2> QED BY <2>1, <2>2
<1>3. \A s \in 0..MaxOps : /\ Cancelled(s) \in [Ops -> TurnRec]
                           /\ \A u \in Ops : /\ Cancelled(s)[u].phase = turn[u].phase
                                             /\ Cancelled(s)[u].ask = turn[u].ask
                                             /\ Cancelled(s)[u].allowed = turn[u].allowed
  BY CancelledTurns DEF SurfaceInv
<1>11. ASSUME NEW s \in Ops, NEW new, turn' = [turn EXCEPT ![s] = new],
              new.allowed \subseteq turn[s].allowed, new.phase # "asking"
       PROVE  \A u \in Ops : /\ turn'[u].allowed \subseteq turn[u].allowed
                             /\ turn'[u].phase = "asking" =>
                                   turn[u].phase = "asking" /\ turn'[u].ask = turn[u].ask
  <2>1. turn'[s] = new /\ \A u \in Ops \ {s} : turn'[u] = turn[u]
    BY <1>1, <1>11
  <2> SUFFICES ASSUME NEW u \in Ops
               PROVE  /\ turn'[u].allowed \subseteq turn[u].allowed
                      /\ turn'[u].phase = "asking" =>
                            turn[u].phase = "asking" /\ turn'[u].ask = turn[u].ask
    OBVIOUS
  <2>2. CASE u = s
    BY <1>11, <2>1, <2>2
  <2>3. CASE u # s
    BY <2>1, <2>3
  <2> QED BY <2>2, <2>3
<1>4. CASE \E s \in 0..MaxOps : turn' = Cancelled(s)
  <2>1. PICK s \in 0..MaxOps : turn' = Cancelled(s)
    BY <1>4
  <2>2. \A u \in Ops : /\ turn'[u].phase = turn[u].phase /\ turn'[u].ask = turn[u].ask
                       /\ turn'[u].allowed = turn[u].allowed
    BY <1>3, <2>1
  <2> QED BY <2>2
<1>5. CASE \E o \in Ops, s \in 0..MaxOps : turn' = [Cancelled(s) EXCEPT ![o] = NewTurn(o)]
  <2>1. PICK o \in Ops, s \in 0..MaxOps : turn' = [Cancelled(s) EXCEPT ![o] = NewTurn(o)]
    BY <1>5
  <2>2. turn'[o] = NewTurn(o) /\ \A u \in Ops \ {o} : turn'[u] = Cancelled(s)[u]
    BY <1>3, <2>1
  <2>3. \A u \in Ops : \/ turn'[u].phase = "idle" /\ turn'[u].allowed = {}
                       \/ /\ turn'[u].phase = turn[u].phase /\ turn'[u].ask = turn[u].ask
                          /\ turn'[u].allowed = turn[u].allowed
    <3>1. turn'[o].phase = "idle" /\ turn'[o].allowed = {}
      BY <1>2, <2>2
    <3>2. \A u \in Ops \ {o} : /\ turn'[u].phase = turn[u].phase
                              /\ turn'[u].ask = turn[u].ask
                              /\ turn'[u].allowed = turn[u].allowed
      <4> SUFFICES ASSUME NEW u \in Ops \ {o}
                   PROVE  /\ turn'[u].phase = turn[u].phase /\ turn'[u].ask = turn[u].ask
                          /\ turn'[u].allowed = turn[u].allowed
        OBVIOUS
      <4>1. turn'[u] = Cancelled(s)[u]
        BY <2>2
      <4>2. /\ Cancelled(s)[u].phase = turn[u].phase /\ Cancelled(s)[u].ask = turn[u].ask
            /\ Cancelled(s)[u].allowed = turn[u].allowed
        BY <1>3
      <4> QED BY <4>1, <4>2
    <3> QED BY <3>1, <3>2
  <2> QED BY <2>3
<1>6. CASE \E o \in Ops : turn' = [turn EXCEPT ![o] = NewTurn(o)]
  <2>1. PICK o \in Ops : turn' = [turn EXCEPT ![o] = NewTurn(o)]
    BY <1>6
  <2> QED BY <1>2, <1>11, <2>1
<1>7. CASE \E s \in Ops, m \in Modes : turn' = [turn EXCEPT ![s].mode = m]
  <2>1. PICK s \in Ops, m \in Modes : turn' = [turn EXCEPT ![s].mode = m]
    BY <1>7
  <2>2. turn'[s] = [turn[s] EXCEPT !.mode = m] /\ turn[s] \in TurnRec
    BY <1>1, <2>1
  <2>3. /\ turn'[s].phase = turn[s].phase /\ turn'[s].ask = turn[s].ask
        /\ turn'[s].allowed = turn[s].allowed
    BY <2>2 DEF TurnRec
  <2>4. \A u \in Ops \ {s} : turn'[u] = turn[u]
    BY <1>1, <2>1
  <2>5. \A u \in Ops : /\ turn'[u].phase = turn[u].phase /\ turn'[u].ask = turn[u].ask
                       /\ turn'[u].allowed = turn[u].allowed
    BY <2>3, <2>4
  <2> QED BY <2>5
<1>8. CASE \E s \in Ops, g \in Nat : turn' = [turn EXCEPT ![s].phase = "running",
                                             ![s].gen = g, ![s].cancelled = FALSE]
  <2>1. PICK s \in Ops, g \in Nat : turn' = [turn EXCEPT ![s].phase = "running",
                                             ![s].gen = g, ![s].cancelled = FALSE]
    BY <1>8
  <2> DEFINE new == [turn[s] EXCEPT !.phase = "running", !.gen = g, !.cancelled = FALSE]
  <2>2. turn' = [turn EXCEPT ![s] = new] /\ turn[s] \in TurnRec
    BY <1>1, <2>1
  <2>3. new.allowed = turn[s].allowed /\ new.phase = "running"
    BY <2>2 DEF TurnRec
  <2> HIDE DEF new
  <2> QED BY <1>11, <2>2, <2>3
<1>9. CASE \E o \in Ops : turn' = [turn EXCEPT ![o].phase = "returning", ![o].ask = 0]
  <2>1. PICK o \in Ops : turn' = [turn EXCEPT ![o].phase = "returning", ![o].ask = 0]
    BY <1>9
  <2> DEFINE new == [turn[o] EXCEPT !.phase = "returning", !.ask = 0]
  <2>2. turn' = [turn EXCEPT ![o] = new] /\ turn[o] \in TurnRec
    BY <1>1, <2>1
  <2>3. new.allowed = turn[o].allowed /\ new.phase = "returning"
    BY <2>2 DEF TurnRec
  <2> HIDE DEF new
  <2> QED BY <1>11, <2>2, <2>3
<1>10. CASE \E s \in Ops : turn' = [turn EXCEPT ![s].phase = "idle"]
  <2>1. PICK s \in Ops : turn' = [turn EXCEPT ![s].phase = "idle"]
    BY <1>10
  <2> DEFINE new == [turn[s] EXCEPT !.phase = "idle"]
  <2>2. turn' = [turn EXCEPT ![s] = new] /\ turn[s] \in TurnRec
    BY <1>1, <2>1
  <2>3. new.allowed = turn[s].allowed /\ new.phase = "idle"
    BY <2>2 DEF TurnRec
  <2> HIDE DEF new
  <2> QED BY <1>11, <2>2, <2>3
<1> QED BY <1>4, <1>5, <1>6, <1>7, <1>8, <1>9, <1>10

(* A write that runs has the user's word; one that is asked for is asked   *)
(* in its session's name.                                                  *)
LEMMA WriteToolConsents ==
    ASSUME SurfaceInv, ConsentInv, NEW s \in Ops, NEW t \in Tools, WriteTool(s, t)
    PROVE  ConsentInv'
<1>1. turn \in [Ops -> TurnRec] /\ ask \in [Asks -> AskRec] /\ yes' = yes
  BY Typed DEF WriteTool, Ran, consentVars, SurfaceInv
<1>2. CASE /\ turn[s].mode = "acceptEdits" \/ (turn[s].mode = "default" /\ t \in turn[s].allowed)
           /\ Ran(Standing(s, t)) /\ UNCHANGED <<turn, ask>>
  <2>1. Standing(s, t)
    BY <1>2 DEF Standing, ConsentInv, AllowedByWord
  <2>2. ~unasked'
    BY <1>2, <2>1 DEF Ran, ConsentInv, WritesAllowed
  <2> QED BY <1>1, <1>2, <2>2
        DEF ConsentInv, WritesAllowed, AllowedByWord, AnsweredByWord, AskedOfItself
<1>3. ASSUME NEW r \in Asks, ask[r].phase = "unused",
             ask' = [ask EXCEPT ![r] = [NoAsk EXCEPT
                        !.phase = "posted", !.of = s, !.gen = turn[s].gen, !.tool = t]],
             turn' = [turn EXCEPT ![s].phase = "asking", ![s].ask = r],
             UNCHANGED consentVars
      PROVE  ConsentInv'
  <2> DEFINE posted == [NoAsk EXCEPT !.phase = "posted", !.of = s, !.gen = turn[s].gen,
                                     !.tool = t]
  <2>1. posted.of = s /\ posted.answer = "none"
    BY DEF NoAsk
  <2>2. ask' = [ask EXCEPT ![r] = posted]
    BY <1>3
  <2> HIDE DEF posted
  <2>3. ask'[r] = posted /\ \A q \in Asks \ {r} : ask'[q] = ask[q]
    BY <1>1, <2>2
  <2>4. /\ turn'[s].ask = r /\ turn'[s].allowed = turn[s].allowed
        /\ \A u \in Ops \ {s} : turn'[u] = turn[u]
    BY <1>1, <1>3 DEF TurnRec
  <2>5. WritesAllowed' /\ AllowedByWord'
    BY <1>1, <1>3, <2>4 DEF consentVars, ConsentInv, WritesAllowed, AllowedByWord
  <2>6. \A u \in Ops \ {s} : turn[u].phase = "asking" =>
          turn[u].ask \in Asks \ {r} /\ ask'[turn[u].ask] = ask[turn[u].ask]
    BY <1>3, <2>3 DEF SurfaceInv, AskOfTurn
  <2>7. AnsweredByWord'
    <3> SUFFICES ASSUME NEW u \in Ops, turn'[u].phase = "asking",
                        ask'[turn'[u].ask].answer \in Agrees
                 PROVE  \E y \in yes : /\ y.of = u /\ y.ask = turn'[u].ask
                                       /\ y.tool = ask'[turn'[u].ask].tool
                                       /\ ask'[turn'[u].ask].answer = "allowSession" => y.all
      BY <1>1 DEF AnsweredByWord
    <3>1. u # s
      BY <2>1, <2>3, <2>4 DEF Agrees
    <3>2. turn'[u] = turn[u] /\ ask'[turn[u].ask] = ask[turn[u].ask]
      BY <2>4, <2>6, <3>1
    <3> QED BY <3>1, <3>2 DEF ConsentInv, AnsweredByWord
  <2>8. AskedOfItself'
    BY <2>1, <2>3, <2>4, <2>6 DEF ConsentInv, AskedOfItself
  <2> QED BY <2>5, <2>7, <2>8 DEF ConsentInv
<1> QED BY <1>2, <1>3 DEF WriteTool

(* The answer that lets a write run was given to this very request.        *)
LEMMA AskAnsweredConsents ==
    ASSUME SurfaceInv, ConsentInv, NEW s \in Ops, AskAnswered(s)
    PROVE  ConsentInv'
<1> DEFINE r == turn[s].ask
<1>1. /\ r \in Asks /\ turn[s].phase = "asking" /\ turn \in [Ops -> TurnRec] /\ yes' = yes
      /\ ask' = Dropped({r})
  BY Typed DEF AskAnswered, Ran, consentVars, SurfaceInv, AskOfTurn
<1>2. /\ ask'[r].phase = "gone" /\ ask'[r].answer = "none"
      /\ \A q \in Asks \ {r} : ask'[q] = ask[q]
  BY <1>1, DroppedAre DEF SurfaceInv
<1>3. ask[r].answer \in Agrees =>
        \E y \in yes : /\ y.of = s /\ y.ask = r /\ y.tool = ask[r].tool
                       /\ ask[r].answer = "allowSession" => y.all
  BY <1>1 DEF ConsentInv, AnsweredByWord
<1>4. WritesAllowed'
  <2>1. CASE ask[r].answer \in Agrees
    <3>1. Ran(\E y \in yes : y.of = s /\ y.ask = r /\ y.tool = ask[r].tool)
      BY <2>1 DEF AskAnswered, Agrees
    <3>2. \E y \in yes : y.of = s /\ y.ask = r /\ y.tool = ask[r].tool
      BY <1>3, <2>1
    <3> QED BY <3>1, <3>2 DEF Ran, ConsentInv, WritesAllowed
  <2>2. CASE ask[r].answer \notin Agrees
    BY <2>2 DEF AskAnswered, Agrees, consentVars, ConsentInv, WritesAllowed
  <2> QED BY <2>1, <2>2
<1>5. /\ turn'[s].phase = "running"
      /\ \A u \in Ops \ {s} : turn'[u] = turn[u]
      /\ turn'[s].allowed = IF ask[r].answer = "allowSession"
                            THEN turn[s].allowed \union {ask[r].tool} ELSE turn[s].allowed
  <2> DEFINE next == IF ask[r].answer = "allowSession"
                     THEN turn[s].allowed \union {ask[r].tool} ELSE turn[s].allowed
  <2>1. turn' = [turn EXCEPT ![s].phase = "running", ![s].ask = 0, ![s].allowed = next]
    BY <1>1 DEF AskAnswered
  <2> HIDE DEF next
  <2>2. /\ turn'[s].phase = "running" /\ turn'[s].allowed = next
        /\ \A u \in Ops \ {s} : turn'[u] = turn[u]
    BY <1>1, <2>1 DEF TurnRec
  <2> QED BY <2>2 DEF next
<1>6. AllowedByWord'
  <2> SUFFICES ASSUME NEW u \in Ops, NEW t \in turn'[u].allowed
               PROVE  \E y \in yes : y.of = u /\ y.tool = t /\ y.all
    BY <1>1 DEF AllowedByWord
  <2>1. CASE t \in turn[u].allowed
    BY <2>1 DEF ConsentInv, AllowedByWord
  <2>2. CASE t \notin turn[u].allowed
    <3>1. u = s /\ ask[r].answer = "allowSession" /\ t = ask[r].tool
      BY <1>5, <2>2
    <3> QED BY <1>3, <3>1 DEF Agrees
  <2> QED BY <2>1, <2>2
<1>7. \A u \in Ops : turn'[u].phase = "asking" =>
        /\ u # s /\ turn'[u] = turn[u] /\ turn[u].ask \in Asks
        /\ turn[u].ask = r \/ ask'[turn[u].ask] = ask[turn[u].ask]
  <2> SUFFICES ASSUME NEW u \in Ops, turn'[u].phase = "asking"
               PROVE  /\ u # s /\ turn'[u] = turn[u] /\ turn[u].ask \in Asks
                      /\ turn[u].ask = r \/ ask'[turn[u].ask] = ask[turn[u].ask]
    OBVIOUS
  <2>1. u # s /\ turn'[u] = turn[u]
    BY <1>5
  <2>2. turn[u].ask \in Asks
    BY <2>1 DEF SurfaceInv, AskOfTurn
  <2> QED BY <1>2, <2>1, <2>2
<1>8. AnsweredByWord'
  <2> SUFFICES ASSUME NEW u \in Ops, turn'[u].phase = "asking",
                      ask'[turn'[u].ask].answer \in Agrees
               PROVE  \E y \in yes : /\ y.of = u /\ y.ask = turn'[u].ask
                                     /\ y.tool = ask'[turn'[u].ask].tool
                                     /\ ask'[turn'[u].ask].answer = "allowSession" => y.all
    BY <1>1 DEF AnsweredByWord
  <2>1. turn'[u] = turn[u] /\ ask'[turn[u].ask] = ask[turn[u].ask]
    BY <1>2, <1>7 DEF Agrees
  <2> QED BY <2>1 DEF ConsentInv, AnsweredByWord
<1>9. AskedOfItself'
  BY <1>2, <1>7 DEF ConsentInv, AskedOfItself
<1> QED BY <1>4, <1>6, <1>8, <1>9 DEF ConsentInv

(* The user answers the request he is shown, and nothing else.             *)
LEMMA RespondConsents ==
    ASSUME SurfaceInv, ConsentInv, NEW d \in Decisions, Respond(d)
    PROVE  ConsentInv'
<1> DEFINE r == onScreen
           new == [NoAsk EXCEPT !.phase = "gone", !.answer = d, !.tool = ask[r].tool]
           agreed == [of |-> ask[r].of, ask |-> r, tool |-> ask[r].tool,
                      all |-> d = "allowSession"]
<1>1. /\ r \in Asks /\ ask \in [Asks -> AskRec] /\ ask[r].phase = "shown"
      /\ ask' = [ask EXCEPT ![r] = new] /\ UNCHANGED <<turn, unasked>>
      /\ yes' = IF d = "deny" THEN yes ELSE yes \union {agreed}
  BY Typed, SurfaceAssumption DEF Respond, SurfaceInv, SurfaceTypeOK, SheetAgrees, Asks
<1>2. /\ new.phase = "gone" /\ new.answer = d /\ new.tool = ask[r].tool
      /\ agreed.of = ask[r].of /\ agreed.ask = r /\ agreed.tool = ask[r].tool
      /\ agreed.all <=> d = "allowSession"
  BY DEF NoAsk
<1>3. yes \subseteq yes' /\ (d \in Agrees => agreed \in yes')
  BY <1>1 DEF Agrees
<1> HIDE DEF new, agreed
<1>4. ask'[r] = new /\ \A q \in Asks \ {r} : ask'[q] = ask[q]
  BY <1>1
<1>5. WritesAllowed' /\ AllowedByWord'
  BY <1>1, <1>3 DEF ConsentInv, WritesAllowed, AllowedByWord
<1>6. \A u \in Ops : turn[u].phase = "asking" => turn[u].ask \in Asks
  BY DEF SurfaceInv, AskOfTurn
<1>7. AnsweredByWord'
  <2> SUFFICES ASSUME NEW u \in Ops, turn[u].phase = "asking",
                      ask'[turn[u].ask].answer \in Agrees
               PROVE  \E y \in yes' : /\ y.of = u /\ y.ask = turn[u].ask
                                      /\ y.tool = ask'[turn[u].ask].tool
                                      /\ ask'[turn[u].ask].answer = "allowSession" => y.all
    BY <1>1 DEF AnsweredByWord
  <2>1. CASE turn[u].ask = r
    <3>1. ask[r].of = u
      BY <1>1, <2>1 DEF ConsentInv, AskedOfItself
    <3>2. d \in Agrees /\ ask'[r].answer = d /\ ask'[r].tool = ask[r].tool
      BY <1>2, <1>4, <2>1
    <3> QED BY <1>2, <1>3, <2>1, <3>1, <3>2
  <2>2. CASE turn[u].ask # r
    <3>1. ask'[turn[u].ask] = ask[turn[u].ask]
      BY <1>4, <1>6, <2>2
    <3>2. PICK y \in yes : /\ y.of = u /\ y.ask = turn[u].ask
                           /\ y.tool = ask[turn[u].ask].tool
                           /\ ask[turn[u].ask].answer = "allowSession" => y.all
      BY <3>1 DEF ConsentInv, AnsweredByWord
    <3> QED BY <1>3, <3>1, <3>2
  <2> QED BY <2>1, <2>2
<1>8. AskedOfItself'
  BY <1>1, <1>2, <1>4, <1>6 DEF ConsentInv, AskedOfItself
<1> QED BY <1>5, <1>7, <1>8 DEF ConsentInv

LEMMA ConsentStep ==
    SurfaceInv /\ ConsentInv /\ [SurfaceNext]_surfaceVars => ConsentInv'
<1> SUFFICES ASSUME SurfaceInv, ConsentInv, [SurfaceNext]_surfaceVars PROVE ConsentInv'
  OBVIOUS
<1>1. /\ OnSheet \in SUBSET Asks /\ (onScreen # 0 => onScreen \in Asks)
      /\ ask \in [Asks -> AskRec] /\ turn \in [Ops -> TurnRec]
      /\ session \in 0..MaxOps /\ opSession \in 0..MaxOps /\ (session # 0 => session \in Ops)
  <2>1. /\ ask \in [Asks -> AskRec] /\ turn \in [Ops -> TurnRec]
        /\ session \in 0..MaxOps /\ opSession \in 0..MaxOps /\ onScreen \in 0..MaxAsks
        /\ OnSheet \in SUBSET Asks
    BY SheetIsAsks, Typed DEF SurfaceInv
  <2> QED BY <2>1, SurfaceAssumption DEF Asks, Ops
<1>2. CASE UNCHANGED surfaceVars
  BY <1>2 DEF surfaceVars, ConsentInv, WritesAllowed, AllowedByWord, AnsweredByWord,
              AskedOfItself
<1>3. CASE SwipeAway \/ ApprovalDismissed \/ \E r \in Asks : ReceiveApproval(r)
  <2>1. UNCHANGED <<turn, yes, unasked>>
    BY <1>3 DEF SwipeAway, ApprovalDismissed, ReceiveApproval, consentVars
  <2>2. \A r \in Asks :
          \/ ask'[r] = ask[r]
          \/ ask'[r].phase = "gone" /\ ask'[r].answer = "none"
          \/ ask'[r].of = ask[r].of /\ ask'[r].answer = "none" /\ ask[r].phase # "gone"
    <3>1. ASSUME NEW q \in Asks, NEW phase, ask[q].phase # "gone",
                 ask' = [ask EXCEPT ![q].phase = phase]
          PROVE  \A r \in Asks :
                   \/ ask'[r] = ask[r]
                   \/ ask'[r].of = ask[r].of /\ ask'[r].answer = "none" /\ ask[r].phase # "gone"
      <4>1. ask[q].answer = "none"
        BY <3>1 DEF SurfaceInv, SheetAgrees
      <4>2. /\ ask'[q].of = ask[q].of /\ ask'[q].answer = ask[q].answer
            /\ \A r \in Asks \ {q} : ask'[r] = ask[r]
        BY <1>1, <3>1 DEF AskRec
      <4> QED BY <3>1, <4>1, <4>2
    <3>2. CASE SwipeAway
      <4>1. {onScreen} \in SUBSET Asks
        BY <1>1, <3>2 DEF SwipeAway
      <4> QED BY <3>2, <4>1, DroppedOrKept DEF SwipeAway
    <3>3. CASE ApprovalDismissed
      <4>1. queue # <<>> => Head(queue) \in Asks /\ ask[Head(queue)].phase = "queued"
        <5>1. queue \in Seq(Asks)
          BY DEF SurfaceInv, SurfaceTypeOK
        <5>2. queue # <<>> => 1 \in DOMAIN queue /\ Head(queue) = queue[1]
          BY <5>1
        <5> QED BY <5>1, <5>2 DEF SurfaceInv, SheetAgrees
      <4> QED BY <3>1, <3>3, <4>1 DEF ApprovalDismissed
    <3>4. ASSUME NEW r \in Asks, ReceiveApproval(r)
          PROVE  \A q \in Asks :
                   \/ ask'[q] = ask[q]
                   \/ ask'[q].phase = "gone" /\ ask'[q].answer = "none"
                   \/ ask'[q].of = ask[q].of /\ ask'[q].answer = "none" /\ ask[q].phase # "gone"
      <4>1. CASE ask' = Dropped({r})
        BY <4>1, DroppedOrKept
      <4>2. CASE \E phase \in {"shown", "queued"} : ask' = [ask EXCEPT ![r].phase = phase]
        <5>1. ask[r].phase # "gone"
          BY <3>4 DEF ReceiveApproval
        <5> QED BY <3>1, <4>2, <5>1
      <4> QED BY <3>4, <4>1, <4>2 DEF ReceiveApproval
    <3> QED BY <1>3, <3>2, <3>3, <3>4
  <2>3. \A s \in Ops : turn'[s] = turn[s]
    BY <2>1
  <2> QED BY <2>1, <2>2, <2>3, ConsentStays DEF consentVars
<1>4. CASE \E d \in Decisions : Respond(d)
  BY <1>4, RespondConsents
<1>5. ASSUME NEW o \in Ops,
             \/ \E reuse \in BOOLEAN : Send(o, reuse)
             \/ BeginResume(o) \/ Started(o) \/ Resumed(o) \/ Loaded(o) \/ StartFails(o)
             \/ ClaimTurn(o) \/ TurnEnds(o) \/ Returns(o)
      PROVE  ConsentInv'
  <2>1. UNCHANGED consentVars
    BY <1>5 DEF Send, BeginResume, Started, Resumed, Loaded, StartFails,
                ClaimTurn, TurnEnds, Returns
  <2>2. \A r \in Asks : \/ ask'[r] = ask[r]
                        \/ ask'[r].phase = "gone" /\ ask'[r].answer = "none"
    <3>1. ask' = ask \/ ask' = Dropped(OnSheet)
      BY <1>5 DEF Send, BeginResume, Started, Resumed, Loaded,
                  StartFails, ClaimTurn, TurnEnds, Returns, ClearSheet
    <3> QED BY <1>1, <3>1, DroppedOrKept
  <2>3. /\ oper[o].phase \in Drives => oper[o].of \in Ops
        /\ oper[o].gen \in Nat
    BY DEF SurfaceInv, Owned, SurfaceTypeOK
  <2>4. CASE \/ \E reuse \in BOOLEAN : Send(o, reuse)
             \/ BeginResume(o) \/ Resumed(o) \/ StartFails(o)
    <3>1. UNCHANGED turn
      BY <2>4 DEF Send, BeginResume, Resumed, StartFails
    <3> QED BY <2>1, <2>2, <3>1, TurnsGainNothing, ConsentStays
  <2>5. CASE Started(o) \/ Loaded(o)
    <3>1. \/ UNCHANGED turn \/ turn' = [turn EXCEPT ![o] = NewTurn(o)]
          \/ \E s \in 0..MaxOps : turn' = [Cancelled(s) EXCEPT ![o] = NewTurn(o)]
      BY <1>1, <2>5 DEF Started, Loaded
    <3> QED BY <2>1, <2>2, <3>1, TurnsGainNothing, ConsentStays
  <2>6. CASE ClaimTurn(o) \/ TurnEnds(o) \/ Returns(o)
    <3>1. \/ UNCHANGED turn
          \/ \E s \in Ops, g \in Nat : turn' = [turn EXCEPT ![s].phase = "running",
                                              ![s].gen = g, ![s].cancelled = FALSE]
          \/ \E s \in Ops : turn' = [turn EXCEPT ![s].phase = "returning", ![s].ask = 0]
          \/ \E s \in Ops : turn' = [turn EXCEPT ![s].phase = "idle"]
      BY <2>3, <2>6 DEF ClaimTurn, TurnEnds, Returns, Drives
    <3> QED BY <2>1, <2>2, <3>1, TurnsGainNothing, ConsentStays
  <2> QED BY <1>5, <2>4, <2>5, <2>6
<1>6. ASSUME NEW o \in Ops, AskAnswered(o) PROVE ConsentInv'
  BY <1>6, AskAnsweredConsents
<1>7. ASSUME NEW o \in Ops, NEW t \in Tools, WriteTool(o, t) PROVE ConsentInv'
  BY <1>7, WriteToolConsents
<1>8. CASE Stop \/ Reset \/ \E m \in Modes : SetMode(m)
  <2>1. UNCHANGED consentVars /\ (ask' = ask \/ ask' = Dropped(OnSheet))
    BY <1>8 DEF Stop, Reset, SetMode, ClearSheet
  <2>2. \A r \in Asks : \/ ask'[r] = ask[r]
                        \/ ask'[r].phase = "gone" /\ ask'[r].answer = "none"
    BY <1>1, <2>1, DroppedOrKept
  <2>3. \/ UNCHANGED turn \/ \E s \in 0..MaxOps : turn' = Cancelled(s)
        \/ \E s \in Ops, m \in Modes : turn' = [turn EXCEPT ![s].mode = m]
    BY <1>1, <1>8 DEF Stop, Reset, SetMode
  <2> QED BY <2>1, <2>2, <2>3, TurnsGainNothing, ConsentStays
<1> QED BY <1>2, <1>3, <1>4, <1>5, <1>6, <1>7, <1>8 DEF SurfaceNext

(* Nothing is written the user has not agreed to: authorize_write goes by  *)
(* the mode, by what this session was allowed, or by the answer to its own *)
(* request, whatever becomes of the sheet, the session and the mode        *)
(* meanwhile.                                                              *)
THEOREM WritesAreAllowed == SurfaceSpec => []WritesAllowed
<1>1. SurfaceInit => ConsentInv
  <2> SUFFICES ASSUME SurfaceInit PROVE ConsentInv
    OBVIOUS
  <2>1. \A s \in Ops : turn[s].phase = "idle" /\ turn[s].allowed = {}
    BY DEF SurfaceInit, NoTurn
  <2> QED BY <2>1 DEF SurfaceInit, ConsentInv, WritesAllowed, AllowedByWord, AnsweredByWord,
                      AskedOfItself
<1>2. ConsentInv => WritesAllowed
  BY DEF ConsentInv
<1> QED BY <1>1, <1>2, ConsentStep, SurfaceInvariant, PTL DEF SurfaceSpec

-----------------------------------------------------------------------------
(* The list of sessions                                                     *)

(* What a load may show: the store, but for the copies of failed forks.    *)
Fresh(rows) == rows \subseteq engineRows /\ engineRows \ rows \subseteq strays

(* A task that may have changed the store, and will refresh the list.      *)
WillRefresh(t) ==
    \/ job[t].kind = "delete" /\ job[t].phase \in {"asked", "told"}
    \/ job[t].kind = "fork" /\ job[t].phase = "told" /\ ~job[t].failed
AtWork == \E t \in Jobs : WillRefresh(t)

GensBounded == \A t \in Jobs : job[t].gen <= refreshes
ReadFresh ==
    \A t \in Jobs : job[t].phase = "listed" /\ Newest(t) => Fresh(job[t].got) \/ AtWork
ShownFresh == loading = "loaded" /\ ~dropped => Fresh(shown) \/ AtWork

(* Who waits for the lock waits once.                                      *)
WaitersWait ==
    \A i \in 1..Len(lockWaiters) :
       /\ job[lockWaiters[i]].phase = "waiting"
       /\ \A j \in 1..Len(lockWaiters) : lockWaiters[i] = lockWaiters[j] => i = j

(* Only deletes and forks take turns, and a fork asks the engine once.     *)
TurnsTaken ==
    \A t \in Jobs : job[t].phase \in {"waiting", "asked", "told"} =>
       /\ job[t].kind # "refresh"
       /\ job[t].kind = "fork" /\ job[t].phase # "told" => ~job[t].failed

ListInv ==
    ListTypeOK /\ WaitersWait /\ TurnsTaken /\ GensBounded /\ ReadFresh /\ ShownFresh

(***************************************************************************)
(* What the steps have in common.                                          *)
(***************************************************************************)
(* What changes of a task's record: its phase.                             *)
LEMMA SetPhase ==
    ASSUME NEW r \in JobRecords, NEW p \in Phases
    PROVE  LET q == [r EXCEPT !.phase = p]
           IN  /\ q \in JobRecords /\ q.phase = p /\ q.kind = r.kind
               /\ q.gen = r.gen /\ q.got = r.got /\ q.failed = r.failed
BY DEF JobRecords

(* What changes of one task: its phase.                                    *)
LEMMA TaskGoes ==
    ASSUME NEW f \in [Jobs -> JobRecords], NEW t \in Jobs, NEW p \in Phases
    PROVE  LET g == [f EXCEPT ![t].phase = p]
           IN  /\ g \in [Jobs -> JobRecords] /\ \A d \in Jobs \ {t} : g[d] = f[d]
               /\ g[t].phase = p /\ g[t].kind = f[t].kind
               /\ g[t].gen = f[t].gen /\ g[t].got = f[t].got /\ g[t].failed = f[t].failed
<1> DEFINE g == [f EXCEPT ![t].phase = p]
<1>1. g = [f EXCEPT ![t] = [f[t] EXCEPT !.phase = p]]
  OBVIOUS
<1> HIDE DEF g
<1>2. [f[t] EXCEPT !.phase = p] \in JobRecords
  BY SetPhase
<1>3. g \in [Jobs -> JobRecords] /\ \A d \in Jobs \ {t} : g[d] = f[d]
  BY <1>1, <1>2
<1>4. g[t] = [f[t] EXCEPT !.phase = p] /\ f[t] \in JobRecords
  BY <1>1
<1>5. /\ g[t].phase = p /\ g[t].kind = f[t].kind
      /\ g[t].gen = f[t].gen /\ g[t].got = f[t].got /\ g[t].failed = f[t].failed
  BY <1>4, SetPhase
<1> QED BY <1>3, <1>5 DEF g

(* A step that lists nothing new, and takes nobody from his work but by    *)
(* beginning a refresh, leaves what was read as fresh as it was.           *)
LEMMA ReadsKeep ==
    ASSUME ListInv, UNCHANGED <<engineRows, strays>>,
           refreshes' \in {refreshes, refreshes + 1},
           \A d \in Jobs : job'[d].gen \in {0, job[d].gen, refreshes'},
           \A d \in Jobs : job'[d].phase = "listed" =>
              /\ job[d].phase = "listed"
              /\ job'[d].got = job[d].got /\ job'[d].gen = job[d].gen,
           refreshes' = refreshes => (AtWork => AtWork')
    PROVE  GensBounded' /\ ReadFresh'
<1> USE DEF ListInv
<1>1. refreshes \in Nat /\ \A d \in Jobs : job[d].gen \in Nat /\ job[d].gen <= refreshes
  BY DEF ListTypeOK, JobRecords, GensBounded
<1>2. GensBounded'
  BY <1>1 DEF GensBounded
<1>3. ASSUME NEW d \in Jobs, job'[d].phase = "listed", job'[d].gen = refreshes'
      PROVE  AtWork' \/ (Fresh(job[d].got))'
  <2>1. refreshes' = refreshes /\ job[d].gen = refreshes /\ job[d].phase = "listed"
    BY <1>1, <1>3
  <2>2. Fresh(job[d].got) \/ AtWork
    BY <2>1 DEF ReadFresh, Newest
  <2>3. Fresh(job[d].got) => (Fresh(job[d].got))'
    BY <1>3 DEF Fresh
  <2> QED BY <2>1, <2>2, <2>3
<1> QED BY <1>2, <1>3 DEF ReadFresh, Newest

(* So is what is shown, if the step shows nothing else.                    *)
LEMMA ShownKeeps ==
    ASSUME ListInv, UNCHANGED <<engineRows, strays, shown>>,
           loading' = "loaded" /\ ~dropped' => loading = "loaded" /\ ~dropped,
           loading' = "loaded" => (AtWork => AtWork')
    PROVE  ShownFresh'
BY DEF ListInv, ShownFresh, Fresh

(* A task that ends keeps what it remembers; the waiter that came first    *)
(* goes to work.                                                           *)
LEMMA EndsTakes ==
    ASSUME ListInv, NEW t \in Jobs, job[t].phase # "waiting", Ends(t)
    PROVE  /\ job' \in [Jobs -> JobRecords] /\ lockWaiters' \in Seq(Jobs)
           /\ mutating' \in BOOLEAN /\ WaitersWait'
           /\ \A d \in Jobs : /\ job'[d].kind = job[d].kind /\ job'[d].failed = job[d].failed
                             /\ job'[d].gen = job[d].gen /\ job'[d].got = job[d].got
           /\ \A d \in Jobs \ {t} :
                 \/ job'[d].phase = job[d].phase
                 \/ (job[d].phase = "waiting" /\ job'[d].phase = "asked")
           /\ job'[t].phase = "done"
<1> USE DEF ListInv, ListTypeOK
<1>0. "done" \in Phases /\ "asked" \in Phases
  BY DEF Phases
<1>1. CASE job[t].kind = "refresh" \/ lockWaiters = <<>>
  <2>1. job' = [job EXCEPT ![t].phase = "done"] /\ UNCHANGED lockWaiters
    BY <1>1 DEF Ends, lockVars
  <2>2. mutating' \in BOOLEAN
    BY <1>1 DEF Ends, lockVars
  <2>3. /\ job' \in [Jobs -> JobRecords] /\ \A d \in Jobs \ {t} : job'[d] = job[d]
        /\ job'[t].phase = "done" /\ job'[t].kind = job[t].kind
        /\ job'[t].gen = job[t].gen /\ job'[t].got = job[t].got
        /\ job'[t].failed = job[t].failed
    BY <1>0, <2>1, TaskGoes
  <2>4. WaitersWait'
    BY <2>1, <2>3 DEF WaitersWait
  <2>5. /\ \A d \in Jobs : /\ job'[d].kind = job[d].kind /\ job'[d].failed = job[d].failed
                           /\ job'[d].gen = job[d].gen /\ job'[d].got = job[d].got
    BY <2>3
  <2>7. \A d \in Jobs \ {t} : job'[d].phase = job[d].phase
    BY <2>3
  <2>6. lockWaiters' \in Seq(Jobs)
    BY <2>1
  <2> QED BY <2>2, <2>3, <2>4, <2>5, <2>6, <2>7
<1>2. CASE job[t].kind # "refresh" /\ lockWaiters # <<>>
  <2> DEFINE h == Head(lockWaiters)
             mid == [job EXCEPT ![t].phase = "done"]
  <2>1. /\ job' = [mid EXCEPT ![h].phase = "asked"]
        /\ lockWaiters' = Tail(lockWaiters) /\ UNCHANGED mutating
    BY <1>2 DEF Ends
  <2>2. h \in Jobs /\ Tail(lockWaiters) \in Seq(Jobs) /\ h = lockWaiters[1]
    BY <1>2
  <2>3. job[h].phase = "waiting" /\ h # t
    BY <1>2, <2>2 DEF WaitersWait
  <2>4. /\ mid \in [Jobs -> JobRecords] /\ \A d \in Jobs \ {t} : mid[d] = job[d]
        /\ mid[t].phase = "done" /\ mid[t].kind = job[t].kind
        /\ mid[t].gen = job[t].gen /\ mid[t].got = job[t].got
        /\ mid[t].failed = job[t].failed
    BY <1>0, TaskGoes
  <2> HIDE DEF h, mid
  <2>5. /\ job' \in [Jobs -> JobRecords] /\ \A d \in Jobs \ {h} : job'[d] = mid[d]
        /\ job'[h].phase = "asked" /\ job'[h].kind = mid[h].kind
        /\ job'[h].gen = mid[h].gen /\ job'[h].got = mid[h].got
        /\ job'[h].failed = mid[h].failed
    BY <1>0, <2>1, <2>2, <2>4, TaskGoes
  <2>6. WaitersWait'
    <3>1. /\ Len(lockWaiters') = Len(lockWaiters) - 1
          /\ \A i \in 1..Len(lockWaiters') :
                /\ lockWaiters'[i] = lockWaiters[i + 1] /\ i + 1 \in 1..Len(lockWaiters)
                /\ lockWaiters[i + 1] \in Jobs
      BY <1>2, <2>1
    <3>2. 1 \in 1..Len(lockWaiters)
      BY <1>2
    <3>3. \A i \in 1..Len(lockWaiters') : lockWaiters'[i] # h /\ lockWaiters'[i] # t
      BY <2>2, <3>1, <3>2 DEF WaitersWait
    <3>4. \A i \in 1..Len(lockWaiters') : job'[lockWaiters'[i]] = job[lockWaiters'[i]]
      BY <2>4, <2>5, <3>1, <3>3
    <3>5. \A i \in 1..Len(lockWaiters') : job'[lockWaiters'[i]].phase = "waiting"
      <4> SUFFICES ASSUME NEW i \in 1..Len(lockWaiters')
                   PROVE  job'[lockWaiters'[i]].phase = "waiting"
        OBVIOUS
      <4>1. job[lockWaiters[i + 1]].phase = "waiting"
        BY <3>1 DEF WaitersWait
      <4> QED BY <3>1, <3>4, <4>1
    <3>6. ASSUME NEW i \in 1..Len(lockWaiters'), NEW j \in 1..Len(lockWaiters'),
                 lockWaiters'[i] = lockWaiters'[j]
          PROVE  i = j
      <4>1. i + 1 = j + 1
        BY <3>1, <3>6 DEF WaitersWait
      <4> QED BY <4>1
    <3> QED BY <3>5, <3>6 DEF WaitersWait
  <2>7. \A d \in Jobs : /\ job'[d].kind = job[d].kind /\ job'[d].failed = job[d].failed
                        /\ job'[d].gen = job[d].gen /\ job'[d].got = job[d].got
    BY <2>4, <2>5
  <2>8. /\ \A d \in Jobs \ {t} :
              \/ job'[d].phase = job[d].phase
              \/ (job[d].phase = "waiting" /\ job'[d].phase = "asked")
        /\ job'[t].phase = "done"
    <3>1. \A d \in Jobs \ {t, h} : job'[d] = job[d]
      BY <2>4, <2>5
    <3>2. job'[h].phase = "asked" /\ job'[t] = mid[t]
      BY <2>3, <2>5
    <3>3. \A d \in Jobs \ {t, h} : job'[d].phase = job[d].phase
      BY <3>1
    <3>4. job[h].phase = "waiting" /\ job'[t].phase = "done"
      BY <2>3, <2>4, <3>2
    <3> QED BY <3>2, <3>3, <3>4
  <2>9. mutating' \in BOOLEAN
    BY <2>1
  <2>10. lockWaiters' \in Seq(Jobs)
    BY <2>1, <2>2
  <2> QED BY <2>5, <2>6, <2>7, <2>8, <2>9, <2>10, Zenon
<1> QED BY <1>1, <1>2

(* A task that takes its turn takes nothing from the others.               *)
LEMMA AcquireTakes ==
    ASSUME ListInv, NEW t \in Jobs, NEW asking \in JobRecords,
           job[t].phase = "unused", asking.phase = "asked", asking.gen = 0,
           asking.kind # "refresh", asking.failed = FALSE, Acquire(t, asking)
    PROVE  /\ job' \in [Jobs -> JobRecords] /\ lockWaiters' \in Seq(Jobs)
           /\ mutating' \in BOOLEAN /\ WaitersWait'
           /\ \A d \in Jobs \ {t} : job'[d] = job[d]
           /\ job'[t].phase \in {"asked", "waiting"} /\ job'[t].gen = 0
           /\ job'[t].kind # "refresh" /\ job'[t].failed = FALSE
<1> USE DEF ListInv, ListTypeOK
<1>1. CASE mutating
  <2> DEFINE q == [asking EXCEPT !.phase = "waiting"]
  <2>1. /\ job' = [job EXCEPT ![t] = q] /\ UNCHANGED mutating
        /\ lockWaiters' = Append(lockWaiters, t)
    BY <1>1 DEF Acquire
  <2>2. /\ q \in JobRecords /\ q.phase = "waiting" /\ q.gen = 0
        /\ q.kind # "refresh" /\ q.failed = FALSE
    BY SetPhase DEF Phases
  <2> HIDE DEF q
  <2>3. /\ job' \in [Jobs -> JobRecords] /\ lockWaiters' \in Seq(Jobs)
        /\ \A d \in Jobs \ {t} : job'[d] = job[d]
        /\ job'[t] = q
    BY <2>1, <2>2
  <2>4. \A i \in 1..Len(lockWaiters) : lockWaiters[i] \in Jobs \ {t}
    BY DEF WaitersWait
  <2>5. WaitersWait'
    <3>1. /\ Len(lockWaiters') = Len(lockWaiters) + 1 /\ Len(lockWaiters) \in Nat
          /\ lockWaiters'[Len(lockWaiters) + 1] = t
          /\ \A i \in 1..Len(lockWaiters) : lockWaiters'[i] = lockWaiters[i]
      BY <2>1
    <3>2. ASSUME NEW i \in 1..Len(lockWaiters') PROVE job'[lockWaiters'[i]].phase = "waiting"
      <4>1. CASE i = Len(lockWaiters) + 1
        BY <2>2, <2>3, <3>1, <4>1
      <4>2. CASE i \in 1..Len(lockWaiters)
        BY <2>3, <2>4, <3>1, <4>2 DEF WaitersWait
      <4> QED BY <3>1, <4>1, <4>2
    <3>3. ASSUME NEW i \in 1..Len(lockWaiters'), NEW j \in 1..Len(lockWaiters'),
                 lockWaiters'[i] = lockWaiters'[j]
          PROVE  i = j
      <4>1. i \in 1..Len(lockWaiters) \/ i = Len(lockWaiters) + 1
        BY <3>1
      <4>2. j \in 1..Len(lockWaiters) \/ j = Len(lockWaiters) + 1
        BY <3>1
      <4> QED BY <2>4, <3>1, <3>3, <4>1, <4>2 DEF WaitersWait
    <3> QED BY <3>2, <3>3 DEF WaitersWait
  <2> QED BY <2>1, <2>2, <2>3, <2>5
<1>2. CASE ~mutating
  <2>1. job' = [job EXCEPT ![t] = asking] /\ UNCHANGED lockWaiters
    BY <1>2 DEF Acquire
  <2>2. mutating' \in BOOLEAN
    BY <1>2 DEF Acquire
  <2>3. \A i \in 1..Len(lockWaiters) : lockWaiters[i] \in Jobs \ {t}
    BY DEF WaitersWait
  <2> QED BY <2>1, <2>2, <2>3 DEF WaitersWait
<1> QED BY <1>1, <1>2

(* So the reads and the turns are kept by a task that ends, if nothing is  *)
(* left for it to refresh.                                                 *)
LEMMA EndsKeep ==
    ASSUME ListInv, NEW t \in Jobs, job[t].phase # "waiting", ~WillRefresh(t), Ends(t),
           UNCHANGED <<engineRows, strays, refreshes>>
    PROVE  TurnsTaken' /\ GensBounded' /\ ReadFresh' /\ (AtWork => AtWork')
<1>1. /\ \A d \in Jobs : /\ job'[d].kind = job[d].kind /\ job'[d].failed = job[d].failed
                         /\ job'[d].gen = job[d].gen /\ job'[d].got = job[d].got
      /\ \A d \in Jobs \ {t} :
            \/ job'[d].phase = job[d].phase
            \/ (job[d].phase = "waiting" /\ job'[d].phase = "asked")
      /\ job'[t].phase = "done"
  BY EndsTakes
<1>2. TurnsTaken'
  <2> SUFFICES ASSUME NEW d \in Jobs, job'[d].phase \in {"waiting", "asked", "told"}
               PROVE  /\ job'[d].kind # "refresh"
                      /\ job'[d].kind = "fork" /\ job'[d].phase # "told" => ~job'[d].failed
    BY DEF TurnsTaken
  <2>1. /\ job[d].phase \in {"waiting", "asked", "told"}
        /\ job'[d].phase # "told" => job[d].phase # "told"
    BY <1>1
  <2> QED BY <1>1, <2>1 DEF TurnsTaken, ListInv
<1>3. ASSUME NEW d \in Jobs, WillRefresh(d)
      PROVE  AtWork'
  <2>1. d # t
    BY <1>3
  <2>2. job[d].phase \in {"asked", "told"}
    BY <1>3 DEF WillRefresh
  <2>3. job'[d].phase = job[d].phase
    BY <1>1, <2>1, <2>2
  <2>4. WillRefresh(d)'
    BY <1>1, <1>3, <2>3 DEF WillRefresh
  <2> QED BY <2>4 DEF AtWork
<1>4. AtWork => AtWork'
  BY <1>3 DEF AtWork
<1>5. \A d \in Jobs : job'[d].phase = "listed" => job[d].phase = "listed"
  BY <1>1
<1>6. refreshes' \in {refreshes, refreshes + 1}
  OBVIOUS
<1> QED BY <1>1, <1>2, <1>4, <1>5, <1>6, ReadsKeep

(* A load that begins supersedes the others.                               *)
LEMMA LoadBegins ==
    ASSUME ListInv, NEW t \in Jobs, job[t].phase \in {"unused", "told"}, BeginLoad,
           job' = [job EXCEPT ![t] = Refreshing(t)],
           UNCHANGED <<engineRows, strays, lockWaiters>>
    PROVE  /\ job' \in [Jobs -> JobRecords] /\ refreshes' \in Nat
           /\ loading' \in LoadStates /\ dropped' \in BOOLEAN
           /\ WaitersWait' /\ TurnsTaken' /\ GensBounded' /\ ReadFresh' /\ ShownFresh'
<1> USE DEF ListInv
<1> DEFINE q == Refreshing(t)
<1>0. job' = [job EXCEPT ![t] = q]
  OBVIOUS
<1>1. /\ q \in JobRecords /\ q.phase = "loading" /\ q.gen = refreshes + 1
      /\ refreshes \in Nat
  <2>1. /\ job[t] \in JobRecords /\ refreshes \in Nat /\ opErrors \in Nat
        /\ settledLoading \in LoadStates
    BY DEF ListTypeOK
  <2>2. refreshes + 1 \in Nat /\ "loading" \in Phases
    BY <2>1 DEF Phases
  <2> QED BY <2>1, <2>2 DEF JobRecords, Refreshing
<1> HIDE DEF q
<1>2. /\ job' \in [Jobs -> JobRecords] /\ job'[t] = q
      /\ \A d \in Jobs \ {t} : job'[d] = job[d]
  BY <1>0, <1>1 DEF ListTypeOK
<1>3. /\ refreshes' = refreshes + 1 /\ loading' = "loading"
      /\ refreshes' \in Nat /\ loading' \in LoadStates
  BY <1>1 DEF BeginLoad, LoadStates
<1>4. dropped' \in BOOLEAN
  BY DEF BeginLoad
<1>5. WaitersWait'
  BY <1>2 DEF WaitersWait, ListTypeOK
<1>6. TurnsTaken'
  BY <1>1, <1>2 DEF TurnsTaken
<1>7. GensBounded' /\ ReadFresh'
  <2>1. \A d \in Jobs : job'[d].gen \in {0, job[d].gen, refreshes'}
    BY <1>1, <1>2, <1>3
  <2>2. \A d \in Jobs : job'[d].phase = "listed" =>
           /\ job[d].phase = "listed"
           /\ job'[d].got = job[d].got /\ job'[d].gen = job[d].gen
    BY <1>1, <1>2
  <2>3. refreshes' # refreshes
    BY <1>1, <1>3
  <2> QED BY <1>3, <2>1, <2>2, <2>3, ReadsKeep
<1>8. ShownFresh'
  BY <1>3 DEF ShownFresh
<1> QED BY <1>2, <1>3, <1>4, <1>5, <1>6, <1>7, <1>8, Zenon

(***************************************************************************)
(* The actions.                                                            *)
(***************************************************************************)
(* refresh, from the view: what it supersedes can no longer be shown.      *)
LEMMA RefreshStep ==
    ASSUME ListInv, NEW t \in Jobs, Refresh(t)
    PROVE  ListInv'
<1>1. /\ job' \in [Jobs -> JobRecords] /\ refreshes' \in Nat
      /\ loading' \in LoadStates /\ dropped' \in BOOLEAN
      /\ WaitersWait' /\ TurnsTaken' /\ GensBounded' /\ ReadFresh' /\ ShownFresh'
  BY LoadBegins DEF Refresh, NextJob, lockVars
<1>2. UNCHANGED <<engineRows, strays, shown, settledLoading, opError, opErrors, mutating,
                  lockWaiters, engineFaults>>
  BY DEF Refresh, lockVars
<1>3. ListTypeOK'
  BY <1>1, <1>2, Zenon DEF ListInv, ListTypeOK
<1> QED BY <1>1, <1>3 DEF ListInv

(* A cancelled load keeps what it has read; it only will not show it.      *)
LEMMA CancelStep ==
    ASSUME ListInv, NEW t \in Jobs, CancelRefresh(t)
    PROVE  ListInv'
<1> USE DEF ListInv
<1> DEFINE q == [job[t] EXCEPT !.cancelled = TRUE]
<1>1. /\ q \in JobRecords /\ q.phase = job[t].phase /\ q.kind = job[t].kind
      /\ q.gen = job[t].gen /\ q.got = job[t].got /\ q.failed = job[t].failed
  BY DEF ListTypeOK, JobRecords
<1>2. job' = [job EXCEPT ![t] = q]
  BY DEF CancelRefresh
<1>3. UNCHANGED <<engineRows, strays, shown, loading, settledLoading, dropped, opError,
                  opErrors, refreshes, mutating, lockWaiters, engineFaults>>
  BY DEF CancelRefresh, screenList, lockVars
<1> HIDE DEF q
<1>4. /\ job' \in [Jobs -> JobRecords]
      /\ \A d \in Jobs : /\ job'[d].phase = job[d].phase /\ job'[d].kind = job[d].kind
                         /\ job'[d].gen = job[d].gen /\ job'[d].got = job[d].got
                         /\ job'[d].failed = job[d].failed
  BY <1>1, <1>2 DEF ListTypeOK
<1>5. ListTypeOK'
  BY <1>3, <1>4, Zenon DEF ListTypeOK
<1>6. WaitersWait' /\ TurnsTaken'
  BY <1>3, <1>4 DEF WaitersWait, TurnsTaken, ListTypeOK
<1>7. AtWork => AtWork'
  BY <1>4 DEF AtWork, WillRefresh
<1>8. GensBounded' /\ ReadFresh'
  BY <1>3, <1>4, <1>7, ReadsKeep
<1>9. ShownFresh'
  BY <1>3, <1>7, ShownKeeps
<1> QED BY <1>5, <1>6, <1>8, <1>9

(* list_sessions answers with the store of that moment.                    *)
LEMMA ListsStep ==
    ASSUME ListInv, NEW t \in Jobs, EngineLists(t)
    PROVE  ListInv'
<1> USE DEF ListInv
<1>0. UNCHANGED <<engineRows, strays, shown, loading, settledLoading, dropped, opError,
                  opErrors, refreshes, mutating, lockWaiters>>
  BY DEF EngineLists, screenList, lockVars
<1>1. PICK q \in JobRecords :
         /\ job' = [job EXCEPT ![t] = q] /\ q.phase \in {"listed", "unlisted"}
         /\ q.phase = "listed" => q.got = engineRows
         /\ q.gen = job[t].gen /\ q.kind = job[t].kind /\ q.failed = job[t].failed
  <2>1. CASE job' = [job EXCEPT ![t].phase = "listed", ![t].got = engineRows]
    <3> DEFINE q == [job[t] EXCEPT !.phase = "listed", !.got = engineRows]
    <3>1. /\ q \in JobRecords /\ q.phase = "listed" /\ q.got = engineRows
          /\ q.gen = job[t].gen /\ q.kind = job[t].kind /\ q.failed = job[t].failed
      BY DEF ListTypeOK, JobRecords, Phases
    <3>2. job' = [job EXCEPT ![t] = q]
      BY <2>1
    <3> QED BY <3>1, <3>2
  <2>2. CASE job' = [job EXCEPT ![t].phase = "unlisted"]
    <3> DEFINE q == [job[t] EXCEPT !.phase = "unlisted"]
    <3>1. /\ q \in JobRecords /\ q.phase = "unlisted"
          /\ q.gen = job[t].gen /\ q.kind = job[t].kind /\ q.failed = job[t].failed
      BY SetPhase DEF ListTypeOK, Phases
    <3>2. job' = [job EXCEPT ![t] = q]
      BY <2>2
    <3> QED BY <3>1, <3>2
  <2> QED BY <2>1, <2>2 DEF EngineLists
<1>2. /\ job' \in [Jobs -> JobRecords] /\ job'[t] = q
      /\ \A d \in Jobs \ {t} : job'[d] = job[d]
  BY <1>1 DEF ListTypeOK
<1>3. job[t].phase = "loading" /\ engineFaults' \in 0..MaxEngineFaults
  BY ListAssumption DEF EngineLists, EngineFails, ListTypeOK
<1>4. ListTypeOK'
  BY <1>0, <1>2, <1>3, Zenon DEF ListTypeOK
<1>5. WaitersWait' /\ TurnsTaken'
  BY <1>0, <1>1, <1>2, <1>3 DEF WaitersWait, TurnsTaken, ListTypeOK
<1>6. AtWork => AtWork'
  <2>1. ~WillRefresh(t)
    BY <1>3 DEF WillRefresh
  <2>2. \A d \in Jobs \ {t} : WillRefresh(d) => WillRefresh(d)'
    BY <1>2 DEF WillRefresh
  <2> QED BY <2>1, <2>2 DEF AtWork
<1>7. GensBounded'
  BY <1>0, <1>1, <1>2 DEF GensBounded
<1>8. ReadFresh'
  <2> SUFFICES ASSUME NEW d \in Jobs, job'[d].phase = "listed", Newest(d)'
               PROVE  (Fresh(job[d].got))' \/ AtWork'
    BY DEF ReadFresh
  <2>1. CASE d = t
    BY <1>0, <1>1, <1>2, <2>1 DEF Fresh
  <2>2. CASE d # t
    <3>1. Fresh(job[d].got) \/ AtWork
      BY <1>0, <1>2, <2>2 DEF ReadFresh, Newest
    <3>2. Fresh(job[d].got) => (Fresh(job[d].got))'
      BY <1>0, <1>2, <2>2 DEF Fresh
    <3> QED BY <1>6, <3>1, <3>2
  <2> QED BY <2>1, <2>2
<1>9. ShownFresh'
  BY <1>0, <1>6, ShownKeeps
<1> QED BY <1>4, <1>5, <1>7, <1>8, <1>9

(* What the newest load has read is shown; what comes late is not.         *)
LEMMA ReturnsStep ==
    ASSUME ListInv, NEW t \in Jobs, LoadReturns(t)
    PROVE  ListInv'
<1> USE DEF ListInv
<1>1. /\ job[t].phase \in {"listed", "unlisted"} /\ Ends(t)
      /\ UNCHANGED <<engineRows, strays, refreshes, engineFaults>>
  BY DEF LoadReturns
<1>2. ~WillRefresh(t)
  BY <1>1 DEF WillRefresh
<1>3. TurnsTaken' /\ GensBounded' /\ ReadFresh' /\ (AtWork => AtWork')
  BY <1>1, <1>2, EndsKeep
<1>4. /\ job' \in [Jobs -> JobRecords] /\ lockWaiters' \in Seq(Jobs)
      /\ mutating' \in BOOLEAN /\ WaitersWait'
  BY <1>1, EndsTakes
<1>5. opError' \in {"none", "delete", "fork"} /\ opErrors' \in Nat
  BY DEF LoadReturns, AfterLoad, PublishError, ListTypeOK
<1>6. CASE ~Newest(t)
  <2>1. UNCHANGED <<shown, loading, settledLoading, dropped>>
    BY <1>6 DEF LoadReturns, screenList
  <2>2. ShownFresh'
    BY <1>1, <1>3, <2>1, ShownKeeps
  <2>3. ListTypeOK'
    BY <1>1, <1>4, <1>5, <2>1 DEF ListTypeOK
  <2> QED BY <1>3, <1>4, <2>2, <2>3
<1>7. CASE Newest(t) /\ job[t].cancelled
  <2>1. loading' = job[t].restore /\ UNCHANGED <<shown, settledLoading>>
    BY <1>7 DEF LoadReturns
  <2>2. dropped' = TRUE
    BY <1>7 DEF LoadReturns
  <2>3. ShownFresh'
    BY <2>2 DEF ShownFresh
  <2>4. loading' \in LoadStates
    BY <2>1 DEF ListTypeOK, JobRecords
  <2>5. dropped' \in BOOLEAN
    BY <2>2
  <2>6. ListTypeOK'
    BY <1>1, <1>4, <1>5, <2>1, <2>4, <2>5 DEF ListTypeOK
  <2> QED BY <1>3, <1>4, <2>3, <2>6
<1>8. CASE Newest(t) /\ ~job[t].cancelled /\ job[t].phase = "listed"
  <2>1. shown' = job[t].got /\ loading' = "loaded" /\ settledLoading' = "loaded"
    BY <1>8 DEF LoadReturns
  <2>2. UNCHANGED dropped
    BY <1>8 DEF LoadReturns
  <2>3. Fresh(job[t].got) \/ AtWork
    BY <1>8 DEF ReadFresh
  <2>4. Fresh(job[t].got) => (Fresh(shown))'
    BY <1>1, <2>1 DEF Fresh
  <2>5. ShownFresh'
    BY <1>3, <2>3, <2>4 DEF ShownFresh
  <2>6. shown' \subseteq Stored \union Copies
    BY <2>1 DEF ListTypeOK, JobRecords
  <2>7. ListTypeOK'
    BY <1>1, <1>4, <1>5, <2>1, <2>2, <2>6 DEF ListTypeOK, LoadStates
  <2> QED BY <1>3, <1>4, <2>5, <2>7
<1>9. CASE Newest(t) /\ ~job[t].cancelled /\ job[t].phase # "listed"
  <2>1. UNCHANGED shown /\ loading' = "failed" /\ settledLoading' = "failed"
    BY <1>9 DEF LoadReturns
  <2>2. UNCHANGED dropped
    BY <1>9 DEF LoadReturns
  <2>3. ShownFresh'
    BY <2>1 DEF ShownFresh
  <2>4. ListTypeOK'
    BY <1>1, <1>4, <1>5, <2>1, <2>2 DEF ListTypeOK, LoadStates
  <2> QED BY <1>3, <1>4, <2>3, <2>4
<1> QED BY <1>6, <1>7, <1>8, <1>9


(* Deletes and forks wait their turn, or take it.                          *)
LEMMA AcquireStep ==
    ASSUME ListInv, NEW t \in Jobs, NEW asking \in JobRecords,
           job[t].phase = "unused", asking.phase = "asked", asking.gen = 0,
           asking.kind # "refresh", asking.failed = FALSE, Acquire(t, asking),
           UNCHANGED <<engineRows, strays, screenList, opError, opErrors, refreshes,
                       engineFaults>>
    PROVE  ListInv'
<1> USE DEF ListInv
<1>1. /\ job' \in [Jobs -> JobRecords] /\ lockWaiters' \in Seq(Jobs)
      /\ mutating' \in BOOLEAN /\ WaitersWait'
      /\ \A d \in Jobs \ {t} : job'[d] = job[d]
      /\ job'[t].phase \in {"asked", "waiting"} /\ job'[t].gen = 0
      /\ job'[t].kind # "refresh" /\ job'[t].failed = FALSE
  BY AcquireTakes
<1>2. UNCHANGED <<engineRows, strays, shown, loading, settledLoading, dropped, opError,
                  opErrors, refreshes, engineFaults>>
  BY DEF screenList
<1>3. ListTypeOK'
  BY <1>1, <1>2, Zenon DEF ListTypeOK
<1>4. TurnsTaken'
  BY <1>1 DEF TurnsTaken
<1>5. AtWork => AtWork'
  <2>1. ~WillRefresh(t)
    BY DEF WillRefresh
  <2>2. \A d \in Jobs \ {t} : WillRefresh(d) => WillRefresh(d)'
    BY <1>1 DEF WillRefresh
  <2> QED BY <2>1, <2>2 DEF AtWork
<1>6. GensBounded' /\ ReadFresh'
  <2>1. \A d \in Jobs : job'[d].gen \in {0, job[d].gen, refreshes'}
    BY <1>1
  <2>2. \A d \in Jobs : job'[d].phase = "listed" =>
           /\ job[d].phase = "listed"
           /\ job'[d].got = job[d].got /\ job'[d].gen = job[d].gen
    BY <1>1
  <2> QED BY <1>2, <1>5, <2>1, <2>2, ReadsKeep
<1>7. ShownFresh'
  BY <1>2, <1>5, ShownKeeps
<1> QED BY <1>1, <1>3, <1>4, <1>6, <1>7

(* delete starts or queues: nothing has changed in the store yet.          *)
LEMMA DeleteStep ==
    ASSUME ListInv, NEW t \in Jobs, NEW rows \in SUBSET shown, DeleteRows(t, rows)
    PROVE  ListInv'
<1> DEFINE asking == [NoJob EXCEPT !.phase = "asked", !.kind = "delete", !.left = rows]
<1>1. rows \subseteq Stored \union Copies
  BY DEF ListInv, ListTypeOK
<1>2. /\ asking \in JobRecords /\ asking.phase = "asked" /\ asking.gen = 0
      /\ asking.kind # "refresh" /\ asking.failed = FALSE
  BY <1>1 DEF NoJob, JobRecords, Phases, LoadStates
<1>3. /\ job[t].phase = "unused" /\ Acquire(t, asking)
      /\ UNCHANGED <<engineRows, strays, screenList, opError, opErrors, refreshes,
                     engineFaults>>
  BY DEF DeleteRows, NextJob
<1> HIDE DEF asking
<1> QED BY <1>2, <1>3, AcquireStep

(* fork likewise.                                                          *)
LEMMA ForkStep ==
    ASSUME ListInv, NEW t \in Jobs, NEW row \in shown, ForkRow(t, row)
    PROVE  ListInv'
<1> DEFINE asking == [NoJob EXCEPT !.phase = "asked", !.kind = "fork", !.left = {row}]
<1>1. {row} \subseteq Stored \union Copies
  BY DEF ListInv, ListTypeOK
<1>2. /\ asking \in JobRecords /\ asking.phase = "asked" /\ asking.gen = 0
      /\ asking.kind # "refresh" /\ asking.failed = FALSE
  BY <1>1 DEF NoJob, JobRecords, Phases, LoadStates
<1>3. /\ job[t].phase = "unused" /\ Acquire(t, asking)
      /\ UNCHANGED <<engineRows, strays, screenList, opError, opErrors, refreshes,
                     engineFaults>>
  BY DEF ForkRow, NextJob
<1> HIDE DEF asking
<1> QED BY <1>2, <1>3, AcquireStep

(* Whoever changes the store is at work on it, but for a fork that failed: *)
(* what that leaves may be missing from the list.                          *)
LEMMA MutatesStep ==
    ASSUME ListInv, NEW t \in Jobs, EngineMutates(t)
    PROVE  ListInv'
<1> USE DEF ListInv
<1>0. UNCHANGED <<shown, loading, settledLoading, dropped, opError, opErrors, refreshes,
                  mutating, lockWaiters>>
  BY DEF EngineMutates, screenList, lockVars
<1>1. PICK row \in job[t].left, ok \in BOOLEAN, changed \in BOOLEAN :
         /\ ok => changed
         /\ IF job[t].kind = "fork" /\ row \notin engineRows
            THEN ~ok /\ ~changed /\ UNCHANGED <<engineRows, engineFaults>>
            ELSE /\ IF ok THEN UNCHANGED engineFaults ELSE EngineFails
                 /\ engineRows' = IF ~changed THEN engineRows
                            ELSE IF job[t].kind = "delete" THEN engineRows \ {row}
                            ELSE engineRows \union {MaxStored + t}
         /\ strays' = IF ok THEN strays ELSE strays \union (engineRows' \ engineRows)
         /\ job' = [job EXCEPT ![t].phase = "told", ![t].left = @ \ {row},
                               ![t].failed = @ \/ ~ok]
  BY DEF EngineMutates
<1>2. /\ job[t] \in JobRecords /\ job[t].phase = "asked" /\ job[t].kind \in {"delete", "fork"}
      /\ job[t].kind = "fork" => ~job[t].failed
  BY DEF EngineMutates, TurnsTaken, ListTypeOK, JobRecords
<1> DEFINE q == [job[t] EXCEPT !.phase = "told", !.left = @ \ {row}, !.failed = @ \/ ~ok]
<1>3. /\ q \in JobRecords /\ q.phase = "told" /\ q.gen = job[t].gen /\ q.kind = job[t].kind
  BY <1>2 DEF JobRecords, Phases
<1>4. job[t].kind = "fork" /\ ok => ~q.failed
  BY <1>2 DEF JobRecords
<1>5. job' = [job EXCEPT ![t] = q]
  BY <1>1
<1> HIDE DEF q
<1>6. /\ job' \in [Jobs -> JobRecords] /\ job'[t] = q
      /\ \A d \in Jobs \ {t} : job'[d] = job[d]
  BY <1>3, <1>5 DEF ListTypeOK
<1>7. /\ engineRows' \union strays' \subseteq Stored \union Copies
      /\ engineFaults' \in 0..MaxEngineFaults
  <2>1. MaxStored + t \in Copies
    BY DEF Copies
  <2>2. engineRows' \subseteq engineRows \union {MaxStored + t}
    BY <1>1
  <2>3. strays' \subseteq strays \union engineRows'
    BY <1>1
  <2>4. engineFaults' \in 0..MaxEngineFaults
    BY <1>1, ListAssumption DEF EngineFails, ListTypeOK
  <2> QED BY <2>1, <2>2, <2>3, <2>4 DEF ListTypeOK
<1>8. ListTypeOK'
  BY <1>0, <1>6, <1>7 DEF ListTypeOK
<1>9. WaitersWait' /\ TurnsTaken'
  BY <1>0, <1>2, <1>3, <1>6 DEF WaitersWait, TurnsTaken, ListTypeOK
<1>10. GensBounded'
  BY <1>0, <1>3, <1>6 DEF GensBounded
<1>11. CASE job[t].kind = "delete" \/ ok
  <2>1. WillRefresh(t)'
    BY <1>2, <1>3, <1>4, <1>6, <1>11 DEF WillRefresh
  <2>2. AtWork'
    BY <2>1 DEF AtWork
  <2> QED BY <1>8, <1>9, <1>10, <2>2 DEF ReadFresh, ShownFresh
<1>12. CASE job[t].kind = "fork" /\ ~ok
  <2>1. engineRows \subseteq engineRows' /\ strays' = strays \union (engineRows' \ engineRows)
    BY <1>1, <1>12
  <2>2. \A rows : Fresh(rows) => (rows \subseteq engineRows' /\ engineRows' \ rows \subseteq strays')
    BY <2>1 DEF Fresh
  <2>3. ~WillRefresh(t)
    BY <1>2, <1>12 DEF WillRefresh
  <2>4. \A d \in Jobs \ {t} : WillRefresh(d) => WillRefresh(d)'
    BY <1>6 DEF WillRefresh
  <2>5. AtWork => AtWork'
    BY <2>3, <2>4 DEF AtWork
  <2>6. ReadFresh'
    <3> SUFFICES ASSUME NEW d \in Jobs, job'[d].phase = "listed", job'[d].gen = refreshes'
                 PROVE  (Fresh(job[d].got))' \/ AtWork'
      BY DEF ReadFresh, Newest
    <3>1. d # t
      BY <1>3, <1>6
    <3>2. Fresh(job[d].got) \/ AtWork
      BY <1>0, <1>6, <3>1 DEF ReadFresh, Newest
    <3>3. Fresh(job[d].got) => (Fresh(job[d].got))'
      BY <1>6, <2>2, <3>1 DEF Fresh
    <3> QED BY <2>5, <3>2, <3>3
  <2>7. Fresh(shown) => Fresh(shown)'
    BY <1>0, <2>2 DEF Fresh
  <2>8. ShownFresh'
    BY <1>0, <2>5, <2>7 DEF ShownFresh
  <2> QED BY <1>8, <1>9, <1>10, <2>6, <2>8
<1> QED BY <1>2, <1>11, <1>12

(* A change is answered: the next deletion, the refresh that supersedes    *)
(* what was read before, or the end of a fork that failed.                 *)
LEMMA MutationStep ==
    ASSUME ListInv, NEW t \in Jobs, MutationReturns(t)
    PROVE  ListInv'
<1> USE DEF ListInv
<1>1. /\ job[t].phase = "told"
      /\ UNCHANGED <<engineRows, strays, shown, settledLoading, engineFaults>>
  BY DEF MutationReturns
<1>2. CASE job[t].kind = "fork" /\ job[t].failed
  <2>1. /\ PublishError("fork") /\ Ends(t) /\ UNCHANGED <<loading, refreshes>>
    BY <1>2 DEF MutationReturns
  <2>2. UNCHANGED dropped
    BY <1>2 DEF MutationReturns
  <2>3. ~WillRefresh(t)
    BY <1>2 DEF WillRefresh
  <2>4. TurnsTaken' /\ GensBounded' /\ ReadFresh' /\ (AtWork => AtWork')
    BY <1>1, <2>1, <2>3, EndsKeep
  <2>5. /\ job' \in [Jobs -> JobRecords] /\ lockWaiters' \in Seq(Jobs)
        /\ mutating' \in BOOLEAN /\ WaitersWait'
    BY <1>1, <2>1, EndsTakes
  <2>6. ShownFresh'
    BY <1>1, <2>1, <2>2, <2>4, ShownKeeps
  <2>7. ListTypeOK'
    BY <1>1, <2>1, <2>2, <2>5 DEF ListTypeOK, PublishError
  <2> QED BY <2>4, <2>5, <2>6, <2>7
<1>3. CASE job[t].kind = "delete" /\ job[t].left # {}
  <2>1. /\ job' = [job EXCEPT ![t].phase = "asked"]
        /\ UNCHANGED <<loading, refreshes, opError, opErrors, lockWaiters>>
    BY <1>3 DEF MutationReturns, lockVars
  <2>2. UNCHANGED <<dropped, mutating>>
    BY <1>3 DEF MutationReturns, lockVars
  <2>3. /\ job' \in [Jobs -> JobRecords] /\ \A d \in Jobs \ {t} : job'[d] = job[d]
        /\ job'[t].phase = "asked" /\ job'[t].kind = job[t].kind
        /\ job'[t].gen = job[t].gen /\ job'[t].got = job[t].got
        /\ job'[t].failed = job[t].failed
    <3>1. job \in [Jobs -> JobRecords] /\ "asked" \in Phases
      BY DEF ListTypeOK, Phases
    <3> QED BY <2>1, <3>1, TaskGoes
  <2>4. ListTypeOK'
    BY <1>1, <2>1, <2>2, <2>3, Zenon DEF ListTypeOK
  <2>5. WaitersWait' /\ TurnsTaken'
    BY <1>1, <1>3, <2>1, <2>3 DEF WaitersWait, TurnsTaken, ListTypeOK
  <2>6. GensBounded' /\ ReadFresh' /\ ShownFresh'
    <3>1. WillRefresh(t)'
      BY <1>3, <2>3 DEF WillRefresh
    <3>2. AtWork'
      BY <3>1 DEF AtWork
    <3>3. GensBounded'
      BY <2>1, <2>3 DEF GensBounded
    <3> QED BY <3>2, <3>3 DEF ReadFresh, ShownFresh
  <2> QED BY <2>4, <2>5, <2>6
<1>4. CASE /\ ~(job[t].kind = "fork" /\ job[t].failed)
           /\ ~(job[t].kind = "delete" /\ job[t].left # {})
  <2>1. /\ job' = [job EXCEPT ![t] = Refreshing(t)] /\ BeginLoad
        /\ UNCHANGED <<opError, opErrors, lockWaiters>>
    BY <1>4 DEF MutationReturns, lockVars
  <2>2. UNCHANGED mutating
    BY <1>4 DEF MutationReturns, lockVars
  <2>3. /\ job' \in [Jobs -> JobRecords] /\ refreshes' \in Nat
        /\ loading' \in LoadStates /\ dropped' \in BOOLEAN
        /\ WaitersWait' /\ TurnsTaken' /\ GensBounded' /\ ReadFresh' /\ ShownFresh'
    BY <1>1, <2>1, LoadBegins
  <2>4. ListTypeOK'
    BY <1>1, <2>1, <2>2, <2>3, Zenon DEF ListTypeOK
  <2> QED BY <2>3, <2>4
<1> QED BY <1>2, <1>3, <1>4


(***************************************************************************)
(* The theorems.                                                           *)
(***************************************************************************)
(* Before the first load there is nothing shown and nothing read.          *)
LEMMA ListStarts == ListInit => ListInv
<1> SUFFICES ASSUME ListInit PROVE ListInv
  OBVIOUS
<1>1. NoJob \in JobRecords
  BY DEF NoJob, JobRecords, Phases, LoadStates
<1>2. job \in [Jobs -> JobRecords] /\ \A t \in Jobs : job[t] = NoJob
  BY <1>1 DEF ListInit
<1>3. mutating \in BOOLEAN /\ dropped \in BOOLEAN
  BY DEF ListInit
<1>4. ListTypeOK
  BY <1>2, <1>3, ListAssumption DEF ListInit, ListTypeOK, LoadStates
<1>5. WaitersWait /\ TurnsTaken
  BY <1>2 DEF ListInit, WaitersWait, TurnsTaken, NoJob
<1>6. GensBounded /\ ReadFresh /\ ShownFresh
  BY <1>2 DEF ListInit, GensBounded, ReadFresh, ShownFresh, NoJob
<1> QED BY <1>4, <1>5, <1>6 DEF ListInv

(* One case for each action of a task.                                     *)
LEMMA ListSteps == ListInv /\ [ListNext]_listVars => ListInv'
<1> SUFFICES ASSUME ListInv, [ListNext]_listVars PROVE ListInv'
  OBVIOUS
<1>1. CASE UNCHANGED listVars
  BY <1>1 DEF listVars, ListInv, ListTypeOK, WaitersWait, TurnsTaken, GensBounded,
              ReadFresh, ShownFresh, Newest, Fresh, AtWork, WillRefresh
<1>2. ASSUME NEW t \in Jobs, Refresh(t)  PROVE  ListInv'
  BY <1>2, RefreshStep
<1>3. ASSUME NEW t \in Jobs, CancelRefresh(t)  PROVE  ListInv'
  BY <1>3, CancelStep
<1>4. ASSUME NEW t \in Jobs, ListStep(t)  PROVE  ListInv'
  BY <1>4, ReturnsStep, ListsStep, MutatesStep, MutationStep DEF ListStep
<1>5. ASSUME NEW t \in Jobs, NEW rows \in SUBSET shown, DeleteRows(t, rows)
      PROVE  ListInv'
  BY <1>5, DeleteStep
<1>6. ASSUME NEW t \in Jobs, NEW row \in shown, ForkRow(t, row)  PROVE  ListInv'
  BY <1>6, ForkStep
<1> QED BY <1>1, <1>2, <1>3, <1>4, <1>5, <1>6 DEF ListNext

(* The invariant: what a load has read is the store as it is, unless a     *)
(* newer load has begun or somebody is still at work.                      *)
THEOREM ListInvariant == ListSpec => []ListInv
<1> QED BY ListStarts, ListSteps, PTL DEF ListSpec

(* No step leaves the states the model's types name.                       *)
THEOREM ListTypeCorrect == ListSpec => []ListTypeOK
<1>1. ListInv => ListTypeOK
  BY DEF ListInv
<1> QED BY <1>1, ListInvariant, PTL

(* When all has settled and the list shows as loaded, it is the store's:   *)
(* neither a deleted session nor a missing fork, however the loads and     *)
(* changes overlapped and failed.                                          *)
THEOREM ListIsTheStores == ListSpec => []ListShown
<1>1. ListInv => ListShown
  <2> SUFFICES ASSUME ListInv, loading = "loaded", ~dropped, \A t \in Jobs : ~InFlight(t)
               PROVE  Fresh(shown)
    BY DEF ListShown, Fresh
  <2>1. \A t \in Jobs : ~WillRefresh(t)
    BY DEF InFlight, WillRefresh
  <2> QED BY <2>1 DEF ListInv, ShownFresh, AtWork
<1> QED BY <1>1, ListInvariant, PTL
=============================================================================
