---------------------------- MODULE CompanionGate ----------------------------
(***************************************************************************)
(* Pairing with a remote daemon and the gate in front of session traffic.  *)
(* The app holds two `CompanionModel`s (CompanionModel.swift): the one of  *)
(* the Companion tab ("view") and the one of the chat ("chat"), which      *)
(* reloads the pairing before each gate.  Both run on the main actor and   *)
(* share one Keychain item.  The handshake (daemon.rs) is an await.        *)
(***************************************************************************)
EXTENDS Naturals, FiniteSets

CONSTANTS
    Addresses,       \* host and port as one value
    NoPairing,
    Kinds,           \* what may come to listen at an address
    MaxGates,        \* calls of gateForSessionTraffic
    MaxConfirms,     \* confirmed pairings
    MaxChanges,      \* restarts and replacements of what listens at an address
    MaxLostSaves     \* Keychain writes and deletes that fail without an error

ASSUME GateAssumption == /\ Addresses # {}
                         /\ Kinds \subseteq {"down", "other", "sick", "old", "v1"}
                         /\ {MaxGates, MaxConfirms, MaxChanges, MaxLostSaves} \subseteq Nat
                         /\ NoPairing \notin [addr : Addresses, at : Nat, pid : Nat]

VARIABLES
    service,      \* what answers at each address: its kind and its pid
    field,        \* the address in the text fields
    asked,        \* the addresses with a beginPairing handshake in flight
    staged,       \* pid of pendingIdentity, 0 for nil
    stored,       \* the pairing in the Keychain
    pairing,      \* `pairing` of each model
    gateGen,      \* sessionGateGeneration of each model
    gateOp,       \* sessionGateOperation of each model: the call that made it, 0 for nil
    gate,         \* the calls of gateForSessionTraffic
    task,         \* the check each call started
    confirms, changes, lostSaves

gateVars == <<service, field, asked, staged, stored, pairing, gateGen, gateOp,
              gate, task, confirms, changes, lostSaves>>

Models == {"view", "chat"}
Gates  == 1..MaxGates
Pids   == 1..(MaxChanges + 1)
DaemonPairing == [addr : Addresses, at : 1..MaxConfirms, pid : Pids]
Pairings == DaemonPairing \union {NoPairing}

(***************************************************************************)
(* daemon.rs.  A response is what extract_json and the lookups find in it. *)
(***************************************************************************)
Body == [json : BOOLEAN, error : {"none", "plain", "versions"}, ok : BOOLEAN,
         version : {"none", "v2", "v1"}, pid : {0} \union Pids]

(* What a service may send back, and what the transport may do instead: one*)
(* budget spans the lookup, the connection and the exchange.               *)
Responses(s) ==
    LET say(e, ok, v, p) ==
            [json |-> TRUE, error |-> e, ok |-> ok, version |-> v, pid |-> p] IN
    CASE s.kind = "down"  -> {}
      [] s.kind = "other" -> {[say("none", FALSE, "none", 0) EXCEPT !.json = FALSE],
                              say("plain", FALSE, "none", 0)}
      [] s.kind = "sick"  -> {say("none", FALSE, "v1", s.pid), say("none", TRUE, "v1", 0)}
      [] s.kind = "old"   -> {say("versions", FALSE, "none", 0),
                              say("none", TRUE, "v2", s.pid), say("none", TRUE, "none", s.pid)}
      [] s.kind = "v1"    -> {say("none", TRUE, "v1", s.pid)}

Fetch(s) ==
    [outcome : IF s.kind = "down" THEN {"unresolvable", "refused", "timed out", "failed"}
               ELSE {"timed out", "failed"}]
    \union [outcome : {"response"}, body : Responses(s)]

ClassifyHandshake(b) ==
    IF ~b.json \/ b.error = "plain" THEN "not a daemon"
    ELSE IF b.error = "versions" THEN "version mismatch"
    ELSE IF ~b.ok THEN "not a daemon"
    ELSE IF b.version # "v1" THEN "version mismatch"
    ELSE IF b.pid = 0 THEN "not a daemon" ELSE "compatible"

Handshake(s) ==
    {IF x.outcome = "response" THEN ClassifyHandshake(x.body) ELSE x.outcome : x \in Fetch(s)}

(***************************************************************************)
(* State.                                                                  *)
(***************************************************************************)
Results == {"none", "ready", "blocked", "superseded", "not paired"}
NoGate == [phase |-> "unused", model |-> "view", of |-> 0, result |-> "none"]
Answer(result) == [NoGate EXCEPT !.phase = "answered", !.result = result]
NoTask == [phase |-> "none", gen |-> 0, from |-> NoPairing, result |-> "none",
           pairing |-> NoPairing]

GateTypeOK ==
    /\ service \in [Addresses -> [kind : {"v1"} \union Kinds, pid : Pids]]
    /\ field \in Addresses /\ asked \subseteq Addresses /\ staged \in {0} \union Pids
    /\ stored \in Pairings /\ pairing \in [Models -> Pairings]
    /\ gateGen \in [Models -> Nat] /\ gateOp \in [Models -> {0} \union Gates]
    /\ gate \in [Gates -> [phase : {"unused", "waiting", "answered"}, model : Models,
                           of : {0} \union Gates, result : Results]]
    /\ task \in [Gates -> [phase : {"none", "asking", "done"}, gen : Nat, from : Pairings,
                           result : Results, pairing : Pairings]]
    /\ confirms \in 0..MaxConfirms /\ changes \in 0..MaxChanges
    /\ lostSaves \in 0..MaxLostSaves

GateInit ==
    /\ service = [a \in Addresses |-> [kind |-> "v1", pid |-> 1]]
    /\ field = CHOOSE a \in Addresses : TRUE
    /\ asked = {} /\ staged = 0
    /\ stored = NoPairing /\ pairing = [m \in Models |-> NoPairing]
    /\ gateGen = [m \in Models |-> 0] /\ gateOp = [m \in Models |-> 0]
    /\ gate = [g \in Gates |-> NoGate] /\ task = [g \in Gates |-> NoTask]
    /\ confirms = 0 /\ changes = 0 /\ lostSaves = 0

(* store.save, and store.clear for no pairing: they return nothing, so     *)
(* nobody learns that the Keychain refused.                                *)
Save(p) ==
    \/ stored' = p /\ UNCHANGED lostSaves
    \/ /\ lostSaves < MaxLostSaves /\ lostSaves' = lostSaves + 1
       /\ UNCHANGED stored

(* invalidateSessionGate of model m.                                       *)
InvalidateGate(m) ==
    /\ gateGen' = [gateGen EXCEPT ![m] = @ + 1]
    /\ gateOp' = [gateOp EXCEPT ![m] = 0]

(***************************************************************************)
(* Pairing, in the Companion tab.                                          *)
(***************************************************************************)
Pairs == <<service, field, asked, staged, confirms, changes>>

(* The text fields can be edited while the handshake runs (an edit before  *)
(* it is BeginPairing's choice); the sheet that asks covers them.          *)
EditField(a) ==
    /\ asked # {} /\ a # field
    /\ field' = a
    /\ UNCHANGED <<service, asked, staged, stored, pairing, gateGen, gateOp, gate,
                   task, confirms, changes, lostSaves>>

BeginPairing(a) ==
    /\ pairing["view"] = NoPairing /\ asked = {} /\ staged = 0
    /\ confirms < MaxConfirms
    /\ field' = a /\ asked' = {a}
    /\ UNCHANGED <<service, staged, stored, pairing, gateGen, gateOp, gate,
                   task, confirms, changes, lostSaves>>

PairingAnswered(a) ==
    /\ a \in asked /\ asked' = asked \ {a}
    /\ \E answer \in Handshake(service[a]) :
          staged' = IF answer = "compatible" THEN service[a].pid ELSE staged
    /\ UNCHANGED <<service, field, stored, pairing, gateGen, gateOp, gate, task,
                   confirms, changes, lostSaves>>

(* confirmPairing takes the address from the fields and the identity from  *)
(* the handshake; what the Keychain gives back is kept if it matches.      *)
ConfirmPairing ==
    /\ staged # 0 /\ confirms < MaxConfirms
    /\ LET p == [addr |-> field, at |-> confirms + 1, pid |-> staged] IN
          /\ Save(p)
          /\ pairing' = [pairing EXCEPT !["view"] = p]
    /\ InvalidateGate("view")
    /\ staged' = 0 /\ confirms' = confirms + 1
    /\ UNCHANGED <<service, field, asked, gate, task, changes>>

CancelPairing ==
    /\ staged # 0 /\ staged' = 0
    /\ UNCHANGED <<service, field, asked, stored, pairing, gateGen, gateOp, gate,
                   task, confirms, changes, lostSaves>>

Unpair ==
    /\ pairing["view"] # NoPairing
    /\ Save(NoPairing)
    /\ pairing' = [pairing EXCEPT !["view"] = NoPairing]
    /\ InvalidateGate("view")
    /\ UNCHANGED <<service, field, asked, staged, gate, task, confirms, changes>>

(***************************************************************************)
(* The gate.                                                               *)
(***************************************************************************)
SameConfirmation(p, q) ==
    p # NoPairing /\ q # NoPairing /\ p.addr = q.addr /\ p.at = q.at

(* reloadPairing, before a gate of the chat: another model has saved.      *)
Reloads(m) == m = "chat" /\ stored # pairing[m]

(* gateForSessionTraffic up to its await, by the next unused call, after   *)
(* the chat's reloadPairing: join the check in flight or start one.        *)
CallGate(m, g) ==
    /\ gate[g].phase = "unused" /\ \A h \in Gates : h < g => gate[h].phase # "unused"
    /\ LET reload  == Reloads(m)
           current == IF reload THEN stored ELSE pairing[m]
           gen     == IF reload THEN gateGen[m] + 1 ELSE gateGen[m]
           op      == IF reload THEN 0 ELSE gateOp[m]
           joins   == op # 0 /\ SameConfirmation(task[op].from, current)
           waits(t) == gate' = [gate EXCEPT ![g] = [NoGate EXCEPT !.phase = "waiting",
                                                                  !.model = m, !.of = t]]
       IN /\ pairing' = [pairing EXCEPT ![m] = current]
          /\ IF current = NoPairing
             THEN /\ gate' = [gate EXCEPT ![g] = Answer("not paired")]
                  /\ gateGen' = [gateGen EXCEPT ![m] = gen]
                  /\ gateOp' = [gateOp EXCEPT ![m] = op]
                  /\ UNCHANGED task
             ELSE IF joins
             THEN /\ waits(op)
                  /\ UNCHANGED <<gateGen, gateOp, task>>
             ELSE /\ waits(g)
                  /\ gateGen' = [gateGen EXCEPT ![m] = gen + 1]
                  /\ gateOp' = [gateOp EXCEPT ![m] = g]
                  /\ task' = [task EXCEPT ![g] = [NoTask EXCEPT !.phase = "asking",
                                                     !.gen = gen + 1, !.from = current]]
    /\ UNCHANGED <<Pairs, stored, lostSaves>>

(* The guard of performSessionGate after its handshake.                    *)
StillCurrent(t) ==
    LET m == gate[t].model IN
    /\ task[t].gen = gateGen[m]
    /\ SameConfirmation(pairing[m], task[t].from)
    /\ SameConfirmation(stored, task[t].from)
    /\ stored.pid = task[t].from.pid

(* performSessionGate from the handshake's answer to its end.              *)
PerformGate(t) ==
    /\ task[t].phase = "asking"
    /\ \E answer \in Handshake(service[task[t].from.addr]) :
          LET m == gate[t].model
              fresh == [task[t].from EXCEPT !.pid = service[task[t].from.addr].pid]
              finish(result, p) == task' = [task EXCEPT ![t] = [@ EXCEPT
                                     !.phase = "done", !.result = result, !.pairing = p]]
          IN IF ~StillCurrent(t)
             THEN finish("superseded", NoPairing) /\ UNCHANGED <<stored, pairing, lostSaves>>
             ELSE IF answer = "compatible"
             THEN /\ finish("ready", fresh)
                  /\ Save(fresh)
                  /\ pairing' = [pairing EXCEPT ![m] = fresh]
             ELSE finish("blocked", task[t].from) /\ UNCHANGED <<stored, pairing, lostSaves>>
    /\ UNCHANGED <<Pairs, gate, gateGen, gateOp>>

(* validatedSessionGateResult, when the caller gets to run again.          *)
(* Mutant: the Keychain is not read again.                                 *)
ValidatedInMemory(m, t) ==
    LET expected == IF task[t].result \in {"ready", "blocked"} /\ task[t].pairing # NoPairing
                    THEN task[t].pairing ELSE task[t].from
    IN IF task[t].gen = gateGen[m] /\ pairing[m] = expected
       THEN task[t].result ELSE "superseded"
Validated(m, t) ==
    LET expected == IF task[t].result \in {"ready", "blocked"} /\ task[t].pairing # NoPairing
                    THEN task[t].pairing ELSE task[t].from
    IN IF task[t].gen = gateGen[m] /\ pairing[m] = expected /\ stored = expected
       THEN task[t].result ELSE "superseded"

GateReturns(g) ==
    /\ gate[g].phase = "waiting" /\ task[gate[g].of].phase = "done"
    /\ LET m == gate[g].model
           t == gate[g].of
       IN /\ gate' = [gate EXCEPT ![g] = Answer(Validated(m, t))]
          /\ gateOp' = [gateOp EXCEPT ![m] = IF t = g /\ @ = g THEN 0 ELSE @]
          /\ task' = IF \E h \in Gates \ {g} : gate[h].phase = "waiting" /\ gate[h].of = t
                     THEN task ELSE [task EXCEPT ![t] = NoTask]
    /\ UNCHANGED <<Pairs, stored, pairing, gateGen, lostSaves>>

(* The daemon restarts under a new pid, or something else takes its place. *)
ServiceChanges(a, kind) ==
    /\ changes < MaxChanges /\ changes' = changes + 1
    /\ service' = [service EXCEPT ![a] = [kind |-> kind, pid |-> changes + 2]]
    /\ UNCHANGED <<field, asked, staged, stored, pairing, gateGen, gateOp, gate, task,
                   confirms, lostSaves>>

GateNext ==
    \/ ConfirmPairing \/ CancelPairing \/ Unpair
    \/ \E a \in Addresses :
          \/ BeginPairing(a) \/ EditField(a) \/ PairingAnswered(a)
          \/ \E kind \in Kinds : ServiceChanges(a, kind)
    \/ \E g \in Gates :
          PerformGate(g) \/ GateReturns(g) \/ \E m \in Models : CallGate(m, g)

GateSpec == GateInit /\ [][GateNext]_gateVars

(***************************************************************************)
(* Properties.                                                             *)
(***************************************************************************)
(* Session traffic starts only towards the pairing that is, at that very   *)
(* moment, both in the Keychain and in the model that asked: a gate that   *)
(* ran across an unpairing or a re-pairing, in this model or the other, is *)
(* never answered ready.                                                   *)
GateCurrent ==
    [][\A g \in Gates : gate'[g].result = "ready" /\ gate[g].result # "ready"
         => /\ stored = task[gate[g].of].pairing
            /\ pairing[gate[g].model] = stored]_gateVars

(* No gate is in flight, joined or not.                                    *)
GatesAnswered == \A g \in Gates : gate[g].phase # "waiting"

(* "restarts are expected": a check gives way only to another pairing than *)
(* the one it was for.                                                     *)
RestartsExpected ==
    [][\A g \in Gates : gate'[g].result = "superseded" /\ gate[g].result # "superseded"
         => ~SameConfirmation(stored, task[gate[g].of].from)]_gateVars
=============================================================================
