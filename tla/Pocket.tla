-------------------------------- MODULE Pocket --------------------------------
(***************************************************************************)
(* The parts of the app around the session store, side by side: sign-in,   *)
(* the Companion's pairing gate, a watched remote session, the familiar    *)
(* roster, a git workspace, the chat's screen, the storage root and the    *)
(* list of sessions.  They share no state: what one makes of another is a  *)
(* choice in its own module (the gate's answer in RemoteAttach, the        *)
(* agent's edits in GitWorkspaces).                                        *)
(* A behaviour is therefore one part's behaviour while the others stand    *)
(* still: `focus` is the part, chosen once, and nothing is lost by not     *)
(* interleaving parts whose steps commute and whose properties are apart.  *)
(***************************************************************************)
EXTENDS Authentication, CompanionGate, RemoteAttach, FamiliarRoster, GitWorkspaces,
        ChatSurface, StorageRoot, SessionList

VARIABLE focus

Parts == {"auth", "gate", "attach", "roster", "git", "chat", "storage", "list"}

pocketVars == <<focus, authVars, gateVars, attachVars, rosterVars, gitVars, surfaceVars,
                storageVars, listVars>>

(* The types of the part that moves: the others are as they began.         *)
PocketTypeOK ==
    CASE focus = "auth" -> AuthTypeOK
      [] focus = "gate" -> GateTypeOK
      [] focus = "attach" -> AttachTypeOK
      [] focus = "roster" -> RosterTypeOK
      [] focus = "git" -> GitTypeOK
      [] focus = "chat" -> SurfaceTypeOK
      [] focus = "storage" -> StorageTypeOK
      [] focus = "list" -> ListTypeOK

PocketInit ==
    /\ focus \in Parts
    /\ AuthInit /\ GateInit /\ AttachInit /\ RosterInit /\ GitInit /\ SurfaceInit
    /\ StorageInit /\ ListInit

PocketNext ==
    /\ UNCHANGED focus
    /\ \/ /\ focus = "auth" /\ AuthNext
          /\ UNCHANGED <<gateVars, attachVars, rosterVars, gitVars, surfaceVars,
                         storageVars, listVars>>
       \/ /\ focus = "gate" /\ GateNext
          /\ UNCHANGED <<authVars, attachVars, rosterVars, gitVars, surfaceVars,
                         storageVars, listVars>>
       \/ /\ focus = "attach" /\ AttachNext
          /\ UNCHANGED <<authVars, gateVars, rosterVars, gitVars, surfaceVars,
                         storageVars, listVars>>
       \/ /\ focus = "roster" /\ RosterNext
          /\ UNCHANGED <<authVars, gateVars, attachVars, gitVars, surfaceVars,
                         storageVars, listVars>>
       \/ /\ focus = "git" /\ GitNext
          /\ UNCHANGED <<authVars, gateVars, attachVars, rosterVars, surfaceVars,
                         storageVars, listVars>>
       \/ /\ focus = "chat" /\ SurfaceNext
          /\ UNCHANGED <<authVars, gateVars, attachVars, rosterVars, gitVars,
                         storageVars, listVars>>
       \/ /\ focus = "storage" /\ StorageNext
          /\ UNCHANGED <<authVars, gateVars, attachVars, rosterVars, gitVars,
                         surfaceVars, listVars>>
       \/ /\ focus = "list" /\ ListNext
          /\ UNCHANGED <<authVars, gateVars, attachVars, rosterVars, gitVars,
                         surfaceVars, storageVars>>

PocketSpec == PocketInit /\ [][PocketNext]_pocketVars

(* What goes on without a user, a browser or a daemon that answers.        *)
PocketFairness ==
    /\ \A c \in SignIns : WF_authVars(focus = "auth" /\ Proceeds(c))
    /\ \A g \in Gates : /\ WF_gateVars(focus = "gate" /\ PerformGate(g))
                        /\ WF_gateVars(focus = "gate" /\ GateReturns(g))
    /\ \A v \in Views : WF_attachVars(focus = "attach" /\ PollStep(v))
    /\ \A t \in Jobs : WF_listVars(focus = "list" /\ ListStep(t))

FairSpec == PocketSpec /\ PocketFairness

(* Again and again no sign-in is open, no gate is in flight, no row of the *)
(* ledger is missing from a watched transcript and no task of the session  *)
(* list waits: each of them ends though the browser, the daemon or the     *)
(* user never answers.                                                     *)
Settles == []<>(SignInsClosed /\ GatesAnswered /\ RowsShown /\ ListQuiet)
=============================================================================
