---------------------------- MODULE Pocket_proofs ----------------------------
(***************************************************************************)
(* The parts around the session store side by side: what each of them      *)
(* keeps on its own it keeps beside the others.  The argument: a step of   *)
(* the whole is a step of the part in focus, and the others stand still,   *)
(* so that a behaviour of the whole is one of every part's specification.  *)
(***************************************************************************)
EXTENDS Pocket, Remote_proofs, Storage_proofs, Screen_proofs

(* A step of the whole is a step of every part, or leaves it alone.        *)
LEMMA PartSteps ==
    [PocketNext]_pocketVars =>
       /\ [AuthNext]_authVars /\ [GateNext]_gateVars /\ [AttachNext]_attachVars
       /\ [RosterNext]_rosterVars /\ [GitNext]_gitVars /\ [SurfaceNext]_surfaceVars
       /\ [StorageNext]_storageVars /\ [ListNext]_listVars
BY DEF PocketNext, pocketVars

(* The whole implements every part: nothing one of them does is a step     *)
(* another could not take, so what holds of a part alone holds of it here. *)
THEOREM PocketImplementsParts ==
    PocketSpec => /\ AuthSpec /\ GateSpec /\ AttachSpec /\ RosterSpec
                  /\ GitSpec /\ SurfaceSpec /\ StorageSpec /\ ListSpec
<1>1. PocketInit => /\ AuthInit /\ GateInit /\ AttachInit /\ RosterInit
                    /\ GitInit /\ SurfaceInit /\ StorageInit /\ ListInit
  BY DEF PocketInit
<1> QED BY <1>1, PartSteps, PTL
        DEF PocketSpec, AuthSpec, GateSpec, AttachSpec, RosterSpec, GitSpec, SurfaceSpec,
            StorageSpec, ListSpec

(* Every variable of the parts keeps its type, whichever part moves.       *)
THEOREM PocketTypeCorrect == PocketSpec => []PocketTypeOK
<1> DEFINE PartsTyped == /\ AuthTypeOK /\ GateTypeOK /\ AttachTypeOK /\ RosterTypeOK
                         /\ GitTypeOK /\ SurfaceTypeOK /\ StorageTypeOK /\ ListTypeOK
<1>1. focus \in Parts /\ PartsTyped => PocketTypeOK
  BY DEF PocketTypeOK, Parts
<1>2. PocketSpec => [](focus \in Parts)
  <2>1. PocketInit => focus \in Parts
    BY DEF PocketInit
  <2>2. focus \in Parts /\ [PocketNext]_pocketVars => (focus \in Parts)'
    BY DEF PocketNext, pocketVars
  <2> QED BY <2>1, <2>2, PTL DEF PocketSpec
<1>3. PocketSpec => []PartsTyped
  BY PocketImplementsParts, AuthTypeCorrect, GateTypeCorrect, AttachTypeCorrect,
     RosterTypeCorrect, GitTypeCorrect, SurfaceTypeCorrect, StorageTypeCorrect,
     ListTypeCorrect, PTL
<1> QED BY <1>1, <1>2, <1>3, PTL

(* The parts' promises hold side by side: a sign-out stays one, rows come  *)
(* in order, the roster is the daemon's, no turn waits in vain, no write   *)
(* runs that was not allowed, what was stored survives, no commit is lost  *)
(* but to a pull another call overtook, the list is the store's and no     *)
(* gate opens on a pairing that is gone.                                   *)
THEOREM PocketPromises ==
    PocketSpec => /\ [](SignOutHolds /\ EventsInOrder /\ RosterExact /\ AsksReachable)
                  /\ [](WritesAllowed /\ StoredSurvives /\ CommittedStays /\ ListShown)
                  /\ GateCurrent
BY PocketImplementsParts, SignOutIsKept, RowsInOrder, RosterIsExact, TurnsAreHeard,
   WritesAreAllowed, StoredAlwaysSurvives, CommitsStay, ListIsTheStores, ReadyIsCurrent, PTL
=============================================================================
