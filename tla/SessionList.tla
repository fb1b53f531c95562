----------------------------- MODULE SessionList ------------------------------
(***************************************************************************)
(* The list of stored sessions on screen (SessionListModel.swift): tasks   *)
(* on the main actor that load it, delete a selection or fork a session,   *)
(* each interrupted at its awaits.  Deletes and forks take turns, loads do *)
(* not: of several in flight the one that began last is shown.             *)
(***************************************************************************)
EXTENDS Naturals, Sequences

CONSTANTS MaxTasks, MaxStored, MaxEngineFaults

ASSUME ListAssumption == {MaxTasks, MaxStored, MaxEngineFaults} \subseteq Nat

VARIABLES
    job,             \* each task: where it is and what it remembers
    engineRows,      \* sessions the engine lists
    strays,          \* copies a failed fork has left behind
    shown,           \* summaries
    loading,         \* loadState
    settledLoading,  \* settledLoadState
    opError,         \* operationError
    opErrors,        \* operationErrorGeneration
    refreshes,       \* refreshGeneration
    mutating,        \* isMutating
    lockWaiters,     \* mutationWaiters
    dropped,         \* the refresh that began last was cancelled
    engineFaults     \* engine calls that failed

listVars == <<job, engineRows, strays, shown, loading, settledLoading, opError, opErrors,
              refreshes, mutating, lockWaiters, dropped, engineFaults>>
screenList == <<shown, loading, settledLoading, dropped>>
lockVars   == <<mutating, lockWaiters>>

Jobs   == 1..MaxTasks
Stored == 1..MaxStored
Copies == {MaxStored + t : t \in Jobs}     \* of the fork that task t makes

LoadStates == {"idle", "loading", "loaded", "failed"}
NoJob == [phase |-> "unused", kind |-> "refresh", left |-> {}, failed |-> FALSE,
          gen |-> 0, errors |-> 0, restore |-> "idle", got |-> {}, cancelled |-> FALSE]

Phases == {"unused", "waiting", "asked", "told", "loading", "listed", "unlisted", "done"}
JobRecords ==
    [phase : Phases, kind : {"refresh", "delete", "fork"},
     left : SUBSET (Stored \union Copies), failed : BOOLEAN,
     gen : Nat, errors : Nat, restore : LoadStates,
     got : SUBSET (Stored \union Copies), cancelled : BOOLEAN]

ListTypeOK ==
    /\ job \in [Jobs -> JobRecords]
    /\ engineRows \union strays \union shown \subseteq Stored \union Copies
    /\ {loading, settledLoading} \subseteq LoadStates
    /\ opError \in {"none", "delete", "fork"} /\ {opErrors, refreshes} \subseteq Nat
    /\ {mutating, dropped} \subseteq BOOLEAN
    /\ lockWaiters \in Seq(Jobs) /\ engineFaults \in 0..MaxEngineFaults

ListInit ==
    /\ job = [t \in Jobs |-> NoJob]
    /\ engineRows = Stored /\ strays = {} /\ shown = {}
    /\ loading = "idle" /\ settledLoading = "idle"
    /\ opError = "none" /\ opErrors = 0 /\ refreshes = 0
    /\ mutating = FALSE /\ lockWaiters = <<>> /\ dropped = FALSE /\ engineFaults = 0

NextJob(t) == job[t].phase = "unused" /\ \A u \in Jobs : u < t => job[u].phase # "unused"
InFlight(t) == job[t].phase \notin {"unused", "done"}

EngineFails == engineFaults < MaxEngineFaults /\ engineFaults' = engineFaults + 1

(* publishOperationError.                                                  *)
PublishError(e) == opError' = e /\ opErrors' = opErrors + 1

(***************************************************************************)
(* refresh, up to its await.                                               *)
(***************************************************************************)
Refreshing(t) ==
    [job[t] EXCEPT !.phase = "loading", !.left = {}, !.gen = refreshes + 1,
                   !.errors = opErrors, !.restore = settledLoading]
BeginLoad == refreshes' = refreshes + 1 /\ loading' = "loading" /\ dropped' = FALSE

Refresh(t) ==
    /\ NextJob(t)
    /\ job' = [job EXCEPT ![t] = Refreshing(t)] /\ BeginLoad
    /\ UNCHANGED <<engineRows, strays, shown, settledLoading, opError, opErrors, lockVars,
                   engineFaults>>

(* The view goes, and its task is cancelled; the engine's call is not.     *)
CancelRefresh(t) ==
    /\ job[t].kind = "refresh" /\ InFlight(t) /\ ~job[t].cancelled
    /\ job' = [job EXCEPT ![t].cancelled = TRUE]
    /\ UNCHANGED <<engineRows, strays, screenList, opError, opErrors, refreshes, lockVars,
                   engineFaults>>

(* list_sessions reads the store, some time before its answer arrives.     *)
EngineLists(t) ==
    /\ job[t].phase = "loading"
    /\ \/ /\ job' = [job EXCEPT ![t].phase = "listed", ![t].got = engineRows]
          /\ UNCHANGED engineFaults
       \/ EngineFails /\ job' = [job EXCEPT ![t].phase = "unlisted"]
    /\ UNCHANGED <<engineRows, strays, screenList, opError, opErrors, refreshes, lockVars>>

(***************************************************************************)
(* The mutation lock.                                                      *)
(***************************************************************************)
(* acquireMutation for task t, which goes on as `asking` once it has it.   *)
Acquire(t, asking) ==
    IF mutating
    THEN /\ job' = [job EXCEPT ![t] = [asking EXCEPT !.phase = "waiting"]]
         /\ lockWaiters' = Append(lockWaiters, t) /\ UNCHANGED mutating
    ELSE job' = [job EXCEPT ![t] = asking] /\ mutating' = TRUE /\ UNCHANGED lockWaiters

(* What task t leaves when it ends: releaseMutation, if it had the lock,   *)
(* hands it to the waiter that came first.                                 *)
Ends(t) ==
    IF job[t].kind = "refresh"
    THEN job' = [job EXCEPT ![t].phase = "done"] /\ UNCHANGED lockVars
    ELSE IF lockWaiters = <<>>
    THEN /\ job' = [job EXCEPT ![t].phase = "done"]
         /\ mutating' = FALSE /\ UNCHANGED lockWaiters
    ELSE /\ job' = [job EXCEPT ![t].phase = "done", ![Head(lockWaiters)].phase = "asked"]
         /\ lockWaiters' = Tail(lockWaiters) /\ UNCHANGED mutating

(***************************************************************************)
(* The answer of a load.                                                   *)
(***************************************************************************)
(* The guard on refreshGeneration.  Mutant: it is missing.                 *)
NewestAny(t) == TRUE
Newest(t) == job[t].gen = refreshes

(* delete publishes its failure when its refresh is over; `applies` tells  *)
(* whether that one has cleared the error of before.                       *)
AfterLoad(t, applies) ==
    IF job[t].kind = "delete" /\ job[t].failed THEN PublishError("delete")
    ELSE /\ opError' = IF applies /\ opErrors = job[t].errors THEN "none" ELSE opError
         /\ UNCHANGED opErrors

LoadReturns(t) ==
    /\ job[t].phase \in {"listed", "unlisted"}
    /\ IF ~Newest(t) THEN UNCHANGED screenList
       ELSE IF job[t].cancelled
       THEN /\ loading' = job[t].restore /\ dropped' = TRUE
            /\ UNCHANGED <<shown, settledLoading>>
       ELSE IF job[t].phase = "listed"
       THEN /\ shown' = job[t].got /\ UNCHANGED dropped
            /\ loading' = "loaded" /\ settledLoading' = "loaded"
       ELSE /\ loading' = "failed" /\ settledLoading' = "failed"
            /\ UNCHANGED <<shown, dropped>>
    /\ AfterLoad(t, Newest(t) /\ ~job[t].cancelled /\ job[t].phase = "listed")
    /\ Ends(t)
    /\ UNCHANGED <<engineRows, strays, refreshes, engineFaults>>

(***************************************************************************)
(* delete and fork: what is chosen is chosen from the rows on screen.      *)
(***************************************************************************)
DeleteRows(t, rows) ==
    /\ NextJob(t) /\ rows # {}
    /\ Acquire(t, [NoJob EXCEPT !.phase = "asked", !.kind = "delete", !.left = rows])
    /\ UNCHANGED <<engineRows, strays, screenList, opError, opErrors, refreshes, engineFaults>>

ForkRow(t, row) ==
    /\ NextJob(t)
    /\ Acquire(t, [NoJob EXCEPT !.phase = "asked", !.kind = "fork", !.left = {row}])
    /\ UNCHANGED <<engineRows, strays, screenList, opError, opErrors, refreshes, engineFaults>>

(* One engine call of a mutation: deleteSession of the next target, which  *)
(* ChatModel refuses for the live session, or forkSession; an error may    *)
(* come with the change made.  Deleting an absent session is no error,     *)
(* copying one is.                                                         *)
EngineMutates(t) ==
    /\ job[t].phase = "asked"
    /\ \E row \in job[t].left, ok, changed \in BOOLEAN :
          /\ ok => changed
          /\ IF job[t].kind = "fork" /\ row \notin engineRows
             THEN ~ok /\ ~changed /\ UNCHANGED <<engineRows, engineFaults>>
             ELSE /\ IF ok THEN UNCHANGED engineFaults ELSE EngineFails
                  /\ engineRows' = IF ~changed THEN engineRows
                             ELSE IF job[t].kind = "delete" THEN engineRows \ {row}
                             ELSE engineRows \union {MaxStored + t}
          /\ strays' = IF ok THEN strays ELSE strays \union (engineRows' \ engineRows)
          /\ job' = [job EXCEPT ![t].phase = "told", ![t].left = @ \ {row},
                                ![t].failed = @ \/ ~ok]
    /\ UNCHANGED <<screenList, opError, opErrors, refreshes, lockVars>>

(* The answer: the next target, the refresh, or the failed fork's end.     *)
MutationReturns(t) ==
    /\ job[t].phase = "told"
    /\ IF job[t].kind = "fork" /\ job[t].failed
       THEN /\ PublishError("fork") /\ Ends(t)
            /\ UNCHANGED <<loading, dropped, refreshes>>
       ELSE /\ IF job[t].kind = "delete" /\ job[t].left # {}
               THEN /\ job' = [job EXCEPT ![t].phase = "asked"]
                    /\ UNCHANGED <<loading, dropped, refreshes>>
               ELSE job' = [job EXCEPT ![t] = Refreshing(t)] /\ BeginLoad
            /\ UNCHANGED <<opError, opErrors, lockVars>>
    /\ UNCHANGED <<engineRows, strays, shown, settledLoading, engineFaults>>

ListStep(t) == LoadReturns(t) \/ EngineLists(t) \/ EngineMutates(t) \/ MutationReturns(t)

ListNext ==
    \E t \in Jobs :
       \/ Refresh(t) \/ CancelRefresh(t) \/ ListStep(t)
       \/ \E rows \in SUBSET shown : DeleteRows(t, rows)
       \/ \E row \in shown : ForkRow(t, row)

ListSpec == ListInit /\ [][ListNext]_listVars

(***************************************************************************)
(* Properties.                                                             *)
(***************************************************************************)
(* A list that is shown as loaded, with nothing in flight, is the store's: *)
(* no deleted row came back with a load that was slow, and no fork is      *)
(* missing but one that was reported as failed.  It is not when the load   *)
(* that began last was cancelled: it has superseded the others for nothing.*)
ListShown ==
    loading = "loaded" /\ ~dropped /\ (\A t \in Jobs : ~InFlight(t))
       => shown \subseteq engineRows /\ engineRows \ shown \subseteq strays

(* No task is in flight: every delete and fork has had the lock.           *)
ListQuiet == \A t \in Jobs : ~InFlight(t)

=============================================================================
