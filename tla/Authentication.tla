--------------------------- MODULE Authentication ---------------------------
(***************************************************************************)
(* Codex sign-in and sign-out.  `EngineClient` (EngineClient.swift) runs   *)
(* on the main actor: its methods are interrupted at an `await` only.  The *)
(* sign-in itself is a Rust future (codex_auth.rs) that Swift cannot       *)
(* cancel: it owns the callback port, outlives the user's sign-out, and    *)
(* may store tokens after it.  What has to be removed later is remembered  *)
(* in `cleanupRequired`, which UserDefaults keeps over a restart.          *)
(***************************************************************************)
EXTENDS Naturals

CONSTANTS
    MaxSignIns,        \* calls of codexLogin
    MaxAuthCrashes,    \* restarts of the app
    MaxAuthFaults      \* failures of clear_codex_tokens

ASSUME AuthAssumption == /\ MaxSignIns \in Nat
                         /\ MaxAuthCrashes \in Nat
                         /\ MaxAuthFaults \in Nat

VARIABLES
    signIn,            \* where each call of codexLogin is
    started,           \* number of calls so far; each is its own generation
    active,            \* activeAuthGeneration, 0 for nil
    engineBusy,        \* isAuthenticationEngineInFlight
    waiting,           \* pendingAuthenticationSlot, 0 for nil
    cleanupRequired,   \* AuthenticationCleanupStore and its copy in memory
    account,           \* codexAccount: the call whose account is shown, 0 for nil
    tokens,            \* the call whose tokens the engine's files hold, 0 for none
    signedOut,         \* the last call that began before the latest sign-out
    authCrashes, authFaults

authVars == <<signIn, started, active, engineBusy, waiting, cleanupRequired,
              account, tokens, signedOut, authCrashes, authFaults>>

SignIns == 1..MaxSignIns

(* A call waits for the slot, is resumed with true or false, is inside     *)
(* login(), has its answer on the way back, or loads the models.           *)
InEngine == {"listening", "reading", "exchanging"}
Answered == {"stored", "failed"}
OwnsSlot == InEngine \union Answered \union {"granted"}
Stages   == OwnsSlot \union {"unused", "waiting", "refused", "loading", "done"}

AuthTypeOK ==
    /\ signIn \in [SignIns -> Stages]
    /\ started \in 0..MaxSignIns
    /\ {active, waiting, account, tokens, signedOut} \subseteq 0..started
    /\ engineBusy \in BOOLEAN /\ cleanupRequired \in BOOLEAN
    /\ authCrashes \in 0..MaxAuthCrashes
    /\ authFaults \in 0..MaxAuthFaults

AuthInit ==
    /\ signIn = [c \in SignIns |-> "unused"]
    /\ started = 0 /\ active = 0 /\ waiting = 0
    /\ engineBusy = FALSE /\ cleanupRequired = FALSE
    /\ account = 0 /\ tokens = 0 /\ signedOut = 0
    /\ authCrashes = 0 /\ authFaults = 0

(* clear_codex_tokens: it removes the tokens, or fails and keeps them.     *)
ClearTokens(ok) ==
    IF ok THEN tokens' = 0 /\ UNCHANGED authFaults
          ELSE /\ authFaults < MaxAuthFaults /\ authFaults' = authFaults + 1
               /\ UNCHANGED tokens

(* current_account: the account of the tokens that can be loaded.          *)
CurrentAccount == tokens

(* attemptAuthenticationCleanup: the requirement is stored first and taken *)
(* back when the engine has removed the tokens; the account goes at once.  *)
Cleanup(ok) ==
    /\ ClearTokens(ok)
    /\ cleanupRequired' = ~ok
    /\ account' = 0

NoCleanup == UNCHANGED <<tokens, cleanupRequired, account, authFaults>>

(* The calls after one step of call c, when the waiter (if any) is resumed.*)
StageAfter(c, stage, resumed) ==
    [d \in SignIns |-> IF d = c THEN stage
                       ELSE IF d # 0 /\ d = waiting THEN resumed ELSE signIn[d]]

(* prepareAuthenticationEngine, then engine.codexLogin, for a call that is *)
(* current, so that nobody waits: the slot it owns is free when it fails.   *)
EnterEngine(c) ==
    \/ /\ ~cleanupRequired
       /\ NoCleanup
       /\ signIn' = [signIn EXCEPT ![c] = "listening"]
       /\ engineBusy' = TRUE /\ active' = c /\ UNCHANGED waiting
    \/ /\ cleanupRequired
       /\ Cleanup(TRUE)
       /\ signIn' = [signIn EXCEPT ![c] = "listening"]
       /\ engineBusy' = TRUE /\ active' = c /\ UNCHANGED waiting
    \/ /\ cleanupRequired
       /\ Cleanup(FALSE)
       /\ signIn' = [signIn EXCEPT ![c] = "done"]
       /\ engineBusy' = FALSE /\ active' = 0 /\ UNCHANGED waiting

(* codexLogin up to its first await.                                       *)
BeginSignIn ==
    /\ active = 0 /\ started < MaxSignIns
    /\ started' = started + 1
    /\ IF engineBusy
       THEN /\ waiting' = started' /\ active' = started'
            /\ signIn' = [signIn EXCEPT ![started'] = "waiting"]
            /\ UNCHANGED engineBusy /\ NoCleanup
       ELSE EnterEngine(started')
    /\ UNCHANGED <<signedOut, authCrashes>>

(* releaseAuthenticationSlot by call c, which goes on to `stage`: a waiter *)
(* that is still the active call takes the slot over.                      *)
Release(c, stage) ==
    LET handed == waiting # 0 /\ active = waiting IN
    /\ signIn' = StageAfter(c, stage, IF handed THEN "granted" ELSE "refused")
    /\ engineBusy' = handed
    /\ waiting' = 0

(* The waiter runs again: it owns the slot, and may have been superseded.  *)
Granted(c) ==
    /\ signIn[c] = "granted"
    /\ IF active = c
       THEN EnterEngine(c)
       ELSE Release(c, "done") /\ NoCleanup /\ UNCHANGED active
    /\ UNCHANGED <<started, signedOut, authCrashes>>

Refused(c) ==
    /\ signIn[c] = "refused"
    /\ signIn' = [signIn EXCEPT ![c] = "done"]
    /\ active' = IF active = c THEN 0 ELSE active
    /\ UNCHANGED <<started, engineBusy, waiting, cleanupRequired, account,
                   tokens, signedOut, authCrashes, authFaults>>

(***************************************************************************)
(* login() on the Rust side.                                               *)
(***************************************************************************)
EngineStep(c, from, to) ==
    /\ signIn[c] = from
    /\ signIn' = [signIn EXCEPT ![c] = to]
    /\ UNCHANGED <<started, active, engineBusy, waiting, cleanupRequired,
                   account, signedOut, authCrashes, authFaults>>

(* What parse_callback_request and login() make of one request line; a     *)
(* line that cannot be read is passed over like any other request.         *)
Lines == {"callback", "wrong state", "error", "other", "unreadable"}
AfterLine(line) ==
    IF line = "callback" THEN "exchanging"
    ELSE IF line \in {"wrong state", "error"} THEN "failed" ELSE "listening"

(* wait_for_callback takes one connection at a time and reads its line.    *)
Accept(c) == EngineStep(c, "listening", "reading") /\ UNCHANGED tokens
ReadLine(c, line) == EngineStep(c, "reading", AfterLine(line)) /\ UNCHANGED tokens

(* The exchange answers; the tokens and the profile are then written       *)
(* without another await.  A failed write may have stored the tokens.      *)
Exchanged(c) == EngineStep(c, "exchanging", "stored") /\ tokens' = c
NotStored(c) == EngineStep(c, "exchanging", "failed") /\ tokens' \in {tokens, c}

(* LOGIN_TIMEOUT_SECS over the wait and the exchange; the same answer for  *)
(* a port that cannot be bound, a failed accept and a failed exchange.     *)
(* Mutant: the time limit does not cover a connection that sends nothing.  *)
GiveUpAccepting(c) == EngineStep(c, "listening", "failed") /\ UNCHANGED tokens
GiveUp(c) == \E stage \in InEngine : EngineStep(c, stage, "failed") /\ UNCHANGED tokens

(* codexLogin after the engine's answer.  A superseded success is undone   *)
(* before the slot is handed on.                                           *)
SignInReturns(c) ==
    /\ signIn[c] \in Answered
    /\ LET current == active = c
           success == signIn[c] = "stored"
       IN /\ Release(c, IF current /\ success THEN "loading" ELSE "done")
          /\ \/ /\ ~current /\ success
                /\ \E ok \in BOOLEAN : Cleanup(ok)
                /\ UNCHANGED active
             \/ /\ ~current /\ ~success
                /\ NoCleanup /\ UNCHANGED active
             \/ /\ current
                /\ account' = IF success THEN c ELSE account
                /\ active' = IF success THEN active ELSE 0
                /\ UNCHANGED <<tokens, cleanupRequired, authFaults>>
    /\ UNCHANGED <<started, signedOut, authCrashes>>

(* loadCodexModels has answered: finishAuthentication.                     *)
ModelsLoaded(c) ==
    /\ signIn[c] = "loading"
    /\ signIn' = [signIn EXCEPT ![c] = "done"]
    /\ active' = IF active = c THEN 0 ELSE active
    /\ UNCHANGED <<started, engineBusy, waiting, cleanupRequired, account,
                   tokens, signedOut, authCrashes, authFaults>>

(* invalidateAuthentication: the waiter is sent away, no call is current.  *)
Invalidate ==
    /\ signIn' = StageAfter(0, "unused", "refused")
    /\ waiting' = 0 /\ active' = 0

(* Mutant: a sign-out during a sign-in leaves the removal to its end.      *)
SignOutForgets ==
    /\ Invalidate
    /\ signedOut' = started
    /\ IF engineBusy
       THEN account' = 0 /\ UNCHANGED <<tokens, authFaults, cleanupRequired>>
       ELSE \E ok \in BOOLEAN : Cleanup(ok)
    /\ UNCHANGED <<started, engineBusy, authCrashes>>
SignOut ==
    /\ Invalidate
    /\ signedOut' = started
    /\ IF engineBusy
       THEN cleanupRequired' = TRUE /\ account' = 0 /\ UNCHANGED <<tokens, authFaults>>
       ELSE \E ok \in BOOLEAN : Cleanup(ok)
    /\ UNCHANGED <<started, engineBusy, authCrashes>>

RetryCleanup ==
    /\ cleanupRequired /\ active = 0 /\ ~engineBusy
    /\ Invalidate
    /\ \E ok \in BOOLEAN : Cleanup(ok)
    /\ UNCHANGED <<started, engineBusy, signedOut, authCrashes>>

(* The app dies, its Rust futures with it, and is launched again.          *)
Relaunch ==
    /\ authCrashes < MaxAuthCrashes /\ authCrashes' = authCrashes + 1
    /\ signIn' = [c \in SignIns |-> IF c <= started THEN "done" ELSE "unused"]
    /\ active' = 0 /\ waiting' = 0 /\ engineBusy' = FALSE
    /\ IF cleanupRequired
       THEN \E ok \in BOOLEAN : Cleanup(ok)
       ELSE account' = CurrentAccount /\ UNCHANGED <<tokens, cleanupRequired, authFaults>>
    /\ UNCHANGED <<started, signedOut>>

(* What happens without the user or the browser.                           *)
Proceeds(c) == Granted(c) \/ Refused(c) \/ GiveUp(c) \/ SignInReturns(c) \/ ModelsLoaded(c)

AuthNext ==
    \/ BeginSignIn \/ SignOut \/ RetryCleanup \/ Relaunch
    \/ \E c \in SignIns :
          \/ Proceeds(c) \/ Accept(c) \/ Exchanged(c) \/ NotStored(c)
          \/ \E line \in Lines : ReadLine(c, line)

AuthSpec == AuthInit /\ [][AuthNext]_authVars

(***************************************************************************)
(* Properties.                                                             *)
(***************************************************************************)
(* A sign-out is kept: tokens of a sign-in that began before it are gone,  *)
(* or their removal is on record and survives a restart; and no such       *)
(* account is on screen.  Whatever the sign-in in flight does later.       *)
SignOutHolds ==
    /\ tokens \in 1..signedOut => cleanupRequired
    /\ account \notin 1..signedOut

(* No sign-in is open: what has to come back again and again, though the   *)
(* browser never answers and nobody can cancel the Rust future.            *)
SignInsClosed == \A c \in SignIns : signIn[c] \in {"unused", "done"}
=============================================================================
