---------------------------- MODULE GitWorkspaces ----------------------------
(***************************************************************************)
(* One git workspace (git.rs) under the operations of the repository list  *)
(* and the files the chat's agent edits meanwhile.  Each operation is one  *)
(* blocking call; a `RepoModel` (RepoModel.swift) runs one at a time, but  *)
(* the list makes a new model whenever its section is entered again, so    *)
(* there may be several callers.  libgit2 is external: what it does with   *)
(* references and files is taken from how git.rs uses it.                  *)
(***************************************************************************)
EXTENDS Naturals, FiniteSets

CONSTANTS
    Branches, Main,    \* branch names, and the one the remote starts with
    NoBranch,          \* HEAD is detached
    Trees,             \* contents a worktree may have
    MaxCommits, MaxCallers,
    MaxCalls,          \* operations of the list, for a bound
    MaxGitFaults       \* failures, refusals and crashes

ASSUME GitAssumption == /\ Main \in Branches /\ NoBranch \notin Branches
                        /\ MaxCommits \in Nat \ {0} /\ Trees # {}
                        /\ {MaxCallers, MaxCalls, MaxGitFaults} \subseteq Nat

VARIABLES
    hist, tree, used,     \* commits: each one's ancestors and itself, and contents
    remote,               \* branches of origin, 0 for none
    disk,                 \* the workspace's directory
    origin, local,        \* refs/remotes/origin and refs/heads of the workspace
    tracks,               \* branches with an upstream
    head, at,             \* HEAD: its branch, or NoBranch and its commit
    index, work,          \* staged and actual files
    call,                 \* the operation of each caller
    committed,            \* commits commit_all answered for, while HEAD was on a branch
    stalePulls,           \* pulls whose refs another call has moved since they began
    overrun,              \* such a pull has moved its branch nevertheless
    calls, gitFaults

commitVars == <<hist, tree, used>>
refVars    == <<origin, local, tracks, head, at>>
fileVars   == <<index, work>>
gitVars    == <<commitVars, remote, disk, refVars, fileVars, call, committed,
                stalePulls, overrun, calls, gitFaults>>

Commits == 1..MaxCommits
Callers == 1..MaxCallers
Refs    == [Branches -> 0..used]
NoRefs  == [b \in Branches |-> 0]
SomeTree == CHOOSE t \in Trees : TRUE

(* The callers are alike: the first one without an operation takes it.     *)
Free(c) == call[c].op = "none" /\ \A d \in Callers : d < c => call[d].op # "none"
NoCall == [op |-> "none", branch |-> Main, target |-> 0, tree |-> SomeTree]
HistOf(c) == IF c = 0 THEN {} ELSE hist[c]
FilesOf(c) == index' = tree[c] /\ work' = tree[c]
HeadCommit == IF head = NoBranch THEN at ELSE local[head]

RepoTypeOK ==
    /\ used \in Commits
    /\ hist \in [Commits -> SUBSET Commits] /\ tree \in [Commits -> Trees]
    /\ remote \in Refs /\ origin \in Refs /\ local \in Refs
    /\ disk \in {"none", "partial", "repo", "leftover"}
    /\ tracks \subseteq Branches /\ head \in Branches \union {NoBranch} /\ at \in 0..used
    /\ index \in Trees /\ work \in Trees
    /\ call \in [Callers -> [op : {"none", "clone", "fetch", "analysed", "moved", "staged",
                                   "switch"},
                             branch : Branches, target : 0..used, tree : Trees]]
    /\ committed \subseteq 1..used
    /\ gitFaults \in 0..MaxGitFaults
GitTypeOK ==
    /\ RepoTypeOK
    /\ stalePulls \subseteq Callers /\ overrun \in BOOLEAN /\ calls \in 0..MaxCalls

GitInit ==
    /\ used = 1 /\ hist = [c \in Commits |-> IF c = 1 THEN {1} ELSE {}]
    /\ tree = [c \in Commits |-> SomeTree]
    /\ remote = [b \in Branches |-> IF b = Main THEN 1 ELSE 0]
    /\ disk = "none" /\ origin = NoRefs /\ local = NoRefs /\ tracks = {}
    /\ head = Main /\ at = 0
    /\ index = SomeTree /\ work = SomeTree
    /\ call = [c \in Callers |-> NoCall] /\ committed = {}
    /\ stalePulls = {} /\ overrun = FALSE /\ calls = 0
    /\ gitFaults = 0

NewCommit(base, t) ==
    /\ used < MaxCommits /\ used' = used + 1
    /\ hist' = [hist EXCEPT ![used'] = {used'} \union HistOf(base)]
    /\ tree' = [tree EXCEPT ![used'] = t]

Goes(c, stage, b, target, t) ==
    call' = [call EXCEPT ![c] = [op |-> stage, branch |-> b, target |-> target, tree |-> t]]
CallEnds(c) == call' = [call EXCEPT ![c] = NoCall]

(* Others push to origin, on top of a branch or in place of it.            *)
OthersPush(b, t) ==
    /\ \E base \in {0, remote[b]} : NewCommit(base, t)
    /\ remote' = [remote EXCEPT ![b] = used']
    /\ UNCHANGED <<disk, refVars, fileVars, call, committed, gitFaults>>

(* The agent's file tools, which know nothing of git.                      *)
AgentEdits(t) ==
    /\ disk = "repo" /\ t # work /\ work' = t
    /\ UNCHANGED <<commitVars, remote, disk, refVars, index, call, committed, gitFaults>>

(***************************************************************************)
(* clone and delete.                                                       *)
(***************************************************************************)
Clone(c) ==
    /\ Free(c) /\ disk = "none" /\ disk' = "partial"
    /\ Goes(c, "clone", Main, 0, SomeTree)
    /\ UNCHANGED <<commitVars, remote, refVars, fileVars, committed, gitFaults>>

(* The default branch is checked out, or HEAD is detached where origin's is.*)
Cloned(c) ==
    /\ call[c].op = "clone" /\ disk = "partial" /\ disk' = "repo"
    /\ origin' = remote
    /\ head' \in {Main, NoBranch} /\ at' = IF head' = Main THEN 0 ELSE remote[Main]
    /\ local' = [b \in Branches |-> IF b = head' THEN remote[b] ELSE 0]
    /\ tracks' = {head'} \ {NoBranch}
    /\ FilesOf(remote[Main])
    /\ CallEnds(c)
    /\ UNCHANGED <<commitVars, remote, committed, gitFaults>>

(* What was there is removed, as far as that goes: its errors are ignored. *)
CloneFails(c) ==
    /\ call[c].op = "clone" /\ disk = "partial"
    /\ gitFaults < MaxGitFaults /\ gitFaults' = gitFaults + 1
    /\ disk' \in {"none", "partial", "leftover"}
    /\ CallEnds(c)
    /\ UNCHANGED <<commitVars, remote, refVars, fileVars, committed>>

(* Only a directory with a .git is deleted, and not at once: when the call *)
(* is cut short, some of it is left, with or without its .git.             *)
Delete(c) ==
    /\ Free(c) /\ disk \in {"repo", "partial"}
    /\ disk' \in {"none", "partial", "leftover"}
    /\ IF disk' = "none" THEN UNCHANGED gitFaults
       ELSE gitFaults < MaxGitFaults /\ gitFaults' = gitFaults + 1
    /\ committed' = {}
    /\ origin' = NoRefs /\ local' = NoRefs /\ tracks' = {} /\ head' = Main /\ at' = 0
    /\ index' = SomeTree /\ work' = SomeTree
    /\ UNCHANGED <<commitVars, remote, call>>

(***************************************************************************)
(* pull.                                                                   *)
(***************************************************************************)
(* require_branch: a detached or unborn HEAD is refused.                   *)
OnBranch == disk = "repo" /\ head # NoBranch /\ local[head] # 0

Pull(c) ==
    /\ Free(c) /\ OnBranch
    /\ Goes(c, "fetch", head, 0, SomeTree)
    /\ UNCHANGED <<commitVars, remote, disk, refVars, fileVars, committed, gitFaults>>

(* merge_analysis of the upstream against HEAD allows a fast-forward.      *)
(* Mutant: whatever is not up to date is taken for one.                    *)
FastForwardsAny(b, target) == b \in tracks /\ target \notin HistOf(HeadCommit)
FastForwards(b, target) ==
    /\ b \in tracks
    /\ target \notin HistOf(HeadCommit) /\ HeadCommit \in HistOf(target)

(* The fetch, and merge_analysis of the upstream against HEAD: up to date, *)
(* diverged or without upstream, the call ends there.                      *)
Fetched(c) ==
    /\ call[c].op = "fetch" /\ disk = "repo"
    /\ origin' = [b \in Branches |-> IF remote[b] = 0 THEN origin[b] ELSE remote[b]]
    /\ LET b == call[c].branch
           target == origin'[b]
       IN IF FastForwards(b, target)
          THEN Goes(c, "analysed", b, target, SomeTree)
          ELSE CallEnds(c)
    /\ UNCHANGED <<commitVars, remote, disk, local, tracks, head, at,
                   fileVars, committed, gitFaults>>

(* set_target and set_head; the files follow in a step of their own.       *)
MoveBranch(c) ==
    /\ call[c].op = "analysed" /\ disk = "repo"
    /\ local' = [local EXCEPT ![call[c].branch] = call[c].target]
    /\ head' = call[c].branch
    /\ call' = [call EXCEPT ![c].op = "moved"]
    /\ UNCHANGED <<commitVars, remote, disk, origin, tracks, at,
                   fileVars, committed, gitFaults>>

(* checkout_head(force): uncommitted edits of tracked files are overwritten.*)
ForceFiles(c) ==
    /\ call[c].op = "moved" /\ disk = "repo"
    /\ IF HeadCommit = 0 THEN UNCHANGED fileVars ELSE FilesOf(HeadCommit)
    /\ CallEnds(c)
    /\ UNCHANGED <<commitVars, remote, disk, refVars, committed, gitFaults>>

(***************************************************************************)
(* commit_all, push and checkout.                                          *)
(***************************************************************************)
(* Everything is staged; the agent may go on editing.                      *)
Stage(c) ==
    /\ Free(c) /\ disk = "repo"
    /\ index' = work
    /\ Goes(c, "staged", Main, 0, work)
    /\ UNCHANGED <<commitVars, remote, disk, refVars, work, committed, gitFaults>>

(* The commit goes on top of HEAD, wherever that is now, unless it has the *)
(* same contents; an unborn branch gets its first commit.                  *)
Commit(c) ==
    /\ call[c].op = "staged" /\ disk = "repo"
    /\ CallEnds(c)
    /\ IF HeadCommit # 0 /\ tree[HeadCommit] = call[c].tree
       THEN UNCHANGED <<commitVars, local, at, committed>>
       ELSE /\ NewCommit(HeadCommit, call[c].tree)
            /\ IF head = NoBranch
               THEN at' = used' /\ UNCHANGED <<local, committed>>
               ELSE /\ local' = [local EXCEPT ![head] = used']
                    /\ committed' = committed \union {used'}
                    /\ UNCHANGED at
    /\ UNCHANGED <<remote, disk, origin, tracks, head, fileVars, gitFaults>>

(* One exchange with origin.  A branch that is not ahead of origin's is    *)
(* refused with an error, or by the server, which push does not listen to: *)
(* it then goes on as after a success.  An answer may be lost.             *)
Push(c) ==
    /\ Free(c) /\ OnBranch
    /\ LET ahead == remote[head] \in {0} \union HistOf(local[head]) IN
       \/ /\ ahead
          /\ remote' = [remote EXCEPT ![head] = local[head]]
          /\ origin' = [origin EXCEPT ![head] = local[head]]
          /\ tracks' = tracks \union {head}
          /\ UNCHANGED gitFaults
       \/ /\ gitFaults < MaxGitFaults /\ gitFaults' = gitFaults + 1
          /\ \/ UNCHANGED remote
             \/ ahead /\ remote' = [remote EXCEPT ![head] = local[head]]
          /\ tracks' = tracks \union (IF remote' = remote /\ origin[head] # 0 THEN {head} ELSE {})
          /\ UNCHANGED origin
    /\ UNCHANGED <<commitVars, disk, local, head, at, fileVars, call, committed>>

(* The dirty check passes: whether an edit counts depends on its files     *)
(* being tracked, so an edited worktree may pass or not.  The branch is    *)
(* made if need be: off HEAD, or as a tracking branch.                     *)
Checkout(c, b, create) ==
    /\ Free(c) /\ disk = "repo" /\ HeadCommit # 0 /\ index = tree[HeadCommit]
    /\ \/ /\ create /\ local[b] = 0
          /\ local' = [local EXCEPT ![b] = HeadCommit]
          /\ UNCHANGED tracks
       \/ /\ ~create /\ local[b] = 0 /\ origin[b] # 0
          /\ local' = [local EXCEPT ![b] = origin[b]]
          /\ tracks' = tracks \union {b}
       \/ /\ ~create /\ local[b] # 0
          /\ UNCHANGED <<local, tracks>>
    /\ Goes(c, "switch", b, 0, SomeTree)
    /\ UNCHANGED <<commitVars, remote, disk, origin, head, at,
                   fileVars, committed, gitFaults>>

(* set_head, then checkout_head(safe): with HEAD already moved, files that *)
(* differ from it may count as edits and stay.                             *)
Switched(c) ==
    /\ call[c].op = "switch" /\ disk = "repo"
    /\ head' = call[c].branch /\ at' = 0
    /\ \/ UNCHANGED fileVars
       \/ local[head'] # 0 /\ FilesOf(local[head'])
    /\ CallEnds(c)
    /\ UNCHANGED <<commitVars, remote, disk, origin, local, tracks, committed, gitFaults>>

(***************************************************************************)
(* Failures.                                                               *)
(***************************************************************************)
(* Any step may fail, or find the workspace gone: the call ends with what  *)
(* it did so far.                                                          *)
CallFails(c) ==
    /\ call[c].op # "none" /\ (call[c].op = "clone" => disk # "partial")
    /\ IF disk = "repo" THEN gitFaults < MaxGitFaults /\ gitFaults' = gitFaults + 1
       ELSE UNCHANGED gitFaults
    /\ CallEnds(c)
    /\ UNCHANGED <<commitVars, remote, disk, refVars, fileVars, committed>>

GitCrash ==
    /\ gitFaults < MaxGitFaults /\ gitFaults' = gitFaults + 1
    /\ call' = [c \in Callers |-> NoCall]
    /\ UNCHANGED <<commitVars, remote, disk, refVars, fileVars, committed>>

RepoCallBegins ==
    \E c \in Callers :
       \/ Clone(c) \/ Delete(c) \/ Pull(c) \/ Stage(c) \/ Push(c)
       \/ \E b \in Branches, create \in BOOLEAN : Checkout(c, b, create)
RepoGoesOn ==
    \/ GitCrash
    \/ \E t \in Trees : AgentEdits(t) \/ \E b \in Branches : OthersPush(b, t)
    \/ \E c \in Callers :
          \/ Cloned(c) \/ CloneFails(c) \/ Fetched(c) \/ MoveBranch(c) \/ ForceFiles(c)
          \/ Commit(c) \/ Switched(c) \/ CallFails(c)

(* What a pull has read of the workspace's refs it goes by until it moves  *)
(* its branch: another call's step may move a branch or HEAD under it.     *)
Pulls(c) == call[c].op \in {"fetch", "analysed"}
Overtaken(c) == Pulls(c) /\ call'[c] = call[c] /\ <<head, local>>' # <<head, local>>
Overruns(c) == c \in stalePulls /\ call[c].op = "analysed" /\ call'[c].op = "moved"
Crossings ==
    /\ stalePulls' = {c \in Callers : Pulls(c)' /\ (c \in stalePulls \/ Overtaken(c))}
    /\ overrun' = (disk' = "repo" /\ (overrun \/ \E c \in Callers : Overruns(c)))

GitNext ==
    /\ \/ RepoCallBegins /\ calls < MaxCalls /\ calls' = calls + 1
       \/ RepoGoesOn /\ UNCHANGED calls
    /\ Crossings

GitSpec == GitInit /\ [][GitNext]_gitVars

(***************************************************************************)
(* Properties.                                                             *)
(***************************************************************************)
(* A commit that commit_all answered for stays reachable from a branch of  *)
(* its workspace until that is deleted: no pull, switch, failure or crash  *)
(* at any step, of any number of calls at once, loses it, though others    *)
(* rewrite origin's branches; with one exception, a pull during which      *)
(* another call moved HEAD or a branch, whose answer to whether it may     *)
(* fast-forward is then stale.                                             *)
CommittedStays ==
    disk = "repo" /\ ~overrun =>
        committed \subseteq UNION {HistOf(local[b]) : b \in Branches}
=============================================================================
