---------------------------- MODULE Storage_proofs ----------------------------
(***************************************************************************)
(* What the app has on disk beside the sessions' own protocol.             *)
(*                                                                         *)
(* Git workspaces: no commit that was answered for is lost, for any number *)
(* of callers, branches, contents, commits by others, failures and deaths  *)
(* of the app, as long as no pull goes on after another call has moved a   *)
(* branch or HEAD under it.  The argument: a branch is only ever moved to  *)
(* a commit that has the old one among its ancestors, since what a pull    *)
(* that was not overtaken found of its branch is still so when it moves it.*)
(*                                                                         *)
(* The storage root: a record that a caller was answered for is on disk    *)
(* with every directory above it, for any number of callers, inodes,       *)
(* failures and crashes, as long as no rollback took a directory from      *)
(* under a caller at work.  The argument: what a caller has synced so far  *)
(* is a prefix of its path that is on disk; an entry is only ever set at   *)
(* a new inode's or where there was none, so that another caller's step    *)
(* leaves the prefix as it is; and of entries that are the same as seen    *)
(* and on disk the power takes none.                                       *)
(***************************************************************************)
EXTENDS GitWorkspaces, StorageRoot, TLAPS

-----------------------------------------------------------------------------
(* Git workspaces                                                           *)

GitStages == {"none", "clone", "fetch", "analysed", "moved", "staged", "switch"}
CallRecords(n) == [op : GitStages, branch : Branches, target : 0..n, tree : Trees]

(* A commit is among its own ancestors, and theirs are its own.            *)
Ancestry ==
    /\ \A c \in 1..used : c \in hist[c] /\ hist[c] \subseteq 1..used
    /\ \A c \in 1..used : \A d \in hist[c] : hist[d] \subseteq hist[c]

(* What a pull that was not overtaken knows of its branch until it has     *)
(* moved it.                                                               *)
PullAhead ==
    \A c \in Callers \ stalePulls :
       /\ call[c].op = "fetch" => head = call[c].branch
       /\ call[c].op = "analysed" =>
             HistOf(local[call[c].branch]) \subseteq HistOf(call[c].target)

Kept ==
    /\ CommittedStays
    /\ disk # "repo" => committed = {}

GitTyped == RepoTypeOK /\ Ancestry /\ remote[Main] # 0

GitInv == GitTyped /\ PullAhead /\ Kept

(***************************************************************************)
(* What the steps have in common.                                          *)
(***************************************************************************)
LEMMA SomeTreeIsOne == SomeTree \in Trees
BY GitAssumption DEF SomeTree

(* A call goes on to its next stage, or ends.                              *)
LEMMA CallGoes ==
    ASSUME RepoTypeOK, NEW c \in Callers, NEW stage \in GitStages, NEW b \in Branches,
           NEW target \in 0..used, NEW t \in Trees, Goes(c, stage, b, target, t)
    PROVE  /\ call' \in [Callers -> CallRecords(used)]
           /\ \A d \in Callers \ {c} : call'[d] = call[d]
           /\ call'[c].op = stage /\ call'[c].branch = b /\ call'[c].target = target
BY DEF RepoTypeOK, Goes, CallRecords, GitStages

LEMMA CallStops ==
    ASSUME RepoTypeOK, NEW c \in Callers, CallEnds(c)
    PROVE  /\ call' \in [Callers -> CallRecords(used)]
           /\ \A d \in Callers \ {c} : call'[d] = call[d]
           /\ call'[c].op = "none"
<1>1. NoCall \in CallRecords(used) /\ NoCall.op = "none"
  BY GitAssumption, SomeTreeIsOne DEF RepoTypeOK, Commits, NoCall, CallRecords, GitStages
<1> QED BY <1>1 DEF RepoTypeOK, CallEnds, CallRecords, GitStages

(* A new commit has the old ones' histories as they are.                   *)
LEMMA CommitAdds ==
    ASSUME RepoTypeOK, Ancestry, NEW base \in 0..used, NEW t \in Trees, NewCommit(base, t)
    PROVE  /\ used' = used + 1 /\ used' \in Commits
           /\ hist' \in [Commits -> SUBSET Commits] /\ tree' \in [Commits -> Trees]
           /\ \A c \in 1..used : hist'[c] = hist[c]
           /\ hist'[used'] = {used'} \union HistOf(base)
           /\ Ancestry'
<1>1. used' = used + 1 /\ used' \in Commits /\ used \in Nat /\ used \in Commits
  BY GitAssumption DEF NewCommit, RepoTypeOK, Commits
<1>2. HistOf(base) \subseteq 1..used /\ HistOf(base) \subseteq Commits
  <2>1. CASE base = 0
    BY <2>1 DEF HistOf
  <2>2. CASE base # 0
    <3>1. base \in 1..used
      BY <1>1, <2>2
    <3>2. 1..used \subseteq Commits
      BY <1>1, GitAssumption DEF Commits
    <3> QED BY <2>2, <3>1, <3>2 DEF HistOf, Ancestry
  <2> QED BY <2>1, <2>2
<1>3. /\ hist' = [hist EXCEPT ![used'] = {used'} \union HistOf(base)]
      /\ tree' = [tree EXCEPT ![used'] = t]
  BY DEF NewCommit
<1>4. hist' \in [Commits -> SUBSET Commits] /\ tree' \in [Commits -> Trees]
  BY <1>1, <1>2, <1>3 DEF RepoTypeOK
<1>5. /\ hist'[used'] = {used'} \union HistOf(base)
      /\ \A c \in 1..used : hist'[c] = hist[c]
  BY <1>1, <1>3 DEF RepoTypeOK, Commits
<1>6. ASSUME NEW c \in 1..used'
      PROVE  /\ c \in hist'[c] /\ hist'[c] \subseteq 1..used'
             /\ \A d \in hist'[c] : hist'[d] \subseteq hist'[c]
  <2>1. CASE c \in 1..used
    <3>1. hist[c] \subseteq 1..used /\ c \in hist[c] /\ hist'[c] = hist[c]
      BY <1>5, <2>1 DEF Ancestry
    <3>2. \A d \in hist[c] : hist'[d] = hist[d] /\ hist[d] \subseteq hist[c]
      BY <1>5, <2>1, <3>1 DEF Ancestry
    <3> QED BY <1>1, <3>1, <3>2
  <2>2. CASE c = used'
    <3>1. \A d \in HistOf(base) : hist'[d] \subseteq HistOf(base)
      <4>1. CASE base = 0
        BY <4>1 DEF HistOf
      <4>2. CASE base # 0
        BY <1>2, <1>5, <4>2 DEF HistOf, Ancestry
      <4> QED BY <4>1, <4>2
    <3> QED BY <1>1, <1>2, <1>5, <2>2, <3>1
  <2> QED BY <1>1, <2>1, <2>2
<1> QED BY <1>1, <1>4, <1>5, <1>6 DEF Ancestry

(* What was typed stays typed when there is one commit more.               *)
LEMMA TypesGrow ==
    ASSUME RepoTypeOK, used' = used + 1
    PROVE  /\ 0..used \subseteq 0..used' /\ 1..used \subseteq 1..used'
           /\ used' \in 1..used'
           /\ remote \in Refs' /\ origin \in Refs' /\ local \in Refs'
           /\ at \in 0..used' /\ committed \subseteq 1..used'
           /\ call \in [Callers -> CallRecords(used')]
<1>1. /\ used \in Nat /\ used' \in Nat /\ used' \in 1..used'
      /\ 0..used \subseteq 0..used' /\ 1..used \subseteq 1..used'
  BY GitAssumption DEF RepoTypeOK, Commits
<1>2. remote \in Refs' /\ origin \in Refs' /\ local \in Refs'
  BY <1>1 DEF RepoTypeOK, Refs
<1>3. call \in [Callers -> CallRecords(used')]
  BY <1>1 DEF RepoTypeOK, CallRecords, GitStages
<1> QED BY <1>1, <1>2, <1>3 DEF RepoTypeOK

(* A pull that stands and was not overtaken still knows what it knew.      *)
LEMMA PullsStand ==
    ASSUME GitInv, Crossings, NEW d \in Callers, d \notin stalePulls', call'[d] = call[d],
           \A k \in 1..used : hist'[k] = hist[k]
    PROVE  /\ call'[d].op = "fetch" => head' = call'[d].branch
           /\ call'[d].op = "analysed" =>
                HistOf(local[call[d].branch])' \subseteq HistOf(call[d].target)'
<1> SUFFICES ASSUME Pulls(d)
             PROVE  /\ call'[d].op = "fetch" => head' = call'[d].branch
                    /\ call'[d].op = "analysed" =>
                         HistOf(local[call[d].branch])' \subseteq HistOf(call[d].target)'
  BY DEF Pulls
<1>1. Pulls(d)'
  BY DEF Pulls
<1>2. d \notin stalePulls /\ ~Overtaken(d)
  BY <1>1 DEF Crossings
<1>3. head' = head /\ local' = local
  BY <1>2 DEF Overtaken
<1>4. /\ call[d].op = "fetch" => head = call[d].branch
      /\ call[d].op = "analysed" =>
           HistOf(local[call[d].branch]) \subseteq HistOf(call[d].target)
  BY <1>2 DEF GitInv, PullAhead
<1>5. local[call[d].branch] \in 0..used /\ call[d].target \in 0..used
  BY DEF GitInv, GitTyped, RepoTypeOK, Refs
<1>6. used \in Nat
  BY GitAssumption DEF GitInv, GitTyped, RepoTypeOK, Commits
<1>7. /\ HistOf(local[call[d].branch])' = HistOf(local[call[d].branch])
      /\ HistOf(call[d].target)' = HistOf(call[d].target)
  BY <1>3, <1>5, <1>6 DEF HistOf
<1> QED BY <1>3, <1>4, <1>7

(* So only the call that takes the step has anything to show.              *)
LEMMA OthersKnow ==
    ASSUME GitInv, Crossings, NEW c \in Callers, \A d \in Callers \ {c} : call'[d] = call[d],
           \A k \in 1..used : hist'[k] = hist[k],
           \/ call'[c] = call[c]
           \/ call'[c].op \notin {"fetch", "analysed"}
           \/ call'[c].op = "fetch" /\ call'[c].branch = head'
           \/ /\ call'[c].op = "analysed"
              /\ c \notin stalePulls' =>
                    HistOf(local[call[c].branch])' \subseteq HistOf(call[c].target)'
    PROVE  PullAhead'
BY PullsStand DEF PullAhead

(* A branch that a pull moves it has not been overtaken on, or else the    *)
(* exception is noted.                                                     *)
LEMMA NotOverrun ==
    ASSUME Crossings, disk' = "repo", ~overrun'
    PROVE  ~overrun /\ \A c \in Callers : ~Overruns(c)
BY DEF Crossings

(* Nothing is lost while the branches and the commits stay as they are.    *)
LEMMA NothingMoves ==
    ASSUME GitInv, Crossings, UNCHANGED <<hist, used, remote, disk, local, committed>>
    PROVE  Kept'
BY NotOverrun DEF GitInv, Kept, CommittedStays, HistOf

LEMMA OthersStand ==
    ASSUME GitTyped, NEW c \in Callers,
           \/ Clone(c) \/ Cloned(c) \/ CloneFails(c) \/ Delete(c) \/ CallFails(c)
           \/ Pull(c) \/ Fetched(c) \/ MoveBranch(c) \/ ForceFiles(c)
           \/ Stage(c) \/ Commit(c) \/ Push(c) \/ Switched(c)
           \/ \E b \in Branches, create \in BOOLEAN : Checkout(c, b, create)
    PROVE  \A d \in Callers \ {c} : call'[d] = call[d]
<1>1. \/ call' = call \/ CallEnds(c) \/ call' = [call EXCEPT ![c].op = "moved"]
      \/ \E stage, b, target, t : Goes(c, stage, b, target, t)
  BY Zenon DEF Clone, Cloned, CloneFails, Delete, CallFails, Pull, Fetched, MoveBranch,
         ForceFiles, Stage, Commit, Push, Switched, Checkout
<1>2. call \in [Callers -> CallRecords(used)]
  BY DEF GitTyped, RepoTypeOK, CallRecords, GitStages
<1>3. ASSUME NEW new, call' = [call EXCEPT ![c] = new]
      PROVE  \A d \in Callers \ {c} : call'[d] = call[d]
  BY <1>2, <1>3
<1> QED BY <1>1, <1>2, <1>3 DEF CallEnds, Goes

LEMMA TypeOfCalls ==
    RepoTypeOK => call \in [Callers -> CallRecords(used)]
BY DEF RepoTypeOK, CallRecords, GitStages

(***************************************************************************)
(* One lemma per action: what has a type keeps it, for any callers.        *)
(***************************************************************************)
LEMMA InitTyped == GitInit => GitTyped
<1> SUFFICES ASSUME GitInit PROVE GitTyped
  OBVIOUS
<1>1. 1 \in Commits /\ used = 1 /\ 0 \in 0..used /\ 1 \in 0..used
  BY GitAssumption DEF GitInit, Commits
<1>2. call \in [Callers -> CallRecords(used)]
  BY <1>1, GitAssumption, SomeTreeIsOne DEF GitInit, NoCall, CallRecords, GitStages
<1>3. remote \in Refs /\ origin \in Refs /\ local \in Refs
  BY <1>1 DEF GitInit, Refs, NoRefs
<1>4. hist \in [Commits -> SUBSET Commits]
  BY <1>1 DEF GitInit
<1>5. gitFaults \in 0..MaxGitFaults
  BY GitAssumption DEF GitInit
<1>6. RepoTypeOK
  BY <1>1, <1>2, <1>3, <1>4, <1>5, GitAssumption, SomeTreeIsOne
     DEF GitInit, RepoTypeOK, CallRecords, GitStages
<1>7. Ancestry
  BY <1>1 DEF GitInit, Ancestry, Commits
<1> QED BY <1>6, <1>7, GitAssumption DEF GitInit, GitTyped

LEMMA OthersPushTyped ==
    ASSUME GitTyped, NEW b \in Branches, NEW t \in Trees, OthersPush(b, t)
    PROVE  /\ GitTyped' /\ used' = used + 1
           /\ \A c \in 1..used : hist'[c] = hist[c]
<1>1. PICK base \in {0, remote[b]} : NewCommit(base, t)
  BY DEF OthersPush
<1>2. base \in 0..used
  BY GitAssumption DEF GitTyped, RepoTypeOK, Refs, Commits
<1>3. /\ used' = used + 1 /\ used' \in Commits
      /\ hist' \in [Commits -> SUBSET Commits] /\ tree' \in [Commits -> Trees]
      /\ \A c \in 1..used : hist'[c] = hist[c]
      /\ Ancestry'
  BY <1>1, <1>2, CommitAdds DEF GitTyped
<1>4. /\ used' \in 1..used'
      /\ remote \in Refs' /\ origin \in Refs' /\ local \in Refs'
      /\ at \in 0..used' /\ committed \subseteq 1..used'
      /\ call \in [Callers -> CallRecords(used')]
  BY <1>3, TypesGrow DEF GitTyped
<1>5. /\ remote' = [remote EXCEPT ![b] = used']
      /\ UNCHANGED <<disk, origin, local, tracks, head, at, index, work, call, committed,
                     gitFaults>>
  BY DEF OthersPush, refVars, fileVars
<1>6. remote' \in Refs' /\ remote'[Main] # 0
  <2>1. used' \in 0..used' /\ used' # 0
    BY <1>3, <1>4
  <2>2. remote' \in Refs'
    BY <1>4, <1>5, <2>1 DEF Refs
  <2>3. remote'[Main] \in {used', remote[Main]}
    BY <1>4, <1>5, GitAssumption DEF Refs
  <2> QED BY <2>1, <2>2, <2>3 DEF GitTyped
<1>7. RepoTypeOK'
  BY <1>3, <1>4, <1>5, <1>6 DEF GitTyped, RepoTypeOK, CallRecords, GitStages, Refs
<1> QED BY <1>3, <1>6, <1>7 DEF GitTyped

LEMMA CloneTyped ==
    ASSUME GitTyped, NEW c \in Callers, Clone(c)
    PROVE  GitTyped' /\ call'[c].op = "clone"
<1> USE DEF commitVars, refVars, fileVars
<1>1. 0 \in 0..used /\ "clone" \in GitStages
  BY GitAssumption DEF GitTyped, RepoTypeOK, Commits, GitStages
<1>2. call' \in [Callers -> CallRecords(used)] /\ call'[c].op = "clone"
  BY <1>1, CallGoes, SomeTreeIsOne, GitAssumption DEF Clone, GitTyped
<1>3. RepoTypeOK'
  BY <1>2 DEF Clone, GitTyped, RepoTypeOK, Refs, CallRecords, GitStages
<1> QED BY <1>2, <1>3 DEF Clone, GitTyped, Ancestry

LEMMA ClonedTyped ==
    ASSUME GitTyped, NEW c \in Callers, Cloned(c)
    PROVE  GitTyped' /\ call'[c].op = "none"
<1> USE DEF commitVars, refVars, fileVars
<1>1. call' \in [Callers -> CallRecords(used)] /\ call'[c].op = "none"
  BY CallStops DEF Cloned, GitTyped
<1>2. /\ remote \in Refs /\ 0 \in 0..used
      /\ remote[Main] \in 1..used /\ remote[Main] \in Commits
  <2>1. remote[Main] \in 0..used /\ remote[Main] # 0 /\ used \in 1..MaxCommits
    BY GitAssumption DEF GitTyped, RepoTypeOK, Refs, Commits
  <2> QED BY <2>1, GitAssumption DEF GitTyped, RepoTypeOK, Commits
<1>3. /\ origin' = remote /\ head' \in Branches \union {NoBranch}
      /\ at' = (IF head' = Main THEN 0 ELSE remote[Main])
      /\ local' = [b \in Branches |-> IF b = head' THEN remote[b] ELSE 0]
      /\ tracks' = {head'} \ {NoBranch}
      /\ index' = tree[remote[Main]] /\ work' = tree[remote[Main]] /\ disk' = "repo"
      /\ UNCHANGED <<hist, tree, used, remote, committed, gitFaults>>
  BY GitAssumption DEF Cloned, FilesOf
<1>4. local' \in Refs /\ at' \in 0..used
  BY <1>2, <1>3 DEF Refs
<1>5. index' \in Trees /\ work' \in Trees
  BY <1>2, <1>3 DEF GitTyped, RepoTypeOK
<1>6. RepoTypeOK'
  BY <1>1, <1>2, <1>3, <1>4, <1>5 DEF GitTyped, RepoTypeOK, Refs, CallRecords, GitStages
<1> QED BY <1>1, <1>3, <1>6 DEF GitTyped, Ancestry

LEMMA CloneFailsTyped ==
    ASSUME GitTyped, NEW c \in Callers, CloneFails(c)
    PROVE  GitTyped' /\ call'[c].op = "none"
<1> USE DEF commitVars, refVars, fileVars
<1>1. call' \in [Callers -> CallRecords(used)] /\ call'[c].op = "none"
  BY CallStops DEF CloneFails, GitTyped
<1>2. gitFaults' \in 0..MaxGitFaults
  BY GitAssumption DEF CloneFails, GitTyped, RepoTypeOK
<1>3. RepoTypeOK'
  BY <1>1, <1>2 DEF CloneFails, GitTyped, RepoTypeOK, Refs, CallRecords, GitStages
<1> QED BY <1>1, <1>3 DEF CloneFails, GitTyped, Ancestry

LEMMA DeleteTyped ==
    ASSUME GitTyped, NEW c \in Callers, Delete(c)
    PROVE  GitTyped' /\ call'[c].op = "none"
<1> USE DEF commitVars
<1>1. call' = call /\ call[c].op = "none"
  BY DEF Delete, Free
<1>2. gitFaults' \in 0..MaxGitFaults
  BY GitAssumption DEF Delete, GitTyped, RepoTypeOK
<1>3. NoRefs \in Refs /\ 0 \in 0..used /\ Main \in Branches
  BY GitAssumption DEF NoRefs, Refs, GitTyped, RepoTypeOK, Commits
<1>4. RepoTypeOK'
  BY <1>1, <1>2, <1>3, SomeTreeIsOne DEF Delete, GitTyped, RepoTypeOK, Refs
<1> QED BY <1>1, <1>4 DEF Delete, GitTyped, Ancestry

LEMMA PullTyped ==
    ASSUME GitTyped, NEW c \in Callers, Pull(c)
    PROVE  GitTyped' /\ call'[c].op = "fetch" /\ call'[c].branch = head
<1> USE DEF commitVars, refVars, fileVars
<1>1. 0 \in 0..used /\ "fetch" \in GitStages /\ head \in Branches
  BY GitAssumption DEF GitTyped, RepoTypeOK, Commits, GitStages, Pull, OnBranch
<1>2. /\ call' \in [Callers -> CallRecords(used)]
      /\ call'[c].op = "fetch" /\ call'[c].branch = head
  BY <1>1, CallGoes, SomeTreeIsOne DEF Pull, GitTyped
<1>3. RepoTypeOK'
  BY <1>2 DEF Pull, GitTyped, RepoTypeOK, Refs, CallRecords, GitStages
<1> QED BY <1>2, <1>3 DEF Pull, GitTyped, Ancestry

(* What the analysis finds is what the call goes on with, or it ends.      *)
LEMMA FetchedTyped ==
    ASSUME GitTyped, NEW c \in Callers, Fetched(c)
    PROVE  /\ GitTyped'
           /\ \/ call'[c].op = "none"
              \/ LET b == call[c].branch
                 IN  /\ FastForwards(b, origin'[b]) /\ call'[c].op = "analysed"
                     /\ call'[c].branch = b /\ call'[c].target = origin'[b]
                     /\ b \in Branches /\ origin'[b] \in 0..used
<1> DEFINE b == call[c].branch
           target == origin'[b]
<1>1. /\ origin' = [a \in Branches |-> IF remote[a] = 0 THEN origin[a] ELSE remote[a]]
      /\ b \in Branches
      /\ UNCHANGED <<hist, tree, used, remote, disk, local, tracks, head, at, index, work,
                     committed, gitFaults>>
  BY DEF Fetched, commitVars, fileVars, GitTyped, RepoTypeOK
<1>2. origin' \in Refs /\ target \in 0..used
  BY <1>1 DEF GitTyped, RepoTypeOK, Refs
<1>3. /\ call' \in [Callers -> CallRecords(used)]
      /\ \/ call'[c].op = "none"
         \/ /\ FastForwards(b, target) /\ call'[c].op = "analysed"
            /\ call'[c].branch = b /\ call'[c].target = target
  <2>1. CASE FastForwards(b, target)
    <3>1. Goes(c, "analysed", b, target, SomeTree)
      BY <2>1 DEF Fetched
    <3> QED BY <1>1, <1>2, <2>1, <3>1, CallGoes, SomeTreeIsOne DEF GitTyped, GitStages
  <2>2. CASE ~FastForwards(b, target)
    <3>1. CallEnds(c)
      BY <2>2 DEF Fetched
    <3> QED BY <3>1, CallStops DEF GitTyped
  <2> QED BY <2>1, <2>2
<1>4. RepoTypeOK'
  BY <1>1, <1>2, <1>3 DEF GitTyped, RepoTypeOK, Refs, CallRecords, GitStages
<1> QED BY <1>1, <1>2, <1>3, <1>4 DEF GitTyped, Ancestry

LEMMA MoveBranchTyped ==
    ASSUME GitTyped, NEW c \in Callers, MoveBranch(c)
    PROVE  GitTyped' /\ call'[c].op = "moved"
<1> DEFINE b == call[c].branch
           target == call[c].target
<1>1. /\ local' = [local EXCEPT ![b] = target] /\ head' = b
      /\ call' = [call EXCEPT ![c].op = "moved"]
      /\ UNCHANGED <<hist, tree, used, remote, disk, origin, tracks, at, index, work,
                     committed, gitFaults>>
      /\ b \in Branches /\ target \in 0..used
  BY DEF MoveBranch, commitVars, fileVars, GitTyped, RepoTypeOK
<1>2. call' \in [Callers -> CallRecords(used)] /\ call'[c].op = "moved"
  BY <1>1, TypeOfCalls DEF GitTyped, CallRecords, GitStages
<1>3. local' \in Refs
  BY <1>1 DEF GitTyped, RepoTypeOK, Refs
<1>4. RepoTypeOK'
  BY <1>1, <1>2, <1>3 DEF GitTyped, RepoTypeOK, Refs, CallRecords, GitStages
<1> QED BY <1>1, <1>2, <1>4 DEF GitTyped, Ancestry

LEMMA HeadCommitTyped == RepoTypeOK => HeadCommit \in 0..used
BY DEF RepoTypeOK, HeadCommit, Refs

LEMMA ForceFilesTyped ==
    ASSUME GitTyped, NEW c \in Callers, ForceFiles(c)
    PROVE  GitTyped' /\ call'[c].op = "none"
<1> USE DEF commitVars, refVars, fileVars
<1>1. call' \in [Callers -> CallRecords(used)] /\ call'[c].op = "none"
  BY CallStops DEF ForceFiles, GitTyped
<1>2. index' \in Trees /\ work' \in Trees
  <2>1. CASE HeadCommit = 0
    BY <2>1 DEF ForceFiles, GitTyped, RepoTypeOK
  <2>2. CASE HeadCommit # 0
    <3>1. HeadCommit \in Commits
      BY <2>2, HeadCommitTyped, GitAssumption DEF GitTyped, RepoTypeOK, Commits
    <3> QED BY <2>2, <3>1 DEF ForceFiles, FilesOf, GitTyped, RepoTypeOK
  <2> QED BY <2>1, <2>2
<1>3. RepoTypeOK'
  BY <1>1, <1>2 DEF ForceFiles, GitTyped, RepoTypeOK, Refs, CallRecords, GitStages
<1> QED BY <1>1, <1>3 DEF ForceFiles, GitTyped, Ancestry

LEMMA StageTyped ==
    ASSUME GitTyped, NEW c \in Callers, Stage(c)
    PROVE  GitTyped' /\ call'[c].op = "staged"
<1> USE DEF commitVars, refVars
<1>1. 0 \in 0..used /\ "staged" \in GitStages /\ Main \in Branches /\ work \in Trees
  BY GitAssumption DEF GitTyped, RepoTypeOK, Commits, GitStages
<1>2. call' \in [Callers -> CallRecords(used)] /\ call'[c].op = "staged"
  BY <1>1, CallGoes DEF Stage, GitTyped
<1>3. RepoTypeOK'
  BY <1>2 DEF Stage, GitTyped, RepoTypeOK, Refs, CallRecords, GitStages
<1> QED BY <1>2, <1>3 DEF Stage, GitTyped, Ancestry

(* What Commit does when there is something to commit.                     *)
AddsCommit(c) ==
    /\ NewCommit(HeadCommit, call[c].tree)
    /\ IF head = NoBranch
       THEN at' = used' /\ UNCHANGED <<local, committed>>
       ELSE /\ local' = [local EXCEPT ![head] = used']
            /\ committed' = committed \union {used'}
            /\ UNCHANGED at

LEMMA CommitTyped ==
    ASSUME GitTyped, NEW c \in Callers, Commit(c)
    PROVE  /\ GitTyped' /\ call'[c].op = "none"
           /\ \/ UNCHANGED <<hist, tree, used, local, at, committed>>
              \/ /\ AddsCommit(c) /\ used' = used + 1
                 /\ \A d \in 1..used : hist'[d] = hist[d]
                 /\ hist'[used'] = {used'} \union HistOf(HeadCommit)
<1>1. /\ CallEnds(c)
      /\ UNCHANGED <<remote, disk, origin, tracks, head, index, work, gitFaults>>
  BY DEF Commit, fileVars
<1>2. call' \in [Callers -> CallRecords(used)] /\ call'[c].op = "none"
  BY <1>1, CallStops DEF GitTyped
<1>3. CASE UNCHANGED <<commitVars, local, at, committed>>
  <2> USE <1>3 DEF commitVars
  <2>1. RepoTypeOK'
    BY <1>1, <1>2 DEF GitTyped, RepoTypeOK, Refs, CallRecords, GitStages
  <2> QED BY <1>1, <1>2, <2>1 DEF GitTyped, Ancestry
<1>4. CASE AddsCommit(c)
  <2>1. HeadCommit \in 0..used /\ call[c].tree \in Trees
    BY HeadCommitTyped DEF GitTyped, RepoTypeOK
  <2>2. /\ used' = used + 1 /\ used' \in Commits
        /\ hist' \in [Commits -> SUBSET Commits] /\ tree' \in [Commits -> Trees]
        /\ \A d \in 1..used : hist'[d] = hist[d]
        /\ hist'[used'] = {used'} \union HistOf(HeadCommit)
        /\ Ancestry'
    BY <1>4, <2>1, CommitAdds DEF GitTyped, AddsCommit
  <2>3. /\ 0..used \subseteq 0..used' /\ 1..used \subseteq 1..used' /\ used' \in 1..used'
        /\ remote \in Refs' /\ origin \in Refs' /\ local \in Refs'
        /\ at \in 0..used' /\ committed \subseteq 1..used'
    BY <2>2, TypesGrow DEF GitTyped
  <2>4. call' \in [Callers -> CallRecords(used')]
    BY <1>2, <2>3 DEF CallRecords
  <2>5. local' \in Refs' /\ at' \in 0..used' /\ committed' \subseteq 1..used'
    <3>1. used' \in 0..used'
      BY <2>2 DEF GitTyped, RepoTypeOK, Commits
    <3>2. CASE head = NoBranch
      BY <1>4, <2>3, <3>1, <3>2 DEF AddsCommit
    <3>3. CASE head # NoBranch
      BY <1>4, <2>3, <3>1, <3>3 DEF Refs, AddsCommit
    <3> QED BY <3>2, <3>3
  <2>6. RepoTypeOK'
    BY <1>1, <2>2, <2>3, <2>4, <2>5 DEF GitTyped, RepoTypeOK, CallRecords, GitStages, Refs
  <2> QED BY <1>1, <1>2, <1>4, <2>2, <2>6 DEF GitTyped
<1> QED BY <1>3, <1>4 DEF Commit, AddsCommit

LEMMA PushTyped ==
    ASSUME GitTyped, NEW c \in Callers, Push(c)
    PROVE  GitTyped' /\ call'[c].op = "none"
<1>1. /\ call' = call /\ call[c].op = "none"
      /\ UNCHANGED <<hist, tree, used, disk, local, head, at, index, work, committed>>
      /\ head \in Branches /\ local[head] \in 0..used /\ local[head] # 0
  BY DEF Push, Free, OnBranch, commitVars, fileVars, GitTyped, RepoTypeOK, Refs
<1>2. remote' = remote \/ remote' = [remote EXCEPT ![head] = local[head]]
  BY DEF Push
<1>3. origin' = origin \/ origin' = [origin EXCEPT ![head] = local[head]]
  BY DEF Push
<1>4. remote' \in Refs /\ origin' \in Refs /\ remote'[Main] # 0
  BY <1>1, <1>2, <1>3, GitAssumption DEF GitTyped, RepoTypeOK, Refs
<1>5. tracks' \subseteq Branches
  BY <1>1 DEF Push, GitTyped, RepoTypeOK
<1>6. gitFaults' \in 0..MaxGitFaults
  BY GitAssumption DEF Push, GitTyped, RepoTypeOK
<1>7. RepoTypeOK'
  BY <1>1, <1>4, <1>5, <1>6 DEF GitTyped, RepoTypeOK, Refs
<1> QED BY <1>1, <1>4, <1>7 DEF GitTyped, Ancestry

(* Only a branch that had no commit is made.                               *)
LEMMA CheckoutTyped ==
    ASSUME GitTyped, NEW c \in Callers, NEW b \in Branches,
           NEW create \in BOOLEAN, Checkout(c, b, create)
    PROVE  /\ GitTyped' /\ call'[c].op = "switch"
           /\ \A a \in Branches : local[a] # 0 => local'[a] = local[a]
<1>1. /\ Goes(c, "switch", b, 0, SomeTree) /\ disk' = disk
      /\ UNCHANGED <<hist, tree, used, remote, origin, head, at, index, work, committed,
                     gitFaults>>
      /\ tracks' \subseteq Branches
  BY DEF Checkout, commitVars, fileVars, GitTyped, RepoTypeOK
<1>2. call' \in [Callers -> CallRecords(used)] /\ call'[c].op = "switch"
  <2>1. 0 \in 0..used /\ "switch" \in GitStages
    BY GitAssumption DEF GitTyped, RepoTypeOK, Commits, GitStages
  <2> QED BY <1>1, <2>1, CallGoes, SomeTreeIsOne DEF GitTyped
<1>3. /\ local' \in Refs
      /\ \A a \in Branches : local[a] # 0 => local'[a] = local[a]
  <2>1. HeadCommit \in 0..used
    BY HeadCommitTyped DEF GitTyped
  <2> QED BY <2>1 DEF Checkout, GitTyped, RepoTypeOK, Refs
<1>4. RepoTypeOK'
  BY <1>1, <1>2, <1>3 DEF GitTyped, RepoTypeOK, Refs, CallRecords, GitStages
<1> QED BY <1>1, <1>2, <1>3, <1>4 DEF GitTyped, Ancestry

LEMMA SwitchedTyped ==
    ASSUME GitTyped, NEW c \in Callers, Switched(c)
    PROVE  GitTyped' /\ call'[c].op = "none"
<1> USE DEF commitVars, fileVars
<1>1. call' \in [Callers -> CallRecords(used)] /\ call'[c].op = "none"
  BY CallStops DEF Switched, GitTyped
<1>2. head' \in Branches /\ at' \in 0..used
  BY GitAssumption DEF Switched, GitTyped, RepoTypeOK, Commits
<1>3. index' \in Trees /\ work' \in Trees
  <2>1. CASE UNCHANGED fileVars
    BY <2>1 DEF GitTyped, RepoTypeOK
  <2>2. CASE local[head'] # 0 /\ FilesOf(local[head'])
    <3>1. local[head'] \in 1..used
      <4>1. local \in [Branches -> 0..used] /\ used \in 1..MaxCommits
        BY DEF GitTyped, RepoTypeOK, Refs, Commits
      <4>2. local[head'] \in 0..used
        BY <1>2, <4>1
      <4> QED BY <2>2, <4>1, <4>2, GitAssumption
    <3>2. local[head'] \in Commits
      BY <3>1, GitAssumption DEF GitTyped, RepoTypeOK, Commits
    <3> QED BY <2>2, <3>2 DEF FilesOf, GitTyped, RepoTypeOK
  <2> QED BY <2>1, <2>2 DEF Switched
<1>4. RepoTypeOK'
  BY <1>1, <1>2, <1>3 DEF Switched, GitTyped, RepoTypeOK, Refs, CallRecords, GitStages
<1> QED BY <1>1, <1>4 DEF Switched, GitTyped, Ancestry

LEMMA CallFailsTyped ==
    ASSUME GitTyped, NEW c \in Callers, CallFails(c)
    PROVE  GitTyped' /\ call'[c].op = "none"
<1> USE DEF commitVars, refVars, fileVars
<1>1. call' \in [Callers -> CallRecords(used)] /\ call'[c].op = "none"
  BY CallStops DEF CallFails, GitTyped
<1>2. gitFaults' \in 0..MaxGitFaults
  BY GitAssumption DEF CallFails, GitTyped, RepoTypeOK
<1>3. RepoTypeOK'
  BY <1>1, <1>2 DEF CallFails, GitTyped, RepoTypeOK, Refs, CallRecords, GitStages
<1> QED BY <1>1, <1>3 DEF CallFails, GitTyped, Ancestry

LEMMA GitCrashTyped ==
    ASSUME GitTyped, GitCrash
    PROVE  GitTyped' /\ \A c \in Callers : call'[c].op = "none"
<1> USE DEF commitVars, refVars, fileVars
<1>1. NoCall \in CallRecords(used) /\ NoCall.op = "none"
  BY GitAssumption, SomeTreeIsOne
     DEF GitTyped, RepoTypeOK, Commits, NoCall, CallRecords, GitStages
<1>2. /\ call' \in [Callers -> CallRecords(used)]
      /\ \A c \in Callers : call'[c].op = "none"
  BY <1>1 DEF GitCrash
<1>3. gitFaults' \in 0..MaxGitFaults
  BY GitAssumption DEF GitCrash, GitTyped, RepoTypeOK
<1>4. RepoTypeOK'
  BY <1>2, <1>3 DEF GitCrash, GitTyped, RepoTypeOK, Refs, CallRecords, GitStages
<1> QED BY <1>2, <1>4 DEF GitCrash, GitTyped, Ancestry

LEMMA EditsTyped == ASSUME GitTyped, NEW t \in Trees, AgentEdits(t) PROVE GitTyped'
BY DEF AgentEdits, commitVars, refVars, GitTyped, RepoTypeOK, Refs, Ancestry

(* Every step of a workspace, with any number of callers.                  *)
LEMMA GitTypedStep == ASSUME GitTyped, [GitNext]_gitVars PROVE GitTyped'
<1>1. CASE UNCHANGED gitVars
  BY <1>1 DEF gitVars, commitVars, refVars, fileVars, GitTyped, RepoTypeOK, Refs, Ancestry
<1>2. CASE GitCrash
  BY <1>2, GitCrashTyped
<1>3. ASSUME NEW t \in Trees, AgentEdits(t) \/ \E b \in Branches : OthersPush(b, t)
      PROVE  GitTyped'
  BY <1>3, EditsTyped, OthersPushTyped
<1>4. ASSUME NEW c \in Callers,
             \/ Clone(c) \/ Cloned(c) \/ CloneFails(c) \/ Delete(c) \/ CallFails(c)
             \/ Pull(c) \/ Fetched(c) \/ MoveBranch(c) \/ ForceFiles(c)
             \/ Stage(c) \/ Commit(c) \/ Push(c) \/ Switched(c)
      PROVE  GitTyped'
  BY <1>4, CloneTyped, ClonedTyped, CloneFailsTyped, DeleteTyped, CallFailsTyped, PullTyped,
     FetchedTyped, MoveBranchTyped, ForceFilesTyped, StageTyped, CommitTyped, PushTyped,
     SwitchedTyped
<1>5. ASSUME NEW c \in Callers, NEW b \in Branches, NEW create \in BOOLEAN,
             Checkout(c, b, create)
      PROVE  GitTyped'
  BY <1>5, CheckoutTyped
<1> QED BY <1>1, <1>2, <1>3, <1>4, <1>5 DEF GitNext, RepoCallBegins, RepoGoesOn

(***************************************************************************)
(* What is kept: the actions that move a branch or add a commit.           *)
(***************************************************************************)
LEMMA OthersPushKeeps ==
    ASSUME GitInv, Crossings, NEW b \in Branches, NEW t \in Trees, OthersPush(b, t)
    PROVE  PullAhead' /\ Kept'
<1>1. /\ used' = used + 1 /\ \A c \in 1..used : hist'[c] = hist[c]
      /\ UNCHANGED <<disk, local, head, call, committed>>
  BY OthersPushTyped DEF GitInv, OthersPush, refVars
<1>2. \A a \in Branches : HistOf(local[a])' = HistOf(local[a])
  <2> SUFFICES ASSUME NEW a \in Branches PROVE HistOf(local[a])' = HistOf(local[a])
    OBVIOUS
  <2>1. local[a] \in 0..used /\ local' = local
    BY <1>1 DEF GitInv, GitTyped, RepoTypeOK, Refs
  <2> QED BY <1>1, <2>1, GitAssumption DEF HistOf, GitInv, GitTyped, RepoTypeOK, Commits
<1>5. PullAhead'
  BY <1>1, PullsStand DEF PullAhead
<1>6. Kept'
  BY <1>1, <1>2, NotOverrun DEF GitInv, Kept, CommittedStays
<1> QED BY <1>5, <1>6

LEMMA ClonedKeeps ==
    ASSUME GitInv, Crossings, NEW c \in Callers, Cloned(c)
    PROVE  PullAhead' /\ Kept'
<1>1. call'[c].op = "none" /\ committed' = committed /\ committed = {}
  BY ClonedTyped DEF Cloned, GitInv, Kept
<1>2. PullAhead'
  BY <1>1, OthersStand, OthersKnow DEF GitInv, Cloned, commitVars
<1> QED BY <1>1, <1>2 DEF Kept, CommittedStays, Cloned

LEMMA DeleteKeeps ==
    ASSUME GitInv, Crossings, NEW c \in Callers, Delete(c)
    PROVE  PullAhead' /\ Kept'
<1>1. call'[c].op = "none" /\ committed' = {} /\ disk' # "repo"
  BY DeleteTyped DEF Delete, GitInv
<1>2. PullAhead'
  BY <1>1, OthersStand, OthersKnow DEF GitInv, Delete, commitVars
<1> QED BY <1>1, <1>2 DEF Kept, CommittedStays

(* A fast-forward: the target's history holds the branch's.                *)
LEMMA FetchedKeeps ==
    ASSUME GitInv, Crossings, NEW c \in Callers, Fetched(c)
    PROVE  PullAhead' /\ Kept'
<1> DEFINE b == call[c].branch
           target == origin'[b]
<1>1. /\ call[c].op = "fetch" /\ b \in Branches /\ b # NoBranch
      /\ c \notin stalePulls => head = b
      /\ UNCHANGED <<hist, used, remote, disk, local, head, committed>>
      /\ \A d \in Callers \ {c} : call'[d] = call[d]
  BY GitAssumption, OthersStand
     DEF Fetched, commitVars, fileVars, GitInv, GitTyped, RepoTypeOK, PullAhead
<1>2. Kept'
  BY <1>1, NothingMoves
<1>3. CASE call'[c].op = "none"
  BY <1>1, <1>2, <1>3, OthersKnow
<1>4. CASE call'[c].op # "none"
  <2>1. /\ FastForwards(b, target) /\ call'[c].op = "analysed"
        /\ call'[c].branch = b /\ call'[c].target = target /\ target \in 0..used
    BY <1>4, FetchedTyped DEF GitInv
  <2>2. ASSUME c \notin stalePulls' PROVE HistOf(local[b]) \subseteq HistOf(target)
    <3>1. local[b] \in HistOf(target)
      <4>1. c \notin stalePulls
        BY <2>1, <2>2 DEF Crossings, Pulls
      <4> QED BY <1>1, <2>1, <4>1 DEF FastForwards, HeadCommit
    <3>2. target \in 1..used /\ HistOf(target) = hist[target]
      BY <2>1, <3>1 DEF HistOf
    <3>3. hist[local[b]] \subseteq hist[target]
      BY <3>1, <3>2 DEF GitInv, GitTyped, Ancestry
    <3> QED BY <3>2, <3>3 DEF HistOf
  <2>3. PullAhead'
    <3>1. c \notin stalePulls' => HistOf(local[call[c].branch])' \subseteq HistOf(call[c].target)'
      BY <1>1, <2>1, <2>2 DEF HistOf
    <3> QED BY <1>1, <2>1, <3>1, OthersKnow
  <2> QED BY <1>2, <2>3
<1> QED BY <1>3, <1>4

LEMMA MoveBranchKeeps ==
    ASSUME GitInv, Crossings, NEW c \in Callers, MoveBranch(c)
    PROVE  PullAhead' /\ Kept'
<1> DEFINE b == call[c].branch
           target == call[c].target
<1>1. /\ local' = [local EXCEPT ![b] = target]
      /\ UNCHANGED <<hist, used, remote, disk, committed>>
      /\ b \in Branches /\ target \in 0..used /\ call[c].op = "analysed"
  BY DEF MoveBranch, commitVars, fileVars, GitInv, GitTyped, RepoTypeOK
<1>2. call'[c].op = "moved"
  BY MoveBranchTyped DEF GitInv
<1>3. ASSUME NEW a \in Branches, disk' = "repo", ~overrun'
      PROVE  HistOf(local[a]) \subseteq HistOf(local[a])'
  <2>1. CASE a = b
    <3>1. HistOf(local[b]) \subseteq HistOf(target)
      <4>1. c \notin stalePulls
        BY <1>1, <1>2, <1>3, NotOverrun DEF Overruns
      <4> QED BY <1>1, <4>1 DEF GitInv, PullAhead
    <3>2. local'[b] = target
      BY <1>1 DEF GitInv, GitTyped, RepoTypeOK, Refs
    <3> QED BY <1>1, <2>1, <3>1, <3>2 DEF HistOf
  <2>2. CASE a # b
    BY <1>1, <2>2 DEF HistOf, GitInv, GitTyped, RepoTypeOK, Refs
  <2> QED BY <2>1, <2>2
<1>4. Kept'
  BY <1>1, <1>3, NotOverrun DEF GitInv, Kept, CommittedStays
<1>5. PullAhead'
  BY <1>1, <1>2, OthersStand, OthersKnow DEF GitInv
<1> QED BY <1>4, <1>5

(* The branch at HEAD gets a commit whose history holds its old one's.     *)
LEMMA CommitKeeps ==
    ASSUME GitInv, Crossings, NEW c \in Callers, Commit(c)
    PROVE  PullAhead' /\ Kept'
<1>1. UNCHANGED <<remote, disk, head>> /\ disk = "repo"
  BY DEF Commit
<1>2. PullAhead'
  <2>1. call'[c].op = "none" /\ \A k \in 1..used : hist'[k] = hist[k]
    BY CommitTyped DEF GitInv
  <2> QED BY <2>1, OthersStand, OthersKnow DEF GitInv
<1>3. CASE UNCHANGED <<hist, tree, used, local, at, committed>>
  BY <1>1, <1>2, <1>3, NothingMoves
<1>4. CASE ~UNCHANGED <<hist, tree, used, local, at, committed>>
  <2>1. /\ AddsCommit(c) /\ used' = used + 1
        /\ \A d \in 1..used : hist'[d] = hist[d]
        /\ hist'[used'] = {used'} \union HistOf(HeadCommit)
    BY <1>4, CommitTyped DEF GitInv
  <2>2. used \in Nat /\ used' # 0
    BY <2>1, GitAssumption DEF GitInv, GitTyped, RepoTypeOK, Commits
  <2>3. ASSUME NEW a \in Branches
        PROVE  HistOf(local[a]) \subseteq HistOf(local[a])'
    <3>1. local[a] \in 0..used
      BY DEF GitInv, GitTyped, RepoTypeOK, Refs
    <3>2. CASE local'[a] = local[a]
      BY <2>1, <2>2, <3>1, <3>2 DEF HistOf
    <3>3. CASE local'[a] # local[a]
      <4>1. head = a /\ head # NoBranch /\ local'[a] = used'
        BY <2>1, <3>3 DEF AddsCommit, GitInv, GitTyped, RepoTypeOK, Refs
      <4>2. HistOf(local[a])' = {used'} \union HistOf(local[a])
        BY <2>1, <2>2, <4>1 DEF HistOf, HeadCommit
      <4> QED BY <4>2
    <3> QED BY <3>2, <3>3
  <2>4. ASSUME NEW k \in committed', ~overrun
        PROVE  \E a \in Branches : k \in HistOf(local[a])'
    <3>1. CASE k \in committed
      <4>1. PICK a \in Branches : k \in HistOf(local[a])
        BY <1>1, <2>4, <3>1 DEF GitInv, Kept, CommittedStays
      <4> QED BY <2>3, <4>1
    <3>2. CASE k \notin committed
      <4>1. /\ head \in Branches /\ k = used'
            /\ local' = [local EXCEPT ![head] = used']
        BY <2>1, <3>2 DEF AddsCommit, GitInv, GitTyped, RepoTypeOK
      <4>2. local'[head] = used'
        BY <4>1 DEF GitInv, GitTyped, RepoTypeOK, Refs
      <4>3. k \in HistOf(local[head])'
        BY <1>1, <2>1, <2>2, <4>1, <4>2 DEF HistOf
      <4> QED BY <1>1, <4>1, <4>3
    <3> QED BY <3>1, <3>2
  <2>5. Kept'
    BY <1>1, <2>4, NotOverrun DEF Kept, CommittedStays
  <2> QED BY <1>2, <2>5
<1> QED BY <1>3, <1>4

LEMMA CheckoutKeeps ==
    ASSUME GitInv, Crossings, NEW c \in Callers, NEW b \in Branches,
           NEW create \in BOOLEAN, Checkout(c, b, create)
    PROVE  PullAhead' /\ Kept'
<1>1. /\ call'[c].op = "switch"
      /\ \A a \in Branches : local[a] # 0 => local'[a] = local[a]
      /\ UNCHANGED <<hist, remote, disk, committed>>
  BY CheckoutTyped DEF GitInv, Checkout, commitVars
<1>2. \A a \in Branches : HistOf(local[a]) \subseteq HistOf(local[a])'
  BY <1>1 DEF HistOf
<1>3. Kept'
  BY <1>1, <1>2, NotOverrun DEF GitInv, Kept, CommittedStays
<1>4. PullAhead'
  BY <1>1, OthersStand, OthersKnow DEF GitInv
<1> QED BY <1>3, <1>4

(* The steps that move no branch and add no commit.                        *)
LEMMA QuietKeeps ==
    ASSUME GitInv, Crossings, NEW c \in Callers,
           \/ Clone(c) \/ CloneFails(c) \/ CallFails(c) \/ Pull(c) \/ ForceFiles(c)
           \/ Stage(c) \/ Push(c) \/ Switched(c)
    PROVE  PullAhead' /\ Kept'
<1>1. GitTyped
  BY DEF GitInv
<1>2. \/ call'[c].op \notin {"fetch", "analysed"}
      \/ call'[c].op = "fetch" /\ call'[c].branch = head /\ head' = head
  BY <1>1, CloneTyped, CloneFailsTyped, CallFailsTyped, PullTyped, ForceFilesTyped, StageTyped,
     PushTyped, SwitchedTyped DEF Pull, refVars
<1>3. PullAhead'
  <2>1. \A d \in Callers \ {c} : call'[d] = call[d]
    BY <1>1, OthersStand
  <2>2. hist' = hist
    BY DEF Clone, CloneFails, CallFails, Pull, ForceFiles, Stage, Push, Switched, commitVars
  <2> QED BY <1>2, <2>1, <2>2, OthersKnow
<1>4. /\ UNCHANGED <<hist, used, local, committed>>
      /\ disk' = disk \/ (disk # "repo" /\ disk' # "repo")
  BY DEF Clone, CloneFails, CallFails, Pull, ForceFiles, Stage, Push, Switched, commitVars,
         refVars
<1>5. Kept'
  BY <1>4, NotOverrun DEF GitInv, Kept, CommittedStays, HistOf
<1> QED BY <1>3, <1>5

LEMMA GitCrashKeeps == ASSUME GitInv, Crossings, GitCrash PROVE PullAhead' /\ Kept'
<1>1. \A c \in Callers : call'[c].op = "none"
  BY GitCrashTyped DEF GitInv
<1>2. UNCHANGED <<hist, used, remote, disk, local, committed>>
  BY DEF GitCrash, commitVars, refVars
<1> QED BY <1>1, <1>2, NothingMoves DEF PullAhead

LEMMA EditsKeep ==
    ASSUME GitInv, Crossings, NEW t \in Trees, AgentEdits(t) PROVE PullAhead' /\ Kept'
<1>1. UNCHANGED <<hist, used, remote, disk, local, head, call, committed>>
  BY DEF AgentEdits, commitVars, refVars
<1>2. PullAhead'
  BY <1>1, PullsStand DEF PullAhead
<1> QED BY <1>1, <1>2, NothingMoves

(***************************************************************************)
(* The theorems.                                                           *)
(***************************************************************************)
LEMMA InitGit == GitInit => GitInv
<1> SUFFICES ASSUME GitInit PROVE GitInv
  OBVIOUS
<1>1. \A c \in Callers : call[c].op = "none"
  BY DEF GitInit, NoCall
<1>2. PullAhead /\ Kept
  BY <1>1 DEF GitInit, PullAhead, Kept, CommittedStays
<1> QED BY <1>2, InitTyped DEF GitInv

(* Every step of a workspace keeps the invariant.                          *)
LEMMA GitStep == ASSUME GitInv, [GitNext]_gitVars PROVE GitInv'
<1>1. GitTyped'
  BY GitTypedStep DEF GitInv
<1>2. CASE UNCHANGED gitVars
  BY <1>1, <1>2 DEF gitVars, commitVars, refVars, GitInv, PullAhead, Kept, CommittedStays,
                    HistOf
<1>3. CASE Crossings /\ GitCrash
  BY <1>1, <1>3, GitCrashKeeps DEF GitInv
<1>4. ASSUME Crossings, NEW t \in Trees, AgentEdits(t) \/ \E b \in Branches : OthersPush(b, t)
      PROVE  GitInv'
  BY <1>1, <1>4, EditsKeep, OthersPushKeeps DEF GitInv
<1>5. ASSUME Crossings, NEW c \in Callers,
             \/ Clone(c) \/ Cloned(c) \/ CloneFails(c) \/ Delete(c) \/ CallFails(c)
             \/ Pull(c) \/ Fetched(c) \/ MoveBranch(c) \/ ForceFiles(c)
             \/ Stage(c) \/ Commit(c) \/ Push(c) \/ Switched(c)
      PROVE  GitInv'
  <2>1. PullAhead' /\ Kept'
    BY <1>5, QuietKeeps, ClonedKeeps, DeleteKeeps, FetchedKeeps, MoveBranchKeeps, CommitKeeps
  <2> QED BY <1>1, <2>1 DEF GitInv
<1>6. ASSUME Crossings, NEW c \in Callers, NEW b \in Branches, NEW create \in BOOLEAN,
             Checkout(c, b, create)
      PROVE  GitInv'
  BY <1>1, <1>6, CheckoutKeeps DEF GitInv
<1>7. CASE GitNext
  <2>1. Crossings
    BY <1>7 DEF GitNext
  <2>2. CASE RepoCallBegins
    BY <1>5, <1>6, <2>1, <2>2 DEF RepoCallBegins
  <2>3. CASE RepoGoesOn
    BY <1>3, <1>4, <1>5, <2>1, <2>3 DEF RepoGoesOn
  <2> QED BY <1>7, <2>2, <2>3 DEF GitNext
<1> QED BY <1>2, <1>7

(* The inductive invariant, of which the rest are parts: what a pull found *)
(* stays true of its branch until the branch is moved, for any number of   *)
(* callers, unless another call has overtaken the pull.                    *)
THEOREM GitInvariant == GitSpec => []GitInv
BY InitGit, GitStep, PTL DEF GitSpec

(* Every variable of a workspace keeps its type, whatever the number of    *)
(* callers, and the commits stay a history.                                *)
THEOREM GitTypeCorrect == GitSpec => []GitTypeOK
<1> DEFINE Noted == stalePulls \subseteq Callers /\ overrun \in BOOLEAN /\ calls \in 0..MaxCalls
<1>1. GitInit => Noted
  <2>1. MaxCalls \in Nat
    BY GitAssumption
  <2>2. 0 \in 0..MaxCalls
    BY <2>1
  <2> QED BY <2>2 DEF GitInit
<1>2. Noted /\ [GitNext]_gitVars => Noted'
  <2> SUFFICES ASSUME Noted, [GitNext]_gitVars PROVE Noted'
    OBVIOUS
  <2>1. CASE UNCHANGED gitVars
    BY <2>1 DEF gitVars
  <2>2. CASE GitNext
    <3>1. stalePulls' \subseteq Callers /\ overrun' \in BOOLEAN
      BY <2>2 DEF GitNext, Crossings
    <3>2. calls' = calls \/ (calls < MaxCalls /\ calls' = calls + 1)
      BY <2>2 DEF GitNext
    <3> QED BY <3>1, <3>2, GitAssumption
  <2> QED BY <2>1, <2>2
<1>3. GitTyped /\ Noted => GitTypeOK
  BY DEF GitTyped, GitTypeOK
<1>4. GitTyped /\ [GitNext]_gitVars => GitTyped'
  BY GitTypedStep
<1> HIDE DEF Noted
<1> QED BY <1>1, <1>2, <1>3, <1>4, InitTyped, PTL DEF GitSpec

(* A commit that commit_all answered for stays reachable from a branch of  *)
(* its workspace until that is deleted, for any number of calls at once,   *)
(* whatever others push, wherever a call fails and whenever the app dies:  *)
(* no pull moves a branch to a commit that does not have the old one among *)
(* its ancestors, except one under which another call moved a branch or    *)
(* HEAD after it began.                                                    *)
THEOREM CommitsStay == GitSpec => []CommittedStays
<1>1. GitInv => CommittedStays
  BY DEF GitInv, Kept
<1> QED BY <1>1, GitInvariant, PTL

-----------------------------------------------------------------------------
(* The storage root                                                         *)

(* What each inode's only entry may be, and what a caller.                 *)
Entries == [Inodes -> 0..MaxInodes]
Calling == [at : {"idle", "provision", "open", "sync", "check", "undo", "walk", "opened",
                  "ensure", "publish"},
            level : 1..Depth, made : BOOLEAN, undo : BOOLEAN, fd : 0..MaxInodes]

(* Of entries e as seen and d on disk: those on the way to level n agree.  *)
OnDisk(e, d, n) ==
    \A k \in 1..n : Resolve(e, k) # 0 /\ d[Resolve(e, k - 1)] = Resolve(e, k)

(* How far caller c has synced.                                            *)
SyncedTo(c) == IF c.at = "idle" THEN 0
               ELSE IF c.at \in {"walk", "opened"} THEN RootLevel ELSE c.level - 1

(* What a caller may rely on, as long as nothing was removed under it.     *)
Relies(e, d, c) ==
    /\ OnDisk(e, d, SyncedTo(c))
    /\ c.at \in {"open", "sync", "check"} /\ ~c.undo => Resolve(e, c.level) # 0
    /\ c.at = "sync" /\ ~c.undo => c.fd = Resolve(e, c.level - 1)
    /\ c.at = "check" /\ ~c.undo => d[Resolve(e, c.level - 1)] = Resolve(e, c.level)
    /\ c.at = "publish" => Resolve(e, c.level) # 0

(* Which levels a caller is at.                                            *)
CallerOK(c) ==
    /\ c.at \in {"provision", "open", "sync", "check", "undo"} => c.level <= RootLevel
    /\ c.at \in {"ensure", "publish"} => c.level > RootLevel
    /\ c.at = "sync" => c.fd # 0
    /\ c.at = "idle" => c = NoCaller

StorageInv ==
    /\ StorageTypeOK
    /\ \A o \in Openers : CallerOK(opener[o])
    /\ ~undercut => /\ \A o \in Openers : Relies(child, dchild, opener[o])
                    /\ answered => OnDisk(child, dchild, Depth)

(* From entries e, d to f, g nothing that was there or on disk went.       *)
Firm(e, d, f, g) ==
    /\ \A k \in 0..Depth : Resolve(e, k) # 0 => Resolve(f, k) = Resolve(e, k)
    /\ \A k \in 1..Depth : Resolve(e, k) # 0 /\ d[Resolve(e, k - 1)] = Resolve(e, k)
                             => g[Resolve(e, k - 1)] = Resolve(e, k)

-----------------------------------------------------------------------------
(* Paths                                                                    *)

(* A path is walked one entry at a time.                                   *)
LEMMA ResolveSteps ==
    ASSUME NEW e
    PROVE  /\ Resolve(e, 0) = 1
           /\ \A l \in 1..Depth : Resolve(e, l) =
                 IF Resolve(e, l - 1) = 0 THEN 0 ELSE e[Resolve(e, l - 1)]
<1> DEFINE down(i) == IF i = 0 THEN 0 ELSE e[i]
           known == [k \in 0..4 |-> IF k = 0 THEN 1 ELSE IF k = 1 THEN down(1)
                       ELSE IF k = 2 THEN down(down(1)) ELSE IF k = 3 THEN down(down(down(1)))
                       ELSE down(down(down(down(1))))]
           walk == CHOOSE w : w = [k \in 0..Depth |->
                       IF k = 0 THEN 1 ELSE IF w[k - 1] = 0 THEN 0 ELSE e[w[k - 1]]]
<1>1. \A l \in 0..Depth : Resolve(e, l) = walk[l]
  BY DEF Resolve
<1>2. known = [k \in 0..Depth |->
                 IF k = 0 THEN 1 ELSE IF known[k - 1] = 0 THEN 0 ELSE e[known[k - 1]]]
  BY DEF Depth
<1> HIDE DEF known
<1>3. walk = [k \in 0..Depth |->
                 IF k = 0 THEN 1 ELSE IF walk[k - 1] = 0 THEN 0 ELSE e[walk[k - 1]]]
  BY <1>2
<1> HIDE DEF walk
<1>4. Depth = 4 /\ walk[0] = 1
  BY <1>3 DEF Depth
<1>5. \A l \in 1..Depth : walk[l] = IF walk[l - 1] = 0 THEN 0 ELSE e[walk[l - 1]]
  BY <1>3, <1>4
<1> QED BY <1>1, <1>4, <1>5

LEMMA Bounds ==
    /\ Depth = 4 /\ RootLevel = 2 /\ MaxInodes \in Nat /\ 1 \in Inodes /\ 0 \notin Inodes
    /\ Inodes = (0..MaxInodes) \ {0}
BY StorageAssumption DEF Depth, RootLevel, Inodes

LEMMA ResolveTyped ==
    ASSUME NEW e \in Entries
    PROVE  /\ \A k \in 0..Depth : Resolve(e, k) \in 0..MaxInodes
           /\ \A k \in 0..Depth : Resolve(e, k) # 0 => Resolve(e, k) \in Inodes
<1>1. \A k \in 1..4 : Resolve(e, k - 1) \in 0..MaxInodes => Resolve(e, k) \in 0..MaxInodes
  BY ResolveSteps, Bounds DEF Entries
<1>2. Resolve(e, 0) \in 0..MaxInodes
  BY ResolveSteps, Bounds
<1>3. Resolve(e, 1) \in 0..MaxInodes
  BY <1>1, <1>2
<1>4. Resolve(e, 2) \in 0..MaxInodes
  BY <1>1, <1>3
<1>5. Resolve(e, 3) \in 0..MaxInodes
  BY <1>1, <1>4
<1>6. Resolve(e, 4) \in 0..MaxInodes
  BY <1>1, <1>5
<1>7. \A k \in 0..4 : k = 0 \/ k = 1 \/ k = 2 \/ k = 3 \/ k = 4
  OBVIOUS
<1>8. \A k \in 0..4 : Resolve(e, k) \in 0..MaxInodes
  BY <1>2, <1>3, <1>4, <1>5, <1>6, <1>7
<1> QED BY <1>8, Bounds

(* What is above a component that is there is there.                       *)
LEMMA Above ==
    ASSUME NEW e, NEW k \in 1..Depth, Resolve(e, k) # 0
    PROVE  Resolve(e, k - 1) # 0 /\ e[Resolve(e, k - 1)] = Resolve(e, k)
BY ResolveSteps

LEMMA AboveAll ==
    ASSUME NEW e, NEW l \in 0..Depth, Resolve(e, l) # 0
    PROVE  \A k \in 0..l : Resolve(e, k) # 0
<1>1. \A k \in 1..4 : Resolve(e, k) # 0 => Resolve(e, k - 1) # 0
  BY Above, Bounds
<1>2. \A k \in 0..4 : k = 0 \/ k = 1 \/ k = 2 \/ k = 3 \/ k = 4
  OBVIOUS
<1>3. l = 0 \/ l = 1 \/ l = 2 \/ l = 3 \/ l = 4
  BY <1>2, Bounds
<1>4. /\ Resolve(e, 4) # 0 => Resolve(e, 3) # 0
      /\ Resolve(e, 3) # 0 => Resolve(e, 2) # 0
      /\ Resolve(e, 2) # 0 => Resolve(e, 1) # 0
      /\ Resolve(e, 1) # 0 => Resolve(e, 0) # 0
  BY <1>1
<1>5. \A k \in 0..l : k <= l /\ (k = 0 \/ k = 1 \/ k = 2 \/ k = 3 \/ k = 4)
  BY <1>2, Bounds
<1> QED BY <1>3, <1>4, <1>5

(* A path of n components is the same through entries that agree on it.    *)
AgreeOn(e, f, n) ==
    \A k \in 1..n : Resolve(e, k - 1) # 0 /\ f[Resolve(e, k - 1)] = e[Resolve(e, k - 1)]

LEMMA SamePath ==
    ASSUME NEW e, NEW f, NEW n \in 0..Depth, AgreeOn(e, f, n)
    PROVE  \A k \in 0..n : Resolve(f, k) = Resolve(e, k)
<1>1. \A k \in 1..4 : k <= n /\ Resolve(f, k - 1) = Resolve(e, k - 1)
                        => Resolve(f, k) = Resolve(e, k)
  BY ResolveSteps, Bounds DEF AgreeOn
<1>2. Resolve(f, 0) = Resolve(e, 0)
  BY ResolveSteps
<1>3. 1 <= n => Resolve(f, 1) = Resolve(e, 1)
  BY <1>1, <1>2
<1>4. 2 <= n => Resolve(f, 2) = Resolve(e, 2)
  BY <1>1, <1>3, Bounds
<1>5. 3 <= n => Resolve(f, 3) = Resolve(e, 3)
  BY <1>1, <1>4, Bounds
<1>6. 4 <= n => Resolve(f, 4) = Resolve(e, 4)
  BY <1>1, <1>5, Bounds
<1>7. \A k \in 0..n : k <= n /\ (k = 0 \/ k = 1 \/ k = 2 \/ k = 3 \/ k = 4)
  BY Bounds
<1> QED BY <1>2, <1>3, <1>4, <1>5, <1>6, <1>7

-----------------------------------------------------------------------------
(* What is on disk stays                                                    *)

LEMMA FirmDisk ==
    ASSUME NEW e, NEW d, NEW f, NEW g, Firm(e, d, f, g), NEW n \in 0..Depth, OnDisk(e, d, n)
    PROVE  OnDisk(f, g, n)
<1> SUFFICES ASSUME NEW k \in 1..n
             PROVE  Resolve(f, k) # 0 /\ g[Resolve(f, k - 1)] = Resolve(f, k)
  BY DEF OnDisk
<1>1. k \in 1..Depth /\ k \in 0..Depth /\ k - 1 \in 0..Depth
  BY Bounds
<1>2. Resolve(e, k) # 0 /\ d[Resolve(e, k - 1)] = Resolve(e, k)
  BY DEF OnDisk
<1>3. Resolve(e, k - 1) # 0
  BY <1>1, <1>2, Above
<1> QED BY <1>1, <1>2, <1>3 DEF Firm

LEMMA CallerLevels ==
    ASSUME NEW c \in Calling
    PROVE  /\ c.level \in 1..Depth /\ c.level - 1 \in 0..Depth /\ SyncedTo(c) \in 0..Depth
BY Bounds DEF Calling, SyncedTo

LEMMA FirmRelies ==
    ASSUME NEW e, NEW d, NEW f, NEW g, Firm(e, d, f, g), NEW c \in Calling, Relies(e, d, c)
    PROVE  Relies(f, g, c)
<1>1. /\ c.level \in 1..Depth /\ c.level - 1 \in 0..Depth /\ SyncedTo(c) \in 0..Depth
      /\ c.level \in 0..Depth
  BY CallerLevels, Bounds
<1>2. OnDisk(f, g, SyncedTo(c))
  BY <1>1, FirmDisk DEF Relies
<1>3. Resolve(e, c.level) # 0 => /\ Resolve(f, c.level) = Resolve(e, c.level)
                                 /\ Resolve(f, c.level - 1) = Resolve(e, c.level - 1)
  BY <1>1, Above DEF Firm
<1>4. Resolve(e, c.level) # 0 /\ d[Resolve(e, c.level - 1)] = Resolve(e, c.level)
        => g[Resolve(f, c.level - 1)] = Resolve(f, c.level)
  BY <1>1, <1>3 DEF Firm
<1> QED BY <1>2, <1>3, <1>4 DEF Relies

LEMMA StayFirm == ASSUME NEW e, NEW d PROVE Firm(e, d, e, d)
BY DEF Firm

(* From d to g, entry v came to inode i.                                   *)
Puts(d, g, i, v) == g = [d EXCEPT ![i] = v]

(* A directory's entry is brought to disk, or is left as it is there.      *)
LEMMA SyncFirm ==
    ASSUME NEW e \in Entries, NEW d \in Entries, NEW i \in Inodes, NEW v, v = e[i] \/ v = d[i],
           NEW g, Puts(d, g, i, v)
    PROVE  Firm(e, d, e, g) /\ g \in Entries
<1>1. g \in Entries /\ \A j \in Inodes : g[j] = IF j = i THEN v ELSE d[j]
  BY DEF Entries, Puts
<1>2. ASSUME NEW k \in 1..Depth, Resolve(e, k) # 0, d[Resolve(e, k - 1)] = Resolve(e, k)
      PROVE  g[Resolve(e, k - 1)] = Resolve(e, k)
  <2>1. Resolve(e, k - 1) # 0 /\ e[Resolve(e, k - 1)] = Resolve(e, k) /\ k - 1 \in 0..Depth
    BY <1>2, Above, Bounds
  <2>2. Resolve(e, k - 1) \in Inodes
    BY <2>1, ResolveTyped
  <2> QED BY <1>1, <1>2, <2>1, <2>2
<1>3. Firm(e, d, e, g)
  BY <1>2 DEF Firm
<1> QED BY <1>1, <1>3

(* From e and d to f and g, inode new was entered at i, and is empty.      *)
MadeAt(e, d, f, g, i, new) ==
    f = [e EXCEPT ![i] = new, ![new] = 0] /\ g = [d EXCEPT ![new] = 0]
Unused(e, new) == new \in Inodes /\ new # 1 /\ \A i \in Inodes : e[i] # new

(* A component is made where there was none, of an inode nobody knew.      *)
LEMMA MakeFirm ==
    ASSUME NEW e \in Entries, NEW d \in Entries, NEW l \in 1..Depth,
           Resolve(e, l - 1) # 0, Resolve(e, l) = 0, NEW new, Unused(e, new),
           NEW f, NEW g, MadeAt(e, d, f, g, Resolve(e, l - 1), new)
    PROVE  f \in Entries /\ g \in Entries /\ Firm(e, d, f, g) /\ Resolve(f, l) # 0
<1>0. new \in Inodes /\ new # 1 /\ \A i \in Inodes : e[i] # new
  BY DEF Unused
<1>1. l - 1 \in 0..Depth /\ Resolve(e, l - 1) \in Inodes
  BY ResolveTyped, Bounds
<1>2. /\ f \in Entries /\ g \in Entries
      /\ \A i \in Inodes : i # Resolve(e, l - 1) /\ i # new => f[i] = e[i]
      /\ \A i \in Inodes : i # new => g[i] = d[i]
  <2> DEFINE p == Resolve(e, l - 1)
  <2>1. p \in Inodes /\ f = [e EXCEPT ![p] = new, ![new] = 0]
    BY <1>1 DEF MadeAt
  <2>0. g = [d EXCEPT ![new] = 0]
    BY DEF MadeAt
  <2> HIDE DEF p
  <2>2. new \in 0..MaxInodes /\ 0 \in 0..MaxInodes
    BY <1>0, Bounds
  <2>3. /\ f \in Entries /\ g \in Entries
        /\ \A i \in Inodes : i # p /\ i # new => f[i] = e[i]
        /\ \A i \in Inodes : i # new => g[i] = d[i]
    BY <1>0, <2>0, <2>1, <2>2 DEF Entries
  <2> QED BY <2>3 DEF p
<1>3. ASSUME NEW k \in 0..Depth, Resolve(e, k) # 0 PROVE Resolve(e, k) \in Inodes /\ Resolve(e, k) # new
  <2>1. Resolve(e, k) \in Inodes
    BY <1>3, ResolveTyped
  <2>2. CASE k = 0
    BY <1>0, <2>1, <2>2, ResolveSteps
  <2>3. CASE k # 0
    <3>1. k \in 1..Depth /\ k - 1 \in 0..Depth
      BY <2>3, Bounds
    <3>2. Resolve(e, k - 1) # 0 /\ e[Resolve(e, k - 1)] = Resolve(e, k)
      BY <1>3, <3>1, Above
    <3>3. Resolve(e, k - 1) \in Inodes
      BY <3>1, <3>2, ResolveTyped
    <3> QED BY <1>0, <2>1, <3>2, <3>3
  <2> QED BY <2>2, <2>3
<1>4. new # Resolve(e, l - 1) /\ f[Resolve(e, l - 1)] = new
  <2>1. new # Resolve(e, l - 1)
    BY <1>1, <1>3
  <2> QED BY <1>0, <1>1, <2>1 DEF Entries, MadeAt
<1>5. e[Resolve(e, l - 1)] = 0
  BY ResolveSteps
<1>6. \A k \in 0..(l - 1) : Resolve(f, k) = Resolve(e, k)
  <2>1. \A k \in 0..(l - 1) : Resolve(e, k) # 0
    BY <1>1, AboveAll
  <2>2. ASSUME NEW k \in 1..(l - 1)
        PROVE  Resolve(e, k - 1) # 0 /\ f[Resolve(e, k - 1)] = e[Resolve(e, k - 1)]
    <3>1. k \in 1..Depth /\ k - 1 \in 0..Depth /\ k - 1 \in 0..(l - 1) /\ k \in 0..(l - 1)
      BY Bounds
    <3>2. Resolve(e, k) # 0 /\ Resolve(e, k - 1) # 0
      BY <2>1, <3>1
    <3>3. e[Resolve(e, k - 1)] # 0
      BY <3>1, <3>2, Above
    <3>4. Resolve(e, k - 1) \in Inodes /\ Resolve(e, k - 1) # new
      BY <1>3, <3>1, <3>2
    <3>5. Resolve(e, k - 1) # Resolve(e, l - 1)
      BY <1>5, <3>3
    <3> QED BY <1>2, <3>2, <3>4, <3>5
  <2>3. AgreeOn(e, f, l - 1)
    BY <2>2 DEF AgreeOn
  <2> QED BY <1>1, <2>3, SamePath
<1>7. Resolve(f, l) # 0
  <2>1. Resolve(f, l - 1) = Resolve(e, l - 1)
    <3>1. l - 1 \in 0..(l - 1)
      BY Bounds
    <3> QED BY <1>6, <3>1
  <2>2. Resolve(f, l) = IF Resolve(f, l - 1) = 0 THEN 0 ELSE f[Resolve(f, l - 1)]
    BY ResolveSteps
  <2> QED BY <1>0, <1>4, <2>1, <2>2, Bounds
<1>8. ASSUME NEW k \in 0..Depth, Resolve(e, k) # 0 PROVE k \in 0..(l - 1)
  <2>1. k < l
    <3>1. CASE l <= k
      <4>1. l \in 0..k
        BY <3>1, Bounds
      <4> QED BY <1>8, <4>1, AboveAll
    <3> QED BY <3>1, Bounds
  <2> QED BY <2>1, Bounds
<1>9. ASSUME NEW k \in 1..Depth, Resolve(e, k) # 0, d[Resolve(e, k - 1)] = Resolve(e, k)
      PROVE  g[Resolve(e, k - 1)] = Resolve(e, k)
  <2>1. k - 1 \in 0..Depth /\ Resolve(e, k - 1) # 0
    BY <1>9, Above, Bounds
  <2>2. Resolve(e, k - 1) \in Inodes /\ Resolve(e, k - 1) # new
    BY <1>3, <2>1
  <2> QED BY <1>2, <1>9, <2>2
<1>10. Firm(e, d, f, g)
  BY <1>6, <1>8, <1>9 DEF Firm
<1> QED BY <1>2, <1>7, <1>10

(* What is on disk is there after the power was lost.                      *)
LEMMA PowerDisk ==
    ASSUME NEW e \in Entries, NEW d \in Entries, NEW f \in Entries,
           \A i \in Inodes : f[i] \in {e[i], d[i]},
           NEW n \in 0..Depth, OnDisk(e, d, n)
    PROVE  OnDisk(f, f, n)
<1>1. ASSUME NEW k \in 1..n
      PROVE  /\ Resolve(e, k) # 0 /\ Resolve(e, k - 1) # 0
             /\ f[Resolve(e, k - 1)] = e[Resolve(e, k - 1)]
             /\ f[Resolve(e, k - 1)] = Resolve(e, k)
  <2>1. k \in 1..Depth /\ k - 1 \in 0..Depth
    BY Bounds
  <2>2. Resolve(e, k) # 0 /\ d[Resolve(e, k - 1)] = Resolve(e, k)
    BY DEF OnDisk
  <2>3. Resolve(e, k - 1) # 0 /\ e[Resolve(e, k - 1)] = Resolve(e, k)
    BY <2>1, <2>2, Above
  <2>4. Resolve(e, k - 1) \in Inodes
    BY <2>1, <2>3, ResolveTyped
  <2> QED BY <2>2, <2>3, <2>4
<1>2. \A k \in 0..n : Resolve(f, k) = Resolve(e, k)
  <2>1. AgreeOn(e, f, n)
    BY <1>1 DEF AgreeOn
  <2> QED BY <2>1, SamePath
<1>3. \A k \in 1..n : k - 1 \in 0..n /\ k \in 0..n
  BY Bounds
<1> QED BY <1>1, <1>2, <1>3 DEF OnDisk

(* An empty component of the root is removed: what is above it stays, and  *)
(* nothing was below it.                                                   *)
LEMMA RemoveDisk ==
    ASSUME NEW e \in Entries, NEW d, NEW l \in 1..RootLevel, Resolve(e, l) # 0,
           e[Resolve(e, l)] = 0, NEW f, f = [e EXCEPT ![Resolve(e, l - 1)] = 0]
    PROVE  /\ f \in Entries /\ ~OnDisk(e, d, Depth)
           /\ OnDisk(e, d, l - 1) => OnDisk(f, d, l - 1)
<1>1. l \in 1..Depth /\ l + 1 \in 1..Depth /\ l - 1 \in 0..Depth /\ l \in 0..Depth
  BY Bounds
<1>2. /\ Resolve(e, l - 1) # 0 /\ Resolve(e, l - 1) \in Inodes
      /\ e[Resolve(e, l - 1)] = Resolve(e, l)
  BY <1>1, Above, ResolveTyped
<1>3. f \in Entries /\ \A i \in Inodes : i # Resolve(e, l - 1) => f[i] = e[i]
  BY <1>2, Bounds DEF Entries
<1>4. Resolve(e, l + 1) = 0
  BY <1>1, ResolveSteps
<1>5. ~OnDisk(e, d, Depth)
  BY <1>1, <1>4 DEF OnDisk
<1>6. ASSUME OnDisk(e, d, l - 1) PROVE OnDisk(f, d, l - 1)
  <2>1. ASSUME NEW k \in 1..(l - 1)
        PROVE  /\ Resolve(e, k - 1) # 0 /\ f[Resolve(e, k - 1)] = e[Resolve(e, k - 1)]
               /\ Resolve(e, k) # 0 /\ d[Resolve(e, k - 1)] = Resolve(e, k)
    <3>1. k = 1 /\ l = 2 /\ k \in 1..Depth /\ k - 1 \in 0..Depth
      BY Bounds
    <3>2. Resolve(e, k) # 0 /\ d[Resolve(e, k - 1)] = Resolve(e, k)
      BY <1>6 DEF OnDisk
    <3>3. Resolve(e, k - 1) # 0 /\ e[Resolve(e, k - 1)] = Resolve(e, k)
      BY <3>1, <3>2, Above
    <3>4. Resolve(e, k - 1) \in Inodes
      BY <3>1, <3>3, ResolveTyped
    <3>5. Resolve(e, k - 1) # Resolve(e, l - 1)
      <4>1. SUFFICES ASSUME Resolve(e, k - 1) = Resolve(e, l - 1) PROVE FALSE
        OBVIOUS
      <4>2. Resolve(e, l) = Resolve(e, l - 1)
        BY <1>2, <3>1, <3>3, <4>1
      <4> QED BY <1>2, <4>2
    <3> QED BY <1>3, <3>2, <3>3, <3>4, <3>5
  <2>2. \A k \in 0..(l - 1) : Resolve(f, k) = Resolve(e, k)
    <3>1. AgreeOn(e, f, l - 1)
      BY <2>1 DEF AgreeOn
    <3> QED BY <1>1, <3>1, SamePath
  <2>3. \A k \in 1..(l - 1) : k - 1 \in 0..(l - 1) /\ k \in 0..(l - 1)
    BY Bounds
  <2> QED BY <2>1, <2>2, <2>3 DEF OnDisk
<1> QED BY <1>3, <1>5, <1>6

(* One level more is on disk.                                              *)
LEMMA NextLevel ==
    ASSUME NEW e, NEW d, NEW l \in 1..Depth, OnDisk(e, d, l - 1), Resolve(e, l) # 0,
           d[Resolve(e, l - 1)] = Resolve(e, l)
    PROVE  OnDisk(e, d, l)
<1> SUFFICES ASSUME NEW k \in 1..l
             PROVE  Resolve(e, k) # 0 /\ d[Resolve(e, k - 1)] = Resolve(e, k)
  BY DEF OnDisk
<1>1. k = l \/ k \in 1..(l - 1)
  BY Bounds
<1> QED BY <1>1 DEF OnDisk

LEMMA LevelSynced ==
    ASSUME NEW e \in Entries, NEW d \in Entries, NEW l \in 1..Depth, OnDisk(e, d, l - 1),
           Resolve(e, l) # 0, NEW g, g = [d EXCEPT ![Resolve(e, l - 1)] = e[Resolve(e, l - 1)]]
    PROVE  /\ g \in Entries /\ Firm(e, d, e, g) /\ OnDisk(e, g, l)
           /\ g[Resolve(e, l - 1)] = Resolve(e, l)
<1> DEFINE i == Resolve(e, l - 1)
<1>1. i \in Inodes /\ e[i] = Resolve(e, l) /\ l - 1 \in 0..Depth
  <2>1. l - 1 \in 0..Depth
    BY Bounds
  <2>2. Resolve(e, l - 1) # 0 /\ e[Resolve(e, l - 1)] = Resolve(e, l)
    BY Above
  <2> QED BY <2>1, <2>2, ResolveTyped
<1>2. g = [d EXCEPT ![i] = e[i]]
  OBVIOUS
<1> HIDE DEF i
<1>3. g \in Entries /\ Firm(e, d, e, g)
  <2> DEFINE v == e[i]
  <2>1. v = e[i] /\ Puts(d, g, i, v)
    BY <1>2 DEF Puts
  <2> HIDE DEF v
  <2> QED BY <1>1, <2>1, SyncFirm
<1>4. g[i] = Resolve(e, l)
  BY <1>1, <1>2 DEF Entries
<1>5. OnDisk(e, g, l - 1)
  BY <1>1, <1>3, FirmDisk
<1>6. OnDisk(e, g, l)
  BY <1>4, <1>5, NextLevel DEF i
<1> QED BY <1>3, <1>4, <1>6 DEF i

LEMMA NobodyRelies ==
    /\ NoCaller \in Calling /\ CallerOK(NoCaller)
    /\ \A e, d : Relies(e, d, NoCaller)
<1>1. NoCaller \in Calling
  BY Bounds DEF NoCaller, Calling
<1>2. CallerOK(NoCaller)
  BY DEF CallerOK, NoCaller
<1>3. \A e, d : Relies(e, d, NoCaller)
  BY DEF Relies, OnDisk, SyncedTo, NoCaller
<1> QED BY <1>1, <1>2, <1>3

LEMMA CallerTyped ==
    ASSUME StorageInv, NEW o \in Openers
    PROVE  /\ opener[o] \in Calling /\ CallerOK(opener[o])
           /\ child \in Entries /\ dchild \in Entries
           /\ ~undercut => Relies(child, dchild, opener[o])
BY DEF StorageInv, StorageTypeOK, Calling, Entries

-----------------------------------------------------------------------------
(* Steps                                                                    *)

(* A caller moves on, and takes nothing from the others.                   *)
LEMMA CallerMoves ==
    ASSUME StorageInv, NEW o \in Openers, NEW c \in Calling, CallerOK(c),
           opener' = [opener EXCEPT ![o] = c],
           child' \in Entries, dchild' \in Entries, answered' \in BOOLEAN, undercut' \in BOOLEAN,
           storageFaults' \in 0..MaxStorageFaults, storageCrashes' \in 0..MaxStorageCrashes,
           ~undercut' => /\ ~undercut
                         /\ Firm(child, dchild, child', dchild')
                         /\ Relies(child', dchild', c)
                         /\ answered' => answered \/ OnDisk(child', dchild', Depth)
    PROVE  StorageInv'
<1>1. /\ opener' \in [Openers -> Calling]
      /\ \A p \in Openers : opener'[p] = IF p = o THEN c ELSE opener[p]
  BY DEF StorageInv, StorageTypeOK, Calling
<1>2. StorageTypeOK'
  BY <1>1 DEF StorageTypeOK, Calling, Entries
<1>3. \A p \in Openers : CallerOK(opener'[p])
  BY <1>1 DEF StorageInv
<1>4. ASSUME ~undercut', NEW p \in Openers PROVE Relies(child', dchild', opener'[p])
  <2>1. CASE p = o
    BY <1>1, <1>4, <2>1
  <2>2. CASE p # o
    <3>1. opener[p] \in Calling /\ Relies(child, dchild, opener[p])
      BY <1>4, CallerTyped
    <3>2. Firm(child, dchild, child', dchild')
      BY <1>4
    <3>3. Relies(child', dchild', opener[p])
      BY <3>1, <3>2, FirmRelies
    <3> QED BY <1>1, <2>2, <3>3
  <2> QED BY <2>1, <2>2
<1>5. ASSUME ~undercut', answered' PROVE OnDisk(child', dchild', Depth)
  <2>1. CASE answered
    <3>1. /\ Firm(child, dchild, child', dchild') /\ ~undercut /\ answered
          /\ Depth \in 0..Depth
      BY <1>5, <2>1, Bounds
    <3>2. OnDisk(child, dchild, Depth)
      BY <3>1 DEF StorageInv
    <3> QED BY <3>1, <3>2, FirmDisk
  <2> QED BY <1>5, <2>1
<1> QED BY <1>2, <1>3, <1>4, <1>5 DEF StorageInv

(* Nor does it touch an entry.                                             *)
LEMMA CallerLooks ==
    ASSUME StorageInv, NEW o \in Openers, NEW c \in Calling, CallerOK(c),
           opener' = [opener EXCEPT ![o] = c], UNCHANGED <<entryVars, answered, undercut>>,
           storageFaults' \in 0..MaxStorageFaults, storageCrashes' \in 0..MaxStorageCrashes,
           ~undercut => Relies(child, dchild, c)
    PROVE  StorageInv'
<1>1. /\ child' = child /\ dchild' = dchild /\ answered' = answered /\ undercut' = undercut
      /\ child \in Entries /\ dchild \in Entries /\ answered \in BOOLEAN /\ undercut \in BOOLEAN
  BY CallerTyped DEF entryVars, StorageInv, StorageTypeOK
<1>2. Firm(child, dchild, child', dchild')
  BY <1>1, StayFirm
<1>3. ~undercut' => Relies(child', dchild', c)
  BY <1>1
<1>4. /\ child' \in Entries /\ dchild' \in Entries
      /\ answered' \in BOOLEAN /\ undercut' \in BOOLEAN
  BY <1>1
<1>5. ~undercut' => /\ ~undercut
                    /\ Firm(child, dchild, child', dchild')
                    /\ Relies(child', dchild', c)
                    /\ answered' => answered \/ OnDisk(child', dchild', Depth)
  BY <1>1, <1>2, <1>3
<1> QED BY <1>4, <1>5, CallerMoves

(* It gives up, or is done.                                                *)
LEMMA CallerEnds ==
    ASSUME StorageInv, NEW o \in Openers, Answers(o), UNCHANGED <<entryVars, answered, undercut>>,
           storageFaults' \in 0..MaxStorageFaults, storageCrashes' \in 0..MaxStorageCrashes
    PROVE  StorageInv'
BY NobodyRelies, CallerLooks DEF Answers

LEMMA BoundsStay ==
    ASSUME StorageInv, UNCHANGED boundVars
    PROVE  storageFaults' \in 0..MaxStorageFaults /\ storageCrashes' \in 0..MaxStorageCrashes
BY DEF StorageInv, StorageTypeOK, boundVars

LEMMA FaultCounted ==
    ASSUME StorageInv, StorageFault, UNCHANGED storageCrashes
    PROVE  storageFaults' \in 0..MaxStorageFaults /\ storageCrashes' \in 0..MaxStorageCrashes
<1>1. storageFaults \in 0..MaxStorageFaults /\ MaxStorageFaults \in Nat
  BY StorageAssumption DEF StorageInv, StorageTypeOK
<1> QED BY <1>1 DEF StorageFault, StorageInv, StorageTypeOK

LEMMA InitStorage == StorageInit => StorageInv
<1> SUFFICES ASSUME StorageInit PROVE StorageInv
  OBVIOUS
<1>1. \A o \in Openers : opener[o] = NoCaller
  BY DEF StorageInit
<1>2. StorageTypeOK
  <2>1. opener \in [Openers -> Calling]
    BY NobodyRelies DEF StorageInit
  <2>2. /\ child \in [Inodes -> 0..MaxInodes] /\ dchild \in [Inodes -> 0..MaxInodes]
        /\ answered = FALSE /\ undercut = FALSE
        /\ storageFaults \in 0..MaxStorageFaults /\ storageCrashes \in 0..MaxStorageCrashes
    BY StorageAssumption, Bounds DEF StorageInit
  <2> QED BY <2>1, <2>2 DEF StorageTypeOK, Calling
<1> QED BY <1>1, <1>2, NobodyRelies DEF StorageInv, StorageInit

(* A component is made, or found.                                          *)
LEMMA MadeOrFound ==
    ASSUME StorageInv, NEW l \in 1..Depth, Present(l - 1),
           IF Present(l) THEN UNCHANGED entryVars ELSE Make(l)
    PROVE  /\ child' \in Entries /\ dchild' \in Entries
           /\ Firm(child, dchild, child', dchild') /\ Resolve(child', l) # 0
<1>1. child \in Entries /\ dchild \in Entries
  BY DEF StorageInv, StorageTypeOK, Entries
<1>2. CASE Present(l)
  BY <1>1, <1>2, StayFirm DEF Present, entryVars
<1>3. CASE ~Present(l)
  <2> DEFINE known == {1} \union {child[i] : i \in Inodes} \union {dchild[i] : i \in Inodes}
                          \union {opener[o].fd : o \in Openers}
             new == CHOOSE i \in Inodes \ known : TRUE
  <2>1. Make(l)
    BY <1>3
  <2>2. /\ Inodes \ known # {}
        /\ child' = [child EXCEPT ![Resolve(child, l - 1)] = new, ![new] = 0]
        /\ dchild' = [dchild EXCEPT ![new] = 0]
    BY <2>1 DEF Make
  <2>3. new \in Inodes \ known
    <3> HIDE DEF known
    <3> QED BY <2>2
  <2>4. Unused(child, new)
    BY <2>3 DEF Unused
  <2> HIDE DEF known, new
  <2>5. Resolve(child, l - 1) # 0 /\ Resolve(child, l) = 0
    BY <1>3 DEF Present
  <2>6. MadeAt(child, dchild, child', dchild', Resolve(child, l - 1), new)
    BY <2>2 DEF MadeAt
  <2> QED BY <1>1, <2>4, <2>5, <2>6, MakeFirm
<1> QED BY <1>2, <1>3

(* What a caller is once its stage is another.                             *)
LEMMA StageSet ==
    ASSUME NEW b \in Calling, NEW c, NEW s, c = [b EXCEPT !.at = s],
           s \in {"provision", "undo", "opened", "publish"}
    PROVE  /\ c \in Calling /\ c.at = s /\ c.level = b.level /\ c.made = b.made
           /\ c.undo = b.undo /\ c.fd = b.fd
BY DEF Calling

(* A sync fails, or what it was for is not there.                          *)
LEMMA SyncErrs ==
    ASSUME StorageInv, NEW o \in Openers, opener[o].at \in {"open", "check"}, SyncFails(o),
           UNCHANGED <<entryVars, answered, undercut, boundVars>>
    PROVE  StorageInv'
<1>1. storageFaults' \in 0..MaxStorageFaults /\ storageCrashes' \in 0..MaxStorageCrashes
  BY BoundsStay
<1>2. CASE Answers(o)
  BY <1>1, <1>2, CallerEnds
<1>3. CASE GoesOn(o, "undo")
  <2> DEFINE b == opener[o]
             c == [b EXCEPT !.at = "undo"]
  <2>1. b \in Calling /\ CallerOK(b) /\ (~undercut => Relies(child, dchild, b))
    BY CallerTyped
  <2>2. opener' = [opener EXCEPT ![o] = c]
    BY <1>3 DEF GoesOn
  <2> HIDE DEF c
  <2>3. /\ c \in Calling /\ c.at = "undo" /\ c.level = b.level
    BY <2>1, StageSet DEF c
  <2>4. CallerOK(c)
    BY <2>1, <2>3 DEF CallerOK
  <2>5. ~undercut => Relies(child, dchild, c)
    BY <2>1, <2>3 DEF Relies, SyncedTo
  <2> QED BY <1>1, <2>2, <2>3, <2>4, <2>5, CallerLooks
<1> QED BY <1>2, <1>3 DEF SyncFails

LEMMA OpenStorageInv ==
    ASSUME StorageInv, NEW o \in Openers, OpenStorage(o) PROVE StorageInv'
<1> DEFINE b == opener[o]
           c == [b EXCEPT !.at = "provision"]
<1>1. b \in Calling /\ CallerOK(b) /\ b.at = "idle"
  BY CallerTyped DEF OpenStorage
<1>2. b = NoCaller
  BY <1>1 DEF CallerOK
<1>3. /\ opener' = [opener EXCEPT ![o] = c] /\ UNCHANGED <<entryVars, answered, undercut>>
      /\ storageFaults' \in 0..MaxStorageFaults /\ storageCrashes' \in 0..MaxStorageCrashes
  BY BoundsStay DEF OpenStorage
<1> HIDE DEF c
<1>4. c \in Calling /\ c.at = "provision" /\ c.level = 1
  BY <1>1, <1>2, StageSet DEF c, NoCaller
<1>5. CallerOK(c)
  BY <1>4, Bounds DEF CallerOK
<1>6. Relies(child, dchild, c)
  BY <1>4 DEF Relies, SyncedTo, OnDisk
<1> QED BY <1>3, <1>4, <1>5, <1>6, CallerLooks

LEMMA ProvisionInv ==
    ASSUME StorageInv, NEW o \in Openers, Provision(o) PROVE StorageInv'
<1> DEFINE b == opener[o]
           l == b.level
           c == [b EXCEPT !.at = "open", !.made = ~Present(l)]
<1>1. /\ b \in Calling /\ CallerOK(b) /\ b.at = "provision" /\ l \in 1..Depth /\ l - 1 \in 0..Depth
      /\ ~undercut => Relies(child, dchild, b)
  BY CallerTyped, CallerLevels DEF Provision
<1>2. /\ UNCHANGED <<answered, undercut>>
      /\ answered \in BOOLEAN /\ undercut \in BOOLEAN
      /\ storageFaults' \in 0..MaxStorageFaults /\ storageCrashes' \in 0..MaxStorageCrashes
  BY BoundsStay DEF Provision, StorageInv, StorageTypeOK
<1>3. CASE ~Present(l - 1)
  BY <1>2, <1>3, CallerEnds DEF Provision
<1>4. CASE Present(l - 1)
  <2>1. /\ opener' = [opener EXCEPT ![o] = c]
        /\ IF Present(l) THEN UNCHANGED entryVars ELSE Make(l)
    BY <1>4 DEF Provision
  <2>2. /\ child' \in Entries /\ dchild' \in Entries
        /\ Firm(child, dchild, child', dchild') /\ Resolve(child', l) # 0
    BY <1>1, <1>4, <2>1, MadeOrFound
  <2>3. c \in Calling /\ c.at = "open" /\ c.level = l
    BY <1>1 DEF Calling
  <2> HIDE DEF c
  <2>4. CallerOK(c)
    BY <1>1, <2>3 DEF CallerOK
  <2>5. ~undercut => Relies(child', dchild', c)
    <3>1. ~undercut => OnDisk(child, dchild, l - 1)
      BY <1>1 DEF Relies, SyncedTo
    <3>2. ~undercut => OnDisk(child', dchild', l - 1)
      BY <1>1, <2>2, <3>1, FirmDisk
    <3> QED BY <2>2, <2>3, <3>2 DEF Relies, SyncedTo
  <2>6. ~undercut' => /\ ~undercut
                      /\ Firm(child, dchild, child', dchild')
                      /\ Relies(child', dchild', c)
                      /\ answered' => answered \/ OnDisk(child', dchild', Depth)
    BY <1>2, <2>2, <2>5
  <2> QED BY <1>2, <2>1, <2>2, <2>3, <2>4, <2>6, CallerMoves
<1> QED BY <1>3, <1>4

LEMMA OpenParentInv ==
    ASSUME StorageInv, NEW o \in Openers, OpenParent(o) PROVE StorageInv'
<1> DEFINE b == opener[o]
           l == b.level
           c == [b EXCEPT !.at = "sync", !.fd = Resolve(child, l - 1)]
<1>1. /\ b \in Calling /\ CallerOK(b) /\ b.at = "open" /\ l \in 1..Depth /\ l - 1 \in 0..Depth
      /\ ~undercut => Relies(child, dchild, b)
  BY CallerTyped, CallerLevels DEF OpenParent
<1>2. /\ UNCHANGED <<entryVars, answered, undercut, boundVars>>
      /\ storageFaults' \in 0..MaxStorageFaults /\ storageCrashes' \in 0..MaxStorageCrashes
  BY BoundsStay DEF OpenParent
<1>3. CASE ~AsExpected(o)
  BY <1>1, <1>2, <1>3, SyncErrs DEF OpenParent
<1>4. CASE AsExpected(o)
  <2>1. opener' = [opener EXCEPT ![o] = c]
    BY <1>4 DEF OpenParent
  <2>2. Resolve(child, l - 1) # 0 /\ Resolve(child, l - 1) \in 0..MaxInodes
    BY <1>1, <1>4, CallerTyped, ResolveTyped DEF AsExpected, Present
  <2>3. /\ c \in Calling /\ c.at = "sync" /\ c.level = l /\ c.undo = b.undo
        /\ c.fd = Resolve(child, l - 1)
    BY <1>1, <2>2 DEF Calling
  <2> HIDE DEF c
  <2>4. CallerOK(c)
    BY <1>1, <2>2, <2>3 DEF CallerOK
  <2>5. ~undercut => Relies(child, dchild, c)
    BY <1>1, <2>3 DEF Relies, SyncedTo
  <2> QED BY <1>2, <2>1, <2>3, <2>4, <2>5, CallerLooks
<1> QED BY <1>3, <1>4

LEMMA SyncParentInv ==
    ASSUME StorageInv, NEW o \in Openers, SyncParent(o) PROVE StorageInv'
<1> DEFINE b == opener[o]
           l == b.level
           v == child[b.fd]
           c == [b EXCEPT !.at = "check", !.fd = 0]
<1>1. /\ b \in Calling /\ CallerOK(b) /\ b.at = "sync" /\ l \in 1..Depth /\ l - 1 \in 0..Depth
      /\ ~undercut => Relies(child, dchild, b)
      /\ child \in Entries /\ dchild \in Entries
  BY CallerTyped, CallerLevels DEF SyncParent
<1>2. /\ UNCHANGED <<child, answered, undercut>>
      /\ answered \in BOOLEAN /\ undercut \in BOOLEAN
      /\ storageFaults' \in 0..MaxStorageFaults /\ storageCrashes' \in 0..MaxStorageCrashes
  BY BoundsStay DEF SyncParent, StorageInv, StorageTypeOK
<1>3. b.fd \in Inodes
  BY <1>1, Bounds DEF CallerOK, Calling
<1>4. opener' = [opener EXCEPT ![o] = c] /\ v = child[b.fd] /\ Puts(dchild, dchild', b.fd, v)
  BY DEF SyncParent, Puts
<1>5. c \in Calling /\ c.at = "check" /\ c.level = l /\ c.undo = b.undo
  <2>1. b \in Calling /\ 0 \in 0..MaxInodes
    BY <1>1, Bounds
  <2> HIDE DEF v, b
  <2> QED BY <2>1 DEF Calling
<1> HIDE DEF c, v
<1>6. Firm(child, dchild, child, dchild') /\ dchild' \in Entries
  BY <1>1, <1>3, <1>4, SyncFirm
<1>7. CallerOK(c)
  BY <1>1, <1>5 DEF CallerOK
<1>8. ASSUME ~undercut PROVE Relies(child, dchild', c)
  <2>1. OnDisk(child, dchild, l - 1)
    BY <1>1, <1>8 DEF Relies, SyncedTo
  <2>2. OnDisk(child, dchild', l - 1)
    BY <1>1, <1>6, <2>1, FirmDisk
  <2>3. ~b.undo => Resolve(child, l) # 0 /\ b.fd = Resolve(child, l - 1)
    BY <1>1, <1>8 DEF Relies
  <2>4. dchild'[b.fd] = child[b.fd]
    BY <1>1, <1>3, <1>4 DEF Puts, Entries
  <2>5. ~b.undo => dchild'[Resolve(child, l - 1)] = Resolve(child, l)
    BY <1>1, <2>3, <2>4, Above
  <2> QED BY <1>5, <2>2, <2>3, <2>5 DEF Relies, SyncedTo
<1>9. ~undercut' => /\ ~undercut
                    /\ Firm(child, dchild, child', dchild')
                    /\ Relies(child', dchild', c)
                    /\ answered' => answered \/ OnDisk(child', dchild', Depth)
  BY <1>2, <1>6, <1>8
<1> QED BY <1>1, <1>2, <1>4, <1>5, <1>6, <1>7, <1>9, CallerMoves

LEMMA RevalidateInv ==
    ASSUME StorageInv, NEW o \in Openers, Revalidate(o) PROVE StorageInv'
<1> DEFINE b == opener[o]
           l == b.level
<1>1. /\ b \in Calling /\ CallerOK(b) /\ b.at = "check" /\ l \in 1..Depth /\ l - 1 \in 0..Depth
      /\ ~undercut => Relies(child, dchild, b)
  BY CallerTyped, CallerLevels DEF Revalidate
<1>2. /\ UNCHANGED <<entryVars, answered, undercut, boundVars>>
      /\ storageFaults' \in 0..MaxStorageFaults /\ storageCrashes' \in 0..MaxStorageCrashes
  BY BoundsStay DEF Revalidate
<1>3. CASE ~AsExpected(o)
  BY <1>1, <1>2, <1>3, SyncErrs DEF Revalidate
<1>4. CASE AsExpected(o) /\ b.undo
  BY <1>2, <1>4, CallerEnds DEF Revalidate
<1>5. CASE AsExpected(o) /\ ~b.undo
  <2>1. ~undercut => OnDisk(child, dchild, l)
    <3>1. SUFFICES ASSUME ~undercut PROVE OnDisk(child, dchild, l)
      OBVIOUS
    <3>2. /\ OnDisk(child, dchild, l - 1) /\ Resolve(child, l) # 0
          /\ dchild[Resolve(child, l - 1)] = Resolve(child, l)
      BY <1>1, <1>5, <3>1 DEF Relies, SyncedTo
    <3> QED BY <1>1, <3>2, NextLevel
  <2>2. CASE l < RootLevel
    <3> DEFINE c == [NoCaller EXCEPT !.at = "provision", !.level = l + 1]
    <3>1. opener' = [opener EXCEPT ![o] = c]
      BY <1>5, <2>2 DEF Revalidate
    <3>2. l + 1 \in 1..Depth /\ l + 1 <= RootLevel /\ (l + 1) - 1 = l
      BY <1>1, <2>2, Bounds
    <3>3. c \in Calling /\ c.at = "provision" /\ c.level = l + 1
      <4>1. NoCaller \in Calling /\ l + 1 \in 1..Depth
        BY <3>2, NobodyRelies
      <4> HIDE DEF l
      <4> QED BY <4>1 DEF Calling
    <3> HIDE DEF c
    <3>4. CallerOK(c)
      BY <3>2, <3>3 DEF CallerOK
    <3>5. ~undercut => Relies(child, dchild, c)
      BY <2>1, <3>2, <3>3 DEF Relies, SyncedTo
    <3> QED BY <1>2, <3>1, <3>3, <3>4, <3>5, CallerLooks
  <2>3. CASE ~(l < RootLevel)
    <3> DEFINE c == [NoCaller EXCEPT !.at = "walk"]
    <3>1. opener' = [opener EXCEPT ![o] = c]
      BY <1>5, <2>3 DEF Revalidate
    <3>2. l = RootLevel
      BY <1>1, <2>3, Bounds DEF CallerOK
    <3>3. c \in Calling /\ c.at = "walk"
      <4>1. NoCaller \in Calling
        BY NobodyRelies
      <4> QED BY <4>1 DEF Calling
    <3> HIDE DEF c
    <3>4. CallerOK(c)
      BY <3>3 DEF CallerOK
    <3>5. ~undercut => Relies(child, dchild, c)
      BY <2>1, <3>2, <3>3 DEF Relies, SyncedTo
    <3> QED BY <1>2, <3>1, <3>3, <3>4, <3>5, CallerLooks
  <2> QED BY <2>2, <2>3
<1> QED BY <1>3, <1>4, <1>5

LEMMA OpensInv ==
    ASSUME StorageInv, NEW o \in Openers, Opens(o) PROVE StorageInv'
<1> DEFINE b == opener[o]
           c == [b EXCEPT !.at = "opened"]
<1>1. /\ b \in Calling /\ CallerOK(b) /\ b.at = "walk"
      /\ ~undercut => Relies(child, dchild, b)
  BY CallerTyped DEF Opens
<1>2. /\ UNCHANGED <<entryVars, answered, undercut, boundVars>>
      /\ storageFaults' \in 0..MaxStorageFaults /\ storageCrashes' \in 0..MaxStorageCrashes
  BY BoundsStay DEF Opens
<1>3. CASE Answers(o)
  BY <1>2, <1>3, CallerEnds
<1>4. CASE GoesOn(o, "opened")
  <2>1. opener' = [opener EXCEPT ![o] = c]
    BY <1>4 DEF GoesOn
  <2> HIDE DEF c
  <2>2. c \in Calling /\ c.at = "opened"
    BY <1>1, StageSet DEF c
  <2>3. CallerOK(c)
    BY <2>2 DEF CallerOK
  <2>4. ~undercut => Relies(child, dchild, c)
    BY <1>1, <2>2 DEF Relies, SyncedTo
  <2> QED BY <1>2, <2>1, <2>2, <2>3, <2>4, CallerLooks
<1> QED BY <1>3, <1>4 DEF Opens

LEMMA LeaveInv ==
    ASSUME StorageInv, NEW o \in Openers, Leave(o) PROVE StorageInv'
BY BoundsStay, CallerEnds DEF Leave

LEMMA StoreFailsInv ==
    ASSUME StorageInv, NEW o \in Openers, StoreFails(o) PROVE StorageInv'
BY FaultCounted, CallerEnds DEF StoreFails

LEMMA TakeLockInv ==
    ASSUME StorageInv, NEW o \in Openers, TakeLock(o) PROVE StorageInv'
<1> DEFINE b == opener[o]
           c == [b EXCEPT !.at = "ensure", !.level = RootLevel + 1]
<1>1. /\ b \in Calling /\ b.at = "opened"
      /\ ~undercut => Relies(child, dchild, b)
  BY CallerTyped DEF TakeLock
<1>2. /\ UNCHANGED <<entryVars, answered, undercut, boundVars>>
      /\ storageFaults' \in 0..MaxStorageFaults /\ storageCrashes' \in 0..MaxStorageCrashes
      /\ opener' = [opener EXCEPT ![o] = c]
  BY BoundsStay DEF TakeLock
<1>3. RootLevel + 1 \in 1..Depth /\ (RootLevel + 1) - 1 = RootLevel /\ RootLevel + 1 > RootLevel
  BY Bounds
<1>4. c \in Calling /\ c.at = "ensure" /\ c.level = RootLevel + 1
  BY <1>1, <1>3 DEF Calling
<1> HIDE DEF c
<1>5. CallerOK(c)
  BY <1>3, <1>4 DEF CallerOK
<1>6. ~undercut => Relies(child, dchild, c)
  BY <1>1, <1>3, <1>4 DEF Relies, SyncedTo
<1> QED BY <1>2, <1>4, <1>5, <1>6, CallerLooks

LEMMA EnsureInv ==
    ASSUME StorageInv, NEW o \in Openers, Ensure(o) PROVE StorageInv'
<1> DEFINE b == opener[o]
           l == b.level
           c == [b EXCEPT !.at = "publish"]
<1>1. /\ b \in Calling /\ CallerOK(b) /\ b.at = "ensure" /\ l \in 1..Depth /\ l - 1 \in 0..Depth
      /\ ~undercut => Relies(child, dchild, b)
  BY CallerTyped, CallerLevels DEF Ensure
<1>2. /\ UNCHANGED <<answered, undercut>>
      /\ answered \in BOOLEAN /\ undercut \in BOOLEAN
      /\ storageFaults' \in 0..MaxStorageFaults /\ storageCrashes' \in 0..MaxStorageCrashes
  BY BoundsStay DEF Ensure, StorageInv, StorageTypeOK
<1>3. CASE ~Within(l - 1)
  BY <1>2, <1>3, CallerEnds DEF Ensure
<1>4. CASE Within(l - 1)
  <2>1. /\ opener' = [opener EXCEPT ![o] = c] /\ Present(l - 1)
        /\ IF Present(l) THEN UNCHANGED entryVars ELSE Make(l)
    BY <1>4 DEF Ensure, GoesOn, Within
  <2>2. /\ child' \in Entries /\ dchild' \in Entries
        /\ Firm(child, dchild, child', dchild') /\ Resolve(child', l) # 0
    BY <1>1, <2>1, MadeOrFound
  <2>3. c \in Calling /\ c.at = "publish" /\ c.level = l
    <3>1. b \in Calling
      BY <1>1
    <3> HIDE DEF b
    <3> QED BY <3>1 DEF Calling
  <2> HIDE DEF c
  <2>4. CallerOK(c)
    BY <1>1, <2>3 DEF CallerOK
  <2>5. ~undercut => Relies(child', dchild', c)
    <3>1. ~undercut => OnDisk(child, dchild, l - 1)
      BY <1>1 DEF Relies, SyncedTo
    <3>2. ~undercut => OnDisk(child', dchild', l - 1)
      BY <1>1, <2>2, <3>1, FirmDisk
    <3> QED BY <2>2, <2>3, <3>2 DEF Relies, SyncedTo
  <2>6. ~undercut' => /\ ~undercut
                      /\ Firm(child, dchild, child', dchild')
                      /\ Relies(child', dchild', c)
                      /\ answered' => answered \/ OnDisk(child', dchild', Depth)
    BY <1>2, <2>2, <2>5
  <2> QED BY <1>2, <2>1, <2>2, <2>3, <2>4, <2>6, CallerMoves
<1> QED BY <1>3, <1>4

LEMMA PublishInv ==
    ASSUME StorageInv, NEW o \in Openers, Publish(o) PROVE StorageInv'
<1> DEFINE b == opener[o]
           l == b.level
           holder == Resolve(child, l - 1)
           v == child[holder]
<1>1. /\ b \in Calling /\ CallerOK(b) /\ b.at = "publish" /\ l \in 1..Depth /\ l - 1 \in 0..Depth
      /\ ~undercut => Relies(child, dchild, b)
      /\ child \in Entries /\ dchild \in Entries
  BY CallerTyped, CallerLevels DEF Publish
<1>2. /\ UNCHANGED <<child, undercut>>
      /\ answered \in BOOLEAN /\ undercut \in BOOLEAN
      /\ storageFaults' \in 0..MaxStorageFaults /\ storageCrashes' \in 0..MaxStorageCrashes
  BY BoundsStay DEF Publish, StorageInv, StorageTypeOK
<1>3. CASE ~Within(l - 1)
  BY <1>2, <1>3, CallerEnds DEF Publish, entryVars
<1>4. CASE Within(l - 1)
  <2>1. dchild' = [dchild EXCEPT ![holder] = child[holder]]
    BY <1>4 DEF Publish
  <2>2. holder \in Inodes
    BY <1>1, <1>4, ResolveTyped DEF Within, Present
  <2>3. v = child[holder] /\ Puts(dchild, dchild', holder, v)
    BY <2>1 DEF Puts
  <2>4. Firm(child, dchild, child, dchild') /\ dchild' \in Entries
    <3> HIDE DEF v, holder
    <3> QED BY <1>1, <2>2, <2>3, SyncFirm
  <2>5. ~undercut => OnDisk(child, dchild', l)
    <3>1. SUFFICES ASSUME ~undercut PROVE OnDisk(child, dchild', l)
      OBVIOUS
    <3>2. OnDisk(child, dchild, l - 1) /\ Resolve(child, l) # 0
      BY <1>1, <3>1 DEF Relies, SyncedTo
    <3> QED BY <1>1, <2>1, <3>2, LevelSynced
  <2>6. CASE l < Depth
    <3> DEFINE c == [b EXCEPT !.at = "ensure", !.level = l + 1]
    <3>1. opener' = [opener EXCEPT ![o] = c] /\ answered' = answered
      BY <1>4, <2>6 DEF Publish
    <3>2. l + 1 \in 1..Depth /\ l + 1 > RootLevel /\ (l + 1) - 1 = l
      BY <1>1, <2>6, Bounds DEF CallerOK
    <3>3. c \in Calling /\ c.at = "ensure" /\ c.level = l + 1
      BY <1>1, <3>2 DEF Calling
    <3> HIDE DEF c
    <3>4. CallerOK(c)
      BY <3>2, <3>3 DEF CallerOK
    <3>5. ~undercut => Relies(child, dchild', c)
      BY <2>5, <3>2, <3>3 DEF Relies, SyncedTo
    <3>6. ~undercut' => /\ ~undercut
                        /\ Firm(child, dchild, child', dchild')
                        /\ Relies(child', dchild', c)
                        /\ answered' => answered \/ OnDisk(child', dchild', Depth)
      BY <1>2, <2>4, <3>1, <3>5
    <3> QED BY <1>1, <1>2, <2>4, <3>1, <3>3, <3>4, <3>6, CallerMoves
  <2>7. CASE ~(l < Depth)
    <3>1. opener' = [opener EXCEPT ![o] = NoCaller] /\ answered' = TRUE /\ l = Depth
      BY <1>1, <1>4, <2>7, Bounds DEF Publish, Answers
    <3>2. ~undercut' => /\ ~undercut
                        /\ Firm(child, dchild, child', dchild')
                        /\ Relies(child', dchild', NoCaller)
                        /\ answered' => answered \/ OnDisk(child', dchild', Depth)
      BY <1>2, <2>4, <2>5, <3>1, NobodyRelies
    <3> QED BY <1>1, <1>2, <2>4, <3>1, <3>2, NobodyRelies, CallerMoves
  <2> QED BY <2>6, <2>7
<1> QED BY <1>3, <1>4

LEMMA OpenFailsInv ==
    ASSUME StorageInv, NEW o \in Openers, OpenFails(o) PROVE StorageInv'
<1> DEFINE b == opener[o]
           l == b.level
<1>1. /\ b \in Calling /\ CallerOK(b) /\ l \in 1..Depth /\ l - 1 \in 0..Depth
      /\ ~undercut => Relies(child, dchild, b)
      /\ child \in Entries /\ dchild \in Entries
  BY CallerTyped, CallerLevels
<1>2. /\ UNCHANGED <<child, answered, undercut>>
      /\ answered \in BOOLEAN /\ undercut \in BOOLEAN
      /\ storageFaults' \in 0..MaxStorageFaults /\ storageCrashes' \in 0..MaxStorageCrashes
  BY FaultCounted DEF OpenFails, StorageInv, StorageTypeOK
<1>3. CASE b.at \in {"provision", "undo"} /\ Answers(o) /\ UNCHANGED dchild
  BY <1>2, <1>3, CallerEnds DEF entryVars
<1>4. ASSUME b.at = "sync",
             IF b.made /\ ~b.undo
             THEN opener' = [opener EXCEPT ![o].at = "undo", ![o].fd = 0]
             ELSE Answers(o),
             NEW v \in {child[b.fd], dchild[b.fd]}, dchild' = [dchild EXCEPT ![b.fd] = v]
      PROVE  StorageInv'
  <2>1. b.fd \in Inodes
    BY <1>1, <1>4, Bounds DEF CallerOK, Calling
  <2>2. Puts(dchild, dchild', b.fd, v) /\ (v = child[b.fd] \/ v = dchild[b.fd])
    BY <1>4 DEF Puts
  <2>3. Firm(child, dchild, child, dchild') /\ dchild' \in Entries
    <3> HIDE DEF b
    <3> QED BY <1>1, <2>1, <2>2, SyncFirm
  <2>4. CASE b.made /\ ~b.undo
    <3> DEFINE c == [b EXCEPT !.at = "undo", !.fd = 0]
    <3>1. opener' = [opener EXCEPT ![o] = c]
      BY <1>4, <2>4
    <3>2. c \in Calling /\ c.at = "undo" /\ c.level = l
      <4>1. b \in Calling /\ 0 \in 0..MaxInodes
        BY <1>1, Bounds
      <4> HIDE DEF b
      <4> QED BY <4>1 DEF Calling
    <3> HIDE DEF c
    <3>3. CallerOK(c)
      BY <1>1, <1>4, <3>2 DEF CallerOK
    <3>4. ~undercut => Relies(child, dchild', c)
      <4>1. ~undercut => OnDisk(child, dchild, l - 1)
        BY <1>1, <1>4 DEF Relies, SyncedTo
      <4>2. ~undercut => OnDisk(child, dchild', l - 1)
        BY <1>1, <2>3, <4>1, FirmDisk
      <4> QED BY <3>2, <4>2 DEF Relies, SyncedTo
    <3>5. ~undercut' => /\ ~undercut
                        /\ Firm(child, dchild, child', dchild')
                        /\ Relies(child', dchild', c)
                        /\ answered' => answered \/ OnDisk(child', dchild', Depth)
      BY <1>2, <2>3, <3>4
    <3> QED BY <1>1, <1>2, <2>3, <3>1, <3>2, <3>3, <3>5, CallerMoves
  <2>5. CASE ~(b.made /\ ~b.undo)
    <3>1. opener' = [opener EXCEPT ![o] = NoCaller]
      BY <1>4, <2>5 DEF Answers
    <3>2. ~undercut' => /\ ~undercut
                        /\ Firm(child, dchild, child', dchild')
                        /\ Relies(child', dchild', NoCaller)
                        /\ answered' => answered \/ OnDisk(child', dchild', Depth)
      BY <1>2, <2>3, NobodyRelies
    <3> QED BY <1>1, <1>2, <2>3, <3>1, <3>2, NobodyRelies, CallerMoves
  <2> QED BY <2>4, <2>5
<1> QED BY <1>3, <1>4 DEF OpenFails

(* What an empty directory's removal takes: others must be idle, or it is  *)
(* recorded that they were not.                                            *)
LEMMA RollBackInv ==
    ASSUME StorageInv, NEW o \in Openers, RollBack(o) PROVE StorageInv'
<1> DEFINE b == opener[o]
           l == b.level
           c == [b EXCEPT !.at = "open", !.undo = TRUE]
<1>1. /\ b \in Calling /\ CallerOK(b) /\ b.at = "undo" /\ l \in 1..Depth /\ l - 1 \in 0..Depth
      /\ ~undercut => Relies(child, dchild, b)
      /\ child \in Entries /\ dchild \in Entries
  BY CallerTyped, CallerLevels DEF RollBack
<1>2. /\ UNCHANGED <<dchild, answered>>
      /\ answered \in BOOLEAN /\ undercut \in BOOLEAN
      /\ storageFaults' \in 0..MaxStorageFaults /\ storageCrashes' \in 0..MaxStorageCrashes
  BY BoundsStay DEF RollBack, StorageInv, StorageTypeOK
<1>3. CASE ~(Present(l) /\ child[Resolve(child, l)] = 0)
  BY <1>2, <1>3, CallerEnds DEF RollBack, entryVars
<1>4. CASE Present(l) /\ child[Resolve(child, l)] = 0
  <2>1. /\ child' = [child EXCEPT ![Resolve(child, l - 1)] = 0]
        /\ opener' = [opener EXCEPT ![o] = c]
        /\ undercut' = (undercut \/ \E p \in Openers \ {o} : opener[p].at # "idle")
    BY <1>4 DEF RollBack
  <2>2. /\ child' \in Entries /\ ~OnDisk(child, dchild, Depth)
        /\ OnDisk(child, dchild, l - 1) => OnDisk(child', dchild, l - 1)
    <3>1. l \in 1..RootLevel /\ Resolve(child, l) # 0
      BY <1>1, <1>4, Bounds DEF CallerOK, Present
    <3> HIDE DEF l
    <3> QED BY <1>1, <1>4, <2>1, <3>1, RemoveDisk
  <2>3. c \in Calling /\ c.at = "open" /\ c.level = l /\ c.undo
    <3>1. b \in Calling
      BY <1>1
    <3> HIDE DEF b
    <3> QED BY <3>1 DEF Calling
  <2> HIDE DEF c
  <2>4. CallerOK(c)
    BY <1>1, <2>3 DEF CallerOK
  <2>5. /\ opener' \in [Openers -> Calling]
        /\ \A p \in Openers : opener'[p] = IF p = o THEN c ELSE opener[p]
    BY <2>1, <2>3 DEF StorageInv, StorageTypeOK, Calling
  <2>6. StorageTypeOK'
    <3>1. undercut' \in BOOLEAN
      BY <2>1
    <3> QED BY <1>1, <1>2, <2>2, <2>5, <3>1 DEF StorageTypeOK, Calling, Entries
  <2>7. \A p \in Openers : CallerOK(opener'[p])
    BY <2>4, <2>5 DEF StorageInv
  <2>8. ASSUME ~undercut'
        PROVE  /\ \A p \in Openers : Relies(child', dchild', opener'[p])
               /\ ~answered'
    <3>1. ~undercut /\ \A p \in Openers \ {o} : opener[p].at = "idle"
      BY <2>1, <2>8
    <3>2. ~answered
      BY <2>2, <3>1 DEF StorageInv
    <3>3. OnDisk(child', dchild, l - 1)
      BY <1>1, <2>2, <3>1 DEF Relies, SyncedTo
    <3>4. Relies(child', dchild', c)
      BY <1>2, <2>3, <3>3 DEF Relies, SyncedTo
    <3>5. ASSUME NEW p \in Openers PROVE Relies(child', dchild', opener'[p])
      <4>1. CASE p = o
        BY <2>5, <3>4, <4>1
      <4>2. CASE p # o
        <5>1. opener'[p] = opener[p] /\ CallerOK(opener[p]) /\ opener[p].at = "idle"
          BY <2>5, <3>1, <4>2 DEF StorageInv
        <5>2. opener'[p] = NoCaller
          BY <5>1 DEF CallerOK
        <5> QED BY <5>2, NobodyRelies
      <4> QED BY <4>1, <4>2
    <3> QED BY <1>2, <3>2, <3>5
  <2> QED BY <2>6, <2>7, <2>8 DEF StorageInv
<1> QED BY <1>3, <1>4

LEMMA StorageCrashInv ==
    ASSUME StorageInv, NEW power \in BOOLEAN, StorageCrash(power) PROVE StorageInv'
<1>1. /\ child \in Entries /\ dchild \in Entries /\ opener' = [o \in Openers |-> NoCaller]
      /\ answered \in BOOLEAN /\ undercut \in BOOLEAN
      /\ answered' = answered /\ undercut' = undercut /\ storageFaults' = storageFaults
      /\ storageFaults \in 0..MaxStorageFaults
  BY DEF StorageCrash, StorageInv, StorageTypeOK, Entries
<1>2. storageCrashes' \in 0..MaxStorageCrashes
  <2>1. storageCrashes \in 0..MaxStorageCrashes /\ MaxStorageCrashes \in Nat
    BY StorageAssumption DEF StorageInv, StorageTypeOK
  <2> QED BY <2>1 DEF StorageCrash
<1>3. /\ child' \in Entries /\ dchild' \in Entries
      /\ OnDisk(child, dchild, Depth) => OnDisk(child', dchild', Depth)
  <2>1. CASE power
    <3>1. PICK lost \in SUBSET {i \in Inodes : child[i] # dchild[i]} :
              /\ child' = [i \in Inodes |-> IF i \in lost THEN dchild[i] ELSE child[i]]
              /\ dchild' = child'
      BY <2>1 DEF StorageCrash
    <3>2. child' \in Entries /\ \A i \in Inodes : child'[i] \in {child[i], dchild[i]}
      BY <1>1, <3>1 DEF Entries
    <3>3. Depth \in 0..Depth
      BY Bounds
    <3>4. OnDisk(child, dchild, Depth) => OnDisk(child', child', Depth)
      BY <1>1, <3>2, <3>3, PowerDisk
    <3> QED BY <3>1, <3>2, <3>4
  <2>2. CASE ~power
    BY <1>1, <2>2 DEF StorageCrash, entryVars
  <2> QED BY <2>1, <2>2
<1>4. opener' \in [Openers -> Calling] /\ \A p \in Openers : opener'[p] = NoCaller
  BY <1>1, NobodyRelies
<1>5. StorageTypeOK'
  BY <1>1, <1>2, <1>3, <1>4 DEF StorageTypeOK, Calling, Entries
<1>6. \A p \in Openers : CallerOK(opener'[p])
  BY <1>4, NobodyRelies
<1>7. \A p \in Openers : Relies(child', dchild', opener'[p])
  BY <1>4, NobodyRelies
<1>8. ~undercut' /\ answered' => OnDisk(child', dchild', Depth)
  BY <1>1, <1>3 DEF StorageInv
<1> QED BY <1>5, <1>6, <1>7, <1>8 DEF StorageInv

LEMMA StorageStep == StorageInv /\ [StorageNext]_storageVars => StorageInv'
<1> SUFFICES ASSUME StorageInv, [StorageNext]_storageVars PROVE StorageInv'
  OBVIOUS
<1>1. ASSUME NEW power \in BOOLEAN, StorageCrash(power) PROVE StorageInv'
  BY <1>1, StorageCrashInv
<1>2. ASSUME NEW o \in Openers,
             \/ OpenStorage(o) \/ Provision(o) \/ OpenParent(o) \/ SyncParent(o)
             \/ Revalidate(o) \/ Opens(o) \/ RollBack(o) \/ OpenFails(o)
             \/ Leave(o) \/ TakeLock(o) \/ Ensure(o) \/ Publish(o) \/ StoreFails(o)
      PROVE  StorageInv'
  BY <1>2, OpenStorageInv, ProvisionInv, OpenParentInv, SyncParentInv, RevalidateInv, OpensInv,
     RollBackInv, OpenFailsInv, LeaveInv, TakeLockInv, EnsureInv, PublishInv, StoreFailsInv
<1>3. CASE UNCHANGED storageVars
  BY <1>3 DEF storageVars, entryVars, boundVars, StorageInv, StorageTypeOK
<1> QED BY <1>1, <1>2, <1>3 DEF StorageNext

(* Whatever callers do, fail at or leave when the process dies: as long as *)
(* no rollback took a directory from under a caller at work, what a caller *)
(* counts on below the root is there and on disk, its record's whole path  *)
(* included once one was answered.                                         *)
THEOREM StorageInvariant == StorageSpec => []StorageInv
BY InitStorage, StorageStep, PTL DEF StorageSpec

(* CheckedStorage: entries, callers and bounds have their types always.    *)
THEOREM StorageTypeCorrect == StorageSpec => []StorageTypeOK
<1>1. StorageInv => StorageTypeOK
  BY DEF StorageInv
<1> QED BY <1>1, StorageInvariant, PTL

(* CheckedStorage: for any number of callers, inodes, faults and crashes,  *)
(* a record that a caller was answered for is there and on disk under the  *)
(* root's path, unless a rollback removed a directory under another caller.*)
THEOREM StoredAlwaysSurvives == StorageSpec => []StoredSurvives
<1>1. StorageInv => StoredSurvives
  <2> SUFFICES ASSUME StorageInv, answered, ~undercut
               PROVE  Resolve(child, Depth) # 0 /\ Resolve(dchild, Depth) # 0
    BY DEF StoredSurvives
  <2>1. OnDisk(child, dchild, Depth) /\ child \in Entries
    BY DEF StorageInv, StorageTypeOK, Entries
  <2>2. Depth \in 1..Depth /\ Depth \in 0..Depth /\ \A k \in 1..Depth : k - 1 \in 0..Depth
    BY Bounds
  <2>3. \A k \in 1..Depth : /\ Resolve(child, k - 1) # 0
                            /\ dchild[Resolve(child, k - 1)] = child[Resolve(child, k - 1)]
    BY <2>1, Above DEF OnDisk
  <2>4. AgreeOn(child, dchild, Depth)
    BY <2>3 DEF AgreeOn
  <2>5. Resolve(dchild, Depth) = Resolve(child, Depth)
    BY <2>2, <2>4, SamePath
  <2>6. Resolve(child, Depth) # 0
    BY <2>1, <2>2 DEF OnDisk
  <2> QED BY <2>5, <2>6
<1> QED BY <1>1, StorageInvariant, PTL
=============================================================================
