----------------------------- MODULE StorageRoot -----------------------------
(***************************************************************************)
(* CheckedStorage (sessions.rs): how concurrent callers come to have a     *)
(* storage root, and what is kept in it when the power goes.  Opening one  *)
(* makes its last two directories where they are missing, syncs the parent *)
(* of each, found or made, and takes back what it made when that fails.    *)
(* It all happens before SESSION_LIFECYCLE_LOCK, and by path: a caller may *)
(* meet the directories of another one that is about to remove them.  Past *)
(* the lock a directory and a record in it follow, each synced like that.  *)
(*                                                                         *)
(* Level 0 is the grandparent, which exists (the app's Library), 1 and     *)
(* RootLevel the directories of the root, Depth the record.  Links to      *)
(* elsewhere and names that do not fit are refused by every validation;    *)
(* nothing here makes any.                                                 *)
(***************************************************************************)
EXTENDS Naturals

CONSTANTS
    MaxInodes,        \* 1 is the grandparent's
    MaxOpeners,
    MaxStorageFaults, \* I/O errors
    MaxStorageCrashes

RootLevel == 2
Depth     == 4

ASSUME StorageAssumption ==
    /\ MaxInodes \in Nat /\ MaxInodes > 1 + Depth
    /\ {MaxOpeners, MaxStorageFaults, MaxStorageCrashes} \subseteq Nat

VARIABLES
    child, dchild,  \* each inode's only entry, 0 for none: as seen, and on disk
    opener,         \* the callers
    answered,       \* a caller was answered that the record is there
    undercut,       \* a rollback removed a directory while others were at work
    storageFaults, storageCrashes

entryVars   == <<child, dchild>>
boundVars   == <<storageFaults, storageCrashes>>
storageVars == <<entryVars, opener, answered, undercut, boundVars>>

Inodes  == 1..MaxInodes
Openers == 1..MaxOpeners
NoCaller == [at |-> "idle", level |-> 1, made |-> FALSE, undo |-> FALSE, fd |-> 0]

(* What a path of l components denotes, 0 if it is not there.              *)
Resolve(entries, l) ==
    LET walk[k \in 0..Depth] ==
            IF k = 0 THEN 1 ELSE IF walk[k - 1] = 0 THEN 0 ELSE entries[walk[k - 1]]
    IN walk[l]
Present(l) == Resolve(child, l) # 0

(* A whole path is walked again from the top: the root's, or one below it. *)
WalkRoot == Present(RootLevel)
Within(l) == WalkRoot /\ Present(l)

StorageTypeOK ==
    /\ child \in [Inodes -> 0..MaxInodes] /\ dchild \in [Inodes -> 0..MaxInodes]
    /\ opener \in [Openers -> [at : {"idle", "provision", "open", "sync", "check", "undo", "walk",
                                     "opened", "ensure", "publish"},
                               level : 1..Depth, made : BOOLEAN, undo : BOOLEAN,
                               fd : 0..MaxInodes]]
    /\ answered \in BOOLEAN /\ undercut \in BOOLEAN
    /\ storageFaults \in 0..MaxStorageFaults /\ storageCrashes \in 0..MaxStorageCrashes

StorageInit ==
    /\ child = [i \in Inodes |-> 0] /\ dchild = child
    /\ opener = [o \in Openers |-> NoCaller] /\ answered = FALSE /\ undercut = FALSE
    /\ storageFaults = 0 /\ storageCrashes = 0

GoesOn(o, stage) == opener' = [opener EXCEPT ![o].at = stage]
Answers(o) == opener' = [opener EXCEPT ![o] = NoCaller]
StorageFault == storageFaults < MaxStorageFaults /\ storageFaults' = storageFaults + 1

(* An entry below the path of the level above, at an inode nobody knows.   *)
Make(l) ==
    LET known == {1} \union {child[i] : i \in Inodes} \union {dchild[i] : i \in Inodes}
                     \union {opener[o].fd : o \in Openers}
        new == CHOOSE i \in Inodes \ known : TRUE
    IN /\ Inodes \ known # {}
       /\ child' = [child EXCEPT ![Resolve(child, l - 1)] = new, ![new] = 0]
       /\ dchild' = [dchild EXCEPT ![new] = 0]

(***************************************************************************)
(* Opening the root.                                                       *)
(***************************************************************************)
OpenStorage(o) ==
    /\ opener[o].at = "idle"
    /\ opener' = [opener EXCEPT ![o].at = "provision"]
    /\ UNCHANGED <<entryVars, answered, undercut, boundVars>>

(* Mutant: a directory that was found is taken to be on disk.              *)
ProvisionTrusts(o) ==
    LET l == opener[o].level IN
    /\ opener[o].at = "provision"
    /\ IF ~Present(l - 1)
       THEN Answers(o) /\ UNCHANGED entryVars
       ELSE /\ opener' = [opener EXCEPT ![o].at = IF Present(l) THEN "check" ELSE "open",
                                        ![o].made = ~Present(l)]
            /\ IF Present(l) THEN UNCHANGED entryVars ELSE Make(l)
    /\ UNCHANGED <<answered, undercut, boundVars>>

(* create_dir that finds the directory made meanwhile takes it as found.   *)
Provision(o) ==
    LET l == opener[o].level IN
    /\ opener[o].at = "provision"
    /\ IF ~Present(l - 1)
       THEN Answers(o) /\ UNCHANGED entryVars
       ELSE /\ opener' = [opener EXCEPT ![o].at = "open", ![o].made = ~Present(l)]
            /\ IF Present(l) THEN UNCHANGED entryVars ELSE Make(l)
    /\ UNCHANGED <<answered, undercut, boundVars>>

(* sync_root_component_parent's expectation: the component is there, or    *)
(* after a rollback it is not.                                             *)
AsExpected(o) ==
    /\ Present(opener[o].level - 1)
    /\ Present(opener[o].level) # opener[o].undo

(* Its error: what this caller made is taken back, once.                   *)
SyncFails(o) ==
    IF opener[o].made /\ ~opener[o].undo THEN GoesOn(o, "undo") ELSE Answers(o)

OpenParent(o) ==
    /\ opener[o].at = "open"
    /\ IF AsExpected(o)
       THEN opener' = [opener EXCEPT ![o].at = "sync",
                                     ![o].fd = Resolve(child, opener[o].level - 1)]
       ELSE SyncFails(o)
    /\ UNCHANGED <<entryVars, answered, undercut, boundVars>>

(* The open directory is synced, whatever the path denotes by now.         *)
SyncParent(o) ==
    /\ opener[o].at = "sync"
    /\ dchild' = [dchild EXCEPT ![opener[o].fd] = child[opener[o].fd]]
    /\ opener' = [opener EXCEPT ![o].at = "check", ![o].fd = 0]
    /\ UNCHANGED <<child, answered, undercut, boundVars>>

(* The check after the sync; then the next level.  A rollback ends with    *)
(* the error that led to it.                                               *)
Revalidate(o) ==
    LET l == opener[o].level IN
    /\ opener[o].at = "check"
    /\ IF ~AsExpected(o) THEN SyncFails(o)
       ELSE IF opener[o].undo THEN Answers(o)
       ELSE IF l < RootLevel
            THEN opener' = [opener EXCEPT ![o] = [NoCaller EXCEPT !.at = "provision",
                                                                  !.level = l + 1]]
            ELSE opener' = [opener EXCEPT ![o] = [NoCaller EXCEPT !.at = "walk"]]
    /\ UNCHANGED <<entryVars, answered, undercut, boundVars>>

(* The path once more as a whole, and what it should be.                   *)
Opens(o) ==
    /\ opener[o].at = "walk"
    /\ IF WalkRoot THEN GoesOn(o, "opened") ELSE Answers(o)
    /\ UNCHANGED <<entryVars, answered, undercut, boundVars>>

(* rollback_created_root_component: remove_dir takes an empty directory,   *)
(* whoever made it.  The removal is synced in its turn.                    *)
RollBack(o) ==
    LET l == opener[o].level IN
    /\ opener[o].at = "undo"
    /\ IF Present(l) /\ child[Resolve(child, l)] = 0
       THEN /\ child' = [child EXCEPT ![Resolve(child, l - 1)] = 0]
            /\ opener' = [opener EXCEPT ![o].at = "open", ![o].undo = TRUE]
            /\ undercut' = (undercut \/ \E p \in Openers \ {o} : opener[p].at # "idle")
       ELSE Answers(o) /\ UNCHANGED <<child, undercut>>
    /\ UNCHANGED <<dchild, answered, boundVars>>

(* Creating, syncing or removing a directory fails.  A failed sync may     *)
(* have reached the disk.                                                  *)
OpenFails(o) ==
    /\ StorageFault
    /\ \/ opener[o].at \in {"provision", "undo"} /\ Answers(o) /\ UNCHANGED dchild
       \/ /\ opener[o].at = "sync"
          /\ IF opener[o].made /\ ~opener[o].undo
             THEN opener' = [opener EXCEPT ![o].at = "undo", ![o].fd = 0]
             ELSE Answers(o)
          /\ \E e \in {child[opener[o].fd], dchild[opener[o].fd]} :
                dchild' = [dchild EXCEPT ![opener[o].fd] = e]
    /\ UNCHANGED <<child, answered, undercut, storageCrashes>>

(***************************************************************************)
(* What a session keeps in the root, under SESSION_LIFECYCLE_LOCK.         *)
(***************************************************************************)
(* A caller that only looks, or keeps nothing in a directory, goes.        *)
Leave(o) ==
    /\ opener[o].at = "opened" /\ Answers(o)
    /\ UNCHANGED <<entryVars, answered, undercut, boundVars>>

TakeLock(o) ==
    /\ opener[o].at = "opened"
    /\ \A p \in Openers : opener[p].at \notin {"ensure", "publish"}
    /\ opener' = [opener EXCEPT ![o].at = "ensure", ![o].level = RootLevel + 1]
    /\ UNCHANGED <<entryVars, answered, undercut, boundVars>>

(* The directory or the record, unless it is there; the path above it is   *)
(* validated first, which fails if somebody took the root back.            *)
Ensure(o) ==
    LET l == opener[o].level IN
    /\ opener[o].at = "ensure"
    /\ IF ~Within(l - 1)
       THEN Answers(o) /\ UNCHANGED entryVars
       ELSE /\ GoesOn(o, "publish")
            /\ IF Present(l) THEN UNCHANGED entryVars ELSE Make(l)
    /\ UNCHANGED <<answered, undercut, boundVars>>

(* sync_directory of the directory that holds it.                          *)
Publish(o) ==
    LET l == opener[o].level
        holder == Resolve(child, l - 1)
    IN /\ opener[o].at = "publish"
       /\ IF ~Within(l - 1)
          THEN Answers(o) /\ UNCHANGED <<dchild, answered>>
          ELSE /\ dchild' = [dchild EXCEPT ![holder] = child[holder]]
               /\ IF l < Depth
                  THEN /\ opener' = [opener EXCEPT ![o].at = "ensure", ![o].level = l + 1]
                       /\ UNCHANGED answered
                  ELSE Answers(o) /\ answered' = TRUE
       /\ UNCHANGED <<child, undercut, boundVars>>

StoreFails(o) ==
    /\ opener[o].at \in {"ensure", "publish"} /\ StorageFault
    /\ Answers(o)
    /\ UNCHANGED <<entryVars, answered, undercut, storageCrashes>>

(***************************************************************************)
(* The process dies, or the power goes: of the entries not synced, some    *)
(* are as they were.                                                       *)
(***************************************************************************)
StorageCrash(power) ==
    /\ storageCrashes < MaxStorageCrashes /\ storageCrashes' = storageCrashes + 1
    /\ opener' = [o \in Openers |-> NoCaller]
    /\ IF power
       THEN \E lost \in SUBSET {i \in Inodes : child[i] # dchild[i]} :
              /\ child' = [i \in Inodes |-> IF i \in lost THEN dchild[i] ELSE child[i]]
              /\ dchild' = child'
       ELSE UNCHANGED entryVars
    /\ UNCHANGED <<answered, undercut, storageFaults>>

StorageNext ==
    \/ \E power \in BOOLEAN : StorageCrash(power)
    \/ \E o \in Openers :
          \/ OpenStorage(o) \/ Provision(o) \/ OpenParent(o) \/ SyncParent(o)
          \/ Revalidate(o) \/ Opens(o) \/ RollBack(o) \/ OpenFails(o)
          \/ Leave(o) \/ TakeLock(o) \/ Ensure(o) \/ Publish(o) \/ StoreFails(o)

StorageSpec == StorageInit /\ [][StorageNext]_storageVars

(***************************************************************************)
(* Properties.                                                             *)
(***************************************************************************)
(* A record that a caller was answered for is on disk under the root's     *)
(* path, every directory on the way included, whatever syncs and rollbacks *)
(* failed, whenever the process died or the power went, and whoever else   *)
(* was opening the root; unless a rollback has removed a directory under a *)
(* caller at work: its validations go by path and may take the directory   *)
(* made anew, which was not there at its sync, for the one it synced.      *)
StoredSurvives ==
    answered /\ ~undercut => Resolve(child, Depth) # 0 /\ Resolve(dchild, Depth) # 0

(* Without the exception (StorageRootRollback.cfg).                        *)
StoredAlways == answered => Resolve(child, Depth) # 0 /\ Resolve(dchild, Depth) # 0
=============================================================================
