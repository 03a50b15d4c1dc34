---------------------------- MODULE PublishPair ----------------------------
(***************************************************************************)
(* _publish_pair, the helper with which every Python producer (exporter,   *)
(* precision converters, engine builder) puts a graph and its JSON sidecar *)
(* in place.  Publishers exclude one another with flock on the directory.  *)
(*                                                                         *)
(* A file is named by the publisher that staged it, or Old: that is also   *)
(* its identity (device, inode, size, mtime), since a publisher stages a   *)
(* fresh file and a rollback renames a hard link to the very same inode.   *)
(***************************************************************************)
EXTENDS FiniteSets

CONSTANTS
    Publishers,  \* one process that publishes once
    WithText,    \* publishers called with a sidecar_text
    WithTwin,    \* publishers called with a stale_sidecar
    Old,         \* the files that were there before
    NoFile,      \* the name does not exist
    Nobody       \* the lock is free

ASSUME PublishersAssumption ==
    /\ WithText \subseteq Publishers
    /\ WithTwin \subseteq Publishers
    /\ Old \notin Publishers
    /\ NoFile \notin Publishers \cup {Old}
    /\ Nobody \notin Publishers

VARIABLES
    dir,         \* the output names: what each one refers to
    lock,        \* who holds LOCK_EX on the directory
    pc,          \* where each publisher is
    tmp,         \* its staging files that exist
    bak,         \* its backup links that exist
    changed,     \* its list `changed`, in the order of Before
    unrestored,  \* its list rollback_errors
    preserve,    \* its flag preserve_backups
    result,      \* how its publication ended, once it is decided
    whole        \* history: the artifact as last completely published

vars == <<dir, lock, pc, tmp, bak, changed, unrestored, preserve, result, whole>>

Outputs == {"graph", "sidecar", "twin"}
Files == Publishers \cup {Old, NoFile}
NoBackups == [o \in Outputs |-> NoFile]

Outs(p) == {"graph", "sidecar"} \cup (IF p \in WithTwin THEN {"twin"} ELSE {})

Staged(p) == {"graph"} \cup (IF p \in WithText THEN {"sidecar"} ELSE {})
New(p, o) == IF o = "twin" \/ (o = "sidecar" /\ p \notin WithText) THEN NoFile ELSE p

\* The outputs swapped before o: `changed` is always such a prefix.
Before(o) == CASE o = "graph" -> {}
               [] o = "sidecar" -> {"graph"}
               [] o = "twin" -> {"graph", "sidecar"}

Found == {d \in [Outputs -> {Old, NoFile}] :
             d["graph"] = NoFile => d["sidecar"] = NoFile /\ d["twin"] = NoFile}

Init ==
    /\ dir \in Found
    /\ lock = Nobody
    /\ pc = [p \in Publishers |-> "stage"]
    /\ tmp = [p \in Publishers |-> {"graph"}]
    /\ bak = [p \in Publishers |-> NoBackups]
    /\ changed = [p \in Publishers |-> {}]
    /\ unrestored = [p \in Publishers |-> {}]
    /\ preserve = [p \in Publishers |-> FALSE]
    /\ result = [p \in Publishers |-> "none"]
    /\ whole = dir

(***************************************************************************)
(* The publisher                                                           *)
(***************************************************************************)
Goto(p, from, to) == pc[p] = from /\ pc' = [pc EXCEPT ![p] = to]
Ends(p, how) == result' = [result EXCEPT ![p] = how]

\* The sidecar text goes to an adjacent temporary file, if there is one.
StageSidecar(p) ==
    /\ Goto(p, "stage", "lock")
    /\ tmp' = [tmp EXCEPT ![p] = Staged(p)]
    /\ UNCHANGED <<dir, lock, bak, changed, unrestored, preserve, result, whole>>

\* Writing it, or opening the directory, fails: both staging files are removed.
StageFails(p) ==
    /\ Goto(p, "stage", "done")
    /\ tmp' = [tmp EXCEPT ![p] = {}]
    /\ Ends(p, "failed")
    /\ UNCHANGED <<dir, lock, bak, changed, unrestored, preserve, whole>>

\* A bug that takes a shared lock.
LockShared(p) ==
    /\ Goto(p, "lock", "prepare")
    /\ lock' = p
    /\ UNCHANGED <<dir, tmp, bak, changed, unrestored, preserve, result, whole>>

Lock(p) ==
    /\ Goto(p, "lock", "prepare")
    /\ lock = Nobody
    /\ lock' = p
    /\ UNCHANGED <<dir, tmp, bak, changed, unrestored, preserve, result, whole>>

\* flock raises (or is interrupted while it waits).
LockFails(p) ==
    /\ Goto(p, "lock", "cleanup")
    /\ Ends(p, "failed")
    /\ UNCHANGED <<dir, lock, tmp, bak, changed, unrestored, preserve, whole>>

\* Modes are copied to the staged files, and every output gets a backup link.
Prepare(p) ==
    /\ Goto(p, "prepare", "swap")
    /\ bak' = [bak EXCEPT ![p] = [o \in Outputs |->
                                     IF o \in Outs(p) THEN dir[o] ELSE NoFile]]
    /\ UNCHANGED <<dir, lock, tmp, changed, unrestored, preserve, result, whole>>

\* A chmod or a link fails; the links made so far (a prefix) are recorded.
PrepareFails(p) ==
    /\ Goto(p, "prepare", "cleanup")
    /\ \E n \in Outs(p) :
          bak' = [bak EXCEPT ![p] = [o \in Outputs |->
                                        IF o \in Before(n) THEN dir[o] ELSE NoFile]]
    /\ Ends(p, "failed")
    /\ UNCHANGED <<dir, lock, tmp, changed, unrestored, preserve, whole>>

\* The output whose turn it is: graph, then sidecar, then the twin.
Turn(p, o) == o \in Outs(p) \ changed[p] /\ Before(o) \subseteq changed[p]

\* os.replace or unlink took effect on o.
Replace(p, o) ==
    /\ dir' = [dir EXCEPT ![o] = New(p, o)]
    /\ tmp' = [tmp EXCEPT ![p] = @ \ {o}]

Swap(p, o) ==
    /\ pc[p] = "swap"
    /\ Turn(p, o)
    /\ changed' = [changed EXCEPT ![p] = @ \cup {o}]
    /\ Replace(p, o)
    /\ IF changed'[p] = Outs(p)
       THEN /\ pc' = [pc EXCEPT ![p] = "cleanup"]
            /\ Ends(p, "published")
            /\ whole' = dir'
       ELSE UNCHANGED <<pc, result, whole>>
    /\ UNCHANGED <<lock, bak, unrestored, preserve>>

\* The call fails, or an interrupt arrives just after it took effect: o is
\* already in `changed`, so it is rolled back either way.
SwapFails(p, o) ==
    /\ Goto(p, "swap", "restore")
    /\ Turn(p, o)
    /\ changed' = [changed EXCEPT ![p] = @ \cup {o}]
    /\ Replace(p, o) \/ UNCHANGED <<dir, tmp>>
    /\ UNCHANGED <<lock, bak, unrestored, preserve, result, whole>>

\* reversed(changed): the last one that is not restored yet.
Latest(p, o) == o \in changed[p] /\ \A q \in changed[p] : o \notin Before(q)

\* What _restore_output puts back: the backup, or nothing if there was nothing.
Restored(p, o) == bak[p][o]

\* os.replace(backup, path) or unlink.  Renaming one link of an inode over
\* another does nothing: the backup then stays for the clean-up.
Restore(p, o) ==
    /\ pc[p] = "restore"
    /\ Latest(p, o)
    /\ changed' = [changed EXCEPT ![p] = @ \ {o}]
    /\ dir' = [dir EXCEPT ![o] = Restored(p, o)]
    /\ bak' = IF dir[o] = bak[p][o] THEN bak ELSE [bak EXCEPT ![p][o] = NoFile]
    /\ UNCHANGED <<lock, pc, tmp, unrestored, preserve, result, whole>>

RestoreFails(p, o) ==
    /\ pc[p] = "restore"
    /\ Latest(p, o)
    /\ changed' = [changed EXCEPT ![p] = @ \ {o}]
    /\ unrestored' = [unrestored EXCEPT ![p] = @ \cup {o}]
    /\ UNCHANGED <<dir, lock, pc, tmp, bak, preserve, result, whole>>

\* A bug that never sets the flag.
PreservesNone(p) == FALSE
Preserves(p) == unrestored[p] # {}

RolledBack(p) ==
    /\ Goto(p, "restore", "cleanup")
    /\ changed[p] = {}
    /\ preserve' = [preserve EXCEPT ![p] = Preserves(p)]
    /\ Ends(p, IF unrestored[p] = {} THEN "restored" ELSE "unrestored")
    /\ UNCHANGED <<dir, lock, tmp, bak, changed, unrestored, whole>>

\* The rollback loop catches OSError only: an interrupt leaves it at once,
\* with preserve_backups still FALSE.
RollbackInterrupted(p) ==
    /\ Goto(p, "restore", "cleanup")
    /\ Ends(p, "interrupted")
    /\ UNCHANGED <<dir, lock, tmp, bak, changed, unrestored, preserve, whole>>

Remaining(p) == IF preserve[p] THEN bak[p] ELSE NoBackups

Cleanup(p) ==
    /\ Goto(p, "cleanup", "unlock")
    /\ tmp' = [tmp EXCEPT ![p] = {}]
    /\ bak' = [bak EXCEPT ![p] = Remaining(p)]
    /\ UNCHANGED <<dir, lock, changed, unrestored, preserve, result, whole>>

\* A bug that forgets the unlock after a rollback.
ReleasedUnlessRestored(p) == IF lock = p /\ result[p] # "restored" THEN Nobody ELSE lock
Released(p) == IF lock = p THEN Nobody ELSE lock

Unlock(p) ==
    /\ Goto(p, "unlock", "done")
    /\ lock' = Released(p)
    /\ UNCHANGED <<dir, tmp, bak, changed, unrestored, preserve, result, whole>>

\* The process dies: its files stay, the kernel drops its lock.
Crash(p) ==
    /\ pc[p] \notin {"done", "crashed"}
    /\ pc' = [pc EXCEPT ![p] = "crashed"]
    /\ lock' = Released(p)
    /\ Ends(p, IF result[p] # "none" THEN result[p]
               ELSE IF pc[p] \in {"swap", "restore"} THEN "torn" ELSE "failed")
    /\ UNCHANGED <<dir, tmp, bak, changed, unrestored, preserve, whole>>

Publisher(p) ==
    \/ StageSidecar(p) \/ StageFails(p) \/ Lock(p) \/ LockFails(p)
    \/ Prepare(p) \/ PrepareFails(p)
    \/ \E o \in Outputs : Swap(p, o) \/ SwapFails(p, o) \/ Restore(p, o) \/ RestoreFails(p, o)
    \/ RolledBack(p) \/ RollbackInterrupted(p) \/ Cleanup(p) \/ Unlock(p)

Next == \E p \in Publishers : Publisher(p) \/ Crash(p)

Spec == Init /\ [][Next]_vars

\* A process that is not killed keeps running, and flock is granted to some
\* waiter once it is free; nothing forces a failure, an interrupt or a crash.
Proceeds(p) ==
    \/ StageSidecar(p) \/ Lock(p) \/ Prepare(p)
    \/ \E o \in Outputs : Swap(p, o) \/ Restore(p, o)
    \/ RolledBack(p) \/ Cleanup(p) \/ Unlock(p)

FairSpec == Spec /\ \A p \in Publishers : WF_vars(Proceeds(p))

(***************************************************************************)
(* Properties                                                              *)
(***************************************************************************)
\* Every variable keeps its shape: the names, links and flags of _publish_pair.
TypeOK ==
    /\ dir \in [Outputs -> Files]
    /\ lock \in Publishers \cup {Nobody}
    /\ pc \in [Publishers -> {"stage", "lock", "prepare", "swap", "restore",
                              "cleanup", "unlock", "done", "crashed"}]
    /\ tmp \in [Publishers -> SUBSET {"graph", "sidecar"}]
    /\ bak \in [Publishers -> [Outputs -> Files]]
    /\ changed \in [Publishers -> SUBSET Outputs]
    /\ unrestored \in [Publishers -> SUBSET Outputs]
    /\ preserve \in [Publishers -> BOOLEAN]
    /\ result \in [Publishers -> {"none", "published", "failed", "restored",
                                  "unrestored", "interrupted", "torn"}]
    /\ whole \in [Outputs -> Files]

Disturbed == \E p \in Publishers : result[p] \in {"torn", "unrestored", "interrupted"}

\* "Ordinary publication failures restore the complete previous pair": unless
\* a process died while swapping or a rollback did not complete, the directory
\* is, whenever nobody holds the lock, exactly the last complete publication.
WholeWhenUnlocked == lock = Nobody /\ ~Disturbed => dir = whole

\* Even when a process dies between two renames, or its rollback fails, every
\* file of the last complete publication still has a name: the output's own or
\* a backup link.  (An interrupt inside the rollback loop is the exception:
\* the finally clause then removes the backups.)
NothingLost ==
    (\A p \in Publishers : result[p] # "interrupted") =>
        \A o \in Outputs :
            whole[o] \in {dir[o], NoFile} \cup {bak[p][o] : p \in Publishers}

\* A publisher that has returned leaves no staging file and no backup behind,
\* unless its rollback failed and it kept the backups on purpose.
NoDebris ==
    \A p \in Publishers :
        pc[p] = "done" /\ ~preserve[p] => tmp[p] = {} /\ bak[p] = NoBackups

\* Every publisher that is not killed returns: nobody keeps the lock for ever.
EveryPublisherEnds == \A p \in Publishers : <>(pc[p] \in {"done", "crashed"})

\* The directory as the publisher in the middle of its swaps found it.
Swapping == lock \in Publishers /\ pc[lock] \in {"swap", "restore"}
Pair == [o \in Outputs |->
            IF Swapping /\ o \in changed[lock] \cup unrestored[lock]
            THEN bak[lock][o] ELSE dir[o]]
Outcome == [p \in Publishers |->
               CASE result[p] = "none" -> "none"
                 [] result[p] = "published" -> "published"
                 [] result[p] \in {"failed", "restored"} -> "failed"
                 [] OTHER -> "torn"]

Atomic == INSTANCE AtomicPublication WITH pair <- Pair, outcome <- Outcome

\* All of a publication happens in one step, or none of it; a crash or a failed
\* rollback leaves at each output either what was there or what was meant.
AtomicSpec == Atomic!Spec
=============================================================================
