------------------------- MODULE PublishPairProofs -------------------------
(***************************************************************************)
(* _publish_pair for any number of publishers, with any subset of them     *)
(* publishing a sidecar or removing a twin.  WholeWhenUnlocked and         *)
(* NothingLost are not inductive: they rest on what the lock holder has    *)
(* swapped and backed up, which IInv adds.  At the end, the reader that    *)
(* takes no lock (ArtifactReader).                                         *)
(***************************************************************************)
EXTENDS ArtifactReader, TLAPS

Inside == {"prepare", "swap", "restore"}

\* What holds of a publisher at each point, and that the lock covers its swaps.
Own(p) ==
  /\ result[p] = "none" <=> pc[p] \in {"stage", "lock"} \cup Inside
  /\ preserve[p] <=> result[p] = "unrestored"
  /\ result[p] = "torn" => pc[p] = "crashed"
  /\ pc[p] \in {"stage", "lock", "prepare"} =>
       bak[p] = NoBackups /\ changed[p] = {} /\ unrestored[p] = {}
  /\ pc[p] \in Inside => lock = p
  /\ pc[p] = "cleanup" /\ lock # p => bak[p] = NoBackups
  /\ pc[p] \in {"unlock", "done"} /\ ~preserve[p] => tmp[p] = {} /\ bak[p] = NoBackups

\* While it swaps: changed outputs are new, the others still have their backup.
Swaps(p) ==
  pc[p] = "swap" =>
    /\ changed[p] \subseteq Outs(p) /\ changed[p] # Outs(p) /\ unrestored[p] = {}
    /\ \A o \in changed[p] : dir[o] = New(p, o)
    /\ \A o \in Outs(p) \ changed[p] : bak[p][o] = dir[o]
    /\ \A o \in Outputs \ Outs(p) : bak[p][o] = NoFile

\* While it rolls back: what is not restored has its backup, the rest needs none.
Restores(p) ==
  pc[p] = "restore" =>
    /\ changed[p] \subseteq Outs(p) /\ unrestored[p] \subseteq Outs(p)
    /\ changed[p] \cap unrestored[p] = {}
    /\ \A o \in changed[p] \cup unrestored[p] : dir[o] \in {bak[p][o], New(p, o)}
    /\ \A o \in Outputs \ (changed[p] \cup unrestored[p]) : bak[p][o] \in {dir[o], NoFile}

\* The backups it is about to remove are not needed any more.
Cleans(p) ==
  pc[p] = "cleanup" =>
    /\ result[p] = "published" => lock = p /\ whole = dir
    /\ result[p] \in {"failed", "restored"} =>
         \A o \in Outputs : bak[p][o] \in {dir[o], NoFile}

Holder == lock \in Publishers => pc[lock] \in Inside \cup {"cleanup", "unlock"}

\* Only a finished publication supplies the whole artifact, nobody publishes a
\* twin, and what the holder would restore is the whole artifact.
WholeIsPublished == \A o \in Outputs : whole[o] \in Publishers => result[whole[o]] = "published"
TwinIsOld ==
  dir["twin"] \notin Publishers /\ \A p \in Publishers : bak[p]["twin"] \notin Publishers
WholeIsPair == ~Disturbed => Pair = whole

IInv ==
  /\ TypeOK
  /\ \A p \in Publishers : Own(p) /\ Swaps(p) /\ Restores(p) /\ Cleans(p)
  /\ Holder
  /\ WholeIsPublished
  /\ TwinIsOld
  /\ WholeIsPair
  /\ NothingLost

LEMMA InitIInv == Init => IInv
  <1> SUFFICES ASSUME Init PROVE IInv
    OBVIOUS
  <1> USE PublishersAssumption DEF Init, NoBackups
  <1>1. TypeOK BY DEF TypeOK, Found, Files, Outputs
  <1>2. \A p \in Publishers : Own(p) /\ Swaps(p) /\ Restores(p) /\ Cleans(p)
    BY DEF Own, Swaps, Restores, Cleans, Inside
  <1>3. Holder /\ WholeIsPublished /\ TwinIsOld
    BY DEF Holder, WholeIsPublished, TwinIsOld, Found, Outputs
  <1>4. WholeIsPair /\ NothingLost
    BY DEF WholeIsPair, NothingLost, Pair, Swapping, Found
  <1> QED BY <1>1, <1>2, <1>3, <1>4 DEF IInv

LEMMA NewFile == \A p \in Publishers, o \in Outputs : New(p, o) \in {p, NoFile}
  BY DEF New

LEMMA OutsSubset == \A p \in Publishers : Outs(p) \subseteq Outputs
  BY DEF Outs, Outputs

\* A step of one publisher leaves what is known of the others alone: it changes
\* the directory or the lock only while it is inside, so while they are not.
LEMMA Frame ==
  ASSUME IInv, NEW q \in Publishers,
         pc'[q] = pc[q], tmp'[q] = tmp[q], bak'[q] = bak[q], changed'[q] = changed[q],
         unrestored'[q] = unrestored[q], preserve'[q] = preserve[q], result'[q] = result[q],
         lock' = q <=> lock = q,
         lock = q => dir' = dir /\ whole' = whole
  PROVE  Own(q)' /\ Swaps(q)' /\ Restores(q)' /\ Cleans(q)'
  <1>0. Own(q) /\ Swaps(q) /\ Restores(q) /\ Cleans(q) BY DEF IInv
  <1>1. Own(q)' BY <1>0 DEF Own, NoBackups
  <1>2. Swaps(q)' BY <1>0, OutsSubset DEF Own, Swaps, Inside
  <1>3. Restores(q)' BY <1>0, OutsSubset DEF Own, Restores, Inside
  <1>4. Cleans(q)'
    <2>1. CASE lock = q BY <2>1, <1>0 DEF Cleans
    <2>2. CASE lock # q BY <2>2, <1>0 DEF Own, Cleans, NoBackups
    <2> QED BY <2>1, <2>2
  <1> QED BY <1>1, <1>2, <1>3, <1>4

\* A file that still has a name: an output's own or a backup link.
Named(f, o) == f = NoFile \/ f = dir[o] \/ \E r \in Publishers : f = bak[r][o]

\* Nothing is lost by a step that leaves a name to every file that has one.
LEMMA KeepsNames ==
  ASSUME NothingLost, UNCHANGED whole,
         \A r \in Publishers : result[r] = "interrupted" => result'[r] = "interrupted",
         \A o \in Outputs : whole[o] = dir[o] => Named(whole[o], o)',
         \A o \in Outputs, r \in Publishers : whole[o] = bak[r][o] => Named(whole[o], o)'
  PROVE  NothingLost'
  BY DEF NothingLost, Named

LEMMA TypeStep == IInv /\ [Next]_vars => TypeOK'
  <1> SUFFICES ASSUME IInv, [Next]_vars PROVE TypeOK'
    OBVIOUS
  <1> USE PublishersAssumption DEF IInv, TypeOK, Goto, Ends, Files
  <1>1. ASSUME NEW p \in Publishers, StageSidecar(p) PROVE TypeOK'
    BY <1>1 DEF StageSidecar, Staged
  <1>2. ASSUME NEW p \in Publishers, StageFails(p) PROVE TypeOK'
    BY <1>2 DEF StageFails, Staged
  <1>3. ASSUME NEW p \in Publishers, Lock(p) PROVE TypeOK'
    BY <1>3 DEF Lock
  <1>4. ASSUME NEW p \in Publishers, LockFails(p) PROVE TypeOK'
    BY <1>4 DEF LockFails
  <1>5. ASSUME NEW p \in Publishers, Prepare(p) PROVE TypeOK'
    BY <1>5 DEF Prepare
  <1>6. ASSUME NEW p \in Publishers, PrepareFails(p) PROVE TypeOK'
    BY <1>6 DEF PrepareFails
  <1>7. ASSUME NEW p \in Publishers, NEW o \in Outputs, Swap(p, o) PROVE TypeOK'
    <2>1. New(p, o) \in Files BY NewFile
    <2>2. dir' \in [Outputs -> Files] /\ tmp' \in [Publishers -> SUBSET {"graph", "sidecar"}]
      BY <1>7, <2>1 DEF Swap, Replace
    <2>3. changed' \in [Publishers -> SUBSET Outputs]
      <3>1. changed' = [changed EXCEPT ![p] = @ \cup {o}]
        BY <1>7, Zenon DEF Swap
      <3> QED BY <3>1
    <2>4. UNCHANGED <<lock, bak, unrestored, preserve>>
      BY <1>7, Zenon DEF Swap
    <2>5. pc' \in [Publishers -> {"stage", "lock", "prepare", "swap", "restore", "cleanup", "unlock",
                                 "done", "crashed"}]
      <3>1. pc' = pc \/ pc' = [pc EXCEPT ![p] = "cleanup"]
        BY <1>7, Zenon DEF Swap
      <3> QED BY <3>1
    <2>6. result' \in [Publishers -> {"none", "published", "failed", "restored", "unrestored",
                                     "interrupted", "torn"}]
      <3>1. result' = result \/ result' = [result EXCEPT ![p] = "published"]
        BY <1>7, Zenon DEF Swap
      <3> QED BY <3>1
    <2>7. whole' \in [Outputs -> Files] BY <1>7, <2>2 DEF Swap
    <2> QED BY <2>2, <2>3, <2>4, <2>5, <2>6, <2>7
  <1>8. ASSUME NEW p \in Publishers, NEW o \in Outputs, SwapFails(p, o) PROVE TypeOK'
    <2>1. New(p, o) \in Files BY NewFile
    <2>2. dir' \in [Outputs -> Files] /\ tmp' \in [Publishers -> SUBSET {"graph", "sidecar"}]
      <3>1. CASE Replace(p, o) BY <3>1, <2>1 DEF Replace
      <3>2. CASE UNCHANGED <<dir, tmp>> BY <3>2
      <3> QED BY <1>8, <3>1, <3>2 DEF SwapFails
    <2>3. changed' \in [Publishers -> SUBSET Outputs]
      BY <1>8 DEF SwapFails
    <2> QED BY <1>8, <2>2, <2>3 DEF SwapFails
  <1>9. ASSUME NEW p \in Publishers, NEW o \in Outputs, Restore(p, o) PROVE TypeOK'
    BY <1>9 DEF Restore, Restored, Latest
  <1>10. ASSUME NEW p \in Publishers, NEW o \in Outputs, RestoreFails(p, o) PROVE TypeOK'
    BY <1>10 DEF RestoreFails, Latest
  <1>11. ASSUME NEW p \in Publishers, RolledBack(p) PROVE TypeOK'
    BY <1>11 DEF RolledBack, Preserves
  <1>12. ASSUME NEW p \in Publishers, RollbackInterrupted(p) PROVE TypeOK'
    BY <1>12 DEF RollbackInterrupted
  <1>13. ASSUME NEW p \in Publishers, Cleanup(p) PROVE TypeOK'
    BY <1>13 DEF Cleanup, Remaining, NoBackups
  <1>14. ASSUME NEW p \in Publishers, Unlock(p) PROVE TypeOK'
    BY <1>14 DEF Unlock, Released
  <1>15. ASSUME NEW p \in Publishers, Crash(p) PROVE TypeOK'
    BY <1>15 DEF Crash, Released
  <1>16. CASE UNCHANGED vars BY <1>16 DEF vars
  <1> QED
    BY <1>1, <1>2, <1>3, <1>4, <1>5, <1>6, <1>7, <1>8, <1>9, <1>10, <1>11, <1>12, <1>13, <1>14,
       <1>15, <1>16 DEF Next, Publisher

\* The pair a caller sees does not change until a publication is complete.
LEMMA SwapKeepsPair ==
  ASSUME IInv, TypeOK', NEW p \in Publishers, NEW o \in Outputs, Swap(p, o), changed'[p] # Outs(p)
  PROVE  Pair' = Pair
  <1> USE DEF Swap, Turn, Replace
  <1>0. TypeOK /\ Own(p) /\ Swaps(p) /\ Restores(p) /\ lock = p /\ lock' = p
    BY DEF IInv, Own, Inside
  <1>1. ASSUME NEW x \in Outputs PROVE Pair'[x] = Pair[x]
    BY <1>0 DEF TypeOK, Pair, Swapping, Swaps
  <1> QED BY <1>1 DEF Pair

LEMMA SwapFailsKeepsPair ==
  ASSUME IInv, TypeOK', NEW p \in Publishers, NEW o \in Outputs, SwapFails(p, o)
  PROVE  Pair' = Pair
  <1> USE DEF SwapFails, Turn, Replace, Goto
  <1>0. TypeOK /\ Own(p) /\ Swaps(p) /\ Restores(p) /\ lock = p /\ lock' = p
    BY DEF IInv, Own, Inside
  <1>1. \A x \in Outputs : x # o => dir'[x] = dir[x] BY <1>0 DEF TypeOK
  <1>2. ASSUME NEW x \in Outputs PROVE Pair'[x] = Pair[x]
    BY <1>0, <1>1 DEF TypeOK, Pair, Swapping, Swaps
  <1> QED BY <1>2 DEF Pair

LEMMA RestoreKeepsPair ==
  ASSUME IInv, TypeOK', NEW p \in Publishers, NEW o \in Outputs, Restore(p, o)
  PROVE  Pair' = Pair
  <1> USE DEF Restore, Restored, Latest
  <1>0. TypeOK /\ Own(p) /\ Swaps(p) /\ Restores(p) /\ lock = p /\ lock' = p
    BY DEF IInv, Own, Inside
  <1>1. dir'[o] = bak[p][o] /\ o \notin unrestored[p]
    BY <1>0 DEF TypeOK, Restores
  <1>2. \A x \in Outputs : x # o => dir'[x] = dir[x] /\ bak'[p][x] = bak[p][x]
    BY <1>0 DEF TypeOK
  <1>3. ASSUME NEW x \in Outputs PROVE Pair'[x] = Pair[x]
    BY <1>0, <1>1, <1>2 DEF TypeOK, Pair, Swapping
  <1> QED BY <1>3 DEF Pair

LEMMA RestoreFailsKeepsPair ==
  ASSUME IInv, TypeOK', NEW p \in Publishers, NEW o \in Outputs, RestoreFails(p, o)
  PROVE  Pair' = Pair
  <1> USE DEF RestoreFails, Latest
  <1>0. TypeOK /\ Own(p) /\ Swaps(p) /\ Restores(p) /\ lock = p /\ lock' = p
    BY DEF IInv, Own, Inside
  <1>1. ASSUME NEW x \in Outputs PROVE Pair'[x] = Pair[x]
    BY <1>0 DEF TypeOK, Pair, Swapping
  <1> QED BY <1>1 DEF Pair

\* Nor does it by what a publisher does before its first swap and after its last.
LEMMA OutsideKeepsPair ==
  ASSUME IInv, UNCHANGED <<dir, changed, unrestored>>, NEW p \in Publishers,
         \A q \in Publishers \ {p} : pc'[q] = pc[q] /\ bak'[q] = bak[q]
                                     /\ (lock' = q <=> lock = q),
         pc[p] \notin {"swap", "restore"},
         pc'[p] \in {"swap", "restore"} => changed[p] = {} /\ unrestored[p] = {}
  PROVE  Pair' = Pair
  <1>1. ASSUME NEW x \in Outputs PROVE Pair'[x] = Pair[x]
    BY PublishersAssumption DEF IInv, TypeOK, Pair, Swapping
  <1> QED BY <1>1 DEF Pair

LEMMA NextIInv == IInv /\ [Next]_vars => IInv'
  <1> SUFFICES ASSUME IInv, [Next]_vars PROVE IInv'
    OBVIOUS
  <1> USE PublishersAssumption
  <1>0. TypeOK /\ TypeOK' BY TypeStep DEF IInv
  <1>1. ASSUME NEW p \in Publishers, StageSidecar(p) PROVE IInv'
    <2> USE <1>1 DEF StageSidecar, Goto, Ends
    <2>0. Own(p) /\ Swaps(p) /\ Restores(p) /\ Cleans(p) BY DEF IInv
    <2>1. ASSUME NEW q \in Publishers, q # p
        PROVE Own(q)' /\ Swaps(q)' /\ Restores(q)' /\ Cleans(q)'
      BY <1>0, <2>0, <2>1, Frame DEF TypeOK, Own, Inside
    <2>2. Own(p)' /\ Swaps(p)' /\ Restores(p)' /\ Cleans(p)'
      BY <1>0, <2>0 DEF TypeOK, Own, Swaps, Restores, Cleans, Inside, NoBackups
    <2>3. Holder' /\ WholeIsPublished' /\ TwinIsOld'
      BY <1>0, <2>0 DEF IInv, TypeOK, Own, Holder, WholeIsPublished, TwinIsOld, Outputs, NoBackups,
                        Inside
    <2>4. WholeIsPair'
      BY <1>0, <2>0 DEF IInv, TypeOK, Own, WholeIsPair, Disturbed, Pair, Swapping, Inside
    <2>5. NothingLost' BY <1>0, <2>0 DEF IInv, TypeOK, Own, NothingLost
    <2> QED BY <1>0, <2>1, <2>2, <2>3, <2>4, <2>5 DEF IInv
  <1>2. ASSUME NEW p \in Publishers, StageFails(p) PROVE IInv'
    <2> USE <1>2 DEF StageFails, Goto, Ends
    <2>0. Own(p) /\ Swaps(p) /\ Restores(p) /\ Cleans(p) BY DEF IInv
    <2>1. ASSUME NEW q \in Publishers, q # p
        PROVE Own(q)' /\ Swaps(q)' /\ Restores(q)' /\ Cleans(q)'
      BY <1>0, <2>0, <2>1, Frame DEF TypeOK, Own, Inside
    <2>2. Own(p)' /\ Swaps(p)' /\ Restores(p)' /\ Cleans(p)'
      BY <1>0, <2>0 DEF TypeOK, Own, Swaps, Restores, Cleans, Inside, NoBackups
    <2>3. Holder' /\ WholeIsPublished' /\ TwinIsOld'
      BY <1>0, <2>0 DEF IInv, TypeOK, Own, Holder, WholeIsPublished, TwinIsOld, Outputs, NoBackups,
                        Inside
    <2>4. WholeIsPair'
      BY <1>0, <2>0 DEF IInv, TypeOK, Own, WholeIsPair, Disturbed, Pair, Swapping, Inside
    <2>5. NothingLost' BY <1>0, <2>0 DEF IInv, TypeOK, Own, NothingLost
    <2> QED BY <1>0, <2>1, <2>2, <2>3, <2>4, <2>5 DEF IInv
  <1>3. ASSUME NEW p \in Publishers, Lock(p) PROVE IInv'
    <2> USE <1>3 DEF Lock, Goto, Ends
    <2>0. Own(p) /\ Swaps(p) /\ Restores(p) /\ Cleans(p) BY DEF IInv
    <2>1. ASSUME NEW q \in Publishers, q # p
        PROVE Own(q)' /\ Swaps(q)' /\ Restores(q)' /\ Cleans(q)'
      BY <1>0, <2>0, <2>1, Frame DEF TypeOK, Own, Inside
    <2>2. Own(p)' /\ Swaps(p)' /\ Restores(p)' /\ Cleans(p)'
      BY <1>0, <2>0 DEF TypeOK, Own, Swaps, Restores, Cleans, Inside, NoBackups
    <2>3. Holder' /\ WholeIsPublished' /\ TwinIsOld'
      BY <1>0, <2>0 DEF IInv, TypeOK, Own, Holder, WholeIsPublished, TwinIsOld, Outputs, NoBackups,
                        Inside
    <2>4. WholeIsPair'
      BY <1>0, <2>0 DEF IInv, TypeOK, Own, WholeIsPair, Disturbed, Pair, Swapping, Inside
    <2>5. NothingLost' BY <1>0, <2>0 DEF IInv, TypeOK, Own, NothingLost
    <2> QED BY <1>0, <2>1, <2>2, <2>3, <2>4, <2>5 DEF IInv
  <1>4. ASSUME NEW p \in Publishers, LockFails(p) PROVE IInv'
    <2> USE <1>4 DEF LockFails, Goto, Ends
    <2>0. Own(p) /\ Swaps(p) /\ Restores(p) /\ Cleans(p) BY DEF IInv
    <2>1. ASSUME NEW q \in Publishers, q # p
        PROVE Own(q)' /\ Swaps(q)' /\ Restores(q)' /\ Cleans(q)'
      BY <1>0, <2>0, <2>1, Frame DEF TypeOK, Own, Inside
    <2>2. Own(p)' /\ Swaps(p)' /\ Restores(p)' /\ Cleans(p)'
      BY <1>0, <2>0 DEF TypeOK, Own, Swaps, Restores, Cleans, Inside, NoBackups
    <2>3. Holder' /\ WholeIsPublished' /\ TwinIsOld'
      BY <1>0, <2>0 DEF IInv, TypeOK, Own, Holder, WholeIsPublished, TwinIsOld, Outputs, NoBackups,
                        Inside
    <2>4. WholeIsPair'
      BY <1>0, <2>0 DEF IInv, TypeOK, Own, WholeIsPair, Disturbed, Pair, Swapping, Inside
    <2>5. NothingLost' BY <1>0, <2>0 DEF IInv, TypeOK, Own, NothingLost
    <2> QED BY <1>0, <2>1, <2>2, <2>3, <2>4, <2>5 DEF IInv
  <1>5. ASSUME NEW p \in Publishers, Prepare(p) PROVE IInv'
    <2> USE <1>5 DEF Prepare, Goto, Ends
    <2>0. Own(p) /\ Swaps(p) /\ Restores(p) /\ Cleans(p) BY DEF IInv
    <2>1. ASSUME NEW q \in Publishers, q # p
        PROVE Own(q)' /\ Swaps(q)' /\ Restores(q)' /\ Cleans(q)'
      BY <1>0, <2>0, <2>1, Frame DEF TypeOK, Own, Inside
    <2>2. Own(p)' /\ Swaps(p)' /\ Restores(p)' /\ Cleans(p)'
      <3>1. \A o \in Outputs : bak'[p][o] = IF o \in Outs(p) THEN dir[o] ELSE NoFile
        BY <1>0 DEF TypeOK
      <3>2. changed'[p] # Outs(p)
        BY <1>0, <2>0, ZenonT(60) DEF TypeOK, Own, Outs
      <3>3. Swaps(p)'
        BY <1>0, <2>0, <3>1, <3>2, OutsSubset DEF TypeOK, Own, Swaps
      <3> QED BY <1>0, <2>0, <3>3 DEF TypeOK, Own, Restores, Cleans, Inside
    <2>3. Holder' /\ WholeIsPublished' /\ TwinIsOld'
      BY <1>0, <2>0 DEF IInv, TypeOK, Own, Holder, WholeIsPublished, TwinIsOld, Outputs, NoBackups,
                        Inside
    <2>4. WholeIsPair'
      BY <1>0, <2>0 DEF IInv, TypeOK, Own, WholeIsPair, Disturbed, Pair, Swapping, Inside
    <2>5. NothingLost'
      <3>1. \A r \in Publishers : result[r] = "interrupted" => result'[r] = "interrupted"
        BY <1>0, <2>0 DEF TypeOK, Own, Inside
      <3>2. \A o \in Outputs, r \in Publishers : whole[o] = bak[r][o] => Named(whole[o], o)'
        BY <1>0, <2>0 DEF TypeOK, Own, Named, NoBackups
      <3> QED BY <3>1, <3>2, KeepsNames DEF IInv, Named
    <2> QED BY <1>0, <2>1, <2>2, <2>3, <2>4, <2>5 DEF IInv
  <1>6. ASSUME NEW p \in Publishers, PrepareFails(p) PROVE IInv'
    <2> USE <1>6 DEF PrepareFails, Goto, Ends
    <2>0. Own(p) /\ Swaps(p) /\ Restores(p) /\ Cleans(p) BY DEF IInv
    <2>1. ASSUME NEW q \in Publishers, q # p
        PROVE Own(q)' /\ Swaps(q)' /\ Restores(q)' /\ Cleans(q)'
      BY <1>0, <2>0, <2>1, Frame DEF TypeOK, Own, Inside
    <2>2. Own(p)' /\ Swaps(p)' /\ Restores(p)' /\ Cleans(p)'
      BY <1>0, <2>0 DEF TypeOK, Own, Swaps, Restores, Cleans, Inside, NoBackups
    <2>3. Holder' /\ WholeIsPublished' /\ TwinIsOld'
      BY <1>0, <2>0 DEF IInv, TypeOK, Own, Holder, WholeIsPublished, TwinIsOld, Outputs, NoBackups,
                        Inside
    <2>4. WholeIsPair'
      BY <1>0, <2>0 DEF IInv, TypeOK, Own, WholeIsPair, Disturbed, Pair, Swapping, Inside
    <2>5. NothingLost'
      <3>1. \A r \in Publishers : result[r] = "interrupted" => result'[r] = "interrupted"
        BY <1>0, <2>0 DEF TypeOK, Own, Inside
      <3>2. \A o \in Outputs, r \in Publishers : whole[o] = bak[r][o] => Named(whole[o], o)'
        BY <1>0, <2>0 DEF TypeOK, Own, Named, NoBackups
      <3> QED BY <3>1, <3>2, KeepsNames DEF IInv, Named
    <2> QED BY <1>0, <2>1, <2>2, <2>3, <2>4, <2>5 DEF IInv
  <1>7. ASSUME NEW p \in Publishers, NEW o \in Outputs, Swap(p, o) PROVE IInv'
    <2> USE <1>7 DEF Swap, Turn, Replace, Goto, Ends
    <2>0. Own(p) /\ Swaps(p) /\ Restores(p) /\ Cleans(p) BY DEF IInv
    <2>1. ASSUME NEW q \in Publishers, q # p
        PROVE Own(q)' /\ Swaps(q)' /\ Restores(q)' /\ Cleans(q)'
      BY <1>0, <2>0, <2>1, Frame DEF TypeOK, Own, Inside
    <2>2. Own(p)' /\ Swaps(p)' /\ Restores(p)' /\ Cleans(p)'
      BY <1>0, <2>0 DEF TypeOK, Own, Swaps, Restores, Cleans, Inside, NoBackups
    <2>3. Holder' /\ WholeIsPublished' /\ TwinIsOld'
      <3>1. \A x \in Outputs : dir'[x] = IF x = o THEN New(p, o) ELSE dir[x]
        BY <1>0 DEF TypeOK
      <3>2. TwinIsOld' BY <3>1 DEF IInv, TwinIsOld, Outputs, New
      <3>3. Holder' BY <1>0, <2>0 DEF IInv, TypeOK, Own, Holder, Inside
      <3>4. CASE changed'[p] = Outs(p)
        <4>1. \A x \in Outs(p) : dir'[x] = New(p, x)
          BY <1>0, <2>0, <3>1, <3>4, OutsSubset DEF TypeOK, Swaps
        <4>2. \A x \in Outputs : x \notin Outs(p) => dir'[x] \notin Publishers
          BY <3>2 DEF TwinIsOld, Outs, Outputs
        <4>3. \A x \in Outputs : dir'[x] \in Publishers => dir'[x] = p
          BY <4>1, <4>2, NewFile
        <4>4. whole' = dir' /\ result'[p] = "published"
          BY <1>0, <3>4 DEF TypeOK
        <4>5. WholeIsPublished' BY <4>3, <4>4 DEF WholeIsPublished
        <4> QED BY <3>2, <3>3, <4>5
      <3>5. CASE changed'[p] # Outs(p)
        BY <3>2, <3>3, <3>5 DEF IInv, WholeIsPublished
      <3> QED BY <3>4, <3>5
    <2>4. WholeIsPair'
      <3>1. CASE changed'[p] = Outs(p)
        <4>1. pc'[p] = "cleanup" /\ lock' = p /\ whole' = dir'
          BY <1>0, <2>0, <3>1 DEF TypeOK, Own, Inside
        <4>2. Pair' = [x \in Outputs |-> dir'[x]]
          BY <4>1 DEF Pair, Swapping
        <4> QED BY <1>0, <4>1, <4>2 DEF TypeOK, WholeIsPair
      <3>2. CASE changed'[p] # Outs(p)
        BY <1>0, <3>2, SwapKeepsPair DEF IInv, WholeIsPair, Disturbed
      <3> QED BY <3>1, <3>2
    <2>5. NothingLost'
      <3>1. CASE changed'[p] = Outs(p) BY <3>1 DEF NothingLost
      <3>2. CASE changed'[p] # Outs(p)
        <4>1. result' = result /\ whole' = whole BY <3>2
        <4>2. \A x \in Outputs : whole[x] = dir[x] => Named(whole[x], x)'
          BY <1>0, <2>0, <4>1 DEF TypeOK, Swaps, Named
        <4> QED BY <4>1, <4>2, KeepsNames DEF IInv, Named
      <3> QED BY <3>1, <3>2
    <2> QED BY <1>0, <2>1, <2>2, <2>3, <2>4, <2>5 DEF IInv
  <1>8. ASSUME NEW p \in Publishers, NEW o \in Outputs, SwapFails(p, o) PROVE IInv'
    <2> USE <1>8 DEF SwapFails, Turn, Replace, Goto, Ends
    <2>0. Own(p) /\ Swaps(p) /\ Restores(p) /\ Cleans(p) BY DEF IInv
    <2>1. ASSUME NEW q \in Publishers, q # p
        PROVE Own(q)' /\ Swaps(q)' /\ Restores(q)' /\ Cleans(q)'
      BY <1>0, <2>0, <2>1, Frame DEF TypeOK, Own, Inside
    <2>2. Own(p)' /\ Swaps(p)' /\ Restores(p)' /\ Cleans(p)'
      BY <1>0, <2>0 DEF TypeOK, Own, Swaps, Restores, Cleans, Inside, NoBackups
    <2>3. Holder' /\ WholeIsPublished' /\ TwinIsOld'
      <3>1. dir'["twin"] \in {dir["twin"], NoFile}
        BY <1>0 DEF TypeOK, New, Outputs
      <3>2. TwinIsOld' BY <1>0, <3>1 DEF IInv, TypeOK, TwinIsOld
      <3> QED BY <1>0, <2>0, <3>2 DEF IInv, TypeOK, Own, Holder, WholeIsPublished, Inside
    <2>4. WholeIsPair'
      BY <1>0, SwapFailsKeepsPair DEF IInv, WholeIsPair, Disturbed
    <2>5. NothingLost'
      <3>1. \A x \in Outputs : x # o => dir'[x] = dir[x]
        BY <1>0 DEF TypeOK
      <3>2. \A x \in Outputs : whole[x] = dir[x] => Named(whole[x], x)'
        BY <1>0, <2>0, <3>1 DEF TypeOK, Swaps, Named
      <3> QED BY <3>2, KeepsNames DEF IInv, Named
    <2> QED BY <1>0, <2>1, <2>2, <2>3, <2>4, <2>5 DEF IInv
  <1>9. ASSUME NEW p \in Publishers, NEW o \in Outputs, Restore(p, o) PROVE IInv'
    <2> USE <1>9 DEF Restore, Restored, Latest, Goto, Ends
    <2>0. Own(p) /\ Swaps(p) /\ Restores(p) /\ Cleans(p) BY DEF IInv
    <2>1. ASSUME NEW q \in Publishers, q # p
        PROVE Own(q)' /\ Swaps(q)' /\ Restores(q)' /\ Cleans(q)'
      BY <1>0, <2>0, <2>1, Frame DEF TypeOK, Own, Inside
    <2>2. Own(p)' /\ Swaps(p)' /\ Restores(p)' /\ Cleans(p)'
      BY <1>0, <2>0 DEF TypeOK, Own, Swaps, Restores, Cleans, Inside, NoBackups
    <2>3. Holder' /\ WholeIsPublished' /\ TwinIsOld'
      BY <1>0, <2>0 DEF IInv, TypeOK, Own, Holder, WholeIsPublished, TwinIsOld, Outputs, NoBackups,
                        Inside
    <2>4. WholeIsPair'
      BY <1>0, RestoreKeepsPair DEF IInv, WholeIsPair, Disturbed
    <2>5. NothingLost'
      <3>1. dir'[o] = bak[p][o] /\ \A x \in Outputs : x # o => dir'[x] = dir[x]
        BY <1>0 DEF TypeOK
      <3>2. \A x \in Outputs, r \in Publishers : (x # o \/ r # p) => bak'[r][x] = bak[r][x]
        BY <1>0 DEF TypeOK
      <3>3. whole[o] # p BY <2>0 DEF IInv, Own, WholeIsPublished, Inside
      <3>4. whole[o] = dir[o] => Named(whole[o], o)'
        BY <2>0, <3>1, <3>3, NewFile DEF Restores, Named
      <3>5. \A x \in Outputs : whole[x] = dir[x] => Named(whole[x], x)'
        BY <3>1, <3>4 DEF Named
      <3>6. \A x \in Outputs, r \in Publishers : whole[x] = bak[r][x] => Named(whole[x], x)'
        BY <3>1, <3>2 DEF Named
      <3> QED BY <3>5, <3>6, KeepsNames DEF IInv
    <2> QED BY <1>0, <2>1, <2>2, <2>3, <2>4, <2>5 DEF IInv
  <1>10. ASSUME NEW p \in Publishers, NEW o \in Outputs, RestoreFails(p, o) PROVE IInv'
    <2> USE <1>10 DEF RestoreFails, Latest, Goto, Ends
    <2>0. Own(p) /\ Swaps(p) /\ Restores(p) /\ Cleans(p) BY DEF IInv
    <2>1. ASSUME NEW q \in Publishers, q # p
        PROVE Own(q)' /\ Swaps(q)' /\ Restores(q)' /\ Cleans(q)'
      BY <1>0, <2>0, <2>1, Frame DEF TypeOK, Own, Inside
    <2>2. Own(p)' /\ Swaps(p)' /\ Restores(p)' /\ Cleans(p)'
      BY <1>0, <2>0 DEF TypeOK, Own, Swaps, Restores, Cleans, Inside, NoBackups
    <2>3. Holder' /\ WholeIsPublished' /\ TwinIsOld'
      BY <1>0, <2>0 DEF IInv, TypeOK, Own, Holder, WholeIsPublished, TwinIsOld, Outputs, NoBackups,
                        Inside
    <2>4. WholeIsPair'
      BY <1>0, RestoreFailsKeepsPair DEF IInv, WholeIsPair, Disturbed
    <2>5. NothingLost' BY <1>0, <2>0 DEF IInv, TypeOK, Own, NothingLost
    <2> QED BY <1>0, <2>1, <2>2, <2>3, <2>4, <2>5 DEF IInv
  <1>11. ASSUME NEW p \in Publishers, RolledBack(p) PROVE IInv'
    <2> USE <1>11 DEF RolledBack, Preserves, Goto, Ends
    <2>0. Own(p) /\ Swaps(p) /\ Restores(p) /\ Cleans(p) BY DEF IInv
    <2>1. ASSUME NEW q \in Publishers, q # p
        PROVE Own(q)' /\ Swaps(q)' /\ Restores(q)' /\ Cleans(q)'
      BY <1>0, <2>0, <2>1, Frame DEF TypeOK, Own, Inside
    <2>2. Own(p)' /\ Swaps(p)' /\ Restores(p)' /\ Cleans(p)'
      <3>1. Own(p)' /\ Swaps(p)' /\ Restores(p)'
        <4>1. /\ pc[p] = "restore" /\ pc'[p] = "cleanup" /\ lock = p /\ lock' = lock
              /\ result'[p] = (IF unrestored[p] = {} THEN "restored" ELSE "unrestored")
              /\ preserve'[p] <=> unrestored[p] # {}
          BY <1>0, <2>0, ZenonT(60) DEF TypeOK, Own, Inside
        <4>2. Swaps(p)' /\ Restores(p)' BY <4>1 DEF Swaps, Restores
        <4> QED BY <4>1, <4>2 DEF Own, Inside
      <3>2. Cleans(p)'
        <4>1. result'[p] \in {"restored", "unrestored"}
          BY <1>0 DEF TypeOK
        <4>2. CASE unrestored[p] = {}
          BY <1>0, <2>0, <4>1, <4>2 DEF TypeOK, Restores, Cleans
        <4>3. CASE unrestored[p] # {} BY <1>0, <4>3 DEF TypeOK, Cleans
        <4> QED BY <4>2, <4>3
      <3> QED BY <3>1, <3>2
    <2>3. Holder' /\ WholeIsPublished' /\ TwinIsOld'
      BY <1>0, <2>0 DEF IInv, TypeOK, Own, Holder, WholeIsPublished, TwinIsOld, Outputs, NoBackups,
                        Inside
    <2>4. WholeIsPair'
      BY <1>0, <2>0, SMTT(60) DEF IInv, TypeOK, Own, WholeIsPair, Disturbed, Pair, Swapping, Inside
    <2>5. NothingLost'
      <3>1. \A r \in Publishers : result[r] = "interrupted" => result'[r] = "interrupted"
        BY <1>0, <2>0 DEF TypeOK, Own, Inside
      <3> QED BY <3>1, KeepsNames DEF IInv, Named
    <2> QED BY <1>0, <2>1, <2>2, <2>3, <2>4, <2>5 DEF IInv
  <1>12. ASSUME NEW p \in Publishers, RollbackInterrupted(p) PROVE IInv'
    <2> USE <1>12 DEF RollbackInterrupted, Goto, Ends
    <2>0. Own(p) /\ Swaps(p) /\ Restores(p) /\ Cleans(p) BY DEF IInv
    <2>1. ASSUME NEW q \in Publishers, q # p
        PROVE Own(q)' /\ Swaps(q)' /\ Restores(q)' /\ Cleans(q)'
      BY <1>0, <2>0, <2>1, Frame DEF TypeOK, Own, Inside
    <2>2. Own(p)' /\ Swaps(p)' /\ Restores(p)' /\ Cleans(p)'
      BY <1>0, <2>0 DEF TypeOK, Own, Swaps, Restores, Cleans, Inside, NoBackups
    <2>3. Holder' /\ WholeIsPublished' /\ TwinIsOld'
      BY <1>0, <2>0 DEF IInv, TypeOK, Own, Holder, WholeIsPublished, TwinIsOld, Outputs, NoBackups,
                        Inside
    <2>4. WholeIsPair'
      BY <1>0, <2>0 DEF IInv, TypeOK, Own, WholeIsPair, Disturbed, Pair, Swapping, Inside
    <2>5. NothingLost' BY <1>0, <2>0 DEF IInv, TypeOK, Own, NothingLost
    <2> QED BY <1>0, <2>1, <2>2, <2>3, <2>4, <2>5 DEF IInv
  <1>13. ASSUME NEW p \in Publishers, Cleanup(p) PROVE IInv'
    <2> USE <1>13 DEF Cleanup, Remaining, Goto, Ends
    <2>0. Own(p) /\ Swaps(p) /\ Restores(p) /\ Cleans(p) BY DEF IInv
    <2>1. ASSUME NEW q \in Publishers, q # p
        PROVE Own(q)' /\ Swaps(q)' /\ Restores(q)' /\ Cleans(q)'
      BY <1>0, <2>0, <2>1, Frame DEF TypeOK, Own, Inside
    <2>2. Own(p)' /\ Swaps(p)' /\ Restores(p)' /\ Cleans(p)'
      BY <1>0, <2>0 DEF TypeOK, Own, Swaps, Restores, Cleans, Inside, NoBackups
    <2>3. Holder' /\ WholeIsPublished' /\ TwinIsOld'
      BY <1>0, <2>0 DEF IInv, TypeOK, Own, Holder, WholeIsPublished, TwinIsOld, Outputs, NoBackups,
                        Inside
    <2>4. WholeIsPair'
      BY <1>0, <2>0 DEF IInv, TypeOK, Own, WholeIsPair, Disturbed, Pair, Swapping, Inside
    <2>5. NothingLost'
      <3>1. CASE preserve[p] \/ result[p] = "interrupted"
        BY <3>1 DEF IInv, NothingLost
      <3>2. CASE ~preserve[p] /\ result[p] # "interrupted"
        <4>1. result[p] \in {"published", "failed", "restored"}
          BY <1>0, <2>0, <3>2 DEF TypeOK, Own, Inside
        <4>2. \A o \in Outputs : whole[o] = bak[p][o] => Named(whole[o], o)'
          BY <1>0, <2>0, <4>1 DEF TypeOK, Cleans, Named
        <4>3. \A o \in Outputs, r \in Publishers : whole[o] = bak[r][o] => Named(whole[o], o)'
          BY <1>0, <3>2, <4>2 DEF TypeOK, Named
        <4> QED BY <4>3, KeepsNames DEF IInv, Named
      <3> QED BY <3>1, <3>2
    <2> QED BY <1>0, <2>1, <2>2, <2>3, <2>4, <2>5 DEF IInv
  <1>14. ASSUME NEW p \in Publishers, Unlock(p) PROVE IInv'
    <2> USE <1>14 DEF Unlock, Released, Goto, Ends
    <2>0. Own(p) /\ Swaps(p) /\ Restores(p) /\ Cleans(p) BY DEF IInv
    <2>1. ASSUME NEW q \in Publishers, q # p
        PROVE Own(q)' /\ Swaps(q)' /\ Restores(q)' /\ Cleans(q)'
      BY <1>0, <2>0, <2>1, Frame DEF TypeOK, Own, Inside
    <2>2. Own(p)' /\ Swaps(p)' /\ Restores(p)' /\ Cleans(p)'
      BY <1>0, <2>0 DEF TypeOK, Own, Swaps, Restores, Cleans, Inside, NoBackups
    <2>3. Holder' /\ WholeIsPublished' /\ TwinIsOld'
      BY <1>0, <2>0 DEF IInv, TypeOK, Own, Holder, WholeIsPublished, TwinIsOld, Outputs, NoBackups,
                        Inside
    <2>4. WholeIsPair'
      BY <1>0, <2>0 DEF IInv, TypeOK, Own, WholeIsPair, Disturbed, Pair, Swapping, Inside
    <2>5. NothingLost' BY <1>0, <2>0 DEF IInv, TypeOK, Own, NothingLost
    <2> QED BY <1>0, <2>1, <2>2, <2>3, <2>4, <2>5 DEF IInv
  <1>15. ASSUME NEW p \in Publishers, Crash(p) PROVE IInv'
    <2> USE <1>15 DEF Crash, Released, Goto, Ends
    <2>0. Own(p) /\ Swaps(p) /\ Restores(p) /\ Cleans(p) BY DEF IInv
    <2>1. ASSUME NEW q \in Publishers, q # p
        PROVE Own(q)' /\ Swaps(q)' /\ Restores(q)' /\ Cleans(q)'
      BY <1>0, <2>0, <2>1, Frame DEF TypeOK, Own, Inside
    <2>2. Own(p)' /\ Swaps(p)' /\ Restores(p)' /\ Cleans(p)'
      BY <1>0, <2>0 DEF TypeOK, Own, Swaps, Restores, Cleans, Inside, NoBackups
    <2>3. Holder' /\ WholeIsPublished' /\ TwinIsOld'
      BY <1>0, <2>0 DEF IInv, TypeOK, Own, Holder, WholeIsPublished, TwinIsOld, Outputs, NoBackups,
                        Inside
    <2>4. WholeIsPair'
      BY <1>0, <2>0 DEF IInv, TypeOK, Own, WholeIsPair, Disturbed, Pair, Swapping, Inside
    <2>5. NothingLost' BY <1>0, <2>0 DEF IInv, TypeOK, Own, NothingLost
    <2> QED BY <1>0, <2>1, <2>2, <2>3, <2>4, <2>5 DEF IInv
  <1>16. CASE UNCHANGED vars
    <2>1. UNCHANGED Pair BY <1>16 DEF vars, Pair, Swapping
    <2>2. \A q \in Publishers : Own(q)' /\ Swaps(q)' /\ Restores(q)' /\ Cleans(q)'
      BY <1>16, Frame DEF vars
    <2> QED
      BY <1>0, <1>16, <2>1, <2>2
      DEF IInv, vars, Holder, WholeIsPublished, TwinIsOld, WholeIsPair, Disturbed, NothingLost
  <1> QED
    BY <1>1, <1>2, <1>3, <1>4, <1>5, <1>6, <1>7, <1>8, <1>9, <1>10, <1>11, <1>12, <1>13, <1>14,
       <1>15, <1>16 DEF Next, Publisher
LEMMA Invariance == Spec => []IInv
  <1>1. IInv /\ UNCHANGED vars => IInv' BY NextIInv
  <1> QED BY InitIInv, NextIInv, <1>1, PTL DEF Spec

\* Every variable of _publish_pair keeps its shape.
THEOREM TypeCorrect == Spec => []TypeOK
  <1>1. IInv => TypeOK BY DEF IInv
  <1> QED BY <1>1, Invariance, PTL

\* Between publications the directory holds exactly the last complete one, whatever
\* ordinary failures the publishers met: no pair mixes two of them.
THEOREM PairsStayWhole == Spec => []WholeWhenUnlocked
  <1>1. IInv => WholeWhenUnlocked
    <2> SUFFICES ASSUME IInv, lock = Nobody, ~Disturbed PROVE dir = whole
      BY DEF WholeWhenUnlocked
    <2>1. Pair = [o \in Outputs |-> dir[o]]
      BY PublishersAssumption DEF Pair, Swapping
    <2> QED BY <2>1 DEF IInv, TypeOK, WholeIsPair
  <1> QED BY <1>1, Invariance, PTL

\* Whoever dies, and wherever, the last complete publication can be put together
\* again from the output names and the backup links.
THEOREM CrashSafe == Spec => []NothingLost
  <1>1. IInv => NothingLost BY DEF IInv
  <1> QED BY <1>1, Invariance, PTL

\* A publisher that returns has removed its staging files and its backups.
THEOREM LeavesNoDebris == Spec => []NoDebris
  <1>1. IInv => NoDebris BY DEF IInv, Own, NoDebris
  <1> QED BY <1>1, Invariance, PTL
LEMMA AtomicStep == IInv /\ [Next]_vars => [Atomic!Next]_<<Pair, Outcome>>
  <1> SUFFICES ASSUME IInv, [Next]_vars PROVE [Atomic!Next]_<<Pair, Outcome>>
    OBVIOUS
  <1> USE PublishersAssumption
  <1>0. TypeOK /\ TypeOK' BY TypeStep DEF IInv
  \* Steps that decide nothing.
  <1>1. ASSUME NEW p \in Publishers,
               StageSidecar(p) \/ Lock(p) \/ Prepare(p) \/ Cleanup(p) \/ Unlock(p)
        PROVE  UNCHANGED <<Pair, Outcome>>
    <2>1. Own(p) BY DEF IInv
    <2>2. pc[p] \notin {"swap", "restore"} /\ UNCHANGED <<dir, changed, unrestored, result>>
      BY <1>1 DEF StageSidecar, Lock, Prepare, Cleanup, Remaining, Unlock, Released, Goto
    <2>3. pc'[p] \in {"swap", "restore"} => changed[p] = {} /\ unrestored[p] = {}
      BY <1>0, <1>1, <2>1 DEF StageSidecar, Lock, Prepare, Cleanup, Remaining, Unlock, Released,
                              Goto, TypeOK, Own
    <2>4. \A q \in Publishers \ {p} : pc'[q] = pc[q] /\ bak'[q] = bak[q]
                                     /\ (lock' = q <=> lock = q)
      BY <1>0, <1>1 DEF StageSidecar, Lock, Prepare, Cleanup, Remaining, Unlock, Released, Goto,
                        TypeOK
    <2> QED BY <2>2, <2>3, <2>4, OutsideKeepsPair DEF Outcome
  <1>2. ASSUME NEW p \in Publishers, NEW o \in Outputs,
               SwapFails(p, o) \/ Restore(p, o) \/ RestoreFails(p, o)
        PROVE  UNCHANGED <<Pair, Outcome>>
    <2>1. UNCHANGED Pair
      BY <1>0, <1>2, SwapFailsKeepsPair, RestoreKeepsPair, RestoreFailsKeepsPair
    <2>2. UNCHANGED result
      BY <1>2 DEF SwapFails, Restore, Restored, RestoreFails
    <2> QED BY <2>1, <2>2 DEF Outcome
  \* A publication ends: how its outcome appears to the caller.
  <1>3. ASSUME NEW p \in Publishers, NEW how, result[p] = "none", Ends(p, how)
        PROVE  /\ Outcome[p] = "none"
               /\ how = "published" => Outcome' = [Outcome EXCEPT ![p] = "published"]
               /\ how \in {"failed", "restored"} => Outcome' = [Outcome EXCEPT ![p] = "failed"]
               /\ how \in {"unrestored", "interrupted", "torn"} =>
                    Outcome' = [Outcome EXCEPT ![p] = "torn"]
    <2>1. \A q \in Publishers : result'[q] = IF q = p THEN how ELSE result[q]
      BY <1>0, <1>3 DEF Ends, TypeOK
    <2>2. Outcome[p] = "none" BY <1>3 DEF Outcome
    <2>3. CASE how = "published" BY <2>1, <2>2, <2>3 DEF Outcome
    <2>4. CASE how \in {"failed", "restored"}
      BY <2>1, <2>2, <2>4 DEF Outcome
    <2>5. CASE how \in {"unrestored", "interrupted", "torn"}
      BY <2>1, <2>2, <2>5 DEF Outcome
    <2> QED BY <2>2, <2>3, <2>4, <2>5
  \* Before the first swap nothing visible has happened.
  <1>4. ASSUME NEW p \in Publishers,
               \/ StageFails(p) \/ LockFails(p) \/ PrepareFails(p)
               \/ Crash(p) /\ pc[p] \in {"stage", "lock", "prepare"}
        PROVE  Atomic!Fail(p)
    <2>1. Own(p) BY DEF IInv
    <2>2. result[p] = "none" /\ Ends(p, "failed")
      BY <1>0, <1>4, <2>1 DEF StageFails, LockFails, PrepareFails, Crash, Released, Goto, Own,
                              Inside
    <2>3. pc[p] \notin {"swap", "restore"} /\ UNCHANGED <<dir, changed, unrestored>>
      BY <1>4 DEF StageFails, LockFails, PrepareFails, Crash, Released, Goto
    <2>4. pc'[p] \notin {"swap", "restore"}
      BY <1>0, <1>4 DEF StageFails, LockFails, PrepareFails, Crash, Released, Goto, TypeOK
    <2>5. \A q \in Publishers \ {p} : pc'[q] = pc[q] /\ bak'[q] = bak[q]
                                     /\ (lock' = q <=> lock = q)
      BY <1>0, <1>4 DEF StageFails, LockFails, PrepareFails, Crash, Released, Goto, TypeOK
    <2>6. Pair' = Pair BY <2>3, <2>4, <2>5, OutsideKeepsPair
    <2> QED BY <1>3, <2>2, <2>6 DEF Atomic!Fail
  \* The last swap is the publication.
  <1>5. ASSUME NEW p \in Publishers, NEW o \in Outputs, Swap(p, o)
        PROVE  Atomic!Publish(p) \/ UNCHANGED <<Pair, Outcome>>
    <2>1. Own(p) /\ Swaps(p) /\ lock = p /\ lock' = p
      BY <1>5 DEF IInv, Own, Inside, Swap
    <2>2. CASE changed'[p] # Outs(p)
      <3>1. UNCHANGED result BY <1>5, <2>2 DEF Swap
      <3> QED BY <1>0, <1>5, <2>2, <3>1, SwapKeepsPair DEF Outcome
    <2>3. CASE changed'[p] = Outs(p)
      <3>1. result[p] = "none" /\ Ends(p, "published") /\ pc'[p] = "cleanup"
        BY <1>0, <1>5, <2>1, <2>3 DEF Swap, Own, Inside, TypeOK
      <3>2. ASSUME NEW x \in Outputs
            PROVE  dir'[x] = IF x \in Outs(p) THEN New(p, x) ELSE Pair[x]
        BY <1>0, <1>5, <2>1, <2>3 DEF Swap, Turn, Replace, TypeOK, Swaps, Pair, Swapping
      <3>3. Pair' = [x \in Outputs |-> dir'[x]]
        BY <2>1, <3>1 DEF Pair, Swapping
      <3>4. Pair' = [x \in Atomic!Outputs |->
                       IF x \in Atomic!Outs(p) THEN Atomic!New(p, x) ELSE Pair[x]]
        BY <3>2, <3>3 DEF Outs, New, Outputs, Atomic!Outputs, Atomic!Outs, Atomic!New
      <3> QED BY <1>3, <3>1, <3>4 DEF Atomic!Publish
    <2> QED BY <2>2, <2>3
  \* Giving up half-way exposes whatever the output names hold.
  <1>6. ASSUME NEW p \in Publishers, pc[p] \in {"swap", "restore"}, result[p] = "none",
               NEW how \in {"unrestored", "interrupted", "torn"}, Ends(p, how),
               UNCHANGED dir, pc'[p] \notin {"swap", "restore"}, lock' \in {p, Nobody}
        PROVE  Atomic!Tear(p)
    <2>1. lock = p /\ Swaps(p) /\ Restores(p)
      BY <1>6 DEF IInv, Own, Inside
    <2>2. Pair' = [x \in Outputs |-> dir[x]] BY <1>6 DEF Pair, Swapping
    <2>3. ASSUME NEW x \in Outputs
          PROVE  dir[x] = Pair[x] \/ (x \in Outs(p) /\ dir[x] = New(p, x))
      <3>1. CASE x \in changed[p] \cup unrestored[p]
        <4>1. Pair[x] = bak[p][x] /\ x \in Outs(p)
          BY <1>6, <2>1, <3>1 DEF Pair, Swapping, Swaps, Restores
        <4>2. dir[x] \in {bak[p][x], New(p, x)}
          BY <1>6, <2>1, <3>1 DEF Swaps, Restores
        <4> QED BY <4>1, <4>2
      <3>2. CASE x \notin changed[p] \cup unrestored[p]
        BY <2>1, <3>2 DEF Pair
      <3> QED BY <3>1, <3>2
    <2>4. Pair' \in [Atomic!Outputs -> Atomic!Files]
      BY <1>0, <2>2 DEF TypeOK, Files, Outputs, Atomic!Files, Atomic!Outputs
    <2>5. \A x \in Atomic!Outputs :
             Pair'[x] = Pair[x] \/ (x \in Atomic!Outs(p) /\ Pair'[x] = Atomic!New(p, x))
      BY <2>2, <2>3 DEF Outs, New, Outputs, Atomic!Outputs, Atomic!Outs, Atomic!New
    <2> QED BY <1>3, <1>6, <2>4, <2>5 DEF Atomic!Tear
  <1>7. ASSUME NEW p \in Publishers, RolledBack(p)
        PROVE  Atomic!Fail(p) \/ Atomic!Tear(p)
    <2>1. Own(p) /\ Restores(p) /\ result[p] = "none" /\ lock = p /\ lock' = p
      BY <1>7 DEF IInv, Own, Inside, RolledBack, Preserves, Goto
    <2>2. pc[p] = "restore" /\ pc'[p] = "cleanup" /\ UNCHANGED dir
      BY <1>0, <1>7 DEF RolledBack, Preserves, Goto, TypeOK
    <2>3. CASE unrestored[p] = {}
      <3>1. Ends(p, "restored") /\ changed[p] = {}
        BY <1>7, <2>3 DEF RolledBack, Preserves
      <3>2. Pair' = Pair BY <2>1, <2>2, <2>3, <3>1 DEF Pair, Swapping
      <3> QED BY <1>3, <2>1, <3>1, <3>2 DEF Atomic!Fail
    <2>4. CASE unrestored[p] # {}
      <3>1. Ends(p, "unrestored")
        BY <1>7, <2>4 DEF RolledBack, Preserves
      <3> QED BY <1>6, <2>1, <2>2, <3>1
    <2> QED BY <2>3, <2>4
  <1>8. ASSUME NEW p \in Publishers, RollbackInterrupted(p) PROVE Atomic!Tear(p)
    <2>1. result[p] = "none" /\ lock' = p
      BY <1>8 DEF IInv, Own, Inside, RollbackInterrupted, Goto
    <2>2. pc'[p] = "cleanup"
      BY <1>0, <1>8 DEF RollbackInterrupted, Goto, TypeOK
    <2> QED BY <1>6, <1>8, <2>1, <2>2 DEF RollbackInterrupted, Goto
  <1>9. ASSUME NEW p \in Publishers, Crash(p), pc[p] \in {"swap", "restore"}
        PROVE  Atomic!Tear(p)
    <2>1. result[p] = "none" /\ lock' = Nobody
      BY <1>9 DEF IInv, Own, Inside, Crash, Released
    <2>2. pc'[p] = "crashed" BY <1>0, <1>9 DEF Crash, Released, TypeOK
    <2> QED BY <1>6, <1>9, <2>1, <2>2 DEF Crash, Released
  <1>10. ASSUME NEW p \in Publishers, Crash(p), pc[p] \in {"cleanup", "unlock"}
         PROVE  UNCHANGED <<Pair, Outcome>>
    <2>1. result[p] # "none" BY <1>10 DEF IInv, Own, Inside
    <2>2. result' = result
      BY <1>0, <1>10, <2>1 DEF Crash, Released, Ends, TypeOK
    <2>3. UNCHANGED <<dir, changed, unrestored>> /\ pc'[p] = "crashed"
      BY <1>0, <1>10 DEF Crash, Released, TypeOK
    <2>4. \A q \in Publishers \ {p} : pc'[q] = pc[q] /\ bak'[q] = bak[q]
                                     /\ (lock' = q <=> lock = q)
      BY <1>0, <1>10 DEF Crash, Released, TypeOK
    <2> QED BY <1>10, <2>2, <2>3, <2>4, OutsideKeepsPair DEF Outcome
  <1>11. ASSUME NEW p \in Publishers, Crash(p)
         PROVE  pc[p] \in {"stage", "lock", "prepare", "swap", "restore", "cleanup", "unlock"}
    BY <1>0, <1>11 DEF Crash, Released, TypeOK
  <1>12. CASE UNCHANGED vars BY <1>12 DEF vars, Pair, Swapping, Outcome
  <1> QED
    BY <1>1, <1>2, <1>4, <1>5, <1>7, <1>8, <1>9, <1>10, <1>11, <1>12
    DEF Next, Publisher, Atomic!Next

\* _publish_pair implements the atomic publication: each publisher's swaps take
\* effect at once or not at all, and only a process that dies among them or whose
\* rollback does not complete leaves a mixture of the old files and its own.
THEOREM PublishesAtomically == Spec => AtomicSpec
  <1>1. Init => Atomic!Init
    <2> SUFFICES ASSUME Init PROVE Atomic!Init
      OBVIOUS
    <2>1. Pair = dir
      BY PublishersAssumption DEF Init, Found, Pair, Swapping
    <2> QED BY <2>1 DEF Init, Found, Outputs, Outcome, Atomic!Init, Atomic!Found, Atomic!Outputs
  <1> QED BY <1>1, Invariance, AtomicStep, PTL DEF Spec, AtomicSpec, Atomic!Spec

------------------------------
(***************************************************************************)
(* The reader that takes no lock.  While nothing is rolled back, a file    *)
(* that is no longer at its name never comes back to it: a publisher puts  *)
(* its own file there once.                                                *)
(***************************************************************************)

Once(o) == \A q \in Publishers : dir[o] = q => o \in changed[q]

\* The identity the reader took is of a file that has been put in place, so it
\* is of no use to it once the name refers to another.
Spent(f, o) == f \in Publishers => o \in changed[f]

ReadInv ==
    /\ rpc \in {"graph_id", "sidecar_id", "exists", "text", "bytes", "graph_again",
                "sidecar_again", "accepted", "rejected"}
    /\ seen \in [{"graph", "sidecar"} -> Files]
    /\ input \in [{"graph", "sidecar"} -> Files]

StillIdentified ==
    /\ \A o \in {"graph", "sidecar"} : Once(o) /\ Spent(seen[o], o)
    /\ rpc = "graph_again" => input.graph = seen.graph \/ dir["graph"] # seen.graph
    /\ rpc \in {"sidecar_again", "accepted"} => input.graph = seen.graph
    /\ rpc \in {"bytes", "graph_again", "sidecar_again"} =>
          seen.sidecar = NoFile \/ input.sidecar = seen.sidecar \/ dir["sidecar"] # seen.sidecar
    /\ rpc = "accepted" => seen.sidecar \in {NoFile, input.sidecar}

\* Once something is rolled back it stays said, and before that a step changes a
\* name only to a file that its publisher puts in place for the first time.
LEMMA PutInPlaceOnce ==
  ASSUME IInv, [Next]_vars, ~RolledBackOnce'
  PROVE  /\ ~RolledBackOnce
         /\ \A q \in Publishers : changed[q] \subseteq changed'[q]
         /\ \A o \in Outputs :
              \/ dir'[o] = dir[o]
              \/ \E p \in Publishers :
                    o \notin changed[p] /\ o \in changed'[p] /\ dir'[o] = New(p, o)
  <1>0. /\ pc \in [Publishers -> {"stage", "lock", "prepare", "swap", "restore",
                                  "cleanup", "unlock", "done", "crashed"}]
        /\ result \in [Publishers -> {"none", "published", "failed", "restored",
                                      "unrestored", "interrupted", "torn"}]
        /\ changed \in [Publishers -> SUBSET Outputs]
        /\ dir \in [Outputs -> Files]
    BY DEF IInv, TypeOK
  <1>1. \A q \in Publishers : result[q] = "none" <=> pc[q] \in {"stage", "lock"} \cup Inside
    BY DEF IInv, Own
  <1>2. ASSUME NEW p \in Publishers, Publisher(p) \/ Crash(p)
        PROVE  /\ pc[p] # "restore"
                  /\ result[p] \notin {"restored", "unrestored", "interrupted", "torn"}
               /\ \A q \in Publishers : changed[q] \subseteq changed'[q]
               /\ \A o \in Outputs :
                    \/ dir'[o] = dir[o]
                    \/ o \notin changed[p] /\ o \in changed'[p] /\ dir'[o] = New(p, o)
    <2>1. pc'[p] # "restore" /\ result'[p] \notin {"restored", "unrestored", "interrupted", "torn"}
      BY DEF RolledBackOnce
    <2> USE DEF Goto, Ends
    <2>2. CASE StageSidecar(p) \/ StageFails(p) \/ Lock(p) \/ LockFails(p)
      BY <1>0, <1>1, <2>2 DEF StageSidecar, StageFails, Lock, LockFails
    <2>3. CASE Prepare(p) \/ PrepareFails(p)
      BY <1>0, <1>1, <2>3 DEF Prepare, PrepareFails, Inside
    <2>4. CASE \E o \in Outputs : Swap(p, o)
      <3>1. PICK o \in Outputs : Swap(p, o) BY <2>4
      <3>2. pc[p] = "swap" /\ o \notin changed[p] BY <3>1 DEF Swap, Turn
      <3>3. /\ changed' = [changed EXCEPT ![p] = @ \cup {o}]
            /\ dir' = [dir EXCEPT ![o] = New(p, o)]
        BY <3>1 DEF Swap, Replace
      <3> QED BY <1>0, <1>1, <3>2, <3>3 DEF Inside
    <2>5. CASE \E o \in Outputs : SwapFails(p, o)
      BY <1>0, <2>1, <2>5 DEF SwapFails
    <2>6. CASE \E o \in Outputs : Restore(p, o) \/ RestoreFails(p, o)
      BY <1>0, <2>1, <2>6 DEF Restore, RestoreFails
    <2>7. CASE RolledBack(p) \/ RollbackInterrupted(p)
      BY <1>0, <2>1, <2>7 DEF RolledBack, RollbackInterrupted
    <2>8. CASE Cleanup(p) \/ Unlock(p)
      BY <1>0, <2>1, <2>8 DEF Cleanup, Unlock
    <2>9. CASE Crash(p) BY <1>0, <1>1, <2>1, <2>9 DEF Crash, Inside
    <2> QED BY <1>2, <2>2, <2>3, <2>4, <2>5, <2>6, <2>7, <2>8, <2>9 DEF Publisher
  <1>3. ASSUME NEW p \in Publishers, Publisher(p) \/ Crash(p)
        PROVE  \A q \in Publishers : q # p => pc'[q] = pc[q] /\ result'[q] = result[q]
    BY <1>0, <1>3 DEF Publisher, Crash, Goto, Ends, StageSidecar, StageFails, Lock, LockFails,
          Prepare, PrepareFails, Swap, SwapFails, Restore, RestoreFails, RolledBack,
          RollbackInterrupted, Cleanup, Unlock
  <1>4. CASE Next
    <2>1. PICK p \in Publishers : Publisher(p) \/ Crash(p)
      BY <1>4 DEF Next
    <2>2. ~RolledBackOnce BY <1>2, <1>3, <2>1 DEF RolledBackOnce
    <2> QED BY <1>2, <2>1, <2>2
  <1>5. CASE UNCHANGED vars BY <1>5 DEF vars, RolledBackOnce
  <1> QED BY <1>4, <1>5

LEMMA ReadInvariance == ReadSpec => [](IInv /\ ReadInv /\ (RolledBackOnce \/ StillIdentified))
  <1>1. ReadInit => IInv /\ ReadInv /\ StillIdentified
    <2>1. ReadInit => IInv BY InitIInv DEF ReadInit
    <2>2. ReadInit => ReadInv BY DEF ReadInit, ReadInv, Files
    <2>3. ReadInit => StillIdentified
      BY PublishersAssumption
         DEF ReadInit, StillIdentified, Once, Spent, Init, Found, Outputs
    <2> QED BY <2>1, <2>2, <2>3
  <1>2. IInv /\ [ReadNext]_allVars => IInv'
    BY NextIInv DEF ReadNext, allVars, vars
  <1>3. IInv /\ ReadInv /\ [ReadNext]_allVars => ReadInv'
    <2> SUFFICES ASSUME IInv, ReadInv, [ReadNext]_allVars PROVE ReadInv'
      OBVIOUS
    <2>1. dir["graph"] \in Files /\ dir["sidecar"] \in Files
      BY DEF IInv, TypeOK, Outputs
    <2>2. CASE Reader
      BY <2>1, <2>2 DEF ReadInv, Reader, Reads, IdentifyGraph, IdentifySidecar, SidecarExists,
            ReadSidecar, ReadGraph, RecheckGraph, RecheckSidecar
    <2>3. CASE UNCHANGED readVars BY <2>3 DEF ReadInv, readVars, Files
    <2> QED BY <2>2, <2>3 DEF ReadNext, allVars
  <1>4. IInv /\ ReadInv /\ (RolledBackOnce \/ StillIdentified) /\ [ReadNext]_allVars
          => (RolledBackOnce \/ StillIdentified)'
    <2> SUFFICES ASSUME IInv, ReadInv, RolledBackOnce \/ StillIdentified, [ReadNext]_allVars,
                        ~RolledBackOnce'
                 PROVE  StillIdentified'
      OBVIOUS
    <2>a. seen \in [{"graph", "sidecar"} -> Files] /\ input \in [{"graph", "sidecar"} -> Files]
      BY DEF ReadInv
    <2>1. CASE [Next]_vars /\ UNCHANGED readVars
      <3>1. /\ StillIdentified
            /\ \A q \in Publishers : changed[q] \subseteq changed'[q]
            /\ \A o \in Outputs :
                 \/ dir'[o] = dir[o]
                 \/ \E p \in Publishers :
                       o \notin changed[p] /\ o \in changed'[p] /\ dir'[o] = New(p, o)
        BY <2>1, PutInPlaceOnce
      <3>2. rpc' = rpc /\ seen' = seen /\ input' = input
        BY <2>1 DEF readVars
      <3>3. ASSUME NEW o \in {"graph", "sidecar"}
            PROVE  /\ Once(o)' /\ Spent(seen[o], o)'
                   /\ dir[o] # seen[o] => dir'[o] # seen[o] \/ (o = "sidecar" /\ seen[o] = NoFile)
        <4>1. Once(o) /\ Spent(seen[o], o) BY <3>1 DEF StillIdentified
        <4>2. Spent(seen[o], o)' BY <3>1, <3>2, <4>1 DEF Spent
        <4>3. CASE dir'[o] = dir[o] BY <3>1, <4>1, <4>2, <4>3 DEF Once
        <4>4. ASSUME NEW p \in Publishers, o \notin changed[p], o \in changed'[p],
                     dir'[o] = New(p, o)
              PROVE  Once(o)' /\ (dir'[o] = seen[o] => o = "sidecar" /\ seen[o] = NoFile)
          BY <4>1, <4>4, PublishersAssumption DEF Once, Spent, New
        <4> QED BY <3>1, <4>2, <4>3, <4>4 DEF Outputs
      <3> QED BY <3>1, <3>2, <3>3 DEF StillIdentified
    <2>2. CASE Reader /\ UNCHANGED vars
      <3>1. StillIdentified /\ dir' = dir /\ changed' = changed
        BY <2>2 DEF vars, RolledBackOnce
      <3>2. \A o \in {"graph", "sidecar"} : Once(o) /\ Spent(seen[o], o) /\ Spent(dir[o], o)
        BY <3>1 DEF StillIdentified, Once, Spent
      <3>3. \A o \in {"graph", "sidecar"} : Once(o)' /\ Spent(seen[o], o)'
        <4>1. seen'["graph"] \in {seen["graph"], dir["graph"]}
              /\ seen'["sidecar"] \in {seen["sidecar"], dir["sidecar"]}
          BY <2>a, <2>2 DEF Reader, IdentifyGraph, IdentifySidecar, SidecarExists,
                ReadSidecar, ReadGraph, RecheckGraph, RecheckSidecar
        <4> QED BY <3>1, <3>2, <4>1 DEF Once, Spent
      <3>4. CASE IdentifyGraph \/ IdentifySidecar
        BY <3>3, <3>4 DEF StillIdentified, IdentifyGraph, IdentifySidecar, Reads
      <3>5. CASE SidecarExists
        BY <3>1, <3>3, <3>5 DEF StillIdentified, SidecarExists, Reads
      <3>6. CASE ReadSidecar
        BY <2>a, <3>1, <3>3, <3>6 DEF StillIdentified, ReadSidecar, Reads
      <3>7. CASE ReadGraph
        BY <2>a, <3>1, <3>3, <3>7 DEF StillIdentified, ReadGraph, Reads
      <3>8. CASE RecheckGraph
        BY <3>1, <3>3, <3>8 DEF StillIdentified, RecheckGraph, Reads
      <3>9. CASE RecheckSidecar
        BY <3>1, <3>3, <3>9 DEF StillIdentified, RecheckSidecar, Reads
      <3> QED BY <2>2, <3>4, <3>5, <3>6, <3>7, <3>8, <3>9 DEF Reader
    <2> QED BY <2>1, <2>2 DEF ReadNext, allVars
  <1> QED BY <1>1, <1>2, <1>3, <1>4, PTL DEF ReadSpec

\* While nothing has been rolled back, the two comparisons of _load_onnx_artifact
\* are enough, whatever the publishers do meanwhile: what it accepts is the graph,
\* and the sidecar if there was one, that it identified before it read them.
THEOREM AcceptsWhatItIdentified == ReadSpec => []AcceptedIsIdentified
  <1>1. RolledBackOnce \/ StillIdentified => AcceptedIsIdentified
    BY DEF StillIdentified, AcceptedIsIdentified
  <1> QED BY <1>1, ReadInvariance, PTL
=============================================================================
