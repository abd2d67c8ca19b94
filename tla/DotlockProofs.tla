---------------------------- MODULE DotlockProofs ----------------------------
(***************************************************************************)
(* Proofs about module Dotlock, for any number of processes and nodes, with *)
(* and without hard links, and for any bounds; and about module            *)
(* DotlockWait, whose timeout is kept for every timeout, every set of      *)
(* owners and every pid.                                                   *)
(***************************************************************************)
EXTENDS Dotlock, DotlockWait, TLAPS

\* The seconds a prover gets for a leaf.
USE SMTT(30), ZenonT(30)

\* One step of process p.
Step(p) ==
  \/ Start(p) \/ Create(p) \/ Destroy(p) \/ DestroyLock(p)
  \/ DestroyTemplate(p) \/ Exit(p) \/ Crash(p)
  \/ Take(p) \/ TakeStep(p)
  \/ StatFails(p) \/ OpenExclFails(p) \/ WriteFails(p) \/ GiveUp(p)
  \/ Release(p) \/ ReleaseUnlink(p)

\* A file is the pair of its process slot and its serial number.
LEMMA InodePair ==
  ASSUME NEW i \in Inodes
  PROVE  i = <<i[1], i[2]>> /\ i[1] \in Procs /\ i[2] \in 1..MaxInodes /\ i # NoIno
  BY DotlockAssumption DEF Inodes

\* Two handles never have the same file.
LEMMA OwnInjective ==
  ASSUME NEW p \in Procs, NEW q \in Procs, Own(p) = Own(q)
  PROVE  p = q
  BY DEF Own

\* The file of a handle that has one is a file.
LEMMA OwnIsInode ==
  ASSUME NEW p \in Procs, TypeOK, serial[p] # 0
  PROVE  Own(p) \in Inodes
  BY DotlockAssumption DEF Own, Inodes, TypeOK

\* The file system does not change.
LEMMA MethodStays ==
  ASSUME NEW p \in Procs, Step(p)
  PROVE  hardlinks' = hardlinks
  <1>1. CASE Crash(p) \/ StatFails(p) \/ Fstat(p)
    BY <1>1 DEF Crash, StatFails, Fstat
  <1>2. CASE \/ Start(p) \/ Create(p) \/ Destroy(p) \/ DestroyLock(p)
             \/ DestroyTemplate(p) \/ Exit(p) \/ Take(p) \/ GiveUp(p)
    BY <1>2 DEF Start, Create, Destroy, DestroyLock, DestroyTemplate, Exit,
                Take, GiveUp
  <1>3. CASE Link(p) \/ Stat(p) \/ OpenExcl(p) \/ WritePid(p) \/ WriteNode(p)
    BY <1>3 DEF Link, Stat, OpenExcl, WritePid, WriteNode
  <1>4. CASE ReadLockfile(p) \/ Examine(p) \/ UnlinkStale(p) \/ Wait(p)
    BY <1>4 DEF ReadLockfile, Examine, UnlinkStale, Wait
  <1>5. CASE \/ OpenExclFails(p) \/ WriteFails(p)
             \/ Release(p) \/ ReleaseUnlink(p)
    BY <1>5, ZenonT(30) DEF OpenExclFails, WriteFails, Release, ReleaseUnlink
  <1>6. QED
    BY <1>1, <1>2, <1>3, <1>4, <1>5 DEF Step, TakeStep

\* Types and the fit of labels and files to the locking method are preserved.
LEMMA TypeStep ==
  ASSUME TypeOK, MethodInv, NEW p \in Procs, Step(p)
  PROVE  TypeOK' /\ MethodInv'
  <1> USE DotlockAssumption
      DEF TypeOK, MethodInv, PCs, Taking, Goto, Own, HasHandle, HasLockfile,
          Locked, Inodes, Alive
  <1>1. CASE Start(p)
    BY <1>1 DEF Start
  <1>2. CASE Create(p)
    <2>1. CASE hardlinks
      <3>1. Own(p)' \in Inodes
        BY <1>2, <2>1 DEF Create
      <3>2. TypeOK'
        BY <1>2, <2>1, <3>1 DEF Create
      <3>3. MethodInv'
        BY <1>2, <2>1 DEF Create
      <3>4. QED
        BY <3>2, <3>3
    <2>2. CASE ~hardlinks
      BY <1>2, <2>2 DEF Create
    <2>3. QED
      BY <2>1, <2>2
  <1>3. CASE Destroy(p)
    BY <1>3 DEF Destroy
  <1>4. CASE DestroyLock(p)
    BY <1>4 DEF DestroyLock
  <1>5. CASE DestroyTemplate(p)
    BY <1>5 DEF DestroyTemplate
  <1>6. CASE Exit(p)
    BY <1>6 DEF Exit
  <1>7. CASE Crash(p)
    BY <1>7 DEF Crash, Close
  <1>8. CASE Take(p)
    BY <1>8 DEF Take
  <1>9. CASE Link(p)
    BY <1>9 DEF Link
  <1>10. CASE Stat(p)
    BY <1>10 DEF Stat, NLink
  <1>11. CASE OpenExcl(p)
    BY <1>11 DEF OpenExcl
  <1>12. CASE WritePid(p)
    BY <1>12 DEF WritePid
  <1>13. CASE WriteNode(p)
    BY <1>13 DEF WriteNode
  <1>14. CASE ReadLockfile(p)
    BY <1>14 DEF ReadLockfile
  <1>15. CASE Examine(p)
    BY <1>15 DEF Examine, Close, Stale
  <1>16. CASE Fstat(p)
    <2>1. overlap' \in BOOLEAN
      BY <1>16, Zenon DEF Fstat
    <2>2. QED
      BY <1>16, <2>1 DEF Fstat, Close
  <1>17. CASE UnlinkStale(p)
    BY <1>17 DEF UnlinkStale, Close
  <1>18. CASE Wait(p)
    BY <1>18 DEF Wait
  <1>19. CASE StatFails(p)
    BY <1>19 DEF StatFails
  <1>20. CASE OpenExclFails(p)
    BY <1>20 DEF OpenExclFails
  <1>21. CASE WriteFails(p)
    BY <1>21 DEF WriteFails
  <1>22. CASE GiveUp(p)
    BY <1>22 DEF GiveUp
  <1>23. CASE Release(p)
    BY <1>23 DEF Release
  <1>24. CASE ReleaseUnlink(p)
    BY <1>24, ZenonT(30) DEF ReleaseUnlink
  <1>25. QED
    BY <1>1, <1>2, <1>3, <1>4, <1>5, <1>6, <1>7, <1>8, <1>9, <1>10, <1>11, <1>12,
       <1>13, <1>14, <1>15, <1>16, <1>17, <1>18, <1>19, <1>20, <1>21, <1>22,
       <1>23, <1>24, ZenonT(30) DEF Step, TakeStep

\* A step that is no fault preserves the clean invariant.
LEMMA CleanStep ==
  ASSUME TypeOK, MethodInv, CleanInv, NEW p \in Procs, Step(p), faults' = 0,
         TypeOK', MethodInv'
  PROVE  CleanInv'
  <1> USE DotlockAssumption, InodePair
      DEF TypeOK, MethodInv, CleanInv, OwnerInv, LocknameInv, TemplateInv, ExamInv,
          Goto, Own, HasHandle, HasLockfile, Locked, Alive
  <1>1. CASE Start(p)
    BY <1>1 DEF Start
  <1>2. CASE Create(p)
    BY <1>2 DEF Create
  <1>3. CASE Destroy(p)
    BY <1>3 DEF Destroy
  <1>4. CASE DestroyLock(p)
    BY <1>4 DEF DestroyLock
  <1>5. CASE DestroyTemplate(p)
    BY <1>5 DEF DestroyTemplate
  <1>6. CASE Exit(p)
    BY <1>6 DEF Exit
  <1>7. CASE Crash(p)
    BY <1>7 DEF Crash, Close
  <1>8. CASE Take(p)
    BY <1>8 DEF Take
  <1>9. CASE Link(p)
    BY <1>9 DEF Link
  <1>10. CASE Stat(p)
    BY <1>10 DEF Stat, NLink
  <1>11. CASE OpenExcl(p)
    BY <1>11 DEF OpenExcl
  <1>12. CASE WritePid(p)
    BY <1>12 DEF WritePid
  <1>13. CASE WriteNode(p)
    BY <1>13 DEF WriteNode
  <1>14. CASE ReadLockfile(p)
    BY <1>14 DEF ReadLockfile
  <1>15. CASE Examine(p)
    BY <1>15 DEF Examine, Close, Stale
  <1>16. CASE Fstat(p)
    BY <1>16 DEF Fstat, Close, NLink
  <1>17. CASE UnlinkStale(p)
    BY <1>17 DEF UnlinkStale, Close
  <1>18. CASE Wait(p)
    BY <1>18 DEF Wait
  <1>19. CASE StatFails(p)
    BY <1>19 DEF StatFails
  <1>20. CASE OpenExclFails(p)
    BY <1>20 DEF OpenExclFails
  <1>21. CASE WriteFails(p)
    BY <1>21 DEF WriteFails
  <1>22. CASE GiveUp(p)
    BY <1>22 DEF GiveUp
  <1>23. CASE Release(p)
    BY <1>23 DEF Release
  <1>24. CASE ReleaseUnlink(p)
    BY <1>24 DEF ReleaseUnlink
  <1>25. QED
    BY <1>1, <1>2, <1>3, <1>4, <1>5, <1>6, <1>7, <1>8, <1>9, <1>10, <1>11, <1>12,
       <1>13, <1>14, <1>15, <1>16, <1>17, <1>18, <1>19, <1>20, <1>21, <1>22,
       <1>23, <1>24, ZenonT(30) DEF Step, TakeStep

\* Initially nothing runs and there is no file.
LEMMA InitInv == Init => IInv /\ (~hardlinks => ExclInv)
  <1> SUFFICES ASSUME Init PROVE IInv /\ (~hardlinks => ExclInv)
    OBVIOUS
  <1> USE DotlockAssumption DEF Init
  <1>1. overlap \in BOOLEAN
    BY Zenon
  <1>2. TypeOK
    BY <1>1 DEF TypeOK, PCs, Taking
  <1>3. MethodInv /\ OwnerInv
    BY DEF MethodInv, OwnerInv, HasHandle, HasLockfile, Locked
  <1>4. CleanInv
    BY <1>3 DEF CleanInv, LocknameInv, TemplateInv, ExamInv, HasHandle
  <1>5. StaleInv /\ LoneCleanerInv
    BY DEF StaleInv, LoneCleanerInv
  <1>6. QED
    BY <1>2, <1>3, <1>4, <1>5 DEF IInv, ExclInv

\* A process slot's step is what Next allows, and every step keeps IInv.
LEMMA IInvStep == IInv /\ [Next]_vars => IInv'
  <1> SUFFICES ASSUME IInv, [Next]_vars PROVE IInv'
    OBVIOUS
  <1>1. CASE UNCHANGED vars
    BY <1>1
       DEF vars, IInv, TypeOK, MethodInv, CleanInv, OwnerInv, LocknameInv,
           TemplateInv, ExamInv, HasHandle, HasLockfile, Locked, Own
  <1>2. CASE Next
    <2>1. PICK p \in Procs : Step(p)
      BY <1>2 DEF Next, Step
    <2>2. TypeOK' /\ MethodInv'
      BY <2>1, TypeStep DEF IInv
    <2>3. faults' = 0 => faults = 0
      <3>1. faults' = faults \/ faults' = faults + 1
        BY <2>1, Zenon
           DEF Step, TakeStep, Start, Create, Destroy, DestroyLock,
               DestroyTemplate, Exit, Crash, Take, Link, Stat, OpenExcl,
               WritePid, WriteNode, ReadLockfile, Examine, Fstat, UnlinkStale,
               Wait, StatFails, OpenExclFails, WriteFails, GiveUp, Release,
               ReleaseUnlink
      <3>2. QED
        BY <3>1, DotlockAssumption DEF IInv, TypeOK
    <2>4. faults' = 0 => CleanInv'
      BY <2>1, <2>2, <2>3, CleanStep DEF IInv
    <2>5. QED
      BY <2>2, <2>4 DEF IInv
  <1>3. QED
    BY <1>1, <1>2

\* The types of the variables, and which labels and files go with which
\* locking method, for every number of processes.
THEOREM TypeCorrect == Spec => []TypeOK
  <1>1. IInv => TypeOK
    BY DEF IInv
  <1>2. QED
    BY <1>1, InitInv, IInvStep, PTL DEF Spec

\* dotlock_take gives the lock to at most one process at a time as long as no
\* process died without its cleanup: the stale-lock test is safe then.
THEOREM MutualExclusion == Spec => []MutexWithoutFaults
  <1>1. IInv => MutexWithoutFaults
    BY OwnInjective
       DEF IInv, CleanInv, OwnerInv, HasLockfile, MutexWithoutFaults, Exclusive
  <1>2. QED
    BY <1>1, InitInv, IInvStep, PTL DEF Spec

\* The atexit handler leaves no lock file and no template behind.
THEOREM CleanupComplete == Spec => []CleanExit
  <1>1. IInv => CleanExit
    BY ZenonT(30) DEF IInv, CleanInv, LocknameInv, TemplateInv, HasHandle, HasLockfile,
           Locked, CleanExit
  <1>2. QED
    BY <1>1, InitInv, IInvStep, PTL DEF Spec

-----------------------------------------------------------------------------
(* Without hard links, crashes included. *)

\* Every step keeps the facts about stale files, and the lone cleaner's.
LEMMA ExclStep ==
  ASSUME ~hardlinks, ExclInv, NEW p \in Procs, Step(p), TypeOK', MethodInv'
  PROVE  ExclInv'
  <1> USE DotlockAssumption, InodePair
      DEF ExclInv, TypeOK, MethodInv, StaleInv, OwnerInv, LoneCleanerInv,
          Abandoned, Goto, Own, HasHandle, HasLockfile, Locked, Alive
  <1>1. CASE Start(p)
    BY <1>1 DEF Start
  <1>2. CASE Create(p)
    BY <1>2 DEF Create
  <1>3. CASE Destroy(p)
    BY <1>3 DEF Destroy
  <1>4. CASE DestroyLock(p)
    BY <1>4 DEF DestroyLock
  <1>5. CASE DestroyTemplate(p)
    BY <1>5 DEF DestroyTemplate
  <1>6. CASE Exit(p)
    BY <1>6 DEF Exit
  <1>7. CASE Crash(p)
    BY <1>7 DEF Crash, Close
  <1>8. CASE Take(p)
    BY <1>8 DEF Take
  <1>9. CASE Link(p)
    BY <1>9 DEF Link
  <1>10. CASE Stat(p)
    BY <1>10 DEF Stat, NLink
  <1>11. CASE OpenExcl(p)
    BY <1>11 DEF OpenExcl
  <1>12. CASE WritePid(p)
    BY <1>12 DEF WritePid
  <1>13. CASE WriteNode(p)
    BY <1>13 DEF WriteNode
  <1>14. CASE ReadLockfile(p)
    <2>1. CASE lockname = NoIno
      BY <1>14, <2>1 DEF ReadLockfile
    <2>2. CASE lockname # NoIno
      <3>1. /\ pc[p] = "read" /\ pc' = [pc EXCEPT ![p] = "examine"]
            /\ exam' = [exam EXCEPT ![p] = lockname]
            /\ UNCHANGED <<serial, templates, lockname, overlap>>
        BY <1>14, <2>2 DEF ReadLockfile
      <3>2. /\ pc'[p] = "examine" /\ exam'[p] = lockname
            /\ \A q \in Procs \ {p} : pc'[q] = pc[q] /\ exam'[q] = exam[q]
        BY <3>1
      <3>3. \A q \in Procs : HasLockfile(q)' <=> HasLockfile(q)
        BY <3>1, <3>2
      <3>4. \A q \in Procs : Own(q)' = Own(q)
        BY <3>1
      <3>5. lockname \in Inodes
        BY <2>2
      <3>6. StaleInv'
        <4>1. ASSUME NEW i \in Inodes, Abandoned(i)
              PROVE  Abandoned(i)'
          <5>1. i[1] \in Procs
            OBVIOUS
          <5> HIDE DEF HasLockfile, Own
          <5> QED
            BY <3>3, <3>4, <4>1, <5>1 DEF Abandoned
        <4>2. ASSUME NEW q \in Procs, pc'[q] \in {"fstat", "unlink"}
              PROVE  Abandoned(exam[q])'
          <5>1. q # p /\ pc[q] \in {"fstat", "unlink"} /\ exam'[q] = exam[q]
            BY <3>2, <4>2
          <5>2. exam[q] \in Inodes /\ Abandoned(exam[q])
            BY <5>1
          <5>3. exam'[q] \in Inodes
            BY <5>1, <5>2
          <5> HIDE DEF Abandoned
          <5> QED
            BY <4>1, <5>1, <5>2, <5>3
        <4>3. ASSUME NEW q \in Procs, pc'[q] \in {"examine", "fstat", "unlink"}
              PROVE  exam'[q][2] <= serial'[exam'[q][1]]
          BY <2>2, <3>1, <3>2, <4>3
        <4>4. /\ templates' = {}
              /\ lockname' # NoIno => lockname'[2] <= serial'[lockname'[1]]
          BY <3>1
        <4> HIDE DEF Abandoned, TypeOK, MethodInv, OwnerInv, LoneCleanerInv, ExclInv
        <4> QED
          BY <4>2, <4>3, <4>4 DEF StaleInv
      <3>7. ~overlap' => OwnerInv'
        <4> HIDE DEF HasLockfile, Own, TypeOK, MethodInv, StaleInv
        <4> QED
          BY <3>1, <3>3, <3>4
      <3>8. ~overlap' => LoneCleanerInv'
        BY <3>1, <3>2, ZenonT(30)
      <3> QED
        BY <3>6, <3>7, <3>8
    <2>3. QED
      BY <2>1, <2>2
  <1>15. CASE Examine(p)
    <2>1. CASE Stale(p)
      BY <1>15, <2>1, ZenonT(30) DEF Examine, Stale
    <2>2. CASE ~Stale(p)
      BY <1>15, <2>2 DEF Examine, Close
    <2>3. QED
      BY <2>1, <2>2, ZenonT(30)
  <1>16. CASE Fstat(p)
    <2>1. CASE NLink(exam[p]) = 0
      BY <1>16, <2>1 DEF Fstat, Close
    <2>2. CASE NLink(exam[p]) # 0
      <3>1. lockname = exam[p]
        BY <2>2 DEF NLink
      <3>2. StaleInv'
        BY <1>16, <2>2 DEF Fstat
      <3>3. overlap' = (overlap \/ \E q \in Procs \ {p} : pc[q] = "unlink")
        BY <1>16, <2>2 DEF Fstat
      <3>4. ASSUME ~overlap' PROVE OwnerInv' /\ LoneCleanerInv'
        <4>1. ~overlap /\ \A q \in Procs : pc[q] = "unlink" => q = p
          BY <3>3, <3>4, Zenon
        <4>2. OwnerInv'
          BY <1>16, <2>2, <4>1, ZenonT(30) DEF Fstat
        <4>3. LoneCleanerInv'
          BY <1>16, <2>2, <3>1, <4>1 DEF Fstat
        <4>4. QED
          BY <4>2, <4>3
      <3>5. QED
        BY <3>2, <3>4
    <2>3. QED
      BY <2>1, <2>2, ZenonT(30)
  <1>17. CASE UnlinkStale(p)
    BY <1>17 DEF UnlinkStale, Close
  <1>18. CASE Wait(p)
    BY <1>18 DEF Wait
  <1>19. CASE StatFails(p)
    BY <1>19 DEF StatFails
  <1>20. CASE OpenExclFails(p)
    BY <1>20 DEF OpenExclFails
  <1>21. CASE WriteFails(p)
    BY <1>21 DEF WriteFails
  <1>22. CASE GiveUp(p)
    BY <1>22 DEF GiveUp
  <1>23. CASE Release(p)
    BY <1>23 DEF Release
  <1>24. CASE ReleaseUnlink(p)
    BY <1>24 DEF ReleaseUnlink
  <1>25. QED
    BY <1>1, <1>2, <1>3, <1>4, <1>5, <1>6, <1>7, <1>8, <1>9, <1>10, <1>11, <1>12,
       <1>13, <1>14, <1>15, <1>16, <1>17, <1>18, <1>19, <1>20, <1>21, <1>22,
       <1>23, <1>24, ZenonT(30) DEF Step, TakeStep

\* ExclInv is inductive on a file system without hard links.
LEMMA ExclInvStep == (~hardlinks => ExclInv) /\ [Next]_vars => (~hardlinks => ExclInv)'
  <1> SUFFICES ASSUME ~hardlinks => ExclInv, [Next]_vars, ~hardlinks'
               PROVE  ExclInv'
    OBVIOUS
  <1>1. CASE UNCHANGED vars
    BY <1>1
       DEF vars, ExclInv, TypeOK, MethodInv, StaleInv, OwnerInv, Abandoned,
           LoneCleanerInv, HasHandle, HasLockfile, Locked, Own
  <1>2. CASE Next
    <2>1. PICK p \in Procs : Step(p)
      BY <1>2 DEF Next, Step
    <2>2. ~hardlinks /\ ExclInv
      BY <2>1, MethodStays, Zenon
    <2>3. TypeOK' /\ MethodInv'
      BY <2>1, <2>2, TypeStep DEF ExclInv
    <2>4. QED
      BY <2>1, <2>2, <2>3, ExclStep
  <1>3. QED
    BY <1>1, <1>2

\* What ExclInv says about exclusion.
LEMMA ExclInvRace == (~hardlinks => ExclInv) => RaceNeedsTwoCleaners
  BY OwnInjective
     DEF ExclInv, OwnerInv, HasLockfile, RaceNeedsTwoCleaners, Exclusive

\* With O_EXCL lock files two processes hold the lock, crashes included, only
\* after two of them were removing a stale lock at the same time.
THEOREM OnlyRace == Spec => []RaceNeedsTwoCleaners
  <1>1. Init => (~hardlinks => ExclInv)
    BY InitInv
  <1>2. QED
    BY <1>1, ExclInvStep, ExclInvRace, PTL DEF Spec

-----------------------------------------------------------------------------
(* Refinement of the abstract lock. *)

\* A step moves one process; the two ways to break the lock's promise are not
\* undone, and the process whose step breaks it does not have the lock then.
LEMMA HolderStep ==
  ASSUME TypeOK, NEW p \in Procs, Step(p)
  PROVE  /\ \A q \in Procs \ {p} : pc'[q] = pc[q]
         /\ faults' = faults \/ (faults' = faults + 1 /\ ~Locked(p)')
         /\ overlap' = overlap \/ (overlap' = TRUE /\ ~Locked(p)')
  <1> USE DEF TypeOK, Goto, Locked
  <1>1. CASE Crash(p) \/ StatFails(p)
    BY <1>1 DEF Crash, StatFails
  <1>2. CASE Fstat(p)
    BY <1>2, ZenonT(30) DEF Fstat
  <1>3. CASE \/ Start(p) \/ Create(p) \/ Destroy(p) \/ DestroyLock(p)
             \/ DestroyTemplate(p) \/ Exit(p) \/ Take(p) \/ GiveUp(p)
    BY <1>3 DEF Start, Create, Destroy, DestroyLock, DestroyTemplate, Exit,
                Take, GiveUp
  <1>4. CASE Link(p) \/ Stat(p) \/ OpenExcl(p) \/ WritePid(p) \/ WriteNode(p)
    BY <1>4 DEF Link, Stat, OpenExcl, WritePid, WriteNode
  <1>5. CASE ReadLockfile(p) \/ Examine(p) \/ UnlinkStale(p) \/ Wait(p)
    BY <1>5 DEF ReadLockfile, Examine, UnlinkStale, Wait
  <1>6. CASE \/ OpenExclFails(p) \/ WriteFails(p)
             \/ Release(p) \/ ReleaseUnlink(p)
    BY <1>6 DEF OpenExclFails, WriteFails, Release, ReleaseUnlink
  <1>7. QED
    BY <1>1, <1>2, <1>3, <1>4, <1>5, <1>6, ZenonT(30) DEF Step, TakeStep

\* The lock as a set of holders: a step of p that leaves the others alone, and
\* after which the promise still holds, is a step of the abstract lock or none.
LEMMA HolderSets ==
  ASSUME NEW p \in Procs, NEW H, NEW K, NEW b \in BOOLEAN, NEW c \in BOOLEAN,
         K \ {p} = H \ {p},
         c = b \/ (c = TRUE /\ p \notin K),
         ~c => \A q, r \in K : q = r
  PROVE  \/ c = TRUE /\ K \in SUBSET H
         \/ (H = {} \/ b) /\ K = H \cup {p} /\ c = b
         \/ K = H \ {p} /\ c = b
         \/ K = H /\ c = b
  <1>1. CASE p \notin K
    <2>1. K = H \ {p}
      BY <1>1
    <2>2. QED
      BY <2>1
  <1>2. CASE p \in K
    <2>1. K = H \cup {p} /\ c = b
      BY <1>2
    <2>2. CASE ~c /\ p \notin H
      <3>1. H = {}
        BY <1>2, <2>1, <2>2
      <3>2. QED
        BY <3>1, <2>1
    <2>3. CASE c
      BY <2>1, <2>3
    <2>4. CASE p \in H
      <3>1. K = H
        BY <2>1, <2>4
      <3>2. QED
        BY <3>1, <2>1
    <2>5. QED
      BY <2>2, <2>3, <2>4
  <1>3. QED
    BY <1>1, <1>2

\* The steps of Dotlock that keep the promise "no fault, so one holder" are
\* steps of the abstract lock.
LEMMA CleanLockStep ==
  ASSUME TypeOK, MutexWithoutFaults', [Next]_vars
  PROVE  [Clean!Next]_<<{p \in Procs : Locked(p)}, faults # 0>>
  <1> DEFINE H == {p \in Procs : Locked(p)}
             K == {p \in Procs : Locked(p)'}
             b == faults # 0
             c == (faults # 0)'
  <1>1. CASE UNCHANGED vars
    <2>1. K = H /\ c = b
      BY <1>1 DEF vars, Locked
    <2>2. QED
      BY <2>1
  <1>2. CASE Next
    <2>1. PICK p \in Procs : Step(p)
      BY <1>2 DEF Next, Step
    <2>2. K \ {p} = H \ {p}
      BY <2>1, HolderStep, ZenonT(30) DEF Locked
    <2>3. c = b \/ (c = TRUE /\ p \notin K)
      <3>1. faults' = faults \/ (faults' # 0 /\ ~Locked(p)')
        <4>1. faults' = faults \/ (faults' = faults + 1 /\ ~Locked(p)')
          BY <2>1, HolderStep, Zenon
        <4>2. faults \in Nat
          BY DotlockAssumption DEF TypeOK
        <4>3. QED
          BY <4>1, <4>2
      <3>2. CASE faults' = faults
        BY <3>2, Zenon
      <3>3. CASE faults' # 0 /\ ~Locked(p)'
        <4>1. c = TRUE
          BY <3>3
        <4>2. p \notin K
          BY <3>3
        <4>3. QED
          BY <4>1, <4>2
      <3>4. QED
        BY <3>1, <3>2, <3>3
    <2>4. ~c => \A q, r \in K : q = r
      BY DEF MutexWithoutFaults, Exclusive
    <2>5. b \in BOOLEAN /\ c \in BOOLEAN
      OBVIOUS
    <2> HIDE DEF H, K, b, c
    <2>6. \/ c = TRUE /\ K \in SUBSET H
          \/ (H = {} \/ b) /\ K = H \cup {p} /\ c = b
          \/ K = H \ {p} /\ c = b
          \/ K = H /\ c = b
      BY <2>2, <2>3, <2>4, <2>5, HolderSets
    <2>7. Clean!Next \/ (K = H /\ c = b)
      BY <2>6 DEF H, K, b, c, Clean!Next, Clean!Break, Clean!Acquire, Clean!Release
    <2>8. QED
      BY <2>7 DEF H, K, b, c
  <1>3. QED
    BY <1>1, <1>2

\* What breaks the promise of LockUntilRace.
Broken == IF hardlinks THEN faults # 0 ELSE overlap

\* The same for the promise "no fault, or without hard links no two cleaners, so
\* one holder".
LEMMA LoneLockStep ==
  ASSUME TypeOK, MutexWithoutFaults', RaceNeedsTwoCleaners', [Next]_vars
  PROVE  [Lone!Next]_<<{p \in Procs : Locked(p)},
                       IF hardlinks THEN faults # 0 ELSE overlap>>
  <1> DEFINE H == {p \in Procs : Locked(p)}
             K == {p \in Procs : Locked(p)'}
  <1>1. CASE UNCHANGED vars
    BY <1>1, Zenon DEF vars, Locked
  <1>2. CASE Next
    <2>1. PICK p \in Procs : Step(p)
      BY <1>2 DEF Next, Step
    <2>2. K \ {p} = H \ {p}
      BY <2>1, HolderStep, ZenonT(30) DEF Locked
    <2>3. hardlinks' = hardlinks
      BY <2>1, MethodStays
    <2>4. Broken' = Broken \/ (Broken' = TRUE /\ p \notin K)
      <3>1. faults' = faults \/ (faults' # 0 /\ ~Locked(p)')
        <4>1. faults' = faults \/ (faults' = faults + 1 /\ ~Locked(p)')
          BY <2>1, HolderStep, Zenon
        <4>2. faults \in Nat
          BY DotlockAssumption DEF TypeOK
        <4>3. QED
          BY <4>1, <4>2
      <3>2. overlap' = overlap \/ (overlap' = TRUE /\ ~Locked(p)')
        BY <2>1, HolderStep, Zenon
      <3>3. CASE hardlinks
        BY <3>1, <3>3, <2>3, Zenon DEF Broken
      <3>4. CASE ~hardlinks
        BY <3>2, <3>4, <2>3, Zenon DEF Broken
      <3>5. QED
        BY <3>3, <3>4, ZenonT(30)
    <2>5. ~Broken' => \A q, r \in K : q = r
      BY Zenon DEF Broken, MutexWithoutFaults, RaceNeedsTwoCleaners, Exclusive
    <2>6. Broken \in BOOLEAN
      BY Zenon DEF Broken, TypeOK
    <2>7. Broken' \in BOOLEAN
      BY <2>4, <2>6, Zenon
    <2> DEFINE b == Broken
               c == Broken'
    <2> HIDE DEF H, K, b, c
    <2>8. \/ c = TRUE /\ K \in SUBSET H
          \/ (H = {} \/ b) /\ K = H \cup {p} /\ c = b
          \/ K = H \ {p} /\ c = b
          \/ K = H /\ c = b
      <3>1. /\ c = b \/ (c = TRUE /\ p \notin K)
            /\ ~c => \A q, r \in K : q = r
            /\ b \in BOOLEAN /\ c \in BOOLEAN
        BY <2>4, <2>5, <2>6, <2>7, Zenon DEF b, c
      <3>2. QED
        BY <2>2, <3>1, HolderSets
    <2>9. Lone!Next \/ (K = H /\ c = b)
      <3>1. CASE c = TRUE /\ K \in SUBSET H
        BY <3>1, Zenon DEF H, K, b, c, Broken, Lone!Next, Lone!Break
      <3>2. CASE (H = {} \/ b) /\ K = H \cup {p} /\ c = b
        BY <3>2, Zenon DEF H, K, b, c, Broken, Lone!Next, Lone!Acquire
      <3>3. CASE K = H \ {p} /\ c = b
        BY <3>3, Zenon DEF H, K, b, c, Broken, Lone!Next, Lone!Release
      <3>4. QED
        BY <2>8, <3>1, <3>2, <3>3, Zenon
    <2>10. QED
      BY <2>9, Zenon DEF H, K, b, c, Broken
  <1>3. QED
    BY <1>1, <1>2

\* dotlock_take and dotlock_release implement the abstract lock up to the
\* first fault, for every number of processes and either locking method.
THEOREM ImplementsLock == Spec => LockUntilFault
  <1>1. Init => Clean!Init
    BY DEF Init, Clean!Init, Locked
  <1>2. IInv => TypeOK /\ MutexWithoutFaults
    BY OwnInjective
       DEF IInv, CleanInv, OwnerInv, HasLockfile, MutexWithoutFaults, Exclusive
  <1>3. TypeOK /\ MutexWithoutFaults' /\ [Next]_vars
          => [Clean!Next]_<<{p \in Procs : Locked(p)}, faults # 0>>
    BY CleanLockStep
  <1>4. QED
    BY <1>1, <1>2, <1>3, InitInv, IInvStep, PTL
       DEF Spec, LockUntilFault, Clean!Spec

\* Without hard links they implement it, crashes included, up to the first
\* time two processes are about to remove a stale lock file.
THEOREM ImplementsLockUntilRace == Spec => LockUntilRace
  <1>1. Init => Lone!Init
    <2> SUFFICES ASSUME Init PROVE Lone!Init
      OBVIOUS
    <2>1. {p \in Procs : Locked(p)} = {}
      BY DEF Init, Locked
    <2>2. (IF hardlinks THEN faults # 0 ELSE overlap) = FALSE
      BY Zenon DEF Init
    <2>3. QED
      BY <2>1, <2>2, Zenon DEF Lone!Init
  <1>2. IInv => TypeOK /\ MutexWithoutFaults
    BY OwnInjective
       DEF IInv, CleanInv, OwnerInv, HasLockfile, MutexWithoutFaults, Exclusive
  <1>3. TypeOK /\ MutexWithoutFaults' /\ RaceNeedsTwoCleaners' /\ [Next]_vars
          => [Lone!Next]_<<{p \in Procs : Locked(p)},
                           IF hardlinks THEN faults # 0 ELSE overlap>>
    BY LoneLockStep
  <1>4. Init => (~hardlinks => ExclInv)
    BY InitInv
  <1>5. QED
    BY <1>1, <1>2, <1>3, <1>4, InitInv, IInvStep, ExclInvStep, ExclInvRace, PTL
       DEF Spec, LockUntilRace, Lone!Spec

-----------------------------------------------------------------------------
(* The waiting of one dotlock_take (module DotlockWait). *)

\* The types the arithmetic needs.
Numbers ==
  /\ argument \in Int
  /\ timeout \in Int
  /\ slept \in Int
  /\ wtime \in Nat

\* SleepsExactlyTimeout is inductive once it is known that a timeout that was
\* not positive is never changed, and that nothing is counted then.
WaitInv ==
  /\ Numbers
  /\ argument <= 0 => timeout = argument
  /\ SleepsExactlyTimeout

\* What next_wait_interval returns for a timeout: a positive time that is at
\* most what is left, so that the rest neither skips zero nor stays the same.
LEMMA SleepFits ==
  ASSUME NEW w \in Nat, NEW t \in Int
  PROVE  /\ NextInterval(w) \in Nat \ {0}
         /\ SleepTime(NextInterval(w), t) \in Nat \ {0}
         /\ t > 0 => SleepTime(NextInterval(w), t) <= t
<1>1. NextInterval(w) \in Nat \ {0}
  BY DEF NextInterval
<1>2. Jitter \in Nat
  BY WaitAssumption
<1> QED
  BY <1>1, <1>2 DEF SleepTime

\* A call of dotlock_take begins so.
LEMMA WaitStart == WaitInit => WaitInv
  BY WaitAssumption DEF WaitInit, WaitInv, Numbers, SleepsExactlyTimeout

\* Each look, each sleep and each return keeps it.
LEMMA WaitStep == WaitInv /\ [WaitNext]_waitVars => WaitInv'
<1> SUFFICES ASSUME WaitInv, [WaitNext]_waitVars
             PROVE  WaitInv'
  OBVIOUS
<1> USE DEF WaitInv, Numbers, SleepsExactlyTimeout
<1>1. CASE Taken
  BY <1>1 DEF Taken
<1>6. CASE Held \/ Vanished \/ FileError
  BY <1>6 DEF Held, Vanished, FileError
<1>2. ASSUME NEW pid \in Owners, Look(pid)
      PROVE  WaitInv'
  <2> DEFINE first == IF lastpid = -1 THEN pid ELSE lastpid
             start == IF pid # first THEN 0 ELSE wtime
             sleep == SleepTime(NextInterval(start), timeout)
  <2>1. start \in Nat
    OBVIOUS
  <2>2. /\ NextInterval(start) \in Nat
        /\ sleep \in Nat
        /\ timeout > 0 => sleep <= timeout
    BY <2>1, SleepFits, ZenonT(30)
  <2>3. /\ state = "looking" /\ state' = "again" /\ argument' = argument
        /\ timeout # 0
        /\ wtime' = NextInterval(start)
        /\ timeout' = IF timeout > 0 THEN timeout - sleep ELSE timeout
        /\ slept' = IF timeout > 0 THEN slept + sleep ELSE slept
    BY <1>2 DEF Look
  <2> HIDE DEF sleep, start
  <2> QED
    BY <2>2, <2>3
<1>3. ASSUME NEW pid \in Owners, Canceled(pid)
      PROVE  WaitInv'
  BY <1>3 DEF Canceled
<1>4. ASSUME NEW pid \in Owners, Fail(pid)
      PROVE  WaitInv'
  BY <1>4 DEF Fail
<1>5. CASE UNCHANGED waitVars
  BY <1>5 DEF waitVars
<1> QED
  BY <1>1, <1>2, <1>3, <1>4, <1>5, <1>6 DEF WaitNext

\* A take with a timeout reports ETIMEDOUT after having slept exactly that
\* long, and never sleeps longer; EACCES is for a take that does not wait.
THEOREM TimeoutKept == WaitSpec => []SleepsExactlyTimeout
<1>1. WaitInv => SleepsExactlyTimeout
  BY DEF WaitInv
<1> QED
  BY WaitStart, WaitStep, <1>1, PTL DEF WaitSpec
=============================================================================
