------------------------------- MODULE Dotlock -------------------------------
(***************************************************************************)
(* Advisory file locking with a lock file (common/dotlock.c, POSIX part).  *)
(*                                                                         *)
(* Processes that share a directory take turns on one protected file.  The *)
(* lock is the directory entry "<file>.lock".  With hard links a process   *)
(* links its private template ".#lk..." to that name and looks at the link *)
(* count of the template; without them it creates the entry with O_EXCL    *)
(* and writes its pid into it.  Whoever finds the entry taken opens it,    *)
(* reads the owner's pid and, if that process is gone, removes the entry.  *)
(*                                                                         *)
(* Every system call that touches the shared directory, or asks whether a  *)
(* pid is alive, is a step of its own.  A process slot may exit and be     *)
(* started again: the new process then has the pid of the old one.         *)
(***************************************************************************)
EXTENDS Naturals

CONSTANTS
  Procs,      \* process slots; a slot is a pid on one node
  Nodes,      \* machines that share the directory
  Node,       \* the machine each process slot runs on
  MaxInodes,  \* bound: files a process slot may create
  MaxFaults,  \* bound: crashes and I/O errors that leave files behind
  NoIno       \* "no file"

ASSUME DotlockAssumption ==
  /\ Node \in [Procs -> Nodes]
  /\ MaxInodes \in Nat \ {0}
  /\ MaxFaults \in Nat
  /\ NoIno \notin Procs \X Nat

\* A file is named by the process slot that created it and a serial number.
Inodes == Procs \X (1..MaxInodes)

VARIABLES
  hardlinks, \* what use_hardlinks_p found: does the file system have hard links?
  pc,        \* where each process is in the dotlock code
  serial,    \* how many files each process slot has created
  templates, \* the files that still have their ".#lk" name
  lockname,  \* the file "<file>.lock" names, or NoIno
  content,   \* what has been written to each file
  exam,      \* the file read_lockfile has open in each process
  faults,    \* history: crashes and I/O errors so far
  overlap    \* history: two processes were about to remove a stale lock

vars == <<hardlinks, pc, serial, templates, lockname, content, exam, faults, overlap>>

\* The file of the handle: the template, or the lock file made with O_EXCL.
Own(p) == <<p, serial[p]>>

\* st_nlink of a file.
NLink(i) == (IF i \in templates THEN 1 ELSE 0) + (IF lockname = i THEN 1 ELSE 0)

\* kill (pid, 0) succeeds.
Alive(p) == pc[p] # "dead"

\* h->locked is set.
Locked(p) == pc[p] \in {"held", "release", "destroy"}

\* The labels inside dotlock_take_unix.
Taking == {"again", "stat", "write", "writenode", "read", "examine", "fstat",
           "unlink", "wait"}

PCs == {"dead", "nohandle", "idle", "held", "release", "destroy",
        "destroytmpl"} \cup Taking

Goto(p, l) == pc' = [pc EXCEPT ![p] = l]

\* close (fd) of the examined file.
Close(p) == exam' = [exam EXCEPT ![p] = NoIno]

Init ==
  /\ hardlinks \in BOOLEAN
  /\ pc = [p \in Procs |-> "dead"]
  /\ serial = [p \in Procs |-> 0]
  /\ templates = {}
  /\ lockname = NoIno
  /\ content = [i \in Inodes |-> "empty"]
  /\ exam = [p \in Procs |-> NoIno]
  /\ faults = 0
  /\ overlap = FALSE

-----------------------------------------------------------------------------
(* Processes and handles. *)

Start(p) ==
  /\ pc[p] = "dead"
  /\ Goto(p, "nohandle")
  /\ UNCHANGED <<hardlinks, serial, templates, lockname, content, exam, faults, overlap>>

\* Mutant: the new template gets the name of the previous one.
CreateOldName(p) ==
  /\ pc[p] = "nohandle"
  /\ templates' = IF hardlinks THEN templates \cup {Own(p)} ELSE templates
  /\ Goto(p, "idle")
  /\ UNCHANGED <<hardlinks, serial, lockname, content, exam, faults, overlap>>

\* dotlock_create: with hard links the template exists, completely written,
\* before anybody can see it; without them it is unlinked again at once.
Create(p) ==
  /\ pc[p] = "nohandle"
  /\ IF hardlinks
     THEN /\ serial[p] < MaxInodes
          /\ serial' = [serial EXCEPT ![p] = @ + 1]
          /\ templates' = templates \cup {Own(p)'}
          /\ content' = [content EXCEPT ![Own(p)'] = "full"]
     ELSE UNCHANGED <<serial, templates, content>>
  /\ Goto(p, "idle")
  /\ UNCHANGED <<hardlinks, lockname, exam, faults, overlap>>

\* Mutant: a held lock is not unlinked when its handle is destroyed.
DestroyKeepsLock(p) ==
  /\ pc[p] \in {"idle", "held"}
  /\ Goto(p, "destroytmpl")
  /\ UNCHANGED <<hardlinks, serial, templates, lockname, content, exam, faults, overlap>>

\* dotlock_destroy, called directly or for every handle by the atexit
\* handler: a held lock file is unlinked by name, then the template.
Destroy(p) ==
  /\ pc[p] \in {"idle", "held"}
  /\ Goto(p, IF Locked(p) THEN "destroy" ELSE "destroytmpl")
  /\ UNCHANGED <<hardlinks, serial, templates, lockname, content, exam, faults, overlap>>

DestroyLock(p) ==
  /\ pc[p] = "destroy"
  /\ lockname' = NoIno
  /\ Goto(p, "destroytmpl")
  /\ UNCHANGED <<hardlinks, serial, templates, content, exam, faults, overlap>>

DestroyTemplate(p) ==
  /\ pc[p] = "destroytmpl"
  /\ templates' = templates \ {Own(p)}
  /\ Goto(p, "nohandle")
  /\ UNCHANGED <<hardlinks, serial, lockname, content, exam, faults, overlap>>

\* A process that has no handle left ends.
Exit(p) ==
  /\ pc[p] = "nohandle"
  /\ Goto(p, "dead")
  /\ UNCHANGED <<hardlinks, serial, templates, lockname, content, exam, faults, overlap>>

\* The process is killed: no atexit handler runs and its files stay.
Crash(p) ==
  /\ Alive(p)
  /\ faults < MaxFaults
  /\ faults' = faults + 1
  /\ Close(p)
  /\ Goto(p, "dead")
  /\ UNCHANGED <<hardlinks, serial, templates, lockname, content, overlap>>

-----------------------------------------------------------------------------
(* dotlock_take. *)

Take(p) ==
  /\ pc[p] = "idle"
  /\ Goto(p, "again")
  /\ UNCHANGED <<hardlinks, serial, templates, lockname, content, exam, faults, overlap>>

\* link (tname, lockname): its return value is ignored.
Link(p) ==
  /\ hardlinks
  /\ pc[p] = "again"
  /\ lockname' = IF lockname = NoIno THEN Own(p) ELSE lockname
  /\ Goto(p, "stat")
  /\ UNCHANGED <<hardlinks, serial, templates, content, exam, faults, overlap>>

\* stat (tname): the lock is ours if the template now has two links.
Stat(p) ==
  /\ pc[p] = "stat"
  /\ Goto(p, IF NLink(Own(p)) = 2 THEN "held" ELSE "read")
  /\ UNCHANGED <<hardlinks, serial, templates, lockname, content, exam, faults, overlap>>

\* stat fails: dotlock_take returns an error although link may have worked.
StatFails(p) ==
  /\ pc[p] = "stat"
  /\ faults < MaxFaults
  /\ faults' = faults + 1
  /\ Goto(p, "idle")
  /\ UNCHANGED <<hardlinks, serial, templates, lockname, content, exam, overlap>>

\* open (lockname, O_CREAT|O_EXCL): an empty lock file appears, or EEXIST.
OpenExcl(p) ==
  /\ ~hardlinks
  /\ pc[p] = "again"
  /\ IF lockname = NoIno
     THEN /\ serial[p] < MaxInodes
          /\ serial' = [serial EXCEPT ![p] = @ + 1]
          /\ lockname' = Own(p)'
          /\ Goto(p, "write")
     ELSE /\ Goto(p, "read")
          /\ UNCHANGED <<serial, lockname>>
  /\ UNCHANGED <<hardlinks, templates, content, exam, faults, overlap>>

\* Any other error of that open: dotlock_take fails.
OpenExclFails(p) ==
  /\ ~hardlinks
  /\ pc[p] = "again"
  /\ Goto(p, "idle")
  /\ UNCHANGED <<hardlinks, serial, templates, lockname, content, exam, faults, overlap>>

\* The pid is written first, then the node name and the final newline.
WritePid(p) ==
  /\ pc[p] = "write"
  /\ content' = [content EXCEPT ![Own(p)] = "pid"]
  /\ Goto(p, "writenode")
  /\ UNCHANGED <<hardlinks, serial, templates, lockname, exam, faults, overlap>>

WriteNode(p) ==
  /\ pc[p] = "writenode"
  /\ content' = [content EXCEPT ![Own(p)] = "full"]
  /\ Goto(p, "held")
  /\ UNCHANGED <<hardlinks, serial, templates, lockname, exam, faults, overlap>>

\* A write error: the lock file is unlinked and dotlock_take fails.
WriteFails(p) ==
  /\ pc[p] \in {"write", "writenode"}
  /\ lockname' = NoIno
  /\ Goto(p, "idle")
  /\ UNCHANGED <<hardlinks, serial, templates, content, exam, faults, overlap>>

\* read_lockfile opens the lock file; "lockfile disappeared" starts over.
ReadLockfile(p) ==
  /\ pc[p] = "read"
  /\ IF lockname = NoIno
     THEN /\ Goto(p, "again")
          /\ UNCHANGED exam
     ELSE /\ exam' = [exam EXCEPT ![p] = lockname]
          /\ Goto(p, "examine")
  /\ UNCHANGED <<hardlinks, serial, templates, lockname, content, faults, overlap>>

\* Mutant: only our own pid makes a lock stale.
StaleIfOurs(p) == content[exam[p]] = "full" /\ exam[p][1] = p

\* The owner's pid is on our node, and it is ours or that of no process.
\* Without the complete node name the owner counts as being elsewhere.
Stale(p) ==
  LET owner == exam[p][1] IN
  /\ content[exam[p]] = "full"
  /\ Node[owner] = Node[p]
  /\ owner = p \/ ~Alive(owner)

\* What the file says and whether its owner lives.  A file of less than 11
\* bytes makes dotlock_take fail.
Examine(p) ==
  /\ pc[p] = "examine"
  /\ Goto(p, IF content[exam[p]] = "empty" THEN "idle"
             ELSE IF Stale(p) THEN "fstat" ELSE "wait")
  /\ IF Stale(p) THEN UNCHANGED exam ELSE Close(p)
  /\ UNCHANGED <<hardlinks, serial, templates, lockname, content, faults, overlap>>

\* Mutant: the link count of the stale file is not looked at.
FstatUnchecked(p) ==
  /\ pc[p] = "fstat"
  /\ Goto(p, "unlink")
  /\ overlap' = (overlap \/ \E q \in Procs \ {p} : pc[q] = "unlink")
  /\ UNCHANGED <<hardlinks, serial, templates, lockname, content, exam, faults>>

\* fstat of the file found stale: start over if it has no name any more.
Fstat(p) ==
  /\ pc[p] = "fstat"
  /\ IF NLink(exam[p]) = 0
     THEN /\ Goto(p, "again")
          /\ Close(p)
          /\ UNCHANGED overlap
     ELSE /\ Goto(p, "unlink")
          /\ overlap' = (overlap \/ \E q \in Procs \ {p} : pc[q] = "unlink")
          /\ UNCHANGED exam
  /\ UNCHANGED <<hardlinks, serial, templates, lockname, content, faults>>

\* unlink (lockname) removes whatever has that name by now.
UnlinkStale(p) ==
  /\ pc[p] = "unlink"
  /\ lockname' = NoIno
  /\ Close(p)
  /\ Goto(p, "again")
  /\ UNCHANGED <<hardlinks, serial, templates, content, faults, overlap>>

\* Sleep and try again (module DotlockWait has the intervals).
Wait(p) ==
  /\ pc[p] = "wait"
  /\ Goto(p, "again")
  /\ UNCHANGED <<hardlinks, serial, templates, lockname, content, exam, faults, overlap>>

\* EACCES without a timeout, ETIMEDOUT after it, or ECANCELED by the callback.
GiveUp(p) ==
  /\ pc[p] = "wait"
  /\ Goto(p, "idle")
  /\ UNCHANGED <<hardlinks, serial, templates, lockname, content, exam, faults, overlap>>

-----------------------------------------------------------------------------
(* dotlock_release. *)

\* The lock file must carry our pid and node, else the lock stays "locked".
Release(p) ==
  /\ pc[p] = "held"
  /\ lockname # NoIno
  /\ content[lockname] = "full"
  /\ lockname[1] = p
  /\ Goto(p, "release")
  /\ UNCHANGED <<hardlinks, serial, templates, lockname, content, exam, faults, overlap>>

\* unlink (lockname); if it is gone by now, the handle stays "locked".
ReleaseUnlink(p) ==
  /\ pc[p] = "release"
  /\ lockname' = NoIno
  /\ Goto(p, IF lockname = NoIno THEN "held" ELSE "idle")
  /\ UNCHANGED <<hardlinks, serial, templates, content, exam, faults, overlap>>

-----------------------------------------------------------------------------
TakeStep(p) ==
  \/ Link(p) \/ Stat(p) \/ OpenExcl(p) \/ WritePid(p) \/ WriteNode(p)
  \/ ReadLockfile(p) \/ Examine(p) \/ Fstat(p) \/ UnlinkStale(p) \/ Wait(p)

Next ==
  \E p \in Procs :
    \/ Start(p) \/ Create(p) \/ Destroy(p) \/ DestroyLock(p)
    \/ DestroyTemplate(p) \/ Exit(p) \/ Crash(p)
    \/ Take(p) \/ TakeStep(p)
    \/ StatFails(p) \/ OpenExclFails(p) \/ WriteFails(p) \/ GiveUp(p)
    \/ Release(p) \/ ReleaseUnlink(p)

Spec == Init /\ [][Next]_vars

\* A process inside dotlock_take is scheduled again and again; nothing makes
\* it start, exit, release, crash or give up.
FairSpec == Spec /\ \A p \in Procs : WF_vars(TakeStep(p))

-----------------------------------------------------------------------------
(* Properties. *)

\* Every variable has its type.
TypeOK ==
  /\ hardlinks \in BOOLEAN
  /\ pc \in [Procs -> PCs]
  /\ serial \in [Procs -> 0..MaxInodes]
  /\ templates \subseteq Inodes
  /\ lockname \in Inodes \cup {NoIno}
  /\ content \in [Inodes -> {"empty", "pid", "full"}]
  /\ exam \in [Procs -> Inodes \cup {NoIno}]
  /\ faults \in 0..MaxFaults
  /\ overlap \in BOOLEAN

Exclusive == \A p, q \in Procs : Locked(p) /\ Locked(q) => p = q

\* As long as every process that ended ran its cleanup handler, and no stat of
\* a template failed, at most one process holds the lock: the stale-lock test
\* of dotlock_take never removes the lock file of a process that uses it.
MutexWithoutFaults == faults = 0 => Exclusive

\* As long as nothing went wrong a process that ended left neither its lock
\* file nor its template behind (dotlock_remove_lockfiles at exit).
CleanExit ==
  faults = 0 =>
    \A p \in Procs : pc[p] = "dead" =>
      /\ lockname # NoIno => lockname[1] # p
      /\ \A i \in templates : i[1] # p

\* Crashes included, two processes hold the lock only after two processes
\* were at the same time between the fstat and the unlink of a stale lock:
\* the race the long comment in dotlock_take_unix describes is the only one.
RaceNeedsTwoCleaners == ~hardlinks /\ ~overlap => Exclusive

\* "Check if it's unlocked during examining the lockfile": a process that goes
\* on to remove a stale lock file has just seen that it is still in place.
FstatSeesRemoval ==
  [][\A p \in Procs :
       pc[p] = "fstat" /\ pc'[p] = "unlink" => lockname = exam[p]]_vars

\* p tries to take the lock, and the lock file is a complete one of a dead
\* process of the same node.
FacesStale(p) ==
  /\ pc[p] \in Taking
  /\ lockname # NoIno
  /\ content[lockname] = "full"
  /\ ~Alive(lockname[1]) /\ Node[lockname[1]] = Node[p]

\* The lock file of a dead process does not stay for ever while a process keeps
\* trying to take the lock.  (Without hard links a process may die before it has
\* written its file: nobody removes that one.)
StaleLockRemoved == \A p \in Procs : []<>~FacesStale(p)

Clean == INSTANCE Lock WITH holders <- {p \in Procs : Locked(p)},
                            broken <- faults # 0
Lone == INSTANCE Lock WITH holders <- {p \in Procs : Locked(p)},
                           broken <- IF hardlinks THEN faults # 0 ELSE overlap

\* Step by step dotlock_take, dotlock_release and the cleanup at exit are a
\* lock that a process only gets while nobody has it, up to the first fault.
LockUntilFault == Clean!Spec

\* Without hard links a fault does not break it: they are that lock up to the
\* first time two processes are about to remove a stale lock file, and a dead
\* owner's lock is taken over.
LockUntilRace == Lone!Spec

-----------------------------------------------------------------------------
(* The inductive invariant behind MutexWithoutFaults and CleanExit. *)

\* The labels at which a process has a handle, and with it a file if the file
\* system has hard links; the labels at which it has made the lock file.
HasHandle(p) == pc[p] \notin {"dead", "nohandle"}
HasLockfile(p) == Locked(p) \/ pc[p] \in {"write", "writenode"}

\* Labels and files fit the locking method in use.
MethodInv ==
  \A p \in Procs :
    /\ IF hardlinks THEN pc[p] \notin {"write", "writenode"} ELSE pc[p] # "stat"
    /\ (hardlinks /\ HasHandle(p)) \/ HasLockfile(p) => serial[p] # 0
    /\ pc[p] \in {"examine", "fstat", "unlink"} => exam[p] # NoIno

\* A process that has made the lock file still owns the name ...
OwnerInv == \A p \in Procs : HasLockfile(p) => lockname = Own(p)

\* ... and the name never belongs to anybody else.
LocknameInv ==
  lockname # NoIno =>
    LET q == lockname[1] IN
    lockname = Own(q) /\ (HasLockfile(q) \/ pc[q] = "stat")

\* The templates are exactly those of the handles in use.
TemplateInv ==
  /\ \A i \in templates : hardlinks /\ i = Own(i[1]) /\ HasHandle(i[1])
  /\ \A p \in Procs : hardlinks /\ HasHandle(p) => Own(p) \in templates

\* A file being examined is an existing or former one of another process, and
\* one found stale has no name left: its owner ran the cleanup.
ExamInv ==
  \A p \in Procs :
    /\ pc[p] \in {"examine", "fstat"} =>
         exam[p][1] # p /\ exam[p][2] <= serial[exam[p][1]]
    /\ pc[p] = "fstat" => lockname # exam[p] /\ exam[p] \notin templates
    /\ pc[p] # "unlink"

CleanInv == OwnerInv /\ LocknameInv /\ TemplateInv /\ ExamInv

IInv == TypeOK /\ MethodInv /\ (faults = 0 => CleanInv)

(* The inductive invariant behind RaceNeedsTwoCleaners, without hard links. *)

\* Nobody uses the file any more: its owner died with it or has a newer one.
Abandoned(i) == ~(HasLockfile(i[1]) /\ Own(i[1]) = i)

\* Files are existing or former ones, and one found stale is abandoned.
StaleInv ==
  /\ templates = {}
  /\ lockname # NoIno => lockname[2] <= serial[lockname[1]]
  /\ \A p \in Procs :
       /\ pc[p] \in {"examine", "fstat", "unlink"} =>
            exam[p][2] <= serial[exam[p][1]]
       /\ pc[p] \in {"fstat", "unlink"} => Abandoned(exam[p])

\* A lone cleaner removes the very file it found stale.
LoneCleanerInv ==
  /\ \A p, q \in Procs : pc[p] = "unlink" /\ pc[q] = "unlink" => p = q
  /\ \A p \in Procs : pc[p] = "unlink" => lockname = exam[p]

ExclInv ==
  TypeOK /\ MethodInv /\ StaleInv /\ (~overlap => OwnerInv /\ LoneCleanerInv)
=============================================================================
