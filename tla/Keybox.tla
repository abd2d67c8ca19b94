------------------------------- MODULE Keybox -------------------------------
(***************************************************************************)
(* The public key database as several gpg and gpgsm processes use it: the  *)
(* keybox file pubring.kbx with its backup "~" and ".tmp" names            *)
(* (kbx/keybox-update.c, keybox-search.c, keybox-file.c, keybox-init.c),   *)
(* and the keydb layer that locks it (g10/keydb.c, sm/keydb.c).            *)
(*                                                                         *)
(* A process runs one command at a time.  It registers the resource        *)
(* (creating the file if there is none, compressing it if nobody holds the *)
(* lock), then searches, locks and writes in the order the command's code  *)
(* does.  A writer copies the file to ".tmp" and renames twice, so for a   *)
(* moment the file has no name; a reader keeps the inode it opened.        *)
(*                                                                         *)
(* A file is the sequence of its blobs after the header blob, all of one   *)
(* size, so an offset is an index.  The lock file is the abstract lock     *)
(* that module Dotlock implements: a dead owner's lock can be taken over.  *)
(***************************************************************************)
EXTENDS Integers, Sequences

CONSTANTS
    Procs,         \* processes using the keybox
    Keys,          \* fingerprints
    Ops,           \* the commands the processes run, a subset of AllOps
    InitialFiles,  \* the keys in the file at the start; <<>>: there is no file
    MaxSessions,   \* bound: commands started in total
    MaxCrashes,    \* bound: processes killed
    MaxInodes      \* bound: inodes of the file system

Names == {"fname", "bak", "tmp"}
Inodes == 1..MaxInodes
NoInode == 0
NoProc == "none"
NoKey == "junk"
Fresh == 0                                  \* version of the initial blobs

\* Commands that lock the database before they search it: gpg --import and the
\* flag changes of gpgsm.
LockFirst == {"import", "setflags"}

\* Commands that search first, without a lock: gpg --edit-key and
\* gpg --delete-keys.
SearchFirst == {"edit", "keydelete"}

\* Key generation inserts a new key without any search.
AllOps == LockFirst \cup SearchFirst \cup {"generate"}

ASSUME OpsAssumption == Ops \subseteq AllOps /\ NoProc \notin Procs /\ NoKey \notin Keys

\* No key is twice in the file at the start.
ASSUME FilesAssumption ==
    /\ MaxInodes \in Nat \ {0}
    /\ \A file \in InitialFiles :
          file \in Seq(Keys) /\ \A i, j \in DOMAIN file : file[i] = file[j] => i = j

Junk == [key |-> NoKey, ver |-> Fresh, del |-> FALSE]

VARIABLES
    disk,       \* contents of the inodes
    dir,        \* the inode each name refers to
    lock,       \* the process owning the lock file
    hd,         \* the processes with their keydb handle
    sessions,   \* commands started so far; numbers the versions written
    crashes,
    unlocked,   \* history: a process went on without the lock it wanted
    misplaced   \* history: a process used an offset found in another file

vars == <<disk, dir, lock, hd, sessions, crashes, unlocked, misplaced>>

\* A process with no command running.  id: the number of its command; fp: the
\* file opened by a search; found: the offset of the blob found, or 0, and
\* base its version; src, new: the files open in blob_filecopy; fresh is a
\* history: found is in the current file.
Off == [pc |-> "off", op |-> "none", key |-> NoKey, id |-> 0, mode |-> "none",
        fp |-> NoInode, fresh |-> FALSE, found |-> 0, base |-> 0,
        src |-> NoInode, new |-> NoInode]

----------------------------------------------------------------------------
(* Reading and writing blobs. *)

Live(c, i) == i \in DOMAIN c /\ c[i] # Junk /\ ~c[i].del

\* A junk blob has a length below 5: the reader stops there with an error.
Readable(c, i) == \A j \in 1..i : c[j] # Junk

\* The first of some places, or 0.
First(places) ==
    LET first == {i \in places : \A j \in places : i <= j}
    IN  IF first = {} THEN 0 ELSE CHOOSE i \in first : TRUE

\* _keybox_read_blob at offset i: the first blob from there that is not deleted,
\* or 0 at the end of the file or on a short blob.
ReadBlob(c, i) ==
    LET j == First({l \in i..Len(c) : ~c[l].del})
    IN  IF j # 0 /\ c[j] = Junk THEN 0 ELSE j

\* keybox_search by fingerprint from the start of the file.
SearchFpr(c, k) ==
    First({i \in DOMAIN c : Live(c, i) /\ Readable(c, i) /\ c[i].key = k})

NewBlob(h) == [key |-> h.key, ver |-> h.id, del |-> FALSE]

\* Mutant: the old blob is copied too.
ReplacedTwice(c, off, b) == SubSeq(c, 1, off) \o <<b>> \o SubSeq(c, off + 1, Len(c))

\* Mutant: what follows the old blob is not copied.
ReplacedLast(c, off, b) == SubSeq(c, 1, off - 1) \o <<b>>

\* FILECOPY_UPDATE: copy up to the offset, skip one blob, write the new one and
\* copy the rest.
Replaced(c, off, b) ==
    LET j == ReadBlob(c, off)
    IN  SubSeq(c, 1, off - 1) \o <<b>> \o SubSeq(c, j + 1, Len(c))

\* The places of the blobs of file c that are not deleted, in their order.
Kept(c) ==
    {f \in UNION {[1..n -> DOMAIN c] : n \in 0..Len(c)} :
        /\ \A i, j \in DOMAIN f : i < j => f[i] < f[j]
        /\ {f[i] : i \in DOMAIN f} = {i \in DOMAIN c : ~c[i].del}}

\* What a writer puts into the temporary file.
NewContents(c, h) ==
    CASE h.mode = "insert" -> {Append(c, NewBlob(h))}
      [] h.mode = "update" -> {Replaced(c, h.found, NewBlob(h))}
      [] OTHER             -> {[i \in DOMAIN f |-> c[f[i]]] : f \in Kept(c)}

\* A file already in use under the name of the temporary file keeps what the
\* new contents do not cover.
Overlay(old, c) == c \o SubSeq(old, Len(c) + 1, Len(old))

\* An in-place write to the blob at an offset; behind the end of the file it
\* leaves a blob of length 0.
Patch(c, off, h) ==
    IF off \notin DOMAIN c THEN Append(c, Junk)
    ELSE IF c[off] = Junk THEN c
    ELSE IF h.op = "setflags" THEN [c EXCEPT ![off].ver = h.id]
    ELSE [c EXCEPT ![off].del = TRUE]

----------------------------------------------------------------------------
(* The file system.  Inodes without name and without user are free. *)

InUse(d, h) == {d[n] : n \in Names} \cup
               UNION {{h[p].fp, h[p].src, h[p].new} : p \in Procs}

FreeInodes == Inodes \ InUse(dir, hd)

FreeInode == CHOOSE i \in FreeInodes : TRUE

SetFiles(d, h, c) ==
    /\ dir' = d
    /\ hd' = h
    /\ disk' = [i \in Inodes |-> IF i \in InUse(d, h) THEN c[i] ELSE <<>>]

Exists(n) == dir[n] # NoInode

Init ==
    /\ \E file \in InitialFiles :
          /\ disk = [i \in Inodes |->
                       IF i > 1 THEN <<>> ELSE [j \in DOMAIN file |->
                           [key |-> file[j], ver |-> Fresh, del |-> FALSE]]]
          /\ dir = [n \in Names |-> IF n = "fname" /\ file # <<>> THEN 1 ELSE NoInode]
    /\ lock = NoProc
    /\ hd = [p \in Procs |-> Off]
    /\ sessions = 0
    /\ crashes = 0
    /\ unlocked = FALSE
    /\ misplaced = FALSE

Goto(p, pc) == [hd EXCEPT ![p].pc = pc]

\* Where a process goes on once the resource is registered.
Begin(h) == [h EXCEPT !.pc = IF h.op \in SearchFirst THEN "search" ELSE "lock",
                      !.mode = "none", !.src = NoInode, !.new = NoInode]

\* Where it goes on once lock_all has returned.
Locked(h) == [h EXCEPT
    !.pc = CASE h.op = "generate"  -> "access"
             [] h.op = "keydelete" -> "inplace"
             [] OTHER              -> "find",
    !.mode = IF h.op = "generate" THEN "insert" ELSE "none",
    !.fresh = h.op = "generate" \/ h.fp = dir["fname"]]

----------------------------------------------------------------------------
(* Starting a command. *)

Known(k) == \E i \in InUse(dir, hd) \ {NoInode} : \E j \in DOMAIN disk[i] : disk[i][j].key = k

\* A command starts with the quick test of maybe_create_keyring_or_box.  A new
\* key is known to nobody; nobody works on a key that is being generated.
Start(p, op, k) ==
    /\ hd[p] = Off
    /\ sessions < MaxSessions
    /\ IF op = "generate" THEN ~Known(k) /\ \A q \in Procs : hd[q].key # k
       ELSE \A q \in Procs : hd[q].key = k => hd[q].op # "generate"
    /\ sessions' = sessions + 1
    /\ hd' = [hd EXCEPT ![p] = [Off EXCEPT
                   !.pc = IF Exists("fname") THEN "compress" ELSE "create",
                   !.op = op, !.key = k, !.id = sessions + 1]]
    /\ UNCHANGED <<disk, dir, lock, crashes, unlocked, misplaced>>

\* Mutant: the file is created without looking for it.
MayCreateAlways == TRUE

\* A writer that died between its two renames has left both other files.
MayCreate == ~(Exists("bak") /\ Exists("tmp"))

\* maybe_create_keyring_or_box: the real test and the creation with the lock.
Create(p) ==
    /\ hd[p].pc = "create"
    /\ lock = NoProc
    /\ \/ /\ Exists("fname")
          /\ hd' = Goto(p, "compress")
          /\ UNCHANGED <<disk, dir>>
       \/ /\ ~Exists("fname") /\ ~MayCreate
          /\ hd' = Goto(p, "exit")
          /\ UNCHANGED <<disk, dir>>
       \/ /\ ~Exists("fname") /\ MayCreate
          /\ FreeInodes # {}
          /\ SetFiles([dir EXCEPT !["fname"] = FreeInode], Goto(p, "compress"),
                      [disk EXCEPT ![FreeInode] = <<>>])
    /\ UNCHANGED <<lock, sessions, crashes, unlocked, misplaced>>

\* The temporary file is created, or truncated if it is there.
TmpFile == IF Exists("tmp") THEN dir["tmp"] ELSE FreeInode

OpenFiles(p, mode) ==
    /\ Exists("tmp") \/ FreeInodes # {}
    /\ SetFiles([dir EXCEPT !["tmp"] = TmpFile],
                [hd EXCEPT ![p].pc = "write", ![p].mode = mode,
                           ![p].src = dir["fname"], ![p].new = TmpFile],
                [disk EXCEPT ![TmpFile] = <<>>])

\* keydb_add_resource compresses the keybox if it gets the lock at once and the
\* last run is three hours ago.
Compress(p) ==
    /\ hd[p].pc = "compress"
    /\ \/ /\ Exists("fname")
          /\ lock = NoProc
          /\ lock' = p
          /\ OpenFiles(p, "compress")
       \/ /\ hd' = [hd EXCEPT ![p] = Begin(@)]
          /\ UNCHANGED <<disk, dir, lock>>
    /\ UNCHANGED <<sessions, crashes, unlocked, misplaced>>

----------------------------------------------------------------------------
(* Searching and locking. *)

\* The file a search reads: the one that is open, else the one of that name.
SearchedFile(p) == IF hd[p].fp # NoInode THEN hd[p].fp ELSE dir["fname"]

\* keydb_search: the state of the handle after searching its key.
Searched(p) ==
    LET f == SearchedFile(p)
        off == IF f = NoInode THEN 0 ELSE SearchFpr(disk[f], hd[p].key)
    IN  [hd[p] EXCEPT !.fp = f, !.found = off, !.fresh = f = dir["fname"],
                      !.base = IF off = 0 THEN 0 ELSE disk[f][off].ver]

\* A search without a lock, then the user is asked.
Search(p) ==
    /\ hd[p].pc = "search"
    /\ SetFiles(dir, [hd EXCEPT ![p] = [Searched(p) EXCEPT
                         !.pc = IF Searched(p).found = 0 THEN "exit" ELSE "lock"]], disk)
    /\ UNCHANGED <<lock, sessions, crashes, unlocked, misplaced>>

\* keybox_lock, before the lock file is tried: a keybox that is not writable,
\* also one that has no name at this moment, is not locked at all.  A key
\* generation that sees no writable keybox just before (keydb_locate_writable)
\* gives up.
TryLock(p) ==
    /\ hd[p].pc = "lock"
    /\ \/ /\ Exists("fname") /\ lock # p
          /\ hd' = Goto(p, "take")
          /\ UNCHANGED unlocked
       \/ /\ ~Exists("fname") \/ lock = p
          /\ hd' = [hd EXCEPT ![p] = Locked(@)]
          /\ unlocked' = (unlocked \/ lock # p)
       \/ /\ ~Exists("fname") /\ hd[p].op = "generate"
          /\ hd' = Goto(p, "exit")
          /\ UNCHANGED unlocked
    /\ UNCHANGED <<disk, dir, lock, sessions, crashes, misplaced>>

\* Mutant: the lock is taken from a live owner.
TakeAlways(p) == TRUE

TakeWhenFree(p) == lock = NoProc

\* keybox_lock: dotlock_take waits for the lock.
TakeLock(p) ==
    /\ hd[p].pc = "take"
    /\ TakeWhenFree(p)
    /\ lock' = p
    /\ hd' = [hd EXCEPT ![p] = Locked(@)]
    /\ UNCHANGED <<disk, dir, sessions, crashes, unlocked, misplaced>>

\* The search after lock_all.  keybox_search_reset only rewinds a file that is
\* still open.  An import merges into the key it finds or inserts it.
Find(p) ==
    LET h == Searched(p)
        next == IF h.found = 0
                THEN IF h.op = "import" THEN <<"access", "insert">> ELSE <<"exit", "none">>
                ELSE IF h.op \in {"import", "edit"} THEN <<"access", "update">>
                     ELSE <<"inplace", "none">>
    IN  /\ hd[p].pc = "find"
        /\ SetFiles(dir, [hd EXCEPT ![p] = [h EXCEPT !.pc = next[1], !.mode = next[2]]], disk)
        /\ UNCHANGED <<lock, sessions, crashes, unlocked, misplaced>>

----------------------------------------------------------------------------
(* Writing. *)

\* The end of a copy: a compress run releases the lock and the command goes on;
\* the other writers are done.  The release does nothing either while the
\* keybox has no name.
CopyDone(p, d, c) ==
    IF hd[p].mode = "compress"
    THEN /\ SetFiles(d, [hd EXCEPT ![p] = Begin(@)], c)
         /\ lock' = IF d["fname"] = NoInode THEN lock ELSE NoProc
    ELSE /\ SetFiles(d, [hd EXCEPT ![p] = [@ EXCEPT !.pc = "exit", !.src = NoInode,
                                                    !.new = NoInode]], c)
         /\ UNCHANGED lock

\* keybox_insert_keyblock and keybox_update_keyblock close the files, then
\* blob_filecopy tests the access.
Access(p) ==
    /\ hd[p].pc = "access"
    /\ SetFiles(dir, [hd EXCEPT ![p].fp = NoInode,
                                ![p].pc = IF Exists("fname") THEN "copy" ELSE "exit"], disk)
    /\ UNCHANGED <<lock, sessions, crashes, unlocked, misplaced>>

\* blob_filecopy opens the source and creates the temporary file.  An insert
\* that does not find the file any more creates it in place.
Copy(p) ==
    /\ hd[p].pc = "copy"
    /\ \/ /\ Exists("fname")
          /\ OpenFiles(p, hd[p].mode)
       \/ /\ ~Exists("fname") /\ hd[p].mode = "insert"
          /\ FreeInodes # {}
          /\ SetFiles([dir EXCEPT !["fname"] = FreeInode], Goto(p, "exit"),
                      [disk EXCEPT ![FreeInode] = <<NewBlob(hd[p])>>])
       \/ /\ ~Exists("fname") /\ hd[p].mode = "update"
          /\ hd' = Goto(p, "exit")
          /\ UNCHANGED <<disk, dir>>
    /\ UNCHANGED <<lock, sessions, crashes, unlocked, misplaced>>

\* There is no blob to replace, a blob is unreadable, or nothing was compressed.
CopyFails(c, h) ==
    CASE h.mode = "update"   -> ReadBlob(c, h.found) = 0
      [] h.mode = "compress" -> ~Readable(c, Len(c)) \/ \A i \in DOMAIN c : ~c[i].del
      [] OTHER               -> FALSE

\* blob_filecopy and keybox_compress write the new contents and close the files.
\* A compress run removes the temporary file it has no use for.
Write(p) ==
    LET h == hd[p]
        c == disk[h.src]
    IN  /\ h.pc = "write"
        /\ \/ /\ CopyFails(c, h)
              /\ CopyDone(p, IF h.mode = "compress" THEN [dir EXCEPT !["tmp"] = NoInode]
                             ELSE dir, disk)
           \/ /\ ~CopyFails(c, h)
              /\ \E new \in NewContents(c, h) :
                   SetFiles(dir, [hd EXCEPT ![p].pc = "rename1", ![p].src = NoInode,
                                            ![p].new = NoInode],
                            [disk EXCEPT ![h.new] = Overlay(@, new)])
              /\ UNCHANGED lock
        /\ misplaced' = (misplaced \/ (h.mode = "update" /\ ~h.fresh))
        /\ UNCHANGED <<sessions, crashes, unlocked>>

\* rename_tmp_file: the file becomes the backup file.
Rename1(p) ==
    /\ hd[p].pc = "rename1"
    /\ \/ /\ Exists("fname")
          /\ SetFiles([dir EXCEPT !["bak"] = dir["fname"], !["fname"] = NoInode],
                      Goto(p, "rename2"), disk)
          /\ UNCHANGED lock
       \/ /\ ~Exists("fname")
          /\ CopyDone(p, dir, disk)
    /\ UNCHANGED <<sessions, crashes, unlocked, misplaced>>

\* rename_tmp_file: the temporary file becomes the file.
Rename2(p) ==
    /\ hd[p].pc = "rename2"
    /\ CopyDone(p, IF Exists("tmp") THEN [dir EXCEPT !["fname"] = dir["tmp"], !["tmp"] = NoInode]
                   ELSE dir, disk)
    /\ UNCHANGED <<sessions, crashes, unlocked, misplaced>>

\* keybox_delete and keybox_set_flags write into the file at the offset found.
InPlace(p) ==
    /\ hd[p].pc = "inplace"
    /\ SetFiles(dir, [hd EXCEPT ![p].pc = "exit", ![p].fp = NoInode],
                IF Exists("fname")
                THEN [disk EXCEPT ![dir["fname"]] = Patch(@, hd[p].found, hd[p])]
                ELSE disk)
    /\ misplaced' = (misplaced \/ ~hd[p].fresh)
    /\ UNCHANGED <<lock, sessions, crashes, unlocked>>

\* keydb_release and the end of the process, which removes its lock files.
Exit(p) ==
    /\ hd[p].pc = "exit"
    /\ SetFiles(dir, [hd EXCEPT ![p] = Off], disk)
    /\ lock' = IF lock = p THEN NoProc ELSE lock
    /\ UNCHANGED <<sessions, crashes, unlocked, misplaced>>

\* A process is killed.  The next process that wants its lock takes it over.
Crash(p) ==
    /\ hd[p].pc # "off"
    /\ crashes < MaxCrashes
    /\ crashes' = crashes + 1
    /\ SetFiles(dir, [hd EXCEPT ![p] = Off], disk)
    /\ lock' = IF lock = p THEN NoProc ELSE lock
    /\ UNCHANGED <<sessions, unlocked, misplaced>>

Step(p) ==
    \/ Create(p) \/ Compress(p) \/ Search(p) \/ TryLock(p)
    \/ TakeLock(p) \/ Find(p) \/ Access(p) \/ Copy(p) \/ Write(p)
    \/ Rename1(p) \/ Rename2(p) \/ InPlace(p) \/ Exit(p)

\* All commands of the instance have ended.  A command that can never go on is a
\* deadlock, so none waits for a lock that is not released.
AllEnded ==
    /\ sessions = MaxSessions
    /\ \A p \in Procs : hd[p] = Off
    /\ UNCHANGED vars

Next ==
    \/ \E p \in Procs :
          Step(p) \/ Crash(p) \/ \E op \in Ops, k \in Keys : Start(p, op, k)
    \/ AllEnded

Spec == Init /\ [][Next]_vars

----------------------------------------------------------------------------
(* Properties. *)

\* The database a user has: the file, or its backup while it has no name.
Database == IF Exists("fname") THEN disk[dir["fname"]]
            ELSE IF Exists("bak") THEN disk[dir["bak"]] ELSE <<>>

Versions(c, k) == {c[i].ver : i \in {j \in DOMAIN c : Live(c, j) /\ c[j].key = k}}

Commits(p) == hd[p].pc \in {"rename2", "inplace"} /\ hd'[p].pc = "exit"

\* A writer changes the key it was asked to change and no other one; compressing,
\* creating the file and the death of a process at any point change none
\* (keydb_update_keyblock, keydb_delete_keyblock, rename_tmp_file,
\* maybe_create_keyring_or_box).  This is so as long as the offset a writer uses
\* comes from the file it writes to and nobody went on without the lock.
OnlyOwnKey ==
    [][unlocked' \/ \A k \in Keys : Versions(Database, k) # Versions(Database', k) =>
          \E p \in Procs : Commits(p) /\ (hd[p].key = k \/ ~hd[p].fresh)]_vars

\* A writer changes the key it was asked to change and no other one, whatever
\* the other processes do between its search and its lock: "Update the keyblock
\* KB (i.e., extract the fingerprint and find the corresponding keyblock in the
\* keyring)".
UpdatesItsKey ==
    [][unlocked' \/ \A k \in Keys : Versions(Database, k) # Versions(Database', k) =>
          \E p \in Procs : Commits(p) /\ hd[p].key = k]_vars

\* gpg --import merges new data into the version of the key that is in the
\* database when the merged key is written: no update of another process is lost
\* between get_keyblock_byfpr_fast with lock and keydb_update_keyblock, if every
\* offset used was current (another one may leave a key twice in the file, of
\* which the search finds one).
ImportMergesLatest ==
    [][\A p \in Procs : Commits(p) /\ hd[p].op = "import" /\ ~unlocked' /\ ~misplaced' =>
          Versions(Database, hd[p].key) =
              IF hd[p].mode = "update" THEN {hd[p].base} ELSE {}]_vars

\* No sequence of commands stores a key twice, if every offset used was current
\* (the search of the import and the insertion are under one lock).
NoDuplicates ==
    \/ unlocked \/ misplaced
    \/ \A i, j \in DOMAIN Database :
           Live(Database, i) /\ Live(Database, j) /\ Database[i].key = Database[j].key => i = j

\* While the file has no name, also after a process died between its renames,
\* the backup and the temporary file are both there and complete: they differ in
\* deleted blobs and in one key at most (rename_tmp_file), if every offset used
\* was current.
Recoverable ==
    LET Differs(k) == Versions(disk[dir["bak"]], k) # Versions(disk[dir["tmp"]], k) IN
    \/ Exists("fname") \/ unlocked \/ misplaced \/ dir["bak"] = NoInode
    \/ /\ Exists("tmp")
       /\ \A k, l \in Keys : Differs(k) /\ Differs(l) => k = l
=============================================================================
