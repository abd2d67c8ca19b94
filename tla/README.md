# LCR in TLA+

LCR is a fork of GnuPG 2.5: a command line tool (`lcr`, the former `gpg`), its
S/MIME sibling, and a set of daemons that keep secret keys, public keys, smart
cards and network caches for them. The programs are sequential or cooperatively
threaded C code; what makes them hard to get right is what they share: files in
one home directory, one agent per user, one card per reader, one cache per
daemon.

This directory holds TLA+ models of those shared parts, the TLC configurations
that check them on small instances, and proofs of the main results that hold
for every instance.

## 1. The system

### 1.1 Programs and how they interact

- `lcr` (`g10/`) and `lcrsm` (`sm/`) do the work. Public keys come from keyring
  or keybox files opened directly, or from `keyboxd` over an Assuan socket.
  Secret key operations go to `gpg-agent`; keyserver and CRL lookups go to
  `dirmngr`.
- `gpg-agent` (`agent/`) keeps the private keys and a passphrase cache, asks the
  user through a `pinentry` process, and talks to `scdaemon` and `tpm2daemon`,
  which it starts on demand.
- `scdaemon` (`scd/`) owns the card readers. Several connections share one card
  and switch between its applications.
- `dirmngr` (`dirmngr/`) keeps CRLs, certificates and the state of keyservers.
- `keyboxd` (`kbx/`) keeps the public key database.
- All daemons use nPth: threads switch only when they block in a system call or
  in an `npth_` function, so code between two such points is atomic. In the
  models a step is such a stretch of code.
- Several processes meet in the home directory: `.lock` files serialise starting
  the agent, the trust database, the keyrings and the keyboxes.

### 1.2 Inventory

| Part | State | Operations | Where it is hard | What it should guarantee |
|---|---|---|---|---|
| `common/dotlock.c` | lock file, templates, list of handles | create, take (hard link or `O_EXCL`), wait, stale check, release, destroy, atexit | processes interleave at each system call; crashes leave files | one holder; no left-overs; timeouts are exact |
| `agent/cache.c` | items, two timer lists with deltas | put, get, flush, expiration, store hit | two delta queues, rounding, renewed items, late wake-ups | every secret with a limit is scheduled; none outlives its limit; none expires early |
| `agent/call-daemon.c`, `call-scd.c` | primary connection, per-session connections, in-use marks | start, reuse, unlock, reset, release | connections are shared between sessions; the daemon may die while a connection is in use | a connection has one user; a dead one is never handed out again |
| `agent/call-pinentry.c` | the pinentry lock, the popup thread | start, ask, unlock, watch | two threads use one context; cancellation while a request runs | one pinentry at a time; the lock is always released |
| `agent/trustlist.c` | table of trusted roots | read, ask and append, reload | table freed by a reload while it is in use | table in use is never freed |
| `agent/findkey.c` | private key files | write, rename, delete | crash between write and rename | the old or the new file survives |
| `agent/gpg-agent.c` | connections, `shutdown_pending`, the socket check | accept, handle, SIGTERM, SIGHUP, ticks | shutdown while connections are open | the agent stops only when idle, and does stop |
| `kbx/keybox-update.c`, `g10/keyring.c` | the file, its backup and temporary copy | insert, update, delete, compress | copy, backup and rename may each fail or be cut off by a crash | the key database is never lost |
| `g10/keydb.c` | resources, locks, the search state, the keyblock cache | search, read, update, insert, delete | cached keyblock after an update; locks over several files | what is read is what was stored |
| `g10/tdbio.c` | cache of records, the file with hash table, lists and free list | read, write, new, delete, sync | the lock covers writing only; cache limits; half-written changes | what was synced is found again; a record has one use |
| `g10/trustdb.c` | validity of user ids, ownertrust | validate, mark stale, update | breadth-first levels of the web of trust; thresholds | validity is what the definition of the trust model says |
| `g10/tofu.c` | the TOFU database, nested transactions | begin, end, savepoints, register, policy | lazy commits against other processes | every begin has its end; nothing is lost |
| `g10/objcache.c` | caches of user ids and names | put, get, evict | reference counts, eviction while in use | no use after free |
| `kbx/backend-cache.c` | cached blobs and keys | put, lookup, invalidate, not-found marks | stale entries after deletion | the cache agrees with the database |
| `kbx/backend-sqlite.c`, `frontend.c`, `kbxserver.c`, `keyboxd.c` | SQL transactions, search requests | store, search, delete, transaction | a transaction held by a connection that vanishes | transactions end; searches continue where they stopped |
| `scd/app.c`, `command.c` | cards, applications, reference counts, sessions | open, switch, release, reset, removal | card removed while in use; switch of applications between two commands | an application is freed when unused, never before |
| `scd/apdu.c`, `ccid-driver.c` | reader slots | open, connect, transmit, close | hardware protocols | not modelled (below) |
| `dirmngr/crlcache.c` | index of CRL files, open databases, reference counts | load, insert, look up, invalidate, sweep | entry replaced while a database is open | a revoked certificate is never reported valid |
| `dirmngr/certcache.c` | certificates by fingerprint, trust classes | put, get, evict, clear | limits; permanent entries | permanent entries stay |
| `dirmngr/ks-engine-hkp.c` | host table, dead marks, pool selection | map, mark dead, select, housekeeping | table slots reused; resurrecting hosts | a dead host is not selected until its time |
| `dirmngr/domaininfo.c`, `workqueue.c`, `ldap-wrapper.c`, `crlfetch.c`, `ocsp.c`, `loadswdb.c` | small tables, queues, helper processes | insert, run, reap | queue run while it is filled | nothing lost or run twice |
| `common/iobuf.c` | filter chain, buffers | push, pop, read, write, peek, limits | end of file through several filters | bytes come out in order, none lost |
| `common/exectool.c` | pipes and copy buffers of a child | read, write, poll, close | two pipes, partial writes, end of file | all data is copied, no deadlock |
| `common/asshelp.c` | agent start-up lock | connect, lock, spawn, wait | two clients start the agent at once | one agent |
| `common/session-env.c`, `gettime.c`, `recsel.c`, `name-value.c`, `stringhelp.c`, `mbox-util.c`, `percent.c`, `zb32.c`, ... | none or local | pure functions | boundaries, escapes | inverse functions, reference definitions |
| `agent/protect.c`, `sexp-secret.c`, `g10/cipher*.c`, `ecdh.c`, `pkglue.c`, `seskey.c`, `common/kem.c` | none | cryptography and encodings | numeric | out of reach of a model checker |
| `g10/` packets, key generation, import, export, key edit, listing | keyblocks in memory | parse, build, merge, clean | data formats | later, where an algorithm can be isolated |
| `sm/` | certificate chains | validate, sign, encrypt | chain building with retries | later |
| `tools/`, `g13/`, `tpm2d/`, `regexp/`, `dirmngr/dns.c`, `http.c` | various | various | I/O, protocols of others | not modelled |

The hazards found in this survey are listed, each at its source line, under
`hazards` in `PROJECT.json`, with the properties that cover them or the reason
why none does.

## 2. Plan

Most important first. Parts 1 to 7 exist; the rest is the order of work.

1. `Lock`, `Dotlock`, `DotlockWait`: every shared file depends on these locks.
   Proofs.
2. `AgentCache`: the life of a secret in the agent.
3. `DaemonConn`: connections of the agent to `scdaemon` and `tpm2daemon`.
4. `Keybox`: the public key file under several processes and crashes.
5. `TrustDB`: the record file with a write-back cache.
6. `CardApp` (`scd/app.c`, `scd/command.c`): reference counts of cards and
   applications, application switches between commands, card removal while a
   session waits for the card lock.
7. `AgentStart` (`common/asshelp.c`, `agent/gpg-agent.c`): clients that start the
   agent, the life of its socket, shutdown.
8. `Pinentry` and `TrustList` (`agent/call-pinentry.c`, `agent/trustlist.c`): lock
   recursion, the popup thread, reload while the table is in use.
9. `KeyFiles` (`agent/findkey.c`) and `Keyring` (`g10/keyring.c`): write and
   rename with crashes, as variants of `Keybox`.
10. `KeyCache` (`kbx/backend-cache.c`) and `CrlCache` (`dirmngr/crlcache.c`): each
    checked against an abstract map that it must refine.
11. `HostTable`, `WorkQueue`, `DomainInfo` (`dirmngr/`): tables and queues at
    their limits.
12. `IOBuf` and `ExecTool` (`common/`): byte streams against the plain sequence
    they must deliver.

Compositions: `Lock` is the abstract lock that `Dotlock` implements and that
`AgentStart` uses. `Keybox` and `TrustDB` keep their own variable for the owner,
with the same promise. Next is a `Keybox` with two resources, for the order in
which `lock_all` takes its locks.

Theorems: parts 1 to 4, 6 and 7 are proved, each from one inductive invariant
(section 6). `TrustDB` uses recursive operators over lists of records and stays with
TLC. Next are the refinements of part 10.

## 3. Modules

A step of a model is what the code does without another party being able to
interfere: a system call on a shared file for processes, a stretch of code under a
lock or between two points where nPth may switch for threads. History variables
are marked as such in each module; actions read one at most to keep to a bound.
Definitions whose comment begins with "Mutant" are wrong on purpose: each stands for a plausible mistake in
the definition after it, and no specification uses them.

**Lock** is what a lock file promises: a process gets the lock while nobody has it,
and keeps it until it gives it back or dies. The promise may be broken once.
`Dotlock` implements it with the holders as those who believe to have the lock;
`broken` is the first fault (`LockUntilFault`) or the first overlap of two cleaners
(`LockUntilRace`).

**Dotlock** models the POSIX part of `common/dotlock.c`. `pc` follows the labels of
`dotlock_create`, `dotlock_take_unix`, `dotlock_release` and `dotlock_destroy`; a
file is identified by the process that created it and a serial number, `templates`
and `lockname` are the directory, `content` how much of pid and node name has been
written. `Link`, `Stat`, `OpenExcl`, `WritePid`, `WriteNode`, `ReadLockfile`,
`Examine`, `Fstat` and `UnlinkStale` are one system call each. `Crash` leaves all
files behind, `Exit` runs the cleanup handler first. `StatFails`, `OpenExclFails`
and `WriteFails` are the error paths. The new process of a slot has the pid of the
old one, which covers reuse of pids. The Windows part is left out.

**DotlockWait** is the waiting of one call: `next_wait_interval` in milliseconds, the
reset of the interval when the owner changes, the last sleep cut to what is left of
the timeout, attempts that are repeated at once because the lock file was stale or
has vanished, cancellation and failure.

**AgentCache** is `agent/cache.c`: the list of items, the timer list as a delta queue
with its base `abstime`, the second list `the_timer_list_new`, and the operations
`Put`, `Clear`, `Get`, `Flush` and `agent_cache_expiration`, each under `cache_lock`
and therefore one step. The clock counts fractions of a second, as the rounding in
the queue is part of what can go wrong. `LoopFirst` selects whether the loop runs
before any other thread once it is kicked. History variables: `due` is the time at
which an item ought to expire, `front` the number of insertions before it, `late` the
rounds in which the loop was late for it; `read` tells whether an item was last used
before, in or after the second in which its maximum lifetime ends.

**DaemonConn** is `agent/call-daemon.c`: `daemon_start` with its ways to get a context
(own, primary, socket, new daemon), the retry of a session that needs a socket,
failures after the fork, `daemon_unlock`, the reset of a session,
`wait_child_thread` and `agent_kill_daemon`. Contexts are numbered and have a life
(unused, open, released), so that use after release and leaks are visible. What a
session does under `start_daemon_lock` is one step. The waiting thread holds that lock
through many: `assuan_release` talks to the daemon and lets other threads run, so
`WaitBegin`, `WaitSession` and `WaitForget` for each session, `WaitPrimary` and `WaitEnd`
are steps, between which a session may take up its own context, for which
`daemon_start` asks for no lock. The history variable `caught` is the sessions that did
so while that context was being released. `agent_kill_daemon` uses the primary context
without the lock (`KillBegins`, `KillEnds`).

**Keybox** is a keybox file with its backup and temporary names, used by processes
that run one command each: import (lock, search, write), edit and delete (search
without a lock, then lock and write), flag changes and key generation, in the order
the code of `g10/` and `sm/` does them. Each access to the file system is a step;
an inode stays readable while it is open. Blobs have one size, so a file offset is
an index. Deleting and changing flags write in place, other changes copy to the
temporary file and rename twice, and starting a command may compress the file.
`Kept` and `First` say which blobs compression keeps and which one a search finds,
by what they are and not by a loop, so that they can be reasoned about.

**TrustDB** is the record file of `g10/tdbio.c` with the commands of `g10/trustdb.c`
and `g10/tdbdump.c`: setting and clearing an ownertrust, an import line by line, and a
check of all keys that ends, or is given up by the user. A command takes many steps,
because the code locks the file only while it writes: the search for the key, reading
the version record and the end of the file for a new record, taking the free record or
appending a blank one, the search for the place in the hash table, each record put into
the cache, the mark for the next check, and each record that a sync writes. `at` is the
next step, `todo` what is still to be put, `basis` the records the command relies on.
The cache keeps its order, its soft limit and its two ways of making room. A process
may die between any two steps. When another process has written a record of the
`basis` or of the cache and the process goes on, the history variable `stale` is set;
when one reads, or leaves behind, half of a change, `torn` is. `tdbio_delete_record` has no
caller, so free records are there only at the start, as in a database written by an
older version.

`Keybox` and `TrustDB` use the lock as `Dotlock` provides it: one owner, and a dead
owner's lock can be taken.

**CardApp** is `scd/app.c` with the commands of `scd/command.c` that choose, use and
give back a card. A session's command goes through `card_list_r_lock`, the card's
mutex, selection and operation; the status loop takes the write lock, notices cards
that were reset or pulled out, and clears the `card_ctx` of their sessions. `list` is
`card_top`, `card[c].apps` the card's list of applications whose head is the current
one, `phys` what the card itself has selected. A reader stands for its card. A card
is not put back before the loop has seen it go, and the second that `card_reset`
sleeps is long enough for the kicked loop to ask for the write lock.

**Lists** is removal from a linked list as `CardApp` does it, when a card's list is
reordered and when cards are freed.

**AgentStart** is `start_new_service` of `common/asshelp.c` for several clients, and the
socket of `agent/gpg-agent.c` from bind to cleanup. `client` follows the attempts to
connect, the spawn lock (an instance of `Lock`) and the wait; `agent` goes through
bind, check for a running agent, removal of a dead one's file, listen, watch, loop
and cleanup. `connect` succeeds as soon as somebody listens; the client then waits for
a greeting, which only an accepted connection gets. A round of the main loop (`Loop`)
looks at `shutdown_pending` and at the number of connections first and then sleeps
until an event: a connection, a signal, the watch on the socket, or a timer of the
cache (`Kick`, which need not come). `path` is the process whose
socket has the name. Stops (SIGTERM, KILLAGENT, kill) and odd events (an agent
started by hand, the file removed by hand, a client that loses patience while an
agent is starting) are bounded. The model is of systems with inotify, where the
polling check of the own socket is not started.

## 4. Runs

| Run | Module, instance | Checks | Distinct states |
|---|---|---|---|
| `dotlock` | `Dotlock`: 3 processes on one node, hard links or `O_EXCL`, 1 template each, 1 fault | `TypeOK`, `MutexWithoutFaults`, `CleanExit`, `RaceNeedsTwoCleaners`, `StaleLockRemoved`, `LockUntilFault`, `LockUntilRace` | @dotlock@ |
| `dotlock_window` | the same with 2 templates each | `FstatSeesRemoval` fails | counterexample |
| `waiting` | `DotlockWait`: two owners, several timeouts, the largest jitter; `AgentStart`: 2 clients, 3 agents, 1 stop, 1 odd event | `SleepsExactlyTimeout`, `TimedTakeReturns`, `SocketKept`, `ClientServed`, `OrphansEnd` | @waiting@ |
| `start_shutdown` | `AgentStart`: 1 client, 2 agents, 1 stop | `ShutdownEnds` fails | counterexample |
| `cache` | `AgentCache`: 2 keys, 2 items, modes user and pin, default timeout or none, 6 ticks of half a second, loop at most 1 late | `TypeOK`, `TimersAccurate`, `SecretsHaveTimers`, `MaxLifetime`, `PinsDoNotExpire` | 436,065 |
| `cache_lost` | the same code when other threads may run before the kicked loop | `SecretsHaveTimers` fails | counterexample |
| `daemon` | `DaemonConn`: 2 sessions, 3 contexts, 2 daemons, all faults | `TypeOK`, `OneUser`, `NoUseAfterRelease`, `NoDeadContext`, `NoLeak`, `PrimaryOpen`, `DeadDaemonForgotten` | @daemon@ |
| `keybox` | `Keybox`: 2 processes, 2 keys, all 5 commands, 3 commands in all, 1 crash | `NoDuplicates`, `Recoverable`, `OnlyOwnKey`, `ImportMergesLatest` | @keybox@ |
| `keybox_stale` | import and delete, no crash | `UpdatesItsKey` fails | counterexample |
| `trustdb` | `TrustDB`: 2 processes, 3 keys in one hash slot, 3 changes, 1 crash | `TypeOK`, `Durable`, `ReadOwnWrites`, `NeverInvalid`, `OneUse`, `CheckDue` | @trustdb@ |
| `cards` | `CardApp`: 2 sessions, a token with two applications and a card with one, 14 commands, 3 commands in all, one card pulled out | `RefCounts`, `CardsLive`, `SameCard`, `SelectedApp`, `LockHasOwner` | @cards@ |
| `cards_null` | the same, no card pulled out | `SerialnoHasCard` fails | counterexample |

`waiting` puts two independent components side by side: in each behaviour one of
them has ended at the start, so that the other one has all the states to itself.

What the passing runs show:

- **Locks.** As long as nothing crashed and no system call failed, at most one
  process has the lock, whatever the interleaving of system calls
  (`MutexWithoutFaults`), and a process that ends normally leaves nothing behind
  (`CleanExit`). With hard links the lock of a dead process is removed as long as a
  process of the same node keeps trying (`StaleLockRemoved`); that includes the
  lock file of a process whose `stat` failed after its `link`, a failure that the first
  two properties except. Without hard links exclusion is lost after a fault only if two processes were about to
  remove a stale lock at the same time (`RaceNeedsTwoCleaners`). Until then the
  protocol implements the abstract lock (`LockUntilFault`, `LockUntilRace`). A timed
  wait sleeps for exactly its timeout and returns, unless it finds the lock file stale
  or gone at every look, which costs no time.
- **Start-up.** Clients that find no agent do not make two agents fight for the
  socket (`SocketKept`), unless something odd happened. With an agent stopped or killed
  at any point, whoever wants to connect is served or gives up (`ClientServed`): a
  queue that nobody accepts from ends with its agent, and a stale socket file is
  replaced. An agent that lost its watched socket ends and leaves its successor's
  socket alone (`OrphansEnd`); exempt is one that lost it before it began to watch
  (`blind`; section 7). Both properties except an agent that sleeps although it could
  end (`Overslept`), which is what `start_shutdown` shows.
- **Cache.** Timers keep the time to the rounding of the delta queue, PINs are not
  expired by a timer of their item's earlier life, and no limited secret is without
  a timer, *provided the kicked loop runs before another client does*. Reads do not
  keep a secret beyond the maximum lifetime (`MaxLifetime`): one read in the very
  second in which that lifetime ends gets one ttl more, or none if it has no ttl
  (section 7), and one read after it, while the loop is late, expires at once.
- **Daemon connections.** With the daemon dying at any moment, a context has one
  session that uses it (`agent_kill_daemon` is not counted) and is not released twice. A
  session uses a released one only if it took it up in the moment in which the
  waiting thread was releasing it (`caught`), `agent_kill_daemon` only after the daemon's
  end. A context of a daemon whose end has been dealt with is not used again; contexts are not lost, apart from
  the primary one that a session gives up to retry with a socket, which
  `NoLeak` names. `NoDeadContext` and `PrimaryOpen` speak of daemons for which the waiting
  thread was started: if creating it fails nobody notices the end.
- **Keybox.** Through renames, in-place writes, compression and one crash at any
  point, no key is stored twice, a writer changes only the key of its command, the
  backup and the temporary file are complete whenever the keybox has no name, and an
  import merges into the latest version. Exempt are two things the code does not
  prevent: a process went on although `keybox_lock` had not taken the lock (`unlocked`),
  and a writer used an offset found in a file that was replaced meanwhile (`misplaced`,
  for one writer `fresh`; section 7).
- **Trust database.** What was synced is found again, through evictions, growth of
  hash lists, reuse of free records, checks that are given up, and deaths before the
  first write; no operation finds the database invalid, and no record has two uses.
  Exempt are states after a process went on with a record that another one had changed
  (`stale`) or half a change was read or left in the file (`torn`): there the code does
  lose entries, because its lock covers writing only. So the run shows that these are
  the only ways to lose something. A check of the keys stays due after an ownertrust
  change unless a check ran at the same time (`overtaken`).
- **Cards.** Through selections, switches, resets, restarts and a card pulled out at
  any point, reference counts are exact, no card context is freed under a session
  that refers to it or waits for it, a session's operations stay on the card it
  began with until it asks for another one, and run in the session's application. The
  lock of LOCK never outlives its session (`LockHasOwner`). That an operation of another
  session does not run meanwhile is not claimed (section 7). Exempt in `SelectedApp` is a card on which a lookup for another session left
  another application selected (`left`; section 7).

Every property has a mutant: a variant of one mapped definition with a plausible
mistake, under which TLC finds the property violated.

## 5. Bounds and fairness

Every bound is a constant named in the module that uses it.

- `Dotlock`: three processes are an owner and two contenders, which the races on a
  stale lock need. One template per slot suffices for the safety of one
  generation; the window needs a second generation, hence `MaxInodes` 2 there. One
  fault is the owner that dies, after which the other two meet at its file. The
  theorems of section 6 hold for all values.
- `DotlockWait`: two owners alternate, so the reset of the interval happens; the
  timeouts include never, no wait, values below, at and between the intervals.
- `AgentStart`: two clients contend for the spawn lock; three process ids let a
  new agent start while an old one ends and a third is started by hand. One stop and
  one odd event are each possible at every point.
- `CardApp`: three commands are one that opens a card (or a LOCK), one that interferes
  and one that sees the result; a removal needs one unplugging.
- `AgentCache`: two items are enough for an insertion before, behind and at the
  same second as another timer. Two ticks per second give the fractions. The maximum
  lifetime is two seconds, so six ticks let an item be read before, in and after the
  second in which it ends.
- `DaemonConn`: two sessions share; three contexts and two daemons allow a daemon's
  death with both sessions connected and a second daemon. When the bound on contexts is reached, sessions can
  still end and be reset.
- `Keybox`: three commands are a victim, an interferer and a third that finds the
  remains of a crash. Six inodes are never exhausted by three commands.
- `TrustDB`: a cache of two records overflows in every insertion; hash lists of two
  entries and three keys in one slot force a list to grow; zero or two free records
  at the start cover appending, reuse and the change between them, and one of the
  initial databases has a key already. A constraint ends the exploration at exempt
  states. With four changes the same properties hold (2,622,715 states); that takes too
  long for a routine run.

Symmetry is used only in runs without liveness properties. Deadlock is checked except where the
system may come to rest: `DotlockWait` (the call returned), `AgentCache` (the clock
bound), `AgentStart` (all clients have left) and `TrustDB` (the number of operations).

Fairness is stated per component. `Dotlock`: weak fairness of the steps inside
`dotlock_take` (`TakeStep`), as the operating system schedules a running process; not of
starting, releasing, giving up or failing. `DotlockWait`: weak fairness of the loop's
next step, since each sleep ends. `DaemonConn`: weak fairness of `WaitStep`, since
the waiting thread is woken by the process's end and whoever has the daemon lock
gives it back when its attempt to start or connect returns. `AgentStart`: weak fairness of each
client, each agent's main thread and each new connection thread, which the operating
system and nPth schedule when they can go on; a client's session and its eight
seconds of waiting end. Not fair are signals, crashes, odd events and a `Kick` of the
main loop: nothing promises that a timer or a signal comes. `AgentCache`,
`Keybox`, `TrustDB` and `CardApp` have safety properties only.

## 6. Proofs

The proofs are in modules of their own and are checked by TLAPS. Each theorem holds
for every value of the constants that the named assumption of its module allows: any
number of processes, sessions, clients, items or keys, and any bounds. The assumptions
give the constants their types and keep the special values (no process, no file, no
key) apart from the others; where one says more it is named below.

| Module | About | Theorems that state a property of a run |
|---|---|---|
| `DotlockProofs` | `Dotlock`, `DotlockWait` | `TypeCorrect`, `MutualExclusion`, `CleanupComplete`, `OnlyRace`, `ImplementsLock`, `ImplementsLockUntilRace`, `TimeoutKept` |
| `DaemonConnProofs` | `DaemonConn` | `Typing`, `SingleUse`, `OpenWhileUsed`, `DeadNotReused`, `ContextsKept`, `PrimaryIsOpen` |
| `AgentStartProofs` | `AgentStart` | `SocketIsKept` |
| `CardAppSteps`, `CardAppProofs` | `CardApp`, `Lists` | `ReferencesCounted`, `UsedCardsKept`, `OneCardPerClient`, `ApplicationSelected`, `LockGivenBack` |
| `KeyboxProofs` | `Keybox` | `KeysAreUnique`, `FilesAreRecoverable`, `OnlyOwnKeyChanges`, `ImportsMergeTheLatest` |
| `AgentCacheTimers`, `AgentCacheProofs` | `AgentCache` | `ListsAreSound`, `QueueIsAccurate`, `LifetimeIsLimited`, `SecretsAreTimed`, `PinsAreKept` |

In each of them `IInv` is the inductive invariant, and its proof has one step or lemma
per action. TLC checked the invariants on small instances before they were proved (for
`AgentCache` with the sums of the deltas in place of the schedule).

### 6.1 Locks

`DotlockProofs` proves six theorems about `Dotlock`, for any set of
processes and nodes, any placement, either locking method and any bounds. The only
assumption is `DotlockAssumption`: the constants have their types, and `NoIno` is not a
file.

- `TypeCorrect`: `TypeOK` always holds.
- `MutualExclusion`: `MutexWithoutFaults` always holds.
- `CleanupComplete`: `CleanExit` always holds.
- `OnlyRace`: without hard links `RaceNeedsTwoCleaners` always holds, crashes
  included.
- `ImplementsLock`: `LockUntilFault`, that is `Dotlock` implements `Lock` with
  `broken` standing for the first fault.
- `ImplementsLockUntilRace`: `LockUntilRace`, the same without hard links and with
  `broken` standing for the first overlap of two cleaners.

Mutual exclusion is not inductive: a step of a process that is about to unlink a
stale file can only be judged if one knows what that file is. The invariant `IInv`
adds `MethodInv` (which labels and files go with which method) and, while no fault has
occurred, `CleanInv`: who believes to have the lock is the one whose file has the lock
name (`OwnerInv`); the lock name and the templates belong to live processes with a
handle (`LocknameInv`, `TemplateInv`); and a file under examination whose owner is
gone has no name left (`ExamInv`), so that `fstat` reports it and the process starts
over. `CleanStep` has one step per action. With it the stale-lock path ends before its
`unlink` when nothing went wrong.

`OnlyRace` needs another invariant, `ExclInv`, since after a crash stale files do exist:
a file judged stale is abandoned for good (`StaleInv`), and until two cleaners overlap
the lone cleaner's file still has the lock name when it is unlinked (`LoneCleanerInv`).
With hard links this fails, which is what run `dotlock_window` shows.

The two refinements use these invariants: a step that adds a holder while the promise
stands is an `Acquire` because the invariant, in the state after it, says that the
holder is alone; every other step is a `Release`, a `Break` or a stutter.

`TimeoutKept` is `SleepsExactlyTimeout` for every set of timeouts and owners, every
jitter and any number of looks. The invariant `WaitInv` adds that a timeout that is not
positive never changes; the lemma `SleepFits` says that `next_wait_interval` returns a
positive time of at most what is left.

### 6.2 Connections to the daemons

The theorems are the six invariants of the run, for any number of sessions, contexts
and daemons and with every fault. What they need besides each other: the context of a
session is open unless the waiting thread is releasing it, and only a session that was
given the primary one and needs a socket wants the lock while it has one (`LocalOpen`);
a context marked invalid is in use and no longer the primary one (`InvalidInUse`); the
primary context was created, waits for a session or belongs to one, and is not that of
a daemon whose end was dealt with (`PrimaryKnown`, `PrimaryHeld`); contexts not yet
created have no daemon (`Fresh`). `InvalidInUse` is why `daemon_unlock` may drop the
context it finds. Because the sessions run between the steps of the waiting thread,
the invariant also says how far that thread is: the daemon of the primary context is
the only one waited for (`OneWaiter`), the sessions visited so far have an invalid
context and one context is released at a time (`Waiting`), and the context of `agent_kill_daemon` is the primary one while its daemon runs
(`KillerPrimary`).

### 6.3 Start of the agent

`SocketIsKept` is an action property. While nothing odd has happened there is one
agent at most and it has the socket from bind on (`OneAgent`). This is kept by a new
client because whoever starts an agent has the spawn lock (`LockHeld`) and has found
no agent while it had it, and because the client that started one waits for it with
the lock (`StartsAwaited`). `Connections` ties a connection to a process that listens,
so that an end of file tells a client that the agent is gone. `PartiesAssumption`
keeps clients and agents apart.

### 6.4 Cards

The invariant follows a command: while it holds the list its card is in the list
(`Place`), the card of a session's first operation stays its card until it is told of
the removal (`First`), an operation has the card's mutex and the session's application
at the head of the card's list (`Owner`), and a session that ended does not have the
lock (`Locker`): whatever happened to its card, the last thing its connection does
passes `Unlock`. `Usable` says that a card of the list has
selected its first application unless a lookup or an APDU changed that. The reference
counts are cardinalities, so `CardAssumption` asks for finitely many sessions; it also
says that every card has an application. The removal from a list (`Lists`) is defined
by a recursive function; what it returns is proved from its values at the smallest
place where the claim would fail.

### 6.5 Keybox

`IInv` promises nothing once a process went on without the lock. Until then `Good`
says of each process: what it found in its open file still is there (`Reader`: blobs
are marked deleted in place, never moved within a file); at the labels where it writes
it has the lock, and the names and the temporary file are as it left them (`Holder`);
the temporary file is what its command makes of the database (`Writer`, `Made`), which
between the renames is the backup; a generated key is nowhere before it is written
(`Generator`). `Files` says that the temporary file is nobody else's, and that after a
crash between the renames both other names exist. `Clean`, that no key is stored twice
and a lost name can be recovered, is claimed only while every offset used was current
(not `misplaced`); a delete with an old offset is what run `keybox_stale` shows, and
without this condition neither `KeysAreUnique` nor `ImportsMergeTheLatest` would hold.
`FilesAssumption` says that no key is twice in the file at the start.

### 6.6 Passphrase cache

`AgentCacheTimers` proves what each operation on the timer lists does to the times at
which the timers run out. The deltas are sums from the head of the list; instead of
the sums the invariant uses a schedule, a function `w` that gives each timer the time
it runs out, of which each delta is a difference (`Schedule`). Removal leaves the
schedule of the others as it was (`remove_from_timer_list` adds the delta to the next
entry); insertion at the head moves it by at most half a second; insertion further
down leaves it; a late round of the loop moves it by the lateness. At the end
`RunOut` shows that the sums are the schedule.

`AgentCacheProofs` has the invariant: no item is in a list twice or in both, the
timers in the list are punctual within what `TimersAccurate` allows, the new ones were
started since the loop was kicked (`Timely`, by `Queue`), and whatever is in a list is
an item in use and no PIN (`Held`). The clock rate, the lateness of the loop and the
ttls are arbitrary; `CacheAssumption` has only types. `SecretsAreTimed` assumes
`LoopFirst`; without it the code loses timers (`cache_lost`). The loops over the list
of new timers and over the cache (`InsertUpTo`, `FlushUpTo`) are recursive functions;
the lemmas about them look at the first round after which the claim would be wrong.

### 6.7 What is only model-checked

- The five liveness properties (`StaleLockRemoved`, `TimedTakeReturns`,
  `DeadDaemonForgotten`, `ClientServed`, `OrphansEnd`), which are beyond this prover.
- `TrustDB`: `TypeOK`, `Durable`, `ReadOwnWrites`, `NeverInvalid`, `OneUse`, `CheckDue`. Its
  operations follow lists of records in the file by recursive operators, and what they
  reach is the point of the properties; a proof would be an induction over those lists
  for every command.

## 7. Where code and text disagree

- `common/dotlock.c:1399`: the comment says the check notices that the file was
  unlocked during the examination. With hard links the template of a killed owner is
  another name of the same file, so the link count does not drop to zero and the
  process goes on to unlink a lock file it did not examine (`dotlock_window`).
- `agent/cache.c:288`: `remove_from_timer_list` clears the `next` pointer of an entry
  even if it is in the list of new timers, and the entries behind it lose their
  timer. Two clients that come before the kicked loop are enough (`cache_lost`).
- `g10/keydb.c:1569`: `keydb_delete_keyblock` takes the lock after the search and uses
  the offset of that search, also if another process has compressed the file in
  between (`keybox_stale`).
- `scd/command.c:282`: `open_card_with_request` selects a card and then asks for it
  again without looking at the result. If the main loop has taken the card from the
  session in between, SERIALNO goes on with no card and no error (`cards_null`).
- `agent/gpg-agent.c:2865`: the thread of a connection counts `active_connections` down
  and ends without waking the main loop, which looks at the counter only at its head.
  An agent that got SIGTERM during its last request stays until another event, while
  `doc/gpg-agent.texi:964` says that it "waits until all current requests are fulfilled"
  (`start_shutdown`).

Met while modelling, and kept in the models as the code does it:

- `agent/cache.c:352`: an expiration of 0 means both "in this second" and "no
  maximum". An item read in the second in which its maximum lifetime ends gets its
  full ttl again, or, with no ttl, loses its timer, while `doc/gpg-agent.texi:423` says
  that it expires "even if it has been accessed recently". `SecretsHaveTimers` and
  `MaxLifetime` name this case.
- `common/dotlock.c:1455`: the interval is to start anew when the owner changes. As
  `lastpid` keeps the first owner, every look at a later owner counts as a change.
- `common/asshelp.c:285`: the comment that timeouts are not supported by the lock is
  outdated; they are, and are exact (`TimeoutKept`).
- `agent/gpg-agent.c:2289`: between bind and listen an agent looks dead. A second one
  started by hand takes its socket. If the first one has not reached the watch on
  the file it never notices, stays without clients, and removes the other one's
  socket when it ends.
- `scd/command.c:231`: `open_card` looks at the lock of another session once, before the
  command waits for the list and the card, and KEYINFO does not look at all. So an
  operation may run on the card after LOCK has granted another session what
  `scd/command.c:1780` calls "exclusive card access".
- `agent/call-daemon.c:132`: `wait_child_thread` clears the pointer to a context after it
  has released it, and other threads may run in between; a session that comes then
  takes the released context up. `NoUseAfterRelease` names this case (`caught`).
- `scd/app.c:1398`: a lookup over all cards leaves its application selected on the
  card, and another session's next operation that does not name an application
  meets it.

## 8. Not modelled

`components` in `PROJECT.json` lists every part with its status. Within the modelled
parts the following is left out.

- `Dotlock`: Windows, failures other than those of `stat`, `open` and `write`, and
  clocks (they are in `DotlockWait`).
- `AgentCache`: encryption of the data beyond success or failure; the passphrase bytes.
- `AgentStart`: the extra, browser and ssh sockets, supervised mode, removal of the
  home directory, systems without inotify, failures of `accept` and of thread
  creation, and dirmngr and keyboxd, which clients start by the same code.
- `CardApp`: the PIN cache, shared PC/SC access, DISCONNECT, LOCK --wait,
  RESET --keep-lock, the watching of devices,
  errors of the status query, and what applications do on the card.
- `DaemonConn`: the contents of the conversation with the daemon, and what happens
  inside the daemon.
- `Keybox`: several resources in one handle, the legacy keyring format, blobs of
  different sizes, I/O errors and the keyblock cache of `keydb.c`.
- `TrustDB`: creating and migrating the file, I/O errors, more than one user id per
  key, `min_ownertrust`, hash tables of more than one level, and `tdbio_delete_record`,
  which nothing calls.

Whole parts that stay out of reach or outside the purpose: cryptography and its
encodings, the protocols of card readers, DNS and HTTP, SQLite itself, and
programs that only call the parts above in sequence. The remaining candidates are in
the plan of section 2.
