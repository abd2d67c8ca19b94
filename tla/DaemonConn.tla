----------------------------- MODULE DaemonConn -----------------------------
(***************************************************************************)
(* How gpg-agent shares one scdaemon between its client sessions           *)
(* (agent/call-daemon.c).                                                  *)
(*                                                                         *)
(* The first session to need the daemon starts it and gets the primary     *)
(* connection, a pipe.  Other sessions connect to the daemon's socket.  A  *)
(* session that ends leaves the primary connection behind for reuse.  A    *)
(* thread waits for the daemon's end and then invalidates all connections. *)
(*                                                                         *)
(* What a session does under start_daemon_lock is one step.  The waiting   *)
(* thread holds that lock for several: while it releases contexts other    *)
(* threads run, and daemon_start looks at the context of its session       *)
(* without the lock.  A connection (an Assuan context) is used between     *)
(* daemon_start and daemon_unlock without the lock as well.                *)
(***************************************************************************)
EXTENDS Naturals

CONSTANTS
  Sessions,     \* client sessions, each a thread
  MaxCtxs,      \* bound: Assuan contexts created
  MaxDaemons,   \* bound: daemons started
  Faults        \* "thread": creating the waiting thread may fail;
                \* "homedir": building the name of the home directory may;
                \* "kill": agent_kill_daemon may be called

ASSUME DaemonAssumption ==
  /\ {MaxCtxs, MaxDaemons} \subseteq Nat
  /\ Faults \subseteq {"thread", "homedir", "kill"}

Ctxs == 1..MaxCtxs  \* the contexts in the order of their creation
NoCtx == 0          \* NULL

VARIABLES
  local,     \* ctrl->d_local of each session
  phase,     \* "idle", "starting" (wants the lock), "forked" (has started the
             \* daemon but requires a socket), "giving" (gives that connection
             \* up), or "busy" with the daemon
  require,   \* the require_socket argument of each session
  primary,   \* primary_ctx
  reusable,  \* primary_ctx_reusable
  socket,    \* socket_name: the daemon that listens there, or 0
  ctx,       \* the life of each context: "unused", "open", "released"
  peer,      \* the daemon each context is connected to
  started,   \* daemons started so far, numbered from 1
  alive,     \* the daemons that run
  waited,    \* the daemons wait_child_thread waits for
  ending,    \* the daemon whose wait_child_thread has the lock, or 0
  todo,      \* the sessions that thread has still to visit
  freeing,   \* the session whose context it has released, but not yet cleared
  freed,     \* it has released the primary context
  caught,    \* history: the sessions that began to use such a context
  watched,   \* history: the daemons it was started for
  given,     \* history: the contexts given up to retry with a socket
  killer,    \* the context agent_kill_daemon is using
  misused    \* history: a context was released twice

waiter == <<ending, todo, freeing, freed>>

vars == <<local, phase, require, primary, reusable, socket, ctx, peer, started,
          alive, waited, waiter, watched, given, caught, killer, misused>>

\* start_daemon_lock is free.
LockFree == ending = 0

NoLocal == [ctx |-> NoCtx, in_use |-> FALSE, invalid |-> FALSE, there |-> FALSE]

Init ==
  /\ local = [s \in Sessions |-> NoLocal]
  /\ phase = [s \in Sessions |-> "idle"]
  /\ require = [s \in Sessions |-> FALSE]
  /\ primary = NoCtx
  /\ reusable = FALSE
  /\ socket = 0
  /\ ctx = [c \in Ctxs |-> "unused"]
  /\ peer = [c \in Ctxs |-> 0]
  /\ started = 0
  /\ alive = {}
  /\ waited = {}
  /\ ending = 0
  /\ todo = {}
  /\ freeing = {}
  /\ freed = FALSE
  /\ caught = {}
  /\ watched = {}
  /\ given = {}
  /\ killer = NoCtx
  /\ misused = FALSE

-----------------------------------------------------------------------------
\* assuan_release of the contexts in R; of NULL it does nothing.
Release(R) ==
  /\ ctx' = [c \in Ctxs |-> IF c \in R THEN "released" ELSE ctx[c]]
  /\ misused' = (misused \/ \E c \in R \ {NoCtx} : ctx[c] # "open")

\* assuan_new: the next context.
New == {c \in Ctxs : ctx[c] = "unused" /\ \A d \in 1..(c - 1) : ctx[d] # "unused"}

\* Mutant: daemon_unlock forgets the context but not the in-use mark.
UnlockedInUse(l) ==
  IF l.invalid THEN [l EXCEPT !.ctx = NoCtx, !.invalid = FALSE]
  ELSE [l EXCEPT !.in_use = FALSE]

\* Mutant: daemon_unlock ignores that the context became invalid.
UnlockedKeeps(l) == [l EXCEPT !.in_use = FALSE]

\* daemon_unlock on l: the context is released if it became invalid meanwhile.
Unlocked(l) ==
  IF l.invalid THEN [l EXCEPT !.ctx = NoCtx, !.in_use = FALSE, !.invalid = FALSE]
  ELSE [l EXCEPT !.in_use = FALSE]

UnlockReleases(l) == IF l.invalid THEN {l.ctx} ELSE {}

\* daemon_start: a session that has a context goes on with it, without a look
\* at the lock.
Start(s, req) ==
  /\ phase[s] = "idle"
  /\ require' = [require EXCEPT ![s] = req]
  /\ IF local[s].ctx # NoCtx
     THEN /\ local' = [local EXCEPT ![s].in_use = TRUE]
          /\ phase' = [phase EXCEPT ![s] = "busy"]
          /\ caught' = caught \cup (freeing \cap {s})
     ELSE /\ ~local[s].in_use
          /\ phase' = [phase EXCEPT ![s] = "starting"]
          /\ UNCHANGED <<local, caught>>
  /\ UNCHANGED <<primary, reusable, socket, ctx, peer, started, alive, waited,
                 watched, waiter, given, killer, misused>>

UsedLocal(c) == [ctx |-> c, in_use |-> TRUE, invalid |-> FALSE, there |-> TRUE]

\* The session gets context c and returns from daemon_start.
Got(s, c) ==
  /\ local' = [local EXCEPT ![s] = UsedLocal(c)]
  /\ phase' = [phase EXCEPT ![s] = "busy"]

\* Mutant: the primary connection stays marked as reusable.
ReuseKeepsMark(s) ==
  /\ LockFree
  /\ phase[s] = "starting"
  /\ primary # NoCtx /\ reusable /\ ~require[s]
  /\ Got(s, primary)
  /\ UNCHANGED <<require, primary, reusable, socket, ctx, peer, started,
                 alive, waited, watched, waiter, caught, given, killer,
                 misused>>

\* The lingering primary connection is reused.
Reuse(s) ==
  /\ LockFree
  /\ phase[s] = "starting"
  /\ primary # NoCtx /\ reusable /\ ~require[s]
  /\ reusable' = FALSE
  /\ Got(s, primary)
  /\ UNCHANGED <<require, primary, socket, ctx, peer, started, alive, waited,
                 watched, waiter, caught, given, killer, misused>>

\* Otherwise the session connects to the socket.
Connect(s) ==
  /\ LockFree
  /\ phase[s] = "starting"
  /\ ~(primary # NoCtx /\ reusable /\ ~require[s])
  /\ socket \in alive
  /\ \E c \in New :
       /\ ctx' = [ctx EXCEPT ![c] = "open"]
       /\ peer' = [peer EXCEPT ![c] = socket]
       /\ Got(s, c)
  /\ UNCHANGED <<require, primary, reusable, socket, started, alive, waited,
                 watched, waiter, caught, given, killer, misused>>

\* The daemon is started, with or without a socket.
Fork(s) ==
  /\ LockFree
  /\ phase[s] = "starting"
  /\ primary = NoCtx /\ socket = 0
  /\ started < MaxDaemons
  /\ started' = started + 1
  /\ alive' = alive \cup {started'}
  /\ waited' = waited \cup {started'}
  /\ watched' = watched \cup {started'}
  /\ socket' \in {0, started'}
  /\ \E c \in New :
       /\ ctx' = [ctx EXCEPT ![c] = "open"]
       /\ peer' = [peer EXCEPT ![c] = started']
       /\ primary' = c
       /\ local' = [local EXCEPT ![s] = UsedLocal(c)]
  /\ phase' = [phase EXCEPT ![s] = IF require[s] THEN "forked" ELSE "busy"]
  /\ reusable' = FALSE
  /\ UNCHANGED <<require, waiter, caught, given, killer, misused>>

\* A session that requires a socket gives the primary connection up, unless it
\* finds that the daemon is gone.  The comparison is made without the lock.
Retry(s) ==
  /\ phase[s] = "forked"
  /\ phase' = [phase EXCEPT ![s] = IF local[s].ctx = primary THEN "giving" ELSE "busy"]
  /\ UNCHANGED <<local, require, primary, reusable, socket, ctx, peer, started,
                 alive, waited, watched, waiter, caught, given, killer, misused>>

\* It calls daemon_unlock and starts again.
GiveUp(s) ==
  /\ LockFree
  /\ phase[s] = "giving"
  /\ Release(UnlockReleases(local[s]))
  /\ local' = [local EXCEPT ![s] = Unlocked(@)]
  /\ phase' = [phase EXCEPT ![s] = "starting"]
  /\ given' = given \cup {local[s].ctx}
  /\ UNCHANGED <<require, primary, reusable, socket, peer, started, alive,
                 waited, watched, waiter, caught, killer>>

\* The daemon runs but the thread to wait for it could not be created: the
\* new context is released, after primary_ctx was set to it.
ForkFails(s) ==
  /\ LockFree
  /\ "thread" \in Faults
  /\ phase[s] = "starting"
  /\ primary = NoCtx /\ socket = 0
  /\ started < MaxDaemons
  /\ started' = started + 1
  /\ alive' = alive \cup {started'}
  /\ socket' \in {0, started'}
  /\ \E c \in New :
       /\ ctx' = [ctx EXCEPT ![c] = "released"]
       /\ peer' = [peer EXCEPT ![c] = started']
       /\ primary' = c
  /\ local' = [local EXCEPT ![s] = [Unlocked(@) EXCEPT !.there = TRUE]]
  /\ phase' = [phase EXCEPT ![s] = "idle"]
  /\ reusable' = FALSE
  /\ UNCHANGED <<require, waited, watched, waiter, caught, given, killer,
                 misused>>

\* The name of the home directory cannot be built: the function is left with
\* a new context but without an error code.
NoHomedir(s) ==
  /\ LockFree
  /\ "homedir" \in Faults
  /\ phase[s] = "starting"
  /\ primary = NoCtx /\ socket = 0
  /\ \E c \in New :
       /\ ctx' = [ctx EXCEPT ![c] = "open"]
       /\ Got(s, c)
  /\ UNCHANGED <<require, primary, reusable, socket, peer, started, alive,
                 waited, watched, waiter, caught, given, killer, misused>>

\* There is no socket, or connecting to it or starting the daemon fails, or
\* there is no memory for the local data of the session.
StartFails(s) ==
  /\ LockFree
  /\ phase[s] = "starting"
  /\ \/ /\ ~(primary # NoCtx /\ reusable /\ ~require[s])
        /\ Release(UnlockReleases(local[s]))
        /\ local' = [local EXCEPT ![s] = [Unlocked(@) EXCEPT !.there = TRUE]]
     \/ /\ ~local[s].there
        /\ UNCHANGED <<local, ctx, misused>>
  /\ phase' = [phase EXCEPT ![s] = "idle"]
  /\ UNCHANGED <<require, primary, reusable, socket, peer, started, alive,
                 waited, watched, waiter, caught, given, killer>>

\* daemon_unlock after the transaction.
Unlock(s) ==
  /\ LockFree
  /\ phase[s] = "busy"
  /\ Release(UnlockReleases(local[s]))
  /\ local' = [local EXCEPT ![s] = Unlocked(@)]
  /\ phase' = [phase EXCEPT ![s] = "idle"]
  /\ caught' = caught \ {s}
  /\ UNCHANGED <<require, primary, reusable, socket, peer, started, alive,
                 waited, watched, waiter, given, killer>>

\* Mutant: the primary connection is closed like any other.
ResetCloses(s) ==
  /\ LockFree
  /\ phase[s] = "idle"
  /\ local[s].there
  /\ Release({local[s].ctx})
  /\ local' = [local EXCEPT ![s] = NoLocal]
  /\ UNCHANGED <<phase, require, primary, reusable, socket, peer, started,
                 alive, waited, watched, waiter, caught, given, killer>>

\* agent_reset_daemon at the end of the session: the primary connection is
\* restarted and left for reuse, any other one is closed.
Reset(s) ==
  /\ LockFree
  /\ phase[s] = "idle"
  /\ local[s].there
  /\ IF local[s].ctx # NoCtx /\ local[s].ctx = primary
     THEN /\ reusable' = TRUE
          /\ UNCHANGED <<ctx, misused>>
     ELSE /\ Release({local[s].ctx})
          /\ UNCHANGED reusable
  /\ local' = [local EXCEPT ![s] = NoLocal]
  /\ UNCHANGED <<phase, require, primary, socket, peer, started, alive,
                 waited, watched, waiter, caught, given, killer>>

-----------------------------------------------------------------------------
DaemonDies(n) ==
  /\ n \in alive
  /\ alive' = alive \ {n}
  /\ UNCHANGED <<local, phase, require, primary, reusable, socket, ctx, peer,
                 started, waited, watched, waiter, caught, given, killer,
                 misused>>

\* wait_child_thread: the daemon has terminated and the thread has the lock.
WaitBegin(n) ==
  /\ LockFree
  /\ n \in waited \ alive
  /\ ending' = n
  /\ todo' = {s \in Sessions : local[s].there}
  /\ UNCHANGED <<local, phase, require, primary, reusable, socket, ctx, peer,
                 started, alive, waited, freeing, freed, watched, caught, given,
                 killer, misused>>

\* Mutant: a context in use is released as well.
WaitSessionInUse(s) ==
  /\ s \in todo /\ freeing = {}
  /\ todo' = todo \ {s}
  /\ local' = [local EXCEPT ![s].invalid = TRUE]
  /\ IF local[s].ctx # NoCtx
     THEN Release({local[s].ctx}) /\ freeing' = {s}
     ELSE UNCHANGED <<ctx, misused, freeing>>
  /\ UNCHANGED <<phase, require, primary, reusable, socket, peer, started, alive,
                 waited, ending, freed, watched, caught, given, killer>>

\* The next session in the list: its context becomes invalid, and is released
\* if nobody uses it.  Meanwhile other threads run.
WaitSession(s) ==
  /\ s \in todo /\ freeing = {}
  /\ todo' = todo \ {s}
  /\ local' = [local EXCEPT ![s].invalid = TRUE]
  /\ IF ~local[s].in_use /\ local[s].ctx # NoCtx
     THEN Release({local[s].ctx}) /\ freeing' = {s}
     ELSE UNCHANGED <<ctx, misused, freeing>>
  /\ UNCHANGED <<phase, require, primary, reusable, socket, peer, started, alive,
                 waited, ending, freed, watched, caught, given, killer>>

\* ... and cleared.
WaitForget(s) ==
  /\ s \in freeing
  /\ freeing' = {}
  /\ local' = [local EXCEPT ![s].ctx = NoCtx]
  /\ UNCHANGED <<phase, require, primary, reusable, socket, ctx, peer, started,
                 alive, waited, ending, todo, freed, watched, caught, given,
                 killer, misused>>

VisitedAll == ending # 0 /\ todo = {} /\ freeing = {}

\* The primary context is released if no session has it.
WaitPrimary ==
  /\ VisitedAll
  /\ reusable /\ ~freed
  /\ Release({primary})
  /\ freed' = TRUE
  /\ UNCHANGED <<local, phase, require, primary, reusable, socket, peer, started,
                 alive, waited, ending, todo, freeing, watched, caught, given,
                 killer>>

\* Mutant: the global data is reset only with its context.
WaitResetsIfReusable ==
  /\ primary' = IF reusable THEN NoCtx ELSE primary
  /\ reusable' = FALSE
  /\ socket' = 0

WaitResets ==
  /\ primary' = NoCtx
  /\ reusable' = FALSE
  /\ socket' = 0

\* Mutant: the lingering primary context is not released.
WaitEndKeeps ==
  /\ VisitedAll
  /\ WaitResets
  /\ waited' = waited \ {ending}
  /\ ending' = 0
  /\ freed' = FALSE
  /\ UNCHANGED <<local, phase, require, ctx, peer, started, alive, todo, freeing,
                 watched, caught, given, killer, misused>>

\* The global data is reset and the lock given back.
WaitEnd ==
  /\ VisitedAll
  /\ reusable => freed
  /\ WaitResets
  /\ waited' = waited \ {ending}
  /\ ending' = 0
  /\ freed' = FALSE
  /\ UNCHANGED <<local, phase, require, ctx, peer, started, alive, todo, freeing,
                 watched, caught, given, killer, misused>>

WaitStep ==
  \/ \E n \in 1..MaxDaemons : WaitBegin(n)
  \/ \E s \in Sessions : WaitSession(s) \/ WaitForget(s)
  \/ WaitPrimary \/ WaitEnd

\* agent_kill_daemon sends a command on the primary connection ...
KillBegins ==
  /\ "kill" \in Faults
  /\ killer = NoCtx
  /\ primary # NoCtx
  /\ killer' = primary
  /\ UNCHANGED <<local, phase, require, primary, reusable, socket, ctx, peer,
                 started, alive, waited, watched, waiter, caught, given,
                 misused>>

\* ... and has the answer.
KillEnds ==
  /\ killer # NoCtx
  /\ killer' = NoCtx
  /\ UNCHANGED <<local, phase, require, primary, reusable, socket, ctx, peer,
                 started, alive, waited, watched, waiter, caught, given,
                 misused>>

Next ==
  \/ \E s \in Sessions :
       \/ \E req \in BOOLEAN : Start(s, req)
       \/ Reuse(s) \/ Connect(s) \/ Fork(s) \/ Retry(s) \/ GiveUp(s)
       \/ ForkFails(s) \/ NoHomedir(s) \/ StartFails(s) \/ Unlock(s) \/ Reset(s)
  \/ \E n \in 1..MaxDaemons : DaemonDies(n)
  \/ WaitStep
  \/ KillBegins \/ KillEnds

Spec == Init /\ [][Next]_vars

\* The waiting thread gets the lock some time after the daemon's end, and goes
\* on while it has it.
FairSpec == Spec /\ WF_vars(WaitStep)

-----------------------------------------------------------------------------
(* Properties. *)

\* Types; the sessions that talk to the daemon have the in-use mark.
TypeOK ==
  /\ local \in [Sessions -> [ctx : Ctxs \cup {NoCtx}, in_use : BOOLEAN,
                             invalid : BOOLEAN, there : BOOLEAN]]
  /\ phase \in [Sessions -> {"idle", "starting", "forked", "giving", "busy"}]
  /\ primary \in Ctxs \cup {NoCtx}
  /\ socket \in 0..started
  /\ ctx \in [Ctxs -> {"unused", "open", "released"}]
  /\ ending \in waited \cup {0}
  /\ todo \cup freeing \cup caught \subseteq Sessions
  /\ \A s \in Sessions : local[s].in_use <=> phase[s] \in {"forked", "giving", "busy"}

Open(c) == c # NoCtx /\ ctx[c] = "open"

\* A connection has one user: no two sessions have the same context, and the
\* primary one belongs to no session while it is marked as reusable.
OneUser ==
  \A s \in Sessions : local[s].ctx # NoCtx =>
    /\ \A t \in Sessions \ {s} : local[t].ctx # local[s].ctx
    /\ ~(reusable /\ local[s].ctx = primary)

\* A session talks to the daemon on an open context, whatever the waiting
\* thread does meanwhile, unless it took up its context just when that thread
\* was releasing it; agent_kill_daemon does so as long as the daemon runs; and
\* no context is released twice.
NoUseAfterRelease ==
  /\ \A s \in Sessions \ caught : phase[s] = "busy" => Open(local[s].ctx)
  /\ killer # NoCtx /\ peer[killer] \in watched \cap alive => Open(killer)
  /\ ~misused

\* Once wait_child_thread has dealt with the end of a daemon, nobody gets a
\* connection to it any more: the sessions that still have one are using it
\* and will drop it.
NoDeadContext ==
  \A s \in Sessions :
    local[s].ctx # NoCtx /\ peer[local[s].ctx] \in watched \ (alive \cup waited) =>
      local[s].in_use /\ local[s].invalid

\* An open context is that of a session or the primary one.  The only one that
\* gets lost is a primary context given up by a session that requires a socket.
NoLeak ==
  \A c \in Ctxs \ given : ctx[c] = "open" =>
    c = primary \/ \E s \in Sessions : local[s].ctx = c

\* The context of the primary connection, "also used as a flag to indicate
\* whether the daemon has been started", is open, but for a daemon without a
\* waiting thread and while that thread is clearing it.
PrimaryOpen ==
  primary # NoCtx /\ peer[primary] \in watched /\ LockFree => Open(primary)

\* A daemon's end is always noticed and the daemon forgotten, so that the next
\* session starts a new one.
DeadDaemonForgotten ==
  []<>~(primary # NoCtx /\ peer[primary] \in watched \ alive)
=============================================================================
