----------------------------- MODULE AgentStart -----------------------------
(***************************************************************************)
(* How clients find or start gpg-agent (common/asshelp.c) and how agents   *)
(* get, keep and lose the socket (agent/gpg-agent.c).                      *)
(*                                                                         *)
(* A client that cannot connect takes the spawn lock, a lock file of which *)
(* only the promise of module Lock is used, tries again, and starts an     *)
(* agent.  An agent binds the socket name, taking it from a dead one, then *)
(* listens, watches the socket file and serves.  A connection that nobody  *)
(* has accepted waits: connect succeeds as soon as somebody listens, and   *)
(* the client waits for the greeting.                                      *)
(***************************************************************************)
EXTENDS Naturals

CONSTANTS
    Clients,
    Agents,     \* process ids of agents; that of a dead one is used again
    None,       \* no process
    MaxStops,   \* bound: signals, KILLAGENT commands and crashes
    MaxOdd      \* bound: agents started by hand, socket files removed by hand,
                \* and clients that give up while an agent is starting

ASSUME PartiesAssumption == None \notin Agents /\ Clients \cap Agents = {}

VARIABLES
    client,   \* where each client is in start_new_service
    agent,    \* the agents
    at,       \* the connection of each client, and of an agent that looks for
              \* another one: to whom, and how far it is
    path,     \* the agent whose socket has the socket's name
    holders,  \* who has the spawn lock
    stops,    \* the number of stops
    odd       \* the number of odd events

vars == <<client, agent, at, path, holders, stops, odd>>

Peers == Clients \cup Agents

SpawnLock == INSTANCE Lock WITH Procs <- Clients, broken <- FALSE

\* pc: where the process is; pending: shutdown_pending; event: an unread inotify
\* event; inhibit: inhibit_socket_removal; blind is a history: the socket was
\* lost before it was watched.
Dead == [pc |-> "dead", pending |-> 0, event |-> FALSE, inhibit |-> FALSE,
         blind |-> FALSE]

NoConn == [to |-> None, st |-> "none"]

Init ==
    /\ client = [c \in Clients |-> "connect"]
    /\ agent = [a \in Agents |-> Dead]
    /\ at = [p \in Peers |-> NoConn]
    /\ path = None
    /\ holders = {}
    /\ stops = 0
    /\ odd = 0

Alive(a) == agent[a].pc # "dead"

\* From bind until the file is watched.
Starting(a) == agent[a].pc \in {"bind", "check", "greet", "remove", "rebind", "listen", "watch"}

\* connect finds somebody who listens.
Reachable == path # None /\ agent[path].pc \in {"watch", "run", "cleanup"}

\* active_connections is not 0.
Active(a) == \E p \in Peers : at[p] = [to |-> a, st |-> "active"]

Goto(c, l) == client' = [client EXCEPT ![c] = l]
At(a, l) == agent' = [agent EXCEPT ![a].pc = l]
Queue(p) == at' = [at EXCEPT ![p] = [to |-> path, st |-> "queued"]]
Close(p) == at' = [at EXCEPT ![p] = NoConn]

\* agents after the file with the socket's name is unlinked: those that watch
\* it get an event.
Unlinked(ag) ==
    [a \in Agents |->
       IF path = None THEN ag[a]
       ELSE IF ag[a].pc \in {"run", "cleanup"} THEN [ag[a] EXCEPT !.event = ~ag[a].inhibit]
       ELSE IF a = path /\ ag[a].pc # "dead" THEN [ag[a] EXCEPT !.blind = TRUE]
       ELSE ag[a]]

\* The process of agent a ends: its peers see the end of their connections.
Dies(a) ==
    at' = [p \in Peers |-> IF p = a THEN NoConn
                           ELSE IF at[p].to = a THEN [to |-> None, st |-> "eof"] ELSE at[p]]

-----------------------------------------------------------------------------
(* A client: start_new_service, lock_spawning, wait_for_sock. *)

\* The first attempt, and the attempts in wait_for_sock; there a failure means
\* to sleep and to try again.
Connect(c) ==
    /\ \/ /\ client[c] = "connect"
          /\ IF Reachable THEN Queue(c) /\ Goto(c, "greet1")
             ELSE Goto(c, "lock") /\ UNCHANGED at
       \/ /\ client[c] = "wait"
          /\ Reachable
          /\ Queue(c)
          /\ Goto(c, "greet3")
    /\ UNCHANGED <<agent, path, holders, stops, odd>>

\* Mutant: the client goes on whether or not it has the lock.
LockSpawningFails(c) ==
    /\ client[c] = "lock"
    /\ Goto(c, "locked")
    /\ UNCHANGED <<agent, at, path, holders, stops, odd>>

\* dotlock_take with no timeout, for the processes that start an agent.
LockSpawning(c) ==
    /\ client[c] = "lock"
    /\ SpawnLock!Acquire(c)
    /\ Goto(c, "locked")
    /\ UNCHANGED <<agent, at, path, stops, odd>>

\* The second attempt, with the lock.
ConnectLocked(c) ==
    /\ client[c] = "locked"
    /\ IF Reachable THEN Queue(c) /\ Goto(c, "greet2")
       ELSE Goto(c, "spawn") /\ UNCHANGED at
    /\ UNCHANGED <<agent, path, holders, stops, odd>>

\* A new process; which of the unused ids it gets is of no account.
Unused == {a \in Agents : ~Alive(a) /\ path # a}
Started ==
    /\ Unused # {}
    /\ agent' = [agent EXCEPT ![CHOOSE a \in Unused : TRUE] = [Dead EXCEPT !.pc = "bind"]]

Spawn(c) ==
    /\ client[c] = "spawn"
    /\ Started
    /\ Goto(c, "wait")
    /\ UNCHANGED <<at, path, holders, stops, odd>>

\* Mutant: a client that got its connection does not give the lock back.
GreetedKeepsLock(c) ==
    /\ client[c] \in {"greet1", "greet2", "greet3"}
    /\ at[c].st = "active"
    /\ Goto(c, "connected")
    /\ UNCHANGED <<agent, at, path, holders, stops, odd>>

\* The connection is established and the lock given back.
Greeted(c) ==
    /\ client[c] \in {"greet1", "greet2", "greet3"}
    /\ at[c].st = "active"
    /\ Goto(c, "connected")
    /\ SpawnLock!Release(c)
    /\ UNCHANGED <<agent, at, path, stops, odd>>

\* The agent ended before its greeting, or in the middle of the client's work.
Eof(c) ==
    /\ at[c].st = "eof"
    /\ Goto(c, CASE client[c] = "greet1" -> "lock"
                 [] client[c] = "greet2" -> "spawn"
                 [] client[c] = "greet3" -> "wait"
                 [] client[c] = "connected" -> "done")
    /\ Close(c)
    /\ UNCHANGED <<agent, path, holders, stops, odd>>

\* wait_for_sock gives up after eight seconds: long enough for an agent to
\* start unless the system is slow.
GiveUp(c) ==
    /\ client[c] = "wait"
    /\ ~Reachable
    /\ IF \E a \in Agents : Starting(a)
       THEN odd < MaxOdd /\ odd' = odd + 1 ELSE UNCHANGED odd
    /\ Goto(c, "failed")
    /\ SpawnLock!Release(c)
    /\ UNCHANGED <<agent, at, path, stops>>

\* The client closes the connection.
Leave(c) ==
    /\ client[c] = "connected"
    /\ at[c].st = "active"
    /\ Goto(c, "done")
    /\ Close(c)
    /\ UNCHANGED <<agent, path, holders, stops, odd>>

-----------------------------------------------------------------------------
(* An agent starts: create_server_socket. *)

\* gpg-agent --daemon by hand.
StartByHand ==
    /\ odd < MaxOdd
    /\ odd' = odd + 1
    /\ Started
    /\ UNCHANGED <<client, at, path, holders, stops>>

Bind(a) ==
    /\ agent[a].pc = "bind"
    /\ IF path = None THEN path' = a /\ At(a, "listen")
       ELSE At(a, "check") /\ UNCHANGED path
    /\ UNCHANGED <<client, at, holders, stops, odd>>

\* check_for_running_agent connects, and waits for a greeting if somebody
\* listens; with one the new process ends and leaves the socket alone.
Check(a) ==
    /\ \/ /\ agent[a].pc = "check"
          /\ IF Reachable THEN Queue(a) /\ At(a, "greet")
             ELSE At(a, "remove") /\ UNCHANGED at
       \/ /\ agent[a].pc = "greet"
          /\ at[a].st = "active"
          /\ agent' = [agent EXCEPT ![a] = Dead]
          /\ Close(a)
       \/ /\ agent[a].pc = "greet"
          /\ at[a].st = "eof"
          /\ At(a, "remove")
          /\ Close(a)
    /\ UNCHANGED <<client, path, holders, stops, odd>>

\* Nobody answers: the file is removed, whoever has bound it by now.
Remove(a) ==
    /\ agent[a].pc = "remove"
    /\ agent' = [Unlinked(agent) EXCEPT ![a].pc = "rebind"]
    /\ path' = None
    /\ UNCHANGED <<client, at, holders, stops, odd>>

Rebind(a) ==
    /\ agent[a].pc = "rebind"
    /\ IF path = None THEN path' = a /\ At(a, "listen")
       ELSE agent' = [agent EXCEPT ![a] = Dead] /\ UNCHANGED path
    /\ UNCHANGED <<client, at, holders, stops, odd>>

Listen(a) ==
    /\ agent[a].pc = "listen"
    /\ At(a, "watch")
    /\ UNCHANGED <<client, at, path, holders, stops, odd>>

\* gnupg_inotify_watch_socket at the start of handle_connections.
Watch(a) ==
    /\ agent[a].pc = "watch"
    /\ At(a, "run")
    /\ UNCHANGED <<client, at, path, holders, stops, odd>>

-----------------------------------------------------------------------------
(* An agent serves: handle_connections.  The loop sleeps in npth_pselect    *)
(* until a signal, a connection, an inotify event, a timer or a kick; "run" *)
(* is that sleep.  A step here is one turn of the loop, up to its next      *)
(* sleep: no other thread of the process runs meanwhile.                    *)

\* The test at the head of the loop: a pending shutdown waits for the end of
\* all connections.
Loop(a, ag) ==
    agent' = IF ag[a].pending > 0 /\ ~Active(a) THEN [ag EXCEPT ![a].pc = "cleanup"] ELSE ag

\* The loop is woken only to come to its head again: agent_kick_the_loop, a
\* timer of the cache, SIGHUP, SIGUSR1 or SIGUSR2.  The end of a connection
\* does not wake it.
Kick(a) ==
    /\ agent[a].pc = "run"
    /\ Loop(a, agent)
    /\ UNCHANGED <<client, at, path, holders, stops, odd>>

\* A connection is accepted, and its thread started.  With a shutdown pending
\* the loop does not look at the listening socket.
Accept(a, p) ==
    /\ agent[a].pc = "run"
    /\ agent[a].pending = 0
    /\ at[p] = [to |-> a, st |-> "queued"]
    /\ at' = [at EXCEPT ![p].st = "accepted"]
    /\ UNCHANGED <<client, agent, path, holders, stops, odd>>

\* The thread counts itself and sends the greeting.
Serve(p) ==
    /\ at[p].st = "accepted"
    /\ at' = [at EXCEPT ![p].st = "active"]
    /\ UNCHANGED <<client, agent, path, holders, stops, odd>>

\* Mutant: the removal only inhibits the removal by cleanup.
SeeRemovalGoesOn(a) ==
    /\ agent[a].pc = "run"
    /\ agent[a].event
    /\ Loop(a, [agent EXCEPT ![a].event = FALSE, ![a].inhibit = TRUE])
    /\ UNCHANGED <<client, at, path, holders, stops, odd>>

\* "socket file has been removed - shutting down".
SeeRemoval(a) ==
    /\ agent[a].pc = "run"
    /\ agent[a].event
    /\ Loop(a, [agent EXCEPT ![a].event = FALSE, ![a].inhibit = TRUE, ![a].pending = 2])
    /\ UNCHANGED <<client, at, path, holders, stops, odd>>

\* cleanup and the end of the process: the socket's name is unlinked unless
\* that is inhibited.
Exit(a, ag) ==
    /\ Dies(a)
    /\ path' = IF ag[a].inhibit THEN path ELSE None
    /\ agent' = [(IF ag[a].inhibit THEN ag ELSE Unlinked(ag)) EXCEPT ![a] = Dead]

\* SIGTERM; the third one forces the shutdown.
Sigterm(a) ==
    /\ agent[a].pc = "run"
    /\ stops < MaxStops
    /\ stops' = stops + 1
    /\ IF agent[a].pending = 2 THEN Exit(a, agent)
       ELSE Loop(a, [agent EXCEPT ![a].pending = @ + 1]) /\ UNCHANGED <<at, path>>
    /\ UNCHANGED <<client, holders, odd>>

\* KILLAGENT ends the process at the end of the session, whoever else is
\* connected.
Killagent(c) ==
    /\ client[c] = "connected"
    /\ at[c].st = "active"
    /\ stops < MaxStops
    /\ stops' = stops + 1
    /\ Goto(c, "connected")
    /\ Exit(at[c].to, agent)
    /\ UNCHANGED <<holders, odd>>

Cleanup(a) ==
    /\ agent[a].pc = "cleanup"
    /\ Exit(a, agent)
    /\ UNCHANGED <<client, holders, stops, odd>>

\* The agent is killed and leaves its socket file.
Crash(a) ==
    /\ Alive(a)
    /\ stops < MaxStops
    /\ stops' = stops + 1
    /\ agent' = [agent EXCEPT ![a] = Dead]
    /\ Dies(a)
    /\ UNCHANGED <<client, path, holders, odd>>

\* Somebody removes the socket file.
RemoveByHand ==
    /\ odd < MaxOdd
    /\ odd' = odd + 1
    /\ path # None
    /\ agent' = Unlinked(agent)
    /\ path' = None
    /\ UNCHANGED <<client, at, holders, stops>>

-----------------------------------------------------------------------------
ClientStep(c) ==
    \/ Connect(c) \/ LockSpawning(c) \/ ConnectLocked(c) \/ Spawn(c) \/ Greeted(c)
    \/ Eof(c) \/ GiveUp(c) \/ Leave(c)

AgentStep(a) ==
    \/ Bind(a) \/ Check(a) \/ Remove(a) \/ Rebind(a) \/ Listen(a) \/ Watch(a)
    \/ (\E p \in Peers : Accept(a, p)) \/ SeeRemoval(a) \/ Cleanup(a)

Next ==
    \/ \E c \in Clients : ClientStep(c) \/ Killagent(c)
    \/ \E a \in Agents : AgentStep(a) \/ Kick(a) \/ Sigterm(a) \/ Crash(a)
    \/ \E p \in Peers : Serve(p)
    \/ StartByHand \/ RemoveByHand

Spec == Init /\ [][Next]_vars

\* Processes and threads that can go on do so: a client's work and its time for
\* waiting end.  Nothing promises a signal, a kick or a timer.
Fairness ==
    /\ \A c \in Clients : WF_vars(ClientStep(c))
    /\ \A a \in Agents : WF_vars(AgentStep(a))
    /\ \A p \in Peers : WF_vars(Serve(p))

FairSpec == Spec /\ Fairness

-----------------------------------------------------------------------------
(* Properties. *)

\* The spawn lock and the second attempt to connect are there so that clients
\* which find no agent do not start two: unless something odd happens, nobody
\* takes the socket from a living agent, which would then serve its clients
\* with another cache and other cards than its successor.
SocketKept ==
    [][\A a \in Agents : path = a /\ path' # a /\ agent'[a].pc # "dead" => odd' > 0]_vars

\* The loop of agent a sleeps though the process could end: the last connection
\* was closed after the loop had looked at their number.
Overslept(a) == agent[a].pc = "run" /\ agent[a].pending > 0 /\ ~Active(a)

\* Whoever wants to connect gets a connection or gives up, and holds up nobody.
\* The one exception: as long as an agent that is to end oversleeps, a client in
\* its queue waits, and those that wait for the client's spawn lock.
ClientServed ==
    \A c \in Clients :
        []<>(\/ client[c] \in {"connected", "done", "failed"}
             \/ \E a \in Agents, d \in Clients : Overslept(a) /\ at[d].to = a)

\* An agent that lost its socket after it had begun to watch it.
Orphan(a) == agent[a].pc \in {"run", "cleanup"} /\ path # a /\ ~agent[a].blind

\* Such an agent ends once its clients have left, unless it oversleeps.
OrphansEnd == \A a \in Agents : []<>(~Orphan(a) \/ Overslept(a))

\* doc/gpg-agent.texi of SIGTERM: "Shuts down the process but waits until all
\* current requests are fulfilled."  An agent that is to end does so, as every
\* client closes its connection some day.  It does not: the thread that counts
\* active_connections down does not wake the loop.
ShutdownEnds ==
    \A a \in Agents : (agent[a].pc = "run" /\ agent[a].pending > 0) ~> ~Alive(a)
=============================================================================
