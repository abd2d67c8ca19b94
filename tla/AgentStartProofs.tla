-------------------------- MODULE AgentStartProofs --------------------------
(***************************************************************************)
(* Clients that find no agent start one at a time, and nobody takes the    *)
(* socket from a living agent, for any number of clients, agents, stops    *)
(* and crashes.                                                            *)
(***************************************************************************)
EXTENDS AgentStart, TLAPS

\* The seconds a prover gets for a leaf.
USE SMTT(30), ZenonT(30)

ClientStates == {"connect", "greet1", "lock", "locked", "greet2", "spawn", "wait",
                 "greet3", "connected", "done", "failed"}

AgentStates == {"dead", "bind", "check", "greet", "remove", "rebind", "listen",
                "watch", "run", "cleanup"}

AgentType == [pc : AgentStates, pending : 0..2, event : BOOLEAN, inhibit : BOOLEAN,
              blind : BOOLEAN]

ConnType == [to : Agents \cup {None}, st : {"none", "queued", "accepted", "active", "eof"}]

Types ==
    /\ client \in [Clients -> ClientStates]
    /\ agent \in [Agents -> AgentType]
    /\ at \in [Peers -> ConnType]
    /\ path \in Agents \cup {None}
    /\ odd \in Nat

\* A connection leads to a process that listens, and one that was accepted to a
\* process that runs; a client has one only where start_new_service does.
Connections ==
    /\ \A p \in Peers :
          /\ at[p].to # None => at[p].st \in {"queued", "accepted", "active"}
          /\ at[p].st \in {"queued", "accepted", "active"} =>
                at[p].to \in Agents /\ agent[at[p].to].pc \in {"watch", "run", "cleanup"}
          /\ at[p].st \in {"accepted", "active"} => agent[at[p].to].pc \in {"run", "cleanup"}
    /\ \A c \in Clients :
          at[c].st # "none" => client[c] \in {"greet1", "greet2", "greet3", "connected"}

\* From the second attempt to connect on a client has the spawn lock.
Spawning(c) == client[c] \in {"locked", "greet2", "spawn", "wait", "greet3"}

LockHeld == \A c \in Clients : Spawning(c) => holders = {c}

\* While nothing odd has happened there is one agent at most, and it has the
\* socket from bind on.
OneAgent ==
    /\ \A a, b \in Agents : Alive(a) /\ Alive(b) => a = b
    /\ \A a \in Agents : Alive(a) =>
          /\ agent[a].pc # "greet"
          /\ path = a <=> agent[a].pc \in {"listen", "watch", "run", "cleanup"}
          /\ ~agent[a].event /\ ~agent[a].inhibit

\* While an agent starts, the client that started it waits for it with the lock;
\* a client that is about to start one has found none.
StartsAwaited ==
    /\ \A a \in Agents : Starting(a) => \E c \in Clients : client[c] \in {"wait", "greet3"}
    /\ \A c \in Clients :
          client[c] = "spawn" \/ (client[c] = "greet2" /\ at[c].st = "eof") =>
              \A a \in Agents : ~Alive(a)

IInv ==
    /\ Types
    /\ Connections
    /\ LockHeld
    /\ odd = 0 => OneAgent /\ StartsAwaited

-----------------------------------------------------------------------------
(* What the operators on connections and agents do. *)

\* connect puts one connection into the queue of the process that listens.
LEMMA QueueFields ==
  ASSUME Types, NEW p \in Peers, Reachable, Queue(p)
  PROVE  /\ at' \in [Peers -> ConnType]
         /\ path \in Agents
         /\ agent[path].pc \in {"watch", "run", "cleanup"}
         /\ at'[p].to = path /\ at'[p].st = "queued"
         /\ \A q \in Peers : q # p => at'[q] = at[q]
<1>1. [to |-> path, st |-> "queued"] \in ConnType
  BY DEF Types, ConnType
<1> QED
  BY <1>1 DEF Queue, Types, Reachable

\* Closing a connection changes no other one.
LEMMA CloseFields ==
  ASSUME Types, NEW p \in Peers, Close(p)
  PROVE  /\ at' \in [Peers -> ConnType]
         /\ at'[p] = NoConn
         /\ \A q \in Peers : q # p => at'[q] = at[q]
<1>1. NoConn \in ConnType 
  BY DEF NoConn, ConnType
<1> QED
  BY <1>1 DEF Close, Types

\* At the end of a process its peers see the end of their connections.
LEMMA DiesFields ==
  ASSUME Types, NEW a \in Agents, Dies(a)
  PROVE  /\ at' \in [Peers -> ConnType]
         /\ at'[a] = NoConn
         /\ \A p \in Peers \ {a} : at[p].to = a => at'[p] = [to |-> None, st |-> "eof"]
         /\ \A p \in Peers \ {a} : at[p].to # a => at'[p] = at[p]
<1>1. NoConn \in ConnType 
  BY DEF NoConn, ConnType
<1> DEFINE E == [to |-> None, st |-> "eof"]
<1>2. E \in ConnType /\ E = [to |-> None, st |-> "eof"]
  BY DEF ConnType
<1>3. a \in Peers
  BY DEF Peers
<1> HIDE DEF E
<1>4. at' = [p \in Peers |-> IF p = a THEN NoConn ELSE IF at[p].to = a THEN E ELSE at[p]]
  BY DEF Dies, E
<1> QED
  BY <1>1, <1>2, <1>3, <1>4 DEF Types

\* Unlinking the socket's file tells agents that watch it, and stops none.
LEMMA UnlinkedFields ==
  ASSUME Types
  PROVE  /\ Unlinked(agent) \in [Agents -> AgentType]
         /\ \A a \in Agents : Unlinked(agent)[a].pc = agent[a].pc
         /\ \A a \in Agents : agent[a].pc \notin {"run", "cleanup"} =>
               /\ Unlinked(agent)[a].event = agent[a].event
               /\ Unlinked(agent)[a].inhibit = agent[a].inhibit
<1>1. agent \in [Agents -> AgentType]
  BY DEF Types
<1>2. ASSUME NEW a \in Agents
      PROVE  /\ Unlinked(agent)[a] \in AgentType
             /\ Unlinked(agent)[a].pc = agent[a].pc
             /\ agent[a].pc \notin {"run", "cleanup"} =>
                  /\ Unlinked(agent)[a].event = agent[a].event
                  /\ Unlinked(agent)[a].inhibit = agent[a].inhibit
  <2> DEFINE r == agent[a]
  <2>1. r \in AgentType
    BY <1>1
  <2>2. Unlinked(agent)[a] \in {r, [r EXCEPT !.event = ~r.inhibit], [r EXCEPT !.blind = TRUE]}
    BY DEF Unlinked
  <2>3. Unlinked(agent)[a] = [r EXCEPT !.event = ~r.inhibit] =>
          r.pc \in {"run", "cleanup"} \/ Unlinked(agent)[a] = r
                                      \/ Unlinked(agent)[a] = [r EXCEPT !.blind = TRUE]
    BY DEF Unlinked
  <2> HIDE DEF r
  <2>4. /\ [r EXCEPT !.event = ~r.inhibit] \in AgentType
        /\ [r EXCEPT !.event = ~r.inhibit].pc = r.pc
        /\ [r EXCEPT !.blind = TRUE] \in AgentType
        /\ [r EXCEPT !.blind = TRUE].pc = r.pc
        /\ [r EXCEPT !.blind = TRUE].event = r.event
        /\ [r EXCEPT !.blind = TRUE].inhibit = r.inhibit
    BY <2>1, ZenonT(30) DEF AgentType
  <2>5. Unlinked(agent)[a] \in AgentType /\ Unlinked(agent)[a].pc = r.pc
    BY <2>1, <2>2, <2>4, ZenonT(30)
  <2>6. r.pc \notin {"run", "cleanup"} =>
          Unlinked(agent)[a].event = r.event /\ Unlinked(agent)[a].inhibit = r.inhibit
    BY <2>2, <2>3, <2>4, ZenonT(30)
  <2> QED
    BY <2>5, <2>6 DEF r
<1>3. Unlinked(agent) = [a \in Agents |-> Unlinked(agent)[a]]
  BY DEF Unlinked
<1> QED
  BY <1>2, <1>3

\* The end of a process by cleanup: it is dead, and the others are where they
\* were.
LEMMA ExitFields ==
  ASSUME Types, NEW a \in Agents, Exit(a, agent)
  PROVE  /\ agent' \in [Agents -> AgentType]
         /\ agent'[a] = Dead
         /\ \A b \in Agents \ {a} : agent'[b].pc = agent[b].pc
         /\ \A b \in Agents \ {a} : agent[b].pc \notin {"run", "cleanup"} =>
              /\ agent'[b].event = agent[b].event
              /\ agent'[b].inhibit = agent[b].inhibit
         /\ path' \in {path, None}
<1>1. Dead \in AgentType
  BY DEF Dead, AgentType, AgentStates
<1>2. agent \in [Agents -> AgentType]
  BY DEF Types
<1> DEFINE A == IF agent[a].inhibit THEN agent ELSE Unlinked(agent)
<1>3. /\ A \in [Agents -> AgentType]
      /\ \A b \in Agents : A[b].pc = agent[b].pc
      /\ \A b \in Agents : agent[b].pc \notin {"run", "cleanup"} =>
               A[b].event = agent[b].event /\ A[b].inhibit = agent[b].inhibit
  BY <1>2, UnlinkedFields
<1>4. agent' = [A EXCEPT ![a] = Dead] /\ path' \in {path, None}
  BY DEF Exit
<1> HIDE DEF A
<1> QED
  BY <1>1, <1>3, <1>4

-----------------------------------------------------------------------------
(* The initial state. *)

\* At the start there is no agent, no connection and no lock.
LEMMA InitInv == Init => IInv
<1> SUFFICES ASSUME Init PROVE IInv
  OBVIOUS
<1> USE DEF Init, Dead, NoConn
<1>1. Types
  BY DEF Types, ClientStates, AgentStates, AgentType, ConnType
<1>2. Connections
  BY DEF Connections, Peers
<1>3. LockHeld
  BY DEF LockHeld, Spawning
<1>4. OneAgent /\ StartsAwaited
  BY DEF OneAgent, StartsAwaited, Alive, Starting
<1> QED
  BY <1>1, <1>2, <1>3, <1>4 DEF IInv

-----------------------------------------------------------------------------
(* The steps of a client (common/asshelp.c). *)

\* A step of client c to l that leaves the agents and the socket alone, and
\* handles its own connection and the lock as start_new_service does.
Moves(c, l) ==
    /\ client' = [client EXCEPT ![c] = l]
    /\ agent' = agent /\ path' = path /\ odd' \in Nat /\ odd' >= odd
    /\ at' \in [Peers -> ConnType]
    /\ \A q \in Peers \ {c} : at'[q] = at[q]
    /\ \/ at'[c] = at[c]
       \/ at'[c] = NoConn
       \/ at'[c].st = "queued" /\ Reachable /\ at'[c].to = path
    /\ at'[c].st # "none" => l \in {"greet1", "greet2", "greet3", "connected"}
    /\ l \in {"locked", "greet2", "spawn", "wait", "greet3"} => holders' = {c}
    /\ \A d \in Clients \ {c} : holders = {d} => holders' = {d}
    /\ odd' = 0 /\ client[c] \in {"wait", "greet3"} /\ l \notin {"wait", "greet3"} =>
         \A a \in Agents : ~Starting(a)
    /\ odd' = 0 /\ (l = "spawn" \/ (l = "greet2" /\ at'[c].st = "eof")) =>
         \A a \in Agents : ~Alive(a)

\* Such a step keeps the invariant.
LEMMA MovesInv ==
  ASSUME IInv, NEW c \in Clients, NEW l \in ClientStates, Moves(c, l)
  PROVE  IInv'
<1> USE DEF IInv, Moves
<1>0. c \in Peers /\ odd \in Nat /\ (odd' = 0 => odd = 0)
  BY DEF Peers, Types
<1>1. Types'
  BY DEF Types
<1>2. client'[c] = l /\ \A d \in Clients \ {c} : client'[d] = client[d]
  BY DEF Types
<1>3. Connections'
  <2>1. ASSUME NEW p \in Peers
        PROVE  /\ at'[p].to # None => at'[p].st \in {"queued", "accepted", "active"}
               /\ at'[p].st \in {"queued", "accepted", "active"} =>
                    at'[p].to \in Agents /\ agent[at'[p].to].pc \in {"watch", "run", "cleanup"}
               /\ at'[p].st \in {"accepted", "active"} => agent[at'[p].to].pc \in {"run", "cleanup"}
    <3>1. CASE at'[p] = at[p]
      BY <3>1 DEF Connections
    <3>2. CASE at'[p] = NoConn
      BY <3>2 DEF NoConn
    <3>3. CASE at'[p].st = "queued" /\ Reachable /\ at'[p].to = path
      BY <3>3 DEF Reachable, Types
    <3> QED
      BY <3>1, <3>2, <3>3
  <2>2. ASSUME NEW d \in Clients, at'[d].st # "none"
        PROVE  client'[d] \in {"greet1", "greet2", "greet3", "connected"}
    <3>1. CASE d = c
      BY <3>1, <2>2, <1>2
    <3>2. CASE d # c
      BY <3>2, <2>2, <1>2 DEF Connections, Peers
    <3> QED
      BY <3>1, <3>2
  <2> QED
    BY <2>1, <2>2 DEF Connections
<1>4. LockHeld'
  BY <1>2 DEF LockHeld, Spawning
<1>5. ASSUME odd' = 0 PROVE OneAgent'
  BY <1>5, <1>0 DEF OneAgent, Alive
<1>6. ASSUME odd' = 0 PROVE StartsAwaited'
  <2>1. StartsAwaited
    BY <1>6, <1>0
  <2>2. ASSUME NEW a \in Agents, Starting(a)
        PROVE  \E d \in Clients : client'[d] \in {"wait", "greet3"}
    BY <2>1, <2>2, <1>2, <1>6 DEF StartsAwaited
  <2>3. ASSUME NEW d \in Clients,
               client'[d] = "spawn" \/ (client'[d] = "greet2" /\ at'[d].st = "eof"),
               NEW a \in Agents
        PROVE  ~Alive(a)
    <3>1. CASE d = c
      BY <3>1, <2>3, <1>2, <1>6
    <3>2. CASE d # c
      BY <3>2, <2>1, <2>3, <1>2 DEF StartsAwaited, Peers
    <3> QED
      BY <3>1, <3>2
  <2> QED
    BY <2>2, <2>3 DEF StartsAwaited, Starting, Alive
<1> QED
  BY <1>1, <1>3, <1>4, <1>5, <1>6

\* The attempts to connect before the lock and in wait_for_sock.
LEMMA ConnectInv ==
  ASSUME IInv, NEW c \in Clients, Connect(c)
  PROVE  IInv'
<1>1. /\ agent' = agent /\ path' = path /\ holders' = holders /\ odd' = odd
      /\ c \in Peers /\ Types /\ LockHeld /\ odd \in Nat
  BY DEF IInv, Connect, Types, Peers
<1>2. CASE Reachable /\ Queue(c) /\ client[c] = "connect" /\ Goto(c, "greet1")
  <2>1. Moves(c, "greet1")
    BY <1>1, <1>2, QueueFields DEF Goto, Moves
  <2> QED
    BY <2>1, MovesInv DEF ClientStates
<1>3. CASE Reachable /\ Queue(c) /\ client[c] = "wait" /\ Goto(c, "greet3")
  <2>1. holders = {c}
    BY <1>1, <1>3 DEF LockHeld, Spawning
  <2>2. Moves(c, "greet3")
    BY <1>1, <1>3, <2>1, QueueFields DEF Goto, Moves
  <2> QED
    BY <2>2, MovesInv DEF ClientStates
<1>4. CASE at' = at /\ client[c] = "connect" /\ Goto(c, "lock")
  <2>1. at'[c].st = "none"
    BY <1>4 DEF IInv, Connections
  <2>2. Moves(c, "lock")
    BY <1>1, <1>4, <2>1 DEF Goto, Moves, Types
  <2> QED
    BY <2>2, MovesInv DEF ClientStates
<1> QED
  BY <1>2, <1>3, <1>4 DEF Connect

\* The spawn lock is taken while nobody has it.
LEMMA LockSpawningInv ==
  ASSUME IInv, NEW c \in Clients, LockSpawning(c)
  PROVE  IInv'
<1>1. /\ agent' = agent /\ path' = path /\ odd' = odd /\ at' = at
      /\ holders = {} /\ holders' = {c}
      /\ client[c] = "lock" /\ client' = [client EXCEPT ![c] = "locked"]
      /\ c \in Peers /\ Types /\ odd \in Nat /\ at \in [Peers -> ConnType]
  BY DEF IInv, LockSpawning, SpawnLock!Acquire, Goto, Types, Peers
<1>2. at'[c].st = "none"
  BY <1>1 DEF IInv, Connections
<1>3. Moves(c, "locked")
  BY <1>1, <1>2 DEF Moves
<1> QED
  BY <1>3, MovesInv DEF ClientStates

\* The second attempt to connect: a client that is to start an agent has the
\* lock, so nobody else has started one, and a running one would be reachable.
LEMMA ConnectLockedInv ==
  ASSUME IInv, NEW c \in Clients, ConnectLocked(c)
  PROVE  IInv'
<1>1. /\ agent' = agent /\ path' = path /\ holders' = holders /\ odd' = odd
      /\ c \in Peers /\ Types /\ odd \in Nat /\ client[c] = "locked"
  BY DEF IInv, ConnectLocked, Types, Peers
<1>2. holders = {c}
  BY <1>1 DEF IInv, LockHeld, Spawning
<1>3. CASE Reachable /\ Queue(c) /\ Goto(c, "greet2")
  <2>1. Moves(c, "greet2")
    BY <1>1, <1>2, <1>3, QueueFields DEF Goto, Moves
  <2> QED
    BY <2>1, MovesInv DEF ClientStates
<1>4. CASE ~Reachable /\ at' = at /\ Goto(c, "spawn")
  <2>1. at'[c].st = "none"
    BY <1>4, <1>1 DEF IInv, Connections
  <2>2. ASSUME odd' = 0, NEW a \in Agents, Alive(a)
        PROVE  FALSE
    <3>1. OneAgent /\ StartsAwaited
      BY <2>2, <1>1 DEF IInv
    <3>2. ~Starting(a)
      BY <3>1, <1>1, <1>2 DEF StartsAwaited, IInv, LockHeld, Spawning
    <3>3. agent[a].pc \in {"run", "cleanup"}
      BY <3>2, <2>2, <1>1 DEF Starting, Alive, Types, AgentType, AgentStates
    <3>4. path = a
      BY <3>1, <3>3, <2>2 DEF OneAgent
    <3> QED
      BY <3>3, <3>4, <1>4, PartiesAssumption DEF Reachable
  <2>3. Moves(c, "spawn")
    BY <1>1, <1>2, <1>4, <2>1, <2>2 DEF Goto, Moves, Types
  <2> QED
    BY <2>3, MovesInv DEF ClientStates
<1> QED
  BY <1>3, <1>4 DEF ConnectLocked

\* A connection is established: the agent that answers runs, so none is starting.
LEMMA GreetedInv ==
  ASSUME IInv, NEW c \in Clients, Greeted(c)
  PROVE  IInv'
<1>1. /\ agent' = agent /\ path' = path /\ odd' = odd /\ at' = at
      /\ holders' = holders \ {c} /\ at[c].st = "active" /\ Goto(c, "connected")
      /\ c \in Peers /\ Types /\ Connections /\ odd \in Nat
  BY DEF IInv, Greeted, SpawnLock!Release, Types, Peers
<1>2. ASSUME odd' = 0, NEW a \in Agents, Starting(a)
      PROVE  FALSE
  <2>1. OneAgent
    BY <1>1, <1>2 DEF IInv
  <2>2. at[c].to \in Agents /\ agent[at[c].to].pc \in {"run", "cleanup"}
    BY <1>1 DEF Connections
  <2> QED
    BY <2>1, <2>2, <1>2 DEF OneAgent, Alive, Starting
<1>3. Moves(c, "connected")
  BY <1>1, <1>2 DEF Goto, Moves, Types
<1> QED
  BY <1>3, MovesInv DEF ClientStates

\* The agent ended before its greeting: with the lock a client may start one.
LEMMA EofInv ==
  ASSUME IInv, NEW c \in Clients, Eof(c)
  PROVE  IInv'
<1>1. /\ agent' = agent /\ path' = path /\ holders' = holders /\ odd' = odd
      /\ at[c].st = "eof" /\ Close(c)
      /\ c \in Peers /\ Types /\ odd \in Nat
  BY DEF IInv, Eof, Types, Peers
<1>2. client[c] \in {"greet1", "greet2", "greet3", "connected"}
  BY <1>1 DEF IInv, Connections
<1>3. Spawning(c) => holders = {c}
  BY DEF IInv, LockHeld
<1>4. CASE client[c] = "greet1"
  <2>1. Moves(c, "lock")
    BY <1>1, <1>4, CloseFields DEF Eof, Goto, Moves, NoConn
  <2> QED
    BY <2>1, MovesInv DEF ClientStates
<1>5. CASE client[c] = "greet2"
  <2>1. odd' = 0 => \A a \in Agents : ~Alive(a)
    BY <1>1, <1>5 DEF IInv, StartsAwaited
  <2>2. Moves(c, "spawn")
    BY <1>1, <1>3, <1>5, <2>1, CloseFields DEF Eof, Goto, Moves, NoConn, Spawning
  <2> QED
    BY <2>2, MovesInv DEF ClientStates
<1>6. CASE client[c] = "greet3"
  <2>1. Moves(c, "wait")
    BY <1>1, <1>3, <1>6, CloseFields DEF Eof, Goto, Moves, NoConn, Spawning
  <2> QED
    BY <2>1, MovesInv DEF ClientStates
<1>7. CASE client[c] = "connected"
  <2>1. Moves(c, "done")
    BY <1>1, <1>7, CloseFields DEF Eof, Goto, Moves, NoConn
  <2> QED
    BY <2>1, MovesInv DEF ClientStates
<1> QED
  BY <1>2, <1>4, <1>5, <1>6, <1>7

\* wait_for_sock gives up; if an agent is still starting, that is odd.
LEMMA GiveUpInv ==
  ASSUME IInv, NEW c \in Clients, GiveUp(c)
  PROVE  IInv'
<1>1. /\ agent' = agent /\ path' = path /\ at' = at
      /\ holders' = holders \ {c} /\ client[c] = "wait" /\ Goto(c, "failed")
      /\ c \in Peers /\ Types /\ odd \in Nat
  BY DEF IInv, GiveUp, SpawnLock!Release, Types, Peers
<1>2. odd' \in Nat /\ odd' >= odd /\ (odd' = 0 => \A a \in Agents : ~Starting(a))
  BY <1>1 DEF GiveUp
<1>3. at'[c].st = "none"
  BY <1>1 DEF IInv, Connections
<1>4. Moves(c, "failed")
  BY <1>1, <1>2, <1>3 DEF Goto, Moves, Types
<1> QED
  BY <1>4, MovesInv DEF ClientStates

\* The client closes its connection.
LEMMA LeaveInv ==
  ASSUME IInv, NEW c \in Clients, Leave(c)
  PROVE  IInv'
<1>1. /\ agent' = agent /\ path' = path /\ holders' = holders /\ odd' = odd
      /\ client[c] = "connected" /\ Goto(c, "done") /\ Close(c)
      /\ c \in Peers /\ Types /\ odd \in Nat
  BY DEF IInv, Leave, Types, Peers
<1>2. Moves(c, "done")
  BY <1>1, CloseFields DEF Goto, Moves, NoConn
<1> QED
  BY <1>2, MovesInv DEF ClientStates

-----------------------------------------------------------------------------
(* The steps of an agent (agent/gpg-agent.c). *)

\* A step of a living agent a that leaves the clients alone and stops no
\* other agent.
Turns(a) ==
    /\ client' = client /\ holders' = holders /\ odd' = odd
    /\ agent' \in [Agents -> AgentType]
    /\ \A b \in Agents \ {a} : agent'[b].pc = agent[b].pc
    /\ at' \in [Peers -> ConnType]
    /\ \A q \in Peers \ {a} : at'[q] = at[q]
    /\ \/ at'[a] = at[a]
       \/ at'[a] = NoConn
       \/ at'[a].st = "queued" /\ Reachable /\ at'[a].to = path /\ path # a
    /\ path' \in Agents \cup {None}
    /\ agent[a].pc \in {"watch", "run", "cleanup"} => agent'[a].pc \in {"watch", "run", "cleanup"}
    /\ agent[a].pc \in {"run", "cleanup"} => agent'[a].pc \in {"run", "cleanup"}
    /\ agent'[a].pc \in {"bind", "check", "greet", "remove", "rebind", "listen", "watch"} =>
         Starting(a)
    /\ Alive(a)
    /\ odd = 0 /\ agent'[a].pc # "dead" =>
         /\ agent'[a].pc # "greet"
         /\ path' = a <=> agent'[a].pc \in {"listen", "watch", "run", "cleanup"}
         /\ ~agent'[a].event /\ ~agent'[a].inhibit

\* Such a step keeps the invariant.
LEMMA TurnsInv ==
  ASSUME IInv, NEW a \in Agents, Turns(a)
  PROVE  IInv'
<1> USE DEF IInv, Turns
<1>0. a \in Peers /\ a \notin Clients /\ \A c \in Clients : c \in Peers
  BY PartiesAssumption DEF Peers
<1>1. Types'
  BY DEF Types
<1>2. Connections'
  <2>1. ASSUME NEW p \in Peers
        PROVE  /\ at'[p].to # None => at'[p].st \in {"queued", "accepted", "active"}
               /\ at'[p].st \in {"queued", "accepted", "active"} =>
                    at'[p].to \in Agents /\ agent'[at'[p].to].pc \in {"watch", "run", "cleanup"}
               /\ at'[p].st \in {"accepted", "active"} => agent'[at'[p].to].pc \in {"run", "cleanup"}
    <3>1. CASE at'[p] = at[p]
      BY <3>1 DEF Connections
    <3>2. CASE at'[p] = NoConn
      BY <3>2 DEF NoConn
    <3>3. CASE at'[p].st = "queued" /\ Reachable /\ at'[p].to = path /\ path # a
      BY <3>3 DEF Reachable, Types
    <3> QED
      BY <3>1, <3>2, <3>3
  <2>2. \A c \in Clients : at'[c] = at[c]
    BY <1>0
  <2> QED
    BY <2>1, <2>2 DEF Connections
<1>3. LockHeld'
  BY DEF LockHeld, Spawning
<1>4. ASSUME odd' = 0 PROVE OneAgent'
  <2>1. \A b \in Agents : Alive(b)' => b = a
    BY <1>4 DEF OneAgent, Alive
  <2> QED
    BY <1>4, <2>1 DEF OneAgent, Alive
<1>5. ASSUME odd' = 0 PROVE StartsAwaited'
  <2>1. StartsAwaited
    BY <1>5
  <2>2. \A b \in Agents : Starting(b)' => Starting(b)
    BY DEF Starting
  <2>3. \A c \in Clients : at'[c] = at[c]
    BY <1>0
  <2> QED
    BY <2>1, <2>2, <2>3 DEF StartsAwaited, Alive
<1> QED
  BY <1>1, <1>2, <1>3, <1>4, <1>5

\* What a step that changes one agent makes of the agents.
LEMMA AgentStep1 ==
  ASSUME Types, NEW a \in Agents, NEW r \in AgentType, agent' = [agent EXCEPT ![a] = r]
  PROVE  /\ agent' \in [Agents -> AgentType]
         /\ agent'[a] = r
         /\ \A b \in Agents \ {a} : agent'[b] = agent[b]
  BY DEF Types

\* The same for a step that only goes to another place.
LEMMA AtFields ==
  ASSUME Types, NEW a \in Agents, NEW l \in AgentStates, At(a, l)
  PROVE  /\ agent' \in [Agents -> AgentType]
         /\ agent'[a].pc = l
         /\ agent'[a].event = agent[a].event /\ agent'[a].inhibit = agent[a].inhibit
         /\ \A b \in Agents \ {a} : agent'[b] = agent[b]
<1> DEFINE r == [agent[a] EXCEPT !.pc = l]
<1>1. agent[a] \in AgentType
  BY DEF Types
<1>2. r \in AgentType /\ r.pc = l /\ r.event = agent[a].event /\ r.inhibit = agent[a].inhibit
  BY <1>1 DEF AgentType
<1>3. agent' = [agent EXCEPT ![a] = r]
  BY DEF At, Types
<1> HIDE DEF r
<1> QED
  BY <1>2, <1>3, AgentStep1, ZenonT(30)

\* bind of a name that is not there.
LEMMA BindInv ==
  ASSUME IInv, NEW a \in Agents, Bind(a)
  PROVE  IInv'
<1>1. /\ client' = client /\ holders' = holders /\ odd' = odd /\ at' = at
      /\ agent[a].pc = "bind" /\ Types
      /\ at \in [Peers -> ConnType] /\ path \in Agents \cup {None}
      /\ Alive(a) /\ Starting(a)
  BY DEF Bind, IInv, Types, Alive, Starting
<1>2. odd = 0 => OneAgent
  BY DEF IInv
<1>3. CASE path = None /\ path' = a /\ At(a, "listen")
  <2>1. "listen" \in AgentStates
    BY DEF AgentStates
  <2>2. Turns(a)
    BY <1>1, <1>2, <1>3, <2>1, AtFields DEF Turns, OneAgent
  <2> QED
    BY <2>2, TurnsInv
<1>4. CASE path' = path /\ At(a, "check")
  <2>1. "check" \in AgentStates
    BY DEF AgentStates
  <2>2. Turns(a)
    BY <1>1, <1>2, <1>4, <2>1, AtFields DEF Turns, OneAgent
  <2> QED
    BY <2>2, TurnsInv
<1> QED
  BY <1>3, <1>4 DEF Bind

\* check_for_running_agent: unless something odd happened there is no other agent
\* that could listen.
LEMMA CheckInv ==
  ASSUME IInv, NEW a \in Agents, Check(a)
  PROVE  IInv'
<1>1. /\ client' = client /\ holders' = holders /\ odd' = odd /\ path' = path
      /\ agent[a].pc \in {"check", "greet"} /\ Types /\ a \in Peers
      /\ at \in [Peers -> ConnType] /\ path \in Agents \cup {None}
      /\ Alive(a) /\ Starting(a)
  BY DEF Check, IInv, Types, Alive, Starting, Peers
<1>2. odd = 0 => OneAgent
  BY DEF IInv
<1>3. CASE agent[a].pc = "check" /\ Reachable /\ Queue(a) /\ At(a, "greet")
  <2>1. "greet" \in AgentStates
    BY DEF AgentStates
  <2>2. odd # 0 /\ path # a
    BY <1>1, <1>2, <1>3 DEF OneAgent, Reachable, Alive, Types
  <2>3. Turns(a)
    BY <1>1, <1>3, <2>1, <2>2, AtFields, QueueFields DEF Turns
  <2> QED
    BY <2>3, TurnsInv
<1>4. CASE agent[a].pc = "check" /\ At(a, "remove") /\ at' = at
  <2>1. "remove" \in AgentStates
    BY DEF AgentStates
  <2>2. Turns(a)
    BY <1>1, <1>2, <1>4, <2>1, AtFields DEF Turns, OneAgent
  <2> QED
    BY <2>2, TurnsInv
<1>5. CASE agent[a].pc = "greet" /\ agent' = [agent EXCEPT ![a] = Dead] /\ Close(a)
  <2>1. Dead \in AgentType /\ Dead.pc = "dead"
    BY DEF Dead, AgentType, AgentStates
  <2>2. Turns(a)
    BY <1>1, <1>2, <1>5, <2>1, AgentStep1, CloseFields, ZenonT(30) DEF Turns
  <2> QED
    BY <2>2, TurnsInv
<1>6. CASE agent[a].pc = "greet" /\ At(a, "remove") /\ Close(a)
  <2>1. "remove" \in AgentStates
    BY DEF AgentStates
  <2>2. Turns(a)
    BY <1>1, <1>2, <1>6, <2>1, AtFields, CloseFields DEF Turns, OneAgent
  <2> QED
    BY <2>2, TurnsInv
<1> QED
  BY <1>3, <1>4, <1>5, <1>6 DEF Check

\* The removal of the file.
LEMMA RemoveInv ==
  ASSUME IInv, NEW a \in Agents, Remove(a)
  PROVE  IInv'
<1>1. /\ client' = client /\ holders' = holders /\ odd' = odd /\ at' = at
      /\ path' = None /\ agent[a].pc = "remove" /\ Types
      /\ at \in [Peers -> ConnType]
      /\ Alive(a) /\ Starting(a)
  BY DEF Remove, IInv, Types, Alive, Starting
<1>2. odd = 0 => OneAgent
  BY DEF IInv
<1> DEFINE U == Unlinked(agent)
           r == [U[a] EXCEPT !.pc = "rebind"]
<1>3. /\ U \in [Agents -> AgentType]
      /\ \A b \in Agents : U[b].pc = agent[b].pc
      /\ U[a].event = agent[a].event /\ U[a].inhibit = agent[a].inhibit
  BY <1>1, UnlinkedFields
<1>4. agent' = [U EXCEPT ![a].pc = "rebind"]
  BY DEF Remove
<1> HIDE DEF U
<1>5. /\ r \in AgentType /\ r.pc = "rebind"
      /\ r.event = agent[a].event /\ r.inhibit = agent[a].inhibit
  BY <1>3 DEF AgentType, AgentStates
<1>6. agent' = [U EXCEPT ![a] = r]
  BY <1>3, <1>4
<1> HIDE DEF r
<1>7. /\ agent' \in [Agents -> AgentType] /\ agent'[a] = r
      /\ \A b \in Agents \ {a} : agent'[b].pc = agent[b].pc
  BY <1>3, <1>5, <1>6
<1>8. Turns(a)
  BY <1>1, <1>2, <1>5, <1>7, PartiesAssumption DEF Turns, OneAgent
<1> QED
  BY <1>8, TurnsInv

\* The second bind.
LEMMA RebindInv ==
  ASSUME IInv, NEW a \in Agents, Rebind(a)
  PROVE  IInv'
<1>1. /\ client' = client /\ holders' = holders /\ odd' = odd /\ at' = at
      /\ agent[a].pc = "rebind" /\ Types
      /\ at \in [Peers -> ConnType] /\ path \in Agents \cup {None}
      /\ Alive(a) /\ Starting(a)
  BY DEF Rebind, IInv, Types, Alive, Starting
<1>2. odd = 0 => OneAgent
  BY DEF IInv
<1>3. CASE path = None /\ path' = a /\ At(a, "listen")
  <2>1. "listen" \in AgentStates
    BY DEF AgentStates
  <2>2. Turns(a)
    BY <1>1, <1>2, <1>3, <2>1, AtFields DEF Turns, OneAgent
  <2> QED
    BY <2>2, TurnsInv
<1>4. CASE path' = path /\ agent' = [agent EXCEPT ![a] = Dead]
  <2>1. Dead \in AgentType /\ Dead.pc = "dead"
    BY DEF Dead, AgentType, AgentStates
  <2>2. Turns(a)
    BY <1>1, <1>2, <1>4, <2>1, AgentStep1, ZenonT(30) DEF Turns
  <2> QED
    BY <2>2, TurnsInv
<1> QED
  BY <1>3, <1>4 DEF Rebind

\* listen, and the watch on the file.
LEMMA OnwardInv ==
  ASSUME IInv, NEW a \in Agents, Listen(a) \/ Watch(a)
  PROVE  IInv'
<1>1. /\ client' = client /\ holders' = holders /\ odd' = odd /\ at' = at /\ path' = path
      /\ agent[a].pc \in {"listen", "watch"} /\ Types
      /\ at \in [Peers -> ConnType] /\ path \in Agents \cup {None}
      /\ Alive(a)
  BY DEF Listen, Watch, IInv, Types, Alive
<1>2. odd = 0 => OneAgent
  BY DEF IInv
<1>3. PICK l \in {"watch", "run"} :
        At(a, l) /\ (l = "watch" => agent[a].pc = "listen")
                 /\ (l = "run" => agent[a].pc = "watch")
  BY DEF Listen, Watch
<1>4. l \in AgentStates
  BY DEF AgentStates
<1>5. Turns(a)
  BY <1>1, <1>2, <1>3, <1>4, AtFields DEF Turns, OneAgent, Starting
<1> QED
  BY <1>5, TurnsInv

\* A turn of the main loop that has made r of the record of its agent.
LEMMA LoopInv ==
  ASSUME IInv, NEW a \in Agents, agent[a].pc = "run",
         NEW r \in AgentType, r.pc = "run",
         odd # 0 \/ (r.event = agent[a].event /\ r.inhibit = agent[a].inhibit),
         Loop(a, [agent EXCEPT ![a] = r]),
         UNCHANGED <<client, at, path, holders, odd>>
  PROVE  IInv'
<1>1. /\ Types
      /\ at \in [Peers -> ConnType] /\ path \in Agents \cup {None}
      /\ Alive(a)
  BY DEF IInv, Types, Alive
<1>2. odd = 0 => OneAgent
  BY DEF IInv
<1> DEFINE ag == [agent EXCEPT ![a] = r]
           e == [r EXCEPT !.pc = "cleanup"]
<1>3. /\ e \in AgentType /\ e.pc = "cleanup"
      /\ e.event = r.event /\ e.inhibit = r.inhibit
  BY DEF AgentType, AgentStates
<1>4. [ag EXCEPT ![a].pc = "cleanup"] = [agent EXCEPT ![a] = e]
  BY <1>1, ZenonT(30) DEF Types
<1>5. agent' = [ag EXCEPT ![a].pc = "cleanup"] \/ agent' = ag
  BY DEF Loop
<1>6. PICK q \in AgentType :
        /\ agent' = [agent EXCEPT ![a] = q]
        /\ q.pc \in {"run", "cleanup"}
        /\ q.event = r.event /\ q.inhibit = r.inhibit
  <2>1. CASE agent' = ag
    BY <2>1, ZenonT(30)
  <2>2. CASE agent' = [ag EXCEPT ![a].pc = "cleanup"]
    <3> HIDE DEF ag, e
    <3> QED
      BY <2>2, <1>3, <1>4
  <2> QED
    BY <1>5, <2>1, <2>2
<1> HIDE DEF ag, e
<1>7. Turns(a)
  <2>1. /\ agent' \in [Agents -> AgentType]
        /\ agent'[a] = q
        /\ \A b \in Agents \ {a} : agent'[b] = agent[b]
    BY <1>1, <1>6, AgentStep1, ZenonT(30)
  <2>2. odd = 0 => path = a /\ ~q.event /\ ~q.inhibit
    BY <1>1, <1>2, <1>6 DEF OneAgent
  <2> QED
    BY <1>1, <1>6, <2>1, <2>2 DEF Turns
<1> QED
  BY <1>7, TurnsInv

\* The loop only comes to its head again.
LEMMA KickInv ==
  ASSUME IInv, NEW a \in Agents, Kick(a)
  PROVE  IInv'
<1>1. agent[a] \in AgentType /\ agent \in [Agents -> AgentType]
  BY DEF IInv, Types
<1>2. agent = [agent EXCEPT ![a] = agent[a]]
  BY <1>1
<1>3. /\ agent[a].pc = "run" /\ Loop(a, agent)
      /\ UNCHANGED <<client, at, path, holders, odd>>
  BY DEF Kick
<1>4. Loop(a, [agent EXCEPT ![a] = agent[a]])
  BY <1>2, <1>3
<1> QED
  BY <1>1, <1>3, <1>4, LoopInv

\* An agent that sees that its socket was removed: that is odd.
LEMMA SeeRemovalInv ==
  ASSUME IInv, NEW a \in Agents, SeeRemoval(a)
  PROVE  IInv'
<1> DEFINE r == [agent[a] EXCEPT !.event = FALSE, !.inhibit = TRUE, !.pending = 2]
<1>1. /\ agent[a].pc = "run" /\ agent[a].event /\ Alive(a)
      /\ UNCHANGED <<client, at, path, holders, odd>>
      /\ agent[a] \in AgentType /\ agent \in [Agents -> AgentType]
  BY DEF SeeRemoval, IInv, Types, Alive
<1>2. odd # 0
  BY <1>1 DEF IInv, OneAgent
<1>3. r \in AgentType /\ r.pc = "run"
  <2>1. ASSUME NEW q \in AgentType
        PROVE  LET e == [q EXCEPT !.event = FALSE, !.inhibit = TRUE, !.pending = 2]
               IN  e \in AgentType /\ e.pc = q.pc
    <3>1. 2 \in 0..2
      OBVIOUS
    <3> QED
      BY <3>1, Zenon DEF AgentType
  <2> QED
    BY <1>1, <2>1, ZenonT(30)
<1>4. [agent EXCEPT ![a].event = FALSE, ![a].inhibit = TRUE, ![a].pending = 2]
        = [agent EXCEPT ![a] = r]
  BY <1>1, ZenonT(30)
<1>5. Loop(a, [agent EXCEPT ![a].event = FALSE, ![a].inhibit = TRUE, ![a].pending = 2])
  BY DEF SeeRemoval
<1> HIDE DEF r
<1>6. Loop(a, [agent EXCEPT ![a] = r])
  BY <1>4, <1>5
<1> QED
  BY <1>1, <1>2, <1>3, <1>6, LoopInv, ZenonT(30)

\* A signal that is counted, but does not end the process at once.
LEMMA SigtermCounts ==
  ASSUME IInv, NEW a \in Agents, Sigterm(a), agent[a].pending # 2
  PROVE  IInv'
<1> DEFINE r == [agent[a] EXCEPT !.pending = agent[a].pending + 1]
<1>1. /\ agent[a].pc = "run"
      /\ UNCHANGED <<client, at, path, holders, odd>>
      /\ agent[a] \in AgentType /\ agent \in [Agents -> AgentType]
  BY DEF Sigterm, IInv, Types
<1>2. /\ r \in AgentType /\ r.pc = "run"
      /\ r.event = agent[a].event /\ r.inhibit = agent[a].inhibit
  BY <1>1 DEF AgentType
<1>3. [agent EXCEPT ![a].pending = @ + 1] = [agent EXCEPT ![a] = r]
  BY <1>1
<1>4. Loop(a, [agent EXCEPT ![a].pending = @ + 1])
  BY DEF Sigterm
<1> HIDE DEF r
<1>5. Loop(a, [agent EXCEPT ![a] = r])
  BY <1>3, <1>4
<1> QED
  BY <1>1, <1>2, <1>5, LoopInv, ZenonT(30)

\* A connection is accepted, or its thread begins to serve it.
LEMMA ServeInv ==
  ASSUME IInv, NEW p \in Peers, Serve(p) \/ \E a \in Agents : Accept(a, p)
  PROVE  IInv'
<1>1. /\ client' = client /\ holders' = holders /\ odd' = odd /\ agent' = agent /\ path' = path
      /\ Types /\ at \in [Peers -> ConnType] /\ Connections
  BY DEF Serve, Accept, IInv, Types
<1>2. PICK st \in {"accepted", "active"} : at' = [at EXCEPT ![p].st = st]
  BY ZenonT(30) DEF Serve, Accept
<1>3. /\ at[p].st \in {"queued", "accepted"}
      /\ at[p].to \in Agents /\ agent[at[p].to].pc \in {"run", "cleanup"}
  <2>1. CASE Serve(p)
    BY <2>1, <1>1 DEF Serve, Connections
  <2>2. ASSUME NEW a \in Agents, Accept(a, p)
        PROVE  at[p].st = "queued" /\ at[p].to = a /\ agent[a].pc = "run"
    BY <2>2 DEF Accept
  <2> QED
    BY <2>1, <2>2
<1>4. /\ at' \in [Peers -> ConnType]
      /\ at'[p].st = st /\ at'[p].to = at[p].to
      /\ \A q \in Peers \ {p} : at'[q] = at[q]
  <2> DEFINE e == [at[p] EXCEPT !.st = st]
  <2>1. e \in ConnType /\ e.st = st /\ e.to = at[p].to
    BY <1>1 DEF ConnType
  <2>2. at' = [at EXCEPT ![p] = e]
    BY <1>1, <1>2
  <2> HIDE DEF e
  <2> QED
    BY <1>1, <2>1, <2>2
<1>5. Types'
  BY <1>1, <1>4 DEF Types
<1>6. Connections'
  <2>1. ASSUME NEW q \in Peers
        PROVE  /\ at'[q].to # None => at'[q].st \in {"queued", "accepted", "active"}
               /\ at'[q].st \in {"queued", "accepted", "active"} =>
                    at'[q].to \in Agents /\ agent'[at'[q].to].pc \in {"watch", "run", "cleanup"}
               /\ at'[q].st \in {"accepted", "active"} => agent'[at'[q].to].pc \in {"run", "cleanup"}
    <3>1. CASE q = p
      BY <3>1, <1>1, <1>3, <1>4
    <3>2. CASE q # p
      BY <3>2, <1>1, <1>4 DEF Connections
    <3> QED
      BY <3>1, <3>2
  <2>2. \A c \in Clients : at'[c].st # "none" => at[c].st # "none"
    BY <1>3, <1>4 DEF Peers
  <2> QED
    BY <1>1, <2>1, <2>2 DEF Connections
<1>7. LockHeld'
  BY <1>1 DEF IInv, LockHeld, Spawning
<1>8. ASSUME odd' = 0 PROVE OneAgent' /\ StartsAwaited'
  <2>1. OneAgent /\ StartsAwaited
    BY <1>1, <1>8 DEF IInv
  <2>2. OneAgent'
    BY <1>1, <2>1 DEF OneAgent, Alive
  <2>3. \A c \in Clients : at'[c].st = "eof" => at[c].st = "eof"
    BY <1>4 DEF Peers
  <2>4. StartsAwaited'
    BY <1>1, <2>1, <2>3 DEF StartsAwaited, Alive, Starting
  <2> QED
    BY <2>2, <2>4
<1> QED
  BY <1>5, <1>6, <1>7, <1>8 DEF IInv

-----------------------------------------------------------------------------
(* Agents that begin and end. *)

\* The process of agent a ends.
LEMMA DeathInv ==
  ASSUME IInv, NEW a \in Agents, Alive(a), Dies(a),
         client' = client, holders' = holders, odd' = odd,
         agent' \in [Agents -> AgentType], agent'[a] = Dead,
         \A b \in Agents \ {a} : agent'[b].pc = agent[b].pc,
         path' \in {path, None}
  PROVE  IInv'
<1>1. Types /\ Connections /\ LockHeld
  BY DEF IInv
<1>2. /\ at' \in [Peers -> ConnType]
      /\ at'[a] = NoConn
      /\ \A p \in Peers \ {a} : at[p].to = a => at'[p] = [to |-> None, st |-> "eof"]
      /\ \A p \in Peers \ {a} : at[p].to # a => at'[p] = at[p]
  BY <1>1, DiesFields
<1>3. Types'
  BY <1>1, <1>2 DEF Types
<1>4. \A c \in Clients : c \in Peers \ {a}
  BY PartiesAssumption DEF Peers
<1>5. Connections'
  <2>1. ASSUME NEW p \in Peers
        PROVE  /\ at'[p].to # None => at'[p].st \in {"queued", "accepted", "active"}
               /\ at'[p].st \in {"queued", "accepted", "active"} =>
                    at'[p].to \in Agents /\ agent'[at'[p].to].pc \in {"watch", "run", "cleanup"}
               /\ at'[p].st \in {"accepted", "active"} => agent'[at'[p].to].pc \in {"run", "cleanup"}
    <3>1. CASE p = a \/ at[p].to = a
      <4>1. at'[p].to = None /\ at'[p].st \in {"none", "eof"}
        BY <3>1, <1>2 DEF NoConn
      <4> QED
        BY <4>1
    <3>2. CASE p # a /\ at[p].to # a
      BY <3>2, <1>1, <1>2 DEF Connections
    <3> QED
      BY <3>1, <3>2
  <2>2. \A c \in Clients : at'[c].st # "none" => at[c].st # "none"
    <3>1. \A c \in Clients : at[c].to = a => at[c].st # "none"
      BY <1>1, <1>4, PartiesAssumption DEF Connections
    <3> QED
      BY <3>1, <1>2, <1>4
  <2> QED
    BY <1>1, <2>1, <2>2, ZenonT(30) DEF Connections
<1>6. LockHeld'
  BY <1>1 DEF LockHeld, Spawning
<1>7. ASSUME odd' = 0 PROVE OneAgent' /\ StartsAwaited'
  <2>1. OneAgent /\ StartsAwaited
    BY <1>7 DEF IInv
  <2>2. \A b \in Agents : ~Alive(b)'
    BY <2>1 DEF OneAgent, Alive, Dead
  <2> QED
    BY <2>2 DEF OneAgent, StartsAwaited, Alive, Starting
<1> QED
  BY <1>3, <1>5, <1>6, <1>7 DEF IInv

\* An agent ends by itself, by KILLAGENT or by the third signal.
LEMMA EndInv ==
  ASSUME IInv, NEW a \in Agents, agent[a].pc \in {"run", "cleanup"}, Exit(a, agent),
         client' = client, holders' = holders, odd' = odd
  PROVE  IInv'
<1>1. Types /\ Alive(a) /\ Dies(a)
  BY DEF IInv, Alive, Exit
<1> QED
  BY <1>1, ExitFields, DeathInv

\* An agent is killed.
LEMMA CrashInv ==
  ASSUME IInv, NEW a \in Agents, Crash(a)
  PROVE  IInv'
<1>1. /\ Types /\ Alive(a) /\ Dies(a) /\ agent' = [agent EXCEPT ![a] = Dead]
      /\ client' = client /\ holders' = holders /\ odd' = odd /\ path' = path
  BY DEF IInv, Crash
<1>2. Dead \in AgentType
  BY DEF Dead, AgentType, AgentStates
<1> QED
  BY <1>1, <1>2, AgentStep1, DeathInv, ZenonT(30)

\* KILLAGENT comes over a connection to a running agent.
LEMMA KillagentInv ==
  ASSUME IInv, NEW c \in Clients, Killagent(c)
  PROVE  /\ IInv'
         /\ at[c].to \in Agents /\ agent[at[c].to].pc \in {"run", "cleanup"}
<1>1. /\ at[c].to \in Agents /\ agent[at[c].to].pc \in {"run", "cleanup"}
  BY DEF Killagent, IInv, Connections, Peers
<1>2. client' = client
  BY DEF Killagent, Goto, IInv, Types
<1> QED
  BY <1>1, <1>2, EndInv DEF Killagent

\* A new process.
LEMMA NewProcess ==
  LET r == [Dead EXCEPT !.pc = "bind"]
  IN  r \in AgentType /\ r.pc = "bind" /\ r.event = FALSE /\ r.inhibit = FALSE
<1>1. ASSUME NEW d \in AgentType
      PROVE  LET r == [d EXCEPT !.pc = "bind"]
             IN  r \in AgentType /\ r.pc = "bind" /\ r.event = d.event /\ r.inhibit = d.inhibit
  BY DEF AgentType, AgentStates
<1>2. Dead \in AgentType /\ Dead.event = FALSE /\ Dead.inhibit = FALSE
  BY DEF Dead, AgentType, AgentStates
<1> QED
  BY <1>1, <1>2

\* A client starts an agent: there was none, and it waits for it with the lock.
LEMMA SpawnInv ==
  ASSUME IInv, NEW c \in Clients, Spawn(c)
  PROVE  IInv'
<1>1. /\ client[c] = "spawn" /\ client' = [client EXCEPT ![c] = "wait"]
      /\ at' = at /\ path' = path /\ holders' = holders /\ odd' = odd
      /\ Types /\ Connections /\ LockHeld
  BY DEF Spawn, Goto, IInv
<1>2. PICK a \in Unused : agent' = [agent EXCEPT ![a] = [Dead EXCEPT !.pc = "bind"]]
  BY ZenonT(30) DEF Spawn, Started
<1>3. a \in Agents /\ ~Alive(a) /\ path # a
  BY <1>2 DEF Unused
<1> DEFINE r == [Dead EXCEPT !.pc = "bind"]
<1>4. r \in AgentType /\ r.pc = "bind" /\ r.event = FALSE /\ r.inhibit = FALSE
  BY NewProcess
<1> HIDE DEF r
<1>5. /\ agent' \in [Agents -> AgentType] /\ agent'[a] = r
      /\ \A b \in Agents \ {a} : agent'[b] = agent[b]
  BY <1>1, <1>2, <1>3, <1>4, AgentStep1, ZenonT(30) DEF r
<1>6. client'[c] = "wait" /\ \A d \in Clients \ {c} : client'[d] = client[d]
  BY <1>1 DEF Types
<1>7. Types'
  BY <1>1, <1>5 DEF Types, ClientStates
<1>8. at[c].st = "none"
  BY <1>1 DEF Connections
<1>9. Connections'
  BY <1>1, <1>3, <1>5, <1>6, <1>8 DEF Connections, Alive
<1>10. LockHeld'
  BY <1>1, <1>6 DEF LockHeld, Spawning
<1>11. ASSUME odd' = 0 PROVE OneAgent' /\ StartsAwaited'
  <2>1. OneAgent /\ StartsAwaited
    BY <1>1, <1>11 DEF IInv
  <2>2. \A b \in Agents : Alive(b)' => b = a
    BY <2>1, <1>1, <1>5 DEF StartsAwaited, Alive
  <2>3. OneAgent'
    BY <2>2, <1>1, <1>3, <1>4, <1>5 DEF OneAgent
  <2>4. ASSUME NEW d \in Clients, client'[d] \in {"spawn", "greet2"}
        PROVE  FALSE
    <3>1. d # c
      BY <2>4, <1>6
    <3>2. Spawning(c) /\ Spawning(d)
      BY <3>1, <2>4, <1>1, <1>6 DEF Spawning
    <3> QED
      BY <3>1, <3>2, <1>1 DEF LockHeld
  <2>5. StartsAwaited'
    BY <2>4, <1>6 DEF StartsAwaited
  <2> QED
    BY <2>3, <2>5
<1> QED
  BY <1>7, <1>9, <1>10, <1>11 DEF IInv

\* An agent started by hand, and a file removed by hand, are odd.
LEMMA OddInv ==
  ASSUME IInv, StartByHand \/ RemoveByHand
  PROVE  IInv'
<1>1. /\ client' = client /\ at' = at /\ holders' = holders /\ odd' = odd + 1
      /\ path' \in {path, None}
      /\ Types /\ Connections /\ LockHeld
  BY DEF StartByHand, RemoveByHand, IInv
<1>2. /\ agent' \in [Agents -> AgentType]
      /\ \A a \in Agents : Alive(a) => agent'[a].pc = agent[a].pc
  <2>1. CASE StartByHand
    <3>1. PICK a \in Unused : agent' = [agent EXCEPT ![a] = [Dead EXCEPT !.pc = "bind"]]
      BY <2>1, ZenonT(30) DEF StartByHand, Started
    <3>2. a \in Agents /\ ~Alive(a)
      BY <3>1 DEF Unused
    <3> DEFINE r == [Dead EXCEPT !.pc = "bind"]
    <3>3. r \in AgentType
      BY NewProcess
    <3> HIDE DEF r
    <3> QED
      BY <1>1, <3>1, <3>2, <3>3, AgentStep1, ZenonT(30) DEF r
  <2>2. CASE RemoveByHand
    BY <2>2, <1>1, UnlinkedFields DEF RemoveByHand
  <2> QED
    BY <2>1, <2>2
<1>3. Types'
  BY <1>1, <1>2 DEF Types
<1>4. Connections'
  BY <1>1, <1>2 DEF Connections, Alive
<1>5. LockHeld' /\ odd' # 0
  BY <1>1 DEF LockHeld, Spawning, Types
<1> QED
  BY <1>3, <1>4, <1>5 DEF IInv

-----------------------------------------------------------------------------
(* All steps. *)

\* Every step keeps the invariant.
LEMMA NextInv == IInv /\ [Next]_vars => IInv'
<1> SUFFICES ASSUME IInv, [Next]_vars PROVE IInv'
  OBVIOUS
<1>1. ASSUME NEW c \in Clients, ClientStep(c) \/ Killagent(c)
      PROVE  IInv'
  BY <1>1, ConnectInv, LockSpawningInv, ConnectLockedInv, SpawnInv, GreetedInv, EofInv,
     GiveUpInv, LeaveInv, KillagentInv DEF ClientStep
<1>2. ASSUME NEW a \in Agents, AgentStep(a) \/ Kick(a) \/ Sigterm(a) \/ Crash(a)
      PROVE  IInv'
  <2>1. CASE Sigterm(a)
    <3>1. CASE agent[a].pending = 2
      BY <2>1, <3>1, EndInv DEF Sigterm
    <3>2. CASE agent[a].pending # 2
      BY <2>1, <3>2, SigtermCounts
    <3> QED
      BY <3>1, <3>2
  <2>2. CASE Cleanup(a)
    BY <2>2, EndInv DEF Cleanup
  <2>3. CASE \E p \in Peers : Accept(a, p)
    BY <2>3, ServeInv
  <2> QED
    BY <1>2, <2>1, <2>2, <2>3, BindInv, CheckInv, RemoveInv, RebindInv, OnwardInv,
       KickInv, SeeRemovalInv, CrashInv DEF AgentStep
<1>3. ASSUME NEW p \in Peers, Serve(p)
      PROVE  IInv'
  BY <1>3, ServeInv
<1>4. CASE StartByHand \/ RemoveByHand
  BY <1>4, OddInv
<1>5. CASE UNCHANGED vars
  BY <1>5 DEF vars, IInv, Types, Connections, LockHeld, Spawning, OneAgent, StartsAwaited,
              Alive, Starting
<1> QED
  BY <1>1, <1>2, <1>3, <1>4, <1>5 DEF Next

\* IInv is an invariant: while nothing odd happens there is at most one agent, and
\* it has the socket from bind to the end of its cleanup (start_new_service,
\* create_server_socket).
THEOREM Invariance == Spec => []IInv
<1>1. Init => IInv
  BY InitInv
<1>2. IInv /\ [Next]_vars => IInv'
  BY NextInv
<1> QED
  BY <1>1, <1>2, PTL DEF Spec

-----------------------------------------------------------------------------
(* Nobody takes the socket from a living agent. *)

\* What SocketKept says of one step.
Kept == \A a \in Agents : path = a /\ path' # a /\ agent'[a].pc # "dead" => odd' > 0

\* An agent that ends had the socket itself.
LEMMA ExitKeeps ==
  ASSUME IInv, NEW b \in Agents, agent[b].pc \in {"run", "cleanup"}, Exit(b, agent),
         odd' = odd
  PROVE  Kept
<1> SUFFICES ASSUME NEW a \in Agents, path = a, agent'[a].pc # "dead", odd = 0
             PROVE  FALSE
  BY DEF Kept, IInv, Types
<1>1. OneAgent /\ Types
  BY DEF IInv
<1>2. path = b
  BY <1>1 DEF OneAgent, Alive
<1> QED
  BY <1>1, <1>2, ExitFields DEF Dead

\* A new agent removes the file only of a dead one.
LEMMA RemoveKeeps ==
  ASSUME IInv, NEW b \in Agents, Remove(b)
  PROVE  Kept
<1> SUFFICES ASSUME NEW a \in Agents, path = a, agent'[a].pc # "dead", odd' = 0
             PROVE  FALSE
  BY DEF Kept, IInv, Types, Remove
<1>1. OneAgent /\ Types /\ agent[b].pc = "remove"
  BY DEF IInv, Remove
<1>2. a # b /\ ~Alive(a)
  BY <1>1 DEF OneAgent, Alive
<1> DEFINE U == Unlinked(agent)
<1>3. /\ U \in [Agents -> AgentType]
      /\ \A d \in Agents : U[d].pc = agent[d].pc
  BY <1>1, UnlinkedFields
<1>4. agent' = [U EXCEPT ![b].pc = "rebind"]
  BY DEF Remove
<1> HIDE DEF U
<1> QED
  BY <1>2, <1>3, <1>4 DEF Alive

\* The other steps leave the socket's name alone, or bind it when it is free.
LEMMA StepKeeps == IInv /\ [Next]_vars => Kept
<1> SUFFICES ASSUME IInv, [Next]_vars PROVE Kept
  OBVIOUS
<1>0. Types /\ odd \in Nat
  BY DEF IInv, Types
<1>1. CASE path' = path
  BY <1>1 DEF Kept
<1>2. ASSUME NEW c \in Clients, ClientStep(c) \/ Killagent(c)
      PROVE  Kept
  <2>1. CASE ClientStep(c)
    BY <2>1, <1>1 DEF ClientStep, Connect, LockSpawning, ConnectLocked, Spawn, Greeted, Eof,
                      GiveUp, Leave
  <2>2. CASE Killagent(c)
    BY <2>2, KillagentInv, ExitKeeps DEF Killagent
  <2> QED
    BY <1>2, <2>1, <2>2
<1>3. ASSUME NEW a \in Agents, AgentStep(a) \/ Kick(a) \/ Sigterm(a) \/ Crash(a)
      PROVE  Kept
  <2>1. CASE Bind(a) \/ Rebind(a)
    BY <2>1, <1>1, PartiesAssumption DEF Bind, Rebind, Kept
  <2>2. CASE Remove(a)
    BY <2>2, RemoveKeeps
  <2>3. CASE Cleanup(a)
    BY <2>3, ExitKeeps DEF Cleanup
  <2>4. CASE Sigterm(a)
    BY <2>4, <1>1, ExitKeeps DEF Sigterm
  <2>5. CASE Check(a) \/ Listen(a) \/ Watch(a) \/ SeeRemoval(a) \/ Kick(a) \/ Crash(a)
             \/ \E p \in Peers : Accept(a, p)
    BY <2>5, <1>1 DEF Check, Listen, Watch, SeeRemoval, Kick, Crash, Accept
  <2> QED
    BY <1>3, <2>1, <2>2, <2>3, <2>4, <2>5 DEF AgentStep
<1>4. ASSUME NEW p \in Peers, Serve(p)
      PROVE  Kept
  BY <1>4, <1>1 DEF Serve
<1>5. CASE StartByHand \/ RemoveByHand
  BY <1>5, <1>0 DEF StartByHand, RemoveByHand, Kept
<1>6. CASE UNCHANGED vars
  BY <1>6, <1>1 DEF vars
<1> QED
  BY <1>2, <1>3, <1>4, <1>5, <1>6 DEF Next

\* Nobody takes the socket from a living agent unless something odd happened,
\* whatever the clients, the deaths of agents and the signals are: the spawn lock
\* and the second attempt to connect in start_new_service are enough.
THEOREM SocketIsKept == Spec => SocketKept
<1>1. IInv /\ [Next]_vars => [Kept]_vars
  BY StepKeeps
<1>2. SocketKept <=> [][Kept]_vars
  BY DEF SocketKept, Kept
<1> QED
  BY <1>1, <1>2, Invariance, PTL DEF Spec
=============================================================================
