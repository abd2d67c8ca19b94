----------------------------- MODULE MCWaiting -----------------------------
(***************************************************************************)
(* Two kinds of waiting side by side: that of dotlock_take for a lock file *)
(* (DotlockWait), and that of clients for an agent (AgentStart).  They     *)
(* share nothing, so one has ended when the other begins.                  *)
(***************************************************************************)
EXTENDS DotlockWait, AgentStart

\* For ever, not at all, and timeouts around the interval boundaries.
MCTimeouts == {-1, 0, 1, 3, 4, 5, 12, 60, 1600}

\* A dotlock_take that has returned at once.
WaitEnded ==
  /\ argument = 0 /\ timeout = 0 /\ wtime = 0 /\ lastpid = -1 /\ sumtime = 0
  /\ state = "taken" /\ slept = 0 /\ owner = -1 /\ looks = 0

\* All clients have left, and no agent is running.
StartEnded ==
  /\ client = [c \in Clients |-> "done"]
  /\ agent = [a \in Agents |-> Dead]
  /\ at = [p \in Peers |-> NoConn]
  /\ path = None /\ holders = {} /\ stops = MaxStops /\ odd = MaxOdd

BothInit ==
  \/ WaitInit /\ StartEnded
  \/ WaitEnded /\ Init

WaitStays == UNCHANGED waitVars
StartStays == UNCHANGED vars

\* The disjuncts of WaitNext and of Next, one by one.
BothNext ==
  \/ Taken /\ StartStays
  \/ Held /\ StartStays
  \/ Vanished /\ StartStays
  \/ FileError /\ StartStays
  \/ \E pid \in Owners :
       \/ Look(pid) /\ StartStays
       \/ Canceled(pid) /\ StartStays
       \/ Fail(pid) /\ StartStays
  \/ \E c \in Clients :
       \/ Connect(c) /\ WaitStays
       \/ LockSpawning(c) /\ WaitStays
       \/ ConnectLocked(c) /\ WaitStays
       \/ Spawn(c) /\ WaitStays
       \/ Greeted(c) /\ WaitStays
       \/ Eof(c) /\ WaitStays
       \/ GiveUp(c) /\ WaitStays
       \/ Leave(c) /\ WaitStays
       \/ Killagent(c) /\ WaitStays
  \/ \E a \in Agents :
       \/ Bind(a) /\ WaitStays
       \/ Check(a) /\ WaitStays
       \/ Remove(a) /\ WaitStays
       \/ Rebind(a) /\ WaitStays
       \/ Listen(a) /\ WaitStays
       \/ Watch(a) /\ WaitStays
       \/ \E p \in Peers : Accept(a, p) /\ WaitStays
       \/ SeeRemoval(a) /\ WaitStays
       \/ Kick(a) /\ WaitStays
       \/ Cleanup(a) /\ WaitStays
       \/ Sigterm(a) /\ WaitStays
       \/ Crash(a) /\ WaitStays
  \/ \E p \in Peers : Serve(p) /\ WaitStays
  \/ StartByHand /\ WaitStays
  \/ RemoveByHand /\ WaitStays

BothSpec ==
  /\ BothInit
  /\ [][BothNext]_<<waitVars, vars>>
  /\ WF_waitVars(WaitNext)
  /\ Fairness
=============================================================================
