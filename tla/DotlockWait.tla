----------------------------- MODULE DotlockWait -----------------------------
(***************************************************************************)
(* The waiting of one dotlock_take (common/dotlock.c).  An attempt that    *)
(* fails is followed by a look at the lock file.  If the file is gone or   *)
(* stale the next attempt follows at once; else a sleep comes first, whose *)
(* length next_wait_interval computes, until the timeout is used up.       *)
(* Times are in milliseconds.                                              *)
(***************************************************************************)
EXTENDS Integers

CONSTANTS
  Owners,       \* pids that may hold the lock meanwhile
  Timeouts,     \* timeout arguments: -1 for ever, 0 do not wait, or positive
  Jitter,       \* getpid () % 37
  MaxLooks      \* bound: looks at the lock file of a wait without a timeout

ASSUME WaitAssumption ==
  /\ Owners \subseteq Nat \ {0}
  /\ Timeouts \subseteq Int
  /\ Jitter \in 0..36
  /\ MaxLooks \in Nat

VARIABLES
  wtime,     \* current interval
  timeout,   \* what is left of the timeout
  lastpid,   \* the first owner seen, -1 before that
  sumtime,   \* time slept since the last "waiting for lock" message
  state,     \* "again", "looking", or how dotlock_take returned
  argument,  \* history: the timeout argument
  slept,     \* history: time slept so far (while a timeout is given)
  owner,     \* history: the owner seen by the last look
  looks      \* history: number of looks (while no timeout is given)

waitVars == <<wtime, timeout, lastpid, sumtime, state, argument, slept, owner, looks>>

\* The interval after w: 4, 8, 16, ..., 2048, 512, 1024, 2048, 512, ...
NextInterval(w) == IF w = 0 THEN 4 ELSE IF w < 2048 THEN 2 * w ELSE 512

\* Mutant: an interval longer than what is left of the timeout is dropped.
SleepTimeDropped(w, t) ==
  LET r == IF w > 8 /\ t < 0 THEN w + Jitter ELSE w
  IN  IF t > 0 /\ r > t THEN 0 ELSE r

\* The time really slept: a little more if we wait for ever, never more than
\* what is left of a timeout.
SleepTime(w, t) ==
  LET r == IF w > 8 /\ t < 0 THEN w + Jitter ELSE w
  IN  IF t > 0 /\ r > t THEN t ELSE r

WaitInit ==
  /\ argument \in Timeouts
  /\ timeout = argument
  /\ wtime = 0
  /\ lastpid = -1
  /\ sumtime = 0
  /\ state = "again"
  /\ slept = 0
  /\ owner = -1
  /\ looks = 0

\* The attempt: the lock is free and taken, or there is a lock file.
Taken ==
  /\ state = "again"
  /\ state' = "taken"
  /\ UNCHANGED <<wtime, timeout, lastpid, sumtime, argument, slept, owner, looks>>

Held ==
  /\ state = "again"
  /\ state' = "looking"
  /\ UNCHANGED <<wtime, timeout, lastpid, sumtime, argument, slept, owner, looks>>

\* The lock file has disappeared, has been removed by another process while we
\* examined it, or is stale and removed by us: try again without a sleep,
\* whatever is left of the timeout.
Vanished ==
  /\ state = "looking"
  /\ state' = "again"
  /\ UNCHANGED <<wtime, timeout, lastpid, sumtime, argument, slept, owner, looks>>

\* A system call on the lock file or the template fails for another reason.
FileError ==
  /\ state \in {"again", "looking"}
  /\ state' = "error"
  /\ UNCHANGED <<wtime, timeout, lastpid, sumtime, argument, slept, owner, looks>>

\* Mutant: the remaining timeout is not reduced by the last, cut short sleep.
LookUncut(pid) ==
  /\ state = "looking"
  /\ timeout # 0
  /\ looks < MaxLooks
  /\ LET first == IF lastpid = -1 THEN pid ELSE lastpid
         w     == NextInterval(IF pid # first THEN 0 ELSE wtime)
         sleep == IF w > 8 /\ timeout < 0 THEN w + Jitter ELSE w
     IN  /\ lastpid' = first
         /\ wtime' = w
         /\ timeout' = IF timeout > sleep THEN timeout - sleep
                       ELSE IF timeout > 0 THEN 0 ELSE timeout
         /\ sumtime' = IF sumtime + sleep >= 1500 THEN 0 ELSE sumtime + sleep
         /\ slept' = IF timeout > 0 THEN slept + sleep ELSE slept
         /\ looks' = IF timeout < 0 THEN looks + 1 ELSE looks
  /\ owner' = pid
  /\ state' = "again"
  /\ UNCHANGED argument

\* The lock is held by pid: sleep, then look again.  lastpid keeps the first
\* owner seen, and the interval starts anew whenever pid is another one.
Look(pid) ==
  /\ state = "looking"
  /\ timeout # 0
  /\ looks < MaxLooks
  /\ LET first == IF lastpid = -1 THEN pid ELSE lastpid
         w     == NextInterval(IF pid # first THEN 0 ELSE wtime)
         sleep == SleepTime(w, timeout)
     IN  /\ lastpid' = first
         /\ wtime' = w
         /\ timeout' = IF timeout > 0 THEN timeout - sleep ELSE timeout
         /\ sumtime' = IF sumtime + sleep >= 1500 THEN 0 ELSE sumtime + sleep
         /\ slept' = IF timeout > 0 THEN slept + sleep ELSE slept
         /\ looks' = IF timeout < 0 THEN looks + 1 ELSE looks
  /\ owner' = pid
  /\ state' = "again"
  /\ UNCHANGED argument

\* The "waiting for lock" message is due and its callback asks to stop.
Canceled(pid) ==
  /\ state = "looking"
  /\ timeout # 0
  /\ LET first == IF lastpid = -1 THEN pid ELSE lastpid
         w     == NextInterval(IF pid # first THEN 0 ELSE wtime)
     IN  sumtime + SleepTime(w, timeout) >= 1500
  /\ state' = "ECANCELED"
  /\ owner' = pid
  /\ UNCHANGED <<wtime, timeout, lastpid, sumtime, argument, slept, looks>>

\* The lock is held and there is no time left, or there never was.
Fail(pid) ==
  /\ state = "looking"
  /\ timeout = 0
  /\ state' = IF argument = 0 THEN "EACCES" ELSE "ETIMEDOUT"
  /\ owner' = pid
  /\ UNCHANGED <<wtime, timeout, lastpid, sumtime, argument, slept, looks>>

WaitNext ==
  \/ Taken \/ Held \/ Vanished \/ FileError
  \/ \E pid \in Owners : Look(pid) \/ Canceled(pid) \/ Fail(pid)

WaitSpec == WaitInit /\ [][WaitNext]_waitVars

\* The process goes on: each attempt is followed by a look, each sleep ends.
WaitFairSpec == WaitSpec /\ WF_waitVars(WaitNext)

-----------------------------------------------------------------------------
\* "Any other positive value is considered a timeout value in milliseconds":
\* a take with a timeout never sleeps longer than that, whatever the owners
\* do, and reports ETIMEDOUT only after having slept exactly that long; a take
\* without a timeout that does not wait reports EACCES.
SleepsExactlyTimeout ==
  /\ argument > 0 => slept + timeout = argument /\ timeout >= 0
  /\ state = "ETIMEDOUT" => argument > 0 /\ slept = argument
  /\ state = "EACCES" => argument = 0

Returned == state \notin {"again", "looking"}

\* A take with a timeout returns, even if the lock is never free; or else others
\* take the lock before each of its attempts and lose it, or leave it stale,
\* before each of its looks, again and again for ever: those retries neither
\* sleep nor use up the timeout.
TimedTakeReturns ==
  argument >= 0 => []<>Returned \/ []<><<Vanished>>_waitVars
=============================================================================
