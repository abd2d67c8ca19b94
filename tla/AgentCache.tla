----------------------------- MODULE AgentCache -----------------------------
(***************************************************************************)
(* The passphrase cache of gpg-agent (agent/cache.c).                      *)
(*                                                                         *)
(* Items expire by a delta queue, the timer list, which only the main loop *)
(* advances, in agent_cache_expiration.  The other operations put the item *)
(* they touch into a second list of new timers, kick the loop, and leave   *)
(* it to the loop to merge that list into the queue.  Every operation runs *)
(* under cache_lock and is one step.                                       *)
(*                                                                         *)
(* The clock counts ticks, TPS of them to the second: the timer list holds *)
(* whole seconds, gnupg_get_time is in whole seconds, abstime is not.      *)
(***************************************************************************)
EXTENDS Integers, Sequences, Functions

CONSTANTS
  Slots,        \* addresses of cache items
  Keys,         \* cache keys
  Sessions,     \* values of ctrl->restricted
  Modes,        \* the cache modes in use
  TTLs,         \* ttl arguments: -1 for ever, 0 default, or seconds
  DefTTL,       \* opt.def_cache_ttl
  DefTTLData,   \* DEF_CACHE_TTL_DATA
  MaxTTL,       \* opt.max_cache_ttl
  Encrypts,     \* may encrypting the data succeed, fail, or both?
  UnusedTTL,    \* seconds until an item without data is dropped
  TPS,          \* clock ticks per second
  MaxLate,      \* how many ticks late the main loop may run
  LoopFirst,    \* does a kicked loop run before any other thread?
  MaxTime       \* bound: the clock

ASSUME CacheAssumption ==
  /\ Modes \subseteq {"any", "normal", "user", "nonce", "pin", "data"}
  /\ TTLs \subseteq Nat \cup {-1}
  /\ {DefTTL, DefTTLData, MaxTTL, UnusedTTL, MaxLate, MaxTime} \subseteq Nat
  /\ TPS \in Nat \ {0}
  /\ LoopFirst \in BOOLEAN
  /\ Encrypts \subseteq BOOLEAN

VARIABLES
  item,      \* the cache items, by address
  thecache,  \* the list of all items, newest first
  timers,    \* the_timer_list
  timersNew, \* the_timer_list_new
  tv,        \* t.tv_sec of each item: seconds after the previous timer
  abstime,   \* when the base of the timer list is reached, in ticks
  now,       \* the clock, in ticks
  kicked,    \* when the loop was kicked, or -1
  due,       \* history: when each item ought to expire, in ticks
  front,     \* history: insertions in front of each timer, which round it
  late       \* history: late wake-ups of the loop each timer went through

vars == <<item, thecache, timers, timersNew, tv, abstime, now, kicked, due,
          front, late>>

NoItem == [key |-> "none"]

gnupg_get_time == now \div TPS

Init ==
  /\ item = [s \in Slots |-> NoItem]
  /\ thecache = <<>>
  /\ timers = <<>>
  /\ timersNew = <<>>
  /\ tv = [s \in Slots |-> 0]
  /\ abstime = 0
  /\ now = 0
  /\ kicked = -1
  /\ due = [s \in Slots |-> 0]
  /\ front = [s \in Slots |-> 0]
  /\ late = [s \in Slots |-> 0]

-----------------------------------------------------------------------------
(* The timer lists.  They are passed around as one record. *)

Queues == [timers |-> timers, new |-> timersNew, tv |-> tv, due |-> due]

\* Where a list has e.
Place(list, e) == CHOOSE i \in 1..Len(list) : list[i] = e

\* The elements of a list before e; the whole list if e is not in it.
UpTo(list, e) ==
  IF e \in Range(list) THEN SubSeq(list, 1, Place(list, e) - 1) ELSE list

\* The list without e.
Unlink(list, e) ==
  IF e \in Range(list)
  THEN SubSeq(list, 1, Place(list, e) - 1) \o SubSeq(list, Place(list, e) + 1, Len(list))
  ELSE list

\* The list with e behind its k-th element.
LinkAfter(list, k, e) == SubSeq(list, 1, k) \o <<e>> \o SubSeq(list, k + 1, Len(list))

\* The seconds from the base of the list to each of its timers.
Seconds(list, sec) ==
  LET to[i \in 0..Len(list)] == IF i = 0 THEN 0 ELSE to[i - 1] + sec[list[i]]
  IN  to

\* s comes right after e.
Follows(list, e, s) == \E i \in 1..Len(list) - 1 : list[i] = e /\ list[i + 1] = s

\* remove_from_timer_list and remove_from_timer_list_new.  The first one
\* clears the link of e in whichever list e is, so that the new timers behind
\* e are lost.
RemoveTimer(L, e) ==
  [timers |-> Unlink(L.timers, e),
   new    |-> UpTo(L.new, e),
   tv     |-> [s \in Slots |-> IF s = e THEN 0
                              ELSE IF Follows(L.timers, e, s) THEN L.tv[s] + L.tv[e]
                              ELSE L.tv[s]],
   due    |-> [L.due EXCEPT ![e] = 0]]

MaxTTLOf(mode) == IF mode \in {"data", "pin"} THEN 0 ELSE MaxTTL

\* Mutant: an item that just reached the maximum lifetime gets no timer.
ComputeExpirationEdge(r) ==
  LET max  == MaxTTLOf(r.mode)
      next == IF max > 0 THEN r.created + max - gnupg_get_time ELSE 0
  IN  IF r.mode = "pin" THEN -1
      ELSE IF ~r.pw THEN UnusedTTL
      ELSE IF next < 0 THEN 0
      ELSE IF r.ttl >= 0 /\ r.ttl < next THEN r.ttl
      ELSE IF next > 0 THEN next ELSE -1

\* compute_expiration: seconds until item r expires, or -1 for never.
ComputeExpiration(r) ==
  LET max  == MaxTTLOf(r.mode)
      next == IF max > 0 THEN r.created + max - gnupg_get_time ELSE 0
  IN  IF r.mode = "pin" THEN -1
      ELSE IF ~r.pw THEN UnusedTTL
      ELSE IF next < 0 THEN 0
      ELSE IF r.ttl >= 0 /\ (next = 0 \/ r.ttl < next) THEN r.ttl
      ELSE IF next > 0 THEN next ELSE -1

\* Put item e, which is r now, into the list of new timers.
AddTimer(L, e, r) ==
  LET sec == ComputeExpiration(r) IN
  IF sec < 0 THEN L
  ELSE [timers |-> L.timers, new |-> <<e>> \o L.new, tv |-> [L.tv EXCEPT ![e] = sec],
        due    |-> [L.due EXCEPT ![e] = now + sec * TPS]]

\* Mutant: the timer of an item that is used again is left alone.
UpdateExpirationKeeps(L, e, r) == AddTimer(L, e, r)

\* update_expiration
UpdateExpiration(L, e, r) == AddTimer(RemoveTimer(L, e), e, r)

\* The lists after an operation of a client; new timers kick the loop.
SetQueues(L) ==
  /\ timers' = L.timers
  /\ timersNew' = L.new
  /\ tv' = L.tv
  /\ due' = L.due
  /\ kicked' = IF L.new # <<>> /\ kicked = -1 THEN now ELSE kicked

-----------------------------------------------------------------------------
(* The operations of clients. *)

\* cache_lock is free, and so is the way for a client's thread.
MayRun == LoopFirst => kicked = -1

ModeEqual(a, b) ==
  \/ a = b
  \/ a = "any" /\ b # "data"
  \/ b = "any" /\ a # "data"

\* Does item s match?  The PIN cache knows only keys; other modes are told
\* apart only if the caller's mode is "user" or "nonce".
Match(s, key, mode, session) ==
  /\ item[s].key = key
  /\ mode # "pin" =>
       /\ mode \in {"user", "nonce"} => ModeEqual(item[s].mode, mode)
       /\ item[s].restricted = session

\* The first matching item is the i-th one.
Finds(i, key, mode, session) ==
  /\ Match(thecache[i], key, mode, session)
  /\ \A j \in 1..i - 1 : ~Match(thecache[j], key, mode, session)

\* The same if only items with data count.
FindsHit(i, key, mode, session) ==
  /\ item[thecache[i]].pw /\ Match(thecache[i], key, mode, session)
  /\ \A j \in 1..i - 1 : ~(item[thecache[j]].pw /\ Match(thecache[j], key, mode, session))

DefaultTTL(mode) ==
  CASE mode = "data" -> DefTTLData [] mode = "pin" -> -1 [] OTHER -> DefTTL

\* agent_put_cache with data; ok is FALSE if the data cannot be encrypted.
Put(key, mode, session, arg, ok) ==
  LET ttl == IF arg = 0 THEN DefaultTTL(mode) ELSE arg
      New(restricted) ==
        [key |-> key, restricted |-> restricted, mode |-> mode, pw |-> ok,
         created |-> gnupg_get_time, ttl |-> ttl, read |-> "before"]
  IN  /\ MayRun
      /\ ttl # 0
      /\ \/ /\ \E i \in 1..Len(thecache) :
                 /\ Finds(i, key, mode, session)
                 /\ LET e == thecache[i]
                        r == New(item[e].restricted)
                    IN  /\ item' = [item EXCEPT ![e] = r]
                        /\ SetQueues(UpdateExpiration(Queues, e, r))
            /\ UNCHANGED thecache
         \/ /\ ok
            /\ \A i \in 1..Len(thecache) : ~Match(thecache[i], key, mode, session)
            /\ \E e \in Slots :
                 /\ item[e] = NoItem
                 /\ item' = [item EXCEPT ![e] = New(session)]
                 /\ thecache' = <<e>> \o thecache
                 /\ SetQueues(AddTimer(Queues, e, New(session)))
      /\ UNCHANGED <<abstime, now, front, late>>

\* agent_put_cache without data: the timer stays.
Clear(key, mode, session) ==
  /\ MayRun
  /\ \E i \in 1..Len(thecache) :
       /\ Finds(i, key, mode, session)
       /\ item' = [item EXCEPT ![thecache[i]].pw = FALSE]
  /\ UNCHANGED <<thecache, timers, timersNew, tv, abstime, now, kicked, due,
                 front, late>>

\* Is it before, in or after the second in which item r reaches its maximum
\* lifetime?
ReadNow(r) ==
  LET end == r.created + MaxTTLOf(r.mode) IN
  IF MaxTTLOf(r.mode) = 0 \/ gnupg_get_time < end THEN "before"
  ELSE IF gnupg_get_time = end THEN "at" ELSE "after"

\* Mutant: a read makes the item as good as new.
GetRenews(key, mode, session) ==
  /\ MayRun
  /\ \E i \in 1..Len(thecache) :
       /\ FindsHit(i, key, mode, session)
       /\ LET e == thecache[i] IN
          /\ item[e].mode # "data"
          /\ SetQueues(UpdateExpiration(Queues, e, [item[e] EXCEPT !.created = gnupg_get_time]))
          /\ item' = [item EXCEPT ![e].read = ReadNow(item[e])]
  /\ UNCHANGED <<thecache, abstime, now, front, late>>

\* agent_get_cache: a hit starts the timer anew, except for mode "data"; the
\* field read is a history of the last one.
Get(key, mode, session) ==
  /\ MayRun
  /\ \E i \in 1..Len(thecache) :
       /\ FindsHit(i, key, mode, session)
       /\ LET e == thecache[i] IN
          /\ item[e].mode # "data"
          /\ SetQueues(UpdateExpiration(Queues, e, item[e]))
          /\ item' = [item EXCEPT ![e].read = ReadNow(item[e])]
  /\ UNCHANGED <<thecache, abstime, now, front, late>>

\* The lists after the items of Hit up to each place of the cache were flushed.
FlushUpTo(L, Hit) ==
  LET flushed[n \in 0..Len(thecache)] ==
        IF n = 0 THEN L
        ELSE IF thecache[n] \in Hit
        THEN UpdateExpiration(flushed[n - 1], thecache[n],
                              [item[thecache[n]] EXCEPT !.pw = FALSE])
        ELSE flushed[n - 1]
  IN  flushed

\* agent_flush_cache
Flush(pincache_only) ==
  LET Hit == {e \in Range(thecache) :
                item[e].pw /\ (pincache_only => item[e].mode = "pin")}
  IN  /\ MayRun
      /\ Hit # {}
      /\ item' = [s \in Slots |-> IF s \in Hit THEN [item[s] EXCEPT !.pw = FALSE]
                                 ELSE item[s]]
      /\ SetQueues(FlushUpTo(Queues, Hit)[Len(thecache)])
      /\ UNCHANGED <<thecache, abstime, now, front, late>>

-----------------------------------------------------------------------------
(* agent_cache_expiration, called by the main loop before each select. *)

\* Mutant: the new entry's seconds are not taken off.
BehindKeeps(old, sec, nsec, ttl) == old + sec + (IF 2 * nsec >= TPS THEN 1 ELSE 0)

\* The delta of the former first entry behind a new one; the rest of a second
\* is rounded to a second or to none.
Behind(old, sec, nsec, ttl) ==
  old + sec - ttl + (IF 2 * nsec >= TPS THEN 1 ELSE 0)

\* insert_to_timer_list: Q.timeout are the ticks until the list's base.
InsertTimer(Q, e) ==
  LET sec  == Q.timeout \div TPS
      nsec == Q.timeout % TPS
      rest == Q.tv[e] - sec
      at   == Seconds(Q.timers, Q.tv)
      k    == CHOOSE i \in 0..Len(Q.timers) :
                at[i] <= rest /\ (i < Len(Q.timers) => at[i + 1] > rest)
      left == rest - at[k]
  IN  IF Q.timers = <<>> \/ sec >= Q.tv[e]
      THEN [timers  |-> <<e>> \o Q.timers,
            timeout |-> Q.tv[e] * TPS,
            tv      |-> [s \in Slots |->
                           IF s = e THEN 0
                           ELSE IF Q.timers # <<>> /\ s = Head(Q.timers)
                           THEN Behind(Q.tv[s], sec, nsec, Q.tv[e])
                           ELSE Q.tv[s]],
            front   |-> [s \in Slots |->
                           IF nsec # 0 /\ s \in Range(Q.timers)
                           THEN Q.front[s] + 1 ELSE Q.front[s]]]
      ELSE [timers  |-> LinkAfter(Q.timers, k, e),
            timeout |-> Q.timeout,
            tv      |-> [s \in Slots |->
                           IF s = e THEN left
                           ELSE IF k < Len(Q.timers) /\ s = Q.timers[k + 1]
                           THEN Q.tv[s] - left ELSE Q.tv[s]],
            front   |-> Q.front]

\* The list after each of the new timers was inserted.
InsertUpTo(Q, new) ==
  LET inserted[n \in 0..Len(new)] ==
        IF n = 0 THEN Q ELSE InsertTimer(inserted[n - 1], new[n])
  IN  inserted

\* The timer at the head of the list has run out: its item loses its data,
\* or is dropped if it has none (do_expire).
Expire(L, e) ==
  IF item[e].pw
  THEN AddTimer(L, e, [item[e] EXCEPT !.pw = FALSE])
  ELSE [timers |-> L.timers, new |-> Unlink(L.new, e), tv |-> L.tv,
        due    |-> [L.due EXCEPT ![e] = 0]]

agent_cache_expiration ==
  LET expired == timers # <<>> /\ abstime < now
      e       == Head(timers)
      pop     == expired /\ tv[e] = 0
      popped  == [timers |-> Tail(timers), new |-> timersNew, tv |-> tv, due |-> due]
      L       == IF pop THEN Expire(popped, e) ELSE Queues
      timeout == IF expired \/ L.timers = <<>> THEN 0 ELSE abstime - now
      old     == Range(L.timers)
      Q       == InsertUpTo([timers |-> L.timers, timeout |-> timeout, tv |-> L.tv,
                             front |-> [s \in Slots |-> IF s \in old THEN front[s] ELSE 0]],
                            L.new)[Len(L.new)]
      h       == Head(Q.timers)
  IN  /\ IF pop /\ item[e].pw
         THEN /\ item' = [item EXCEPT ![e].pw = FALSE]
              /\ UNCHANGED thecache
         ELSE IF pop
         THEN /\ item' = [item EXCEPT ![e] = NoItem]
              /\ thecache' = Unlink(thecache, e)
         ELSE UNCHANGED <<item, thecache>>
      /\ timers' = Q.timers
      /\ timersNew' = <<>>
      /\ IF Q.timers = <<>>
         THEN /\ tv' = Q.tv
              /\ UNCHANGED abstime
         ELSE /\ tv' = [Q.tv EXCEPT ![h] = 0]
              /\ abstime' = now + Q.timeout + Q.tv[h] * TPS
      /\ kicked' = -1
      /\ due' = L.due
      /\ front' = Q.front
      /\ late' = [s \in Slots |->
                    IF s \in old THEN late[s] + (IF expired THEN 1 ELSE 0) ELSE 0]
      /\ UNCHANGED now

\* Time passes, but the loop is never more than MaxLate ticks behind.
Tick ==
  /\ now < MaxTime
  /\ timers # <<>> => now < abstime + MaxLate
  /\ kicked # -1 => now < kicked + MaxLate
  /\ now' = now + 1
  /\ UNCHANGED <<item, thecache, timers, timersNew, tv, abstime, kicked, due,
                 front, late>>

Session(mode) == IF mode = "pin" THEN {-1} ELSE Sessions

Next ==
  \/ \E key \in Keys, mode \in Modes :
       \E session \in Session(mode) :
         \/ \E arg \in TTLs, ok \in Encrypts : Put(key, mode, session, arg, ok)
         \/ Clear(key, mode, session)
         \/ Get(key, mode, session)
  \/ \E pincache_only \in BOOLEAN : Flush(pincache_only)
  \/ agent_cache_expiration
  \/ Tick

Spec == Init /\ [][Next]_vars

-----------------------------------------------------------------------------
(* Properties. *)

\* When the i-th timer of the list will run out.
RunsOut(i) == abstime + TPS * Seconds(timers, tv)[i]

\* Types; and the lists name each live item at most once, never a PIN.
TypeOK ==
  /\ \A s \in Slots : item[s] # NoItem =>
       /\ item[s].key \in Keys /\ item[s].mode \in Modes
       /\ item[s].pw \in BOOLEAN /\ item[s].ttl \in Int
  /\ tv \in [Slots -> Nat]
  /\ abstime \in Nat /\ now \in 0..MaxTime /\ kicked \in -1..MaxTime
  /\ \A list \in {thecache, timers \o timersNew} :
       \A i, j \in 1..Len(list) :
         item[list[i]] # NoItem /\ (list[i] = list[j] => i = j)

\* The sums of the deltas in the timer list stay true to the time at which each
\* item ought to expire: an item is early by at most half a second for each
\* insertion in front of it, and late by less than a second plus that and the
\* lateness of the loop.
TimersAccurate ==
  \A i \in 1..Len(timers) :
    LET e == timers[i] IN
    /\ RunsOut(i) >= due[e] - front[e] * (TPS \div 2)
    /\ RunsOut(i) <= due[e] + (TPS - 1) + front[e] * (TPS \div 2)
                     + (late[e] + 1) * MaxLate

\* An item whose lifetime is limited.
Limited(r) == r.mode # "pin" /\ (r.ttl >= 0 \/ MaxTTLOf(r.mode) > 0)

\* "Newly created entries, to be inserted into the timer list": every secret
\* with a limited lifetime has a timer, so that it is not kept for ever.  (One
\* without a ttl that is read in the second in which it reaches the maximum
\* lifetime loses its timer.)
SecretsHaveTimers ==
  \A s \in Slots :
    item[s] # NoItem /\ item[s].pw /\ Limited(item[s]) =>
      s \in Range(timers \o timersNew) \/ (item[s].read = "at" /\ item[s].ttl < 0)

\* "After this time a cache entry will be expired even if it has been accessed
\* recently": no sequence of reads moves the expiration of a secret beyond the
\* maximum lifetime, except that a read in that very second adds one ttl, and
\* that a secret read after it, while the loop is late, expires at once.
MaxLifetime ==
  \A s \in Slots :
    item[s] # NoItem /\ item[s].pw /\ MaxTTLOf(item[s].mode) > 0 =>
      LET end == item[s].created + MaxTTLOf(item[s].mode) IN
      IF item[s].read = "after" THEN due[s] <= now
      ELSE due[s] \div TPS <= IF item[s].read = "at" /\ item[s].ttl > 0
                              THEN end + item[s].ttl ELSE end

\* "Don't let it expire - scdaemon explicitly flushes them": the loop never
\* takes a PIN, even if the item had a timer in its former mode.
PinsDoNotExpire ==
  [][agent_cache_expiration =>
       \A s \in Slots : item[s] # NoItem /\ item[s].mode = "pin" =>
         item'[s] = item[s]]_vars
=============================================================================
