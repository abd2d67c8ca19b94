-------------------------- MODULE AgentCacheProofs --------------------------
(***************************************************************************)
(* The inductive invariant of the passphrase cache, and the proof that     *)
(* every operation of a client and every round of the main loop keeps it:  *)
(* for any number of items, any ttls and any lateness of the loop.         *)
(***************************************************************************)
EXTENDS AgentCacheTimers

\* The seconds a prover gets for a leaf.
USE SMTT(30), ZenonT(30)

-----------------------------------------------------------------------------
(* The inductive invariant. *)

\* The oldest of the new timers is not older than this.
Since == IF kicked = -1 THEN now ELSE kicked

\* The timers run as they should, and the loop is not later than it may be.
Timely ==
  /\ now \in 0..MaxTime /\ abstime \in Nat
  /\ kicked \in Int /\ -1 <= kicked /\ kicked <= now
  /\ front \in [Slots -> Nat] /\ late \in [Slots -> Nat]
  /\ Queue(Queues, Since)
  /\ timers # <<>> => now <= abstime + MaxLate
  /\ kicked # -1 => now <= kicked + MaxLate
  /\ timersNew # <<>> => kicked # -1

\* The items in the lists are there.
Held ==
  /\ item \in [Slots -> Item \cup {NoItem}]
  /\ thecache \in Seq(Slots) /\ Distinct(thecache)
  /\ \A s \in Range(thecache) : item[s] # NoItem
  /\ \A s \in Range(timers) \cup Range(timersNew) : item[s] # NoItem /\ item[s].mode # "pin"
  /\ \A s \in Slots : item[s] = NoItem => due[s] = 0

IInv == Timely /\ Held /\ MaxLifetime /\ (LoopFirst => SecretsHaveTimers)

\* An item has fields that no free slot has.
LEMMA ItemIsNot == ASSUME NEW r \in Item PROVE r # NoItem
<1>1. DOMAIN r = {"key", "restricted", "mode", "pw", "created", "ttl", "read"}
  BY DEF Item
<1>2. DOMAIN NoItem = {"key"}
  BY DEF NoItem
<1>3. "pw" \in DOMAIN r /\ "pw" \notin DOMAIN NoItem
  BY <1>1, <1>2
<1> QED BY <1>3

\* What MaxLifetime says of one item that ought to expire at time d.
Bounded(r, d) ==
  r.pw /\ MaxTTLOf(r.mode) > 0 =>
    LET end == r.created + MaxTTLOf(r.mode) IN
    IF r.read = "after" THEN d <= now
    ELSE d \div TPS <= IF r.read = "at" /\ r.ttl > 0 THEN end + r.ttl ELSE end

\* ... and SecretsHaveTimers of one that has no timer.
NeedsNone(r) == r.pw /\ Limited(r) => r.read = "at" /\ r.ttl < 0

\* MaxLifetime item by item.
LEMMA BoundedItems == MaxLifetime <=> \A s \in Slots : item[s] # NoItem => Bounded(item[s], due[s])
  BY DEF MaxLifetime, Bounded

\* The elements of two lists in a row.
LEMMA RangeConcat ==
  ASSUME NEW S, NEW u \in Seq(S), NEW v \in Seq(S)
  PROVE  Range(u \o v) = Range(u) \cup Range(v)
<1> DEFINE m == Len(u)
           n == Len(v)
           t == u \o v
<1>1. /\ m \in Nat /\ n \in Nat /\ DOMAIN u = 1..m /\ DOMAIN v = 1..n /\ DOMAIN t = 1..m + n
      /\ \A i \in 1..m : t[i] = u[i]
      /\ \A i \in 1..n : t[m + i] = v[i]
  BY Concat
<1> HIDE DEF m, n, t
<1>2. ASSUME NEW i \in 1..m + n PROVE t[i] \in Range(u) \cup Range(v)
  <2>1. CASE i <= m
    BY <1>1, <2>1 DEF Range
  <2>2. CASE ~(i <= m)
    <3>1. i - m \in 1..n /\ m + (i - m) = i
      BY <1>1, <2>2
    <3>2. t[i] = v[i - m]
      BY <1>1, <3>1
    <3> QED BY <1>1, <3>1, <3>2, Zenon DEF Range
  <2> QED BY <2>1, <2>2
<1>3. \A i \in 1..m : u[i] \in Range(t)
  <2>1. \A i \in 1..m : i \in 1..m + n
    BY <1>1
  <2> QED BY <1>1, <2>1 DEF Range
<1>4. \A i \in 1..n : v[i] \in Range(t)
  <2>1. \A i \in 1..n : m + i \in 1..m + n
    BY <1>1
  <2> QED BY <1>1, <2>1, Zenon DEF Range
<1>5. Range(t) \subseteq Range(u) \cup Range(v)
  BY <1>1, <1>2 DEF Range
<1>6. Range(u) \subseteq Range(t) /\ Range(v) \subseteq Range(t)
  BY <1>1, <1>3, <1>4 DEF Range
<1> QED BY <1>5, <1>6 DEF t

\* SecretsHaveTimers item by item.
LEMMA TimedItems ==
  ASSUME timers \in Seq(Slots), timersNew \in Seq(Slots)
  PROVE  SecretsHaveTimers <=>
           \A s \in Slots : item[s] # NoItem =>
             s \in Range(timers) \/ s \in Range(timersNew) \/ NeedsNone(item[s])
<1>1. Range(timers \o timersNew) = Range(timers) \cup Range(timersNew)
  BY RangeConcat
<1> QED BY <1>1 DEF SecretsHaveTimers, NeedsNone

\* update_expiration does not move an item beyond its maximum lifetime.
LEMMA NewlyBounded ==
  ASSUME NEW r \in Item, r.read = ReadNow(r), now \in Nat, NEW d,
         d = IF ComputeExpiration(r) = -1 THEN 0 ELSE now + ComputeExpiration(r) * TPS
  PROVE  Bounded(r, d) /\ (ComputeExpiration(r) = -1 => NeedsNone(r))
<1> DEFINE c == ComputeExpiration(r)
           max == MaxTTLOf(r.mode)
           end == r.created + max
<1>1. /\ c \in Nat \cup {-1}
      /\ r.pw /\ Limited(r) /\ c = -1 => ReadNow(r) = "at" /\ r.ttl < 0
      /\ r.pw /\ max > 0 /\ c # -1 =>
           /\ ReadNow(r) = "after" => c = 0
           /\ ReadNow(r) = "before" => gnupg_get_time + c <= end
           /\ ReadNow(r) = "at" => gnupg_get_time = end /\ c = r.ttl
  BY Expiration
<1>2. c = -1 => NeedsNone(r)
  BY <1>1 DEF NeedsNone
<1>3. max \in Nat /\ r.created \in Nat /\ r.ttl \in Int /\ end \in Nat
  BY CacheAssumption DEF MaxTTLOf, Item
<1>4. ReadNow(r) \in {"before", "at", "after"}
  BY DEF ReadNow
<1>5. gnupg_get_time \in Nat
  BY Ticks DEF gnupg_get_time
<1>6. SUFFICES ASSUME r.pw, max > 0 PROVE IF r.read = "after" THEN d <= now
             ELSE d \div TPS <= IF r.read = "at" /\ r.ttl > 0 THEN end + r.ttl ELSE end
  BY <1>2 DEF Bounded
<1> HIDE DEF c, max, end
<1>7. CASE c = -1
  <2>1. d = 0 /\ d \div TPS = 0
    BY <1>7, SecondOf, CacheAssumption DEF c
  <2> QED BY <1>3, <2>1
<1>8. CASE c # -1
  <2>1. d = now + c * TPS /\ c \in Nat
    BY <1>1, <1>8 DEF c
  <2>2. d \div TPS = gnupg_get_time + c
    BY <2>1, SecondOf DEF gnupg_get_time
  <2>3. CASE r.read = "after"
    BY <1>1, <1>6, <1>8, <2>1, <2>3, CacheAssumption
  <2>4. CASE r.read = "before"
    BY <1>1, <1>3, <1>5, <1>6, <1>8, <2>1, <2>2, <2>4
  <2>5. CASE r.read = "at"
    BY <1>1, <1>3, <1>5, <1>6, <1>8, <2>1, <2>2, <2>5
  <2> QED BY <1>4, <2>3, <2>4, <2>5
<1> QED BY <1>7, <1>8

\* The lists after an operation of a client are on time.
LEMMA ClientTimely ==
  ASSUME Timely, NEW L, Queue(L, Since), SetQueues(L), UNCHANGED <<abstime, now, front, late>>,
         Range(L.timers) \subseteq Range(timers)
  PROVE  Timely'
<1>1. L \in TimerQueue
  BY DEF Queue, Fit
<1>2. /\ now \in Nat /\ now \in 0..MaxTime /\ now # -1 /\ kicked \in Int /\ -1 <= kicked /\ kicked <= now
      /\ MaxLate \in Nat
  BY CacheAssumption DEF Timely
<1>3. Queues' = L
  BY <1>1 DEF Queues, SetQueues, TimerQueue
<1>4. Since' = Since
  BY <1>2 DEF Since, SetQueues
<1>5. Queue(Queues, Since)'
  <2>1. Fit(Queues)'
    BY <1>3 DEF Queue, Fit
  <2>2. Fresh(Queues, Since)'
    BY <1>3, <1>4 DEF Queue, Fresh
  <2>3. OnTime(Queues)'
    BY <1>3 DEF Queue, OnTime
  <2> QED BY <2>1, <2>2, <2>3 DEF Queue
<1>6. timers' # <<>> => timers # <<>>
  <2>1. L.timers \in Seq(Slots)
    BY <1>1 DEF TimerQueue
  <2>2. L.timers # <<>> => L.timers[1] \in Range(L.timers)
    BY <2>1 DEF Range
  <2>3. timers = <<>> => Range(timers) = {}
    BY DEF Range
  <2> QED BY <2>2, <2>3 DEF SetQueues
<1>7. /\ kicked' \in Int /\ -1 <= kicked' /\ kicked' <= now
      /\ kicked' # -1 => now <= kicked' + MaxLate
      /\ timersNew' # <<>> => kicked' # -1
  BY <1>2 DEF SetQueues, Timely
<1> QED BY <1>2, <1>5, <1>6, <1>7 DEF Timely

\* The types of the lists and of the cache.
LEMMA Typed ==
  ASSUME Timely, Held
  PROVE  /\ timers \in Seq(Slots) /\ timersNew \in Seq(Slots) /\ tv \in [Slots -> Nat]
         /\ due \in [Slots -> Nat] /\ now \in Nat /\ abstime \in Nat
         /\ Since \in Int /\ Since <= now
         /\ Distinct(timers) /\ Distinct(timersNew) /\ Range(timers) \cap Range(timersNew) = {}
         /\ \A i \in 1..Len(thecache) :
              thecache[i] \in Slots /\ thecache[i] \in Range(thecache) /\ item[thecache[i]] \in Item
<1>1. Queues.timers = timers /\ Queues.new = timersNew /\ Queues.tv = tv /\ Queues.due = due
  BY DEF Queues
<1>2. Fit(Queues) /\ Queues \in TimerQueue
  BY DEF Timely, Queue, Fit
<1>3. /\ timers \in Seq(Slots) /\ timersNew \in Seq(Slots) /\ tv \in [Slots -> Nat]
      /\ due \in [Slots -> Nat]
  BY <1>1, <1>2 DEF TimerQueue
<1>4. Distinct(timers) /\ Distinct(timersNew) /\ Range(timers) \cap Range(timersNew) = {}
  BY <1>1, <1>2 DEF Fit
<1>5. now \in Nat /\ abstime \in Nat /\ Since \in Int /\ Since <= now
  BY CacheAssumption DEF Timely, Since
<1>6. \A i \in 1..Len(thecache) : thecache[i] \in Slots /\ thecache[i] \in Range(thecache)
  BY InRange DEF Held
<1>7. \A s \in Range(thecache) : s \in Slots => item[s] \in Item
  BY DEF Held
<1> QED BY <1>3, <1>4, <1>5, <1>6, <1>7

\* A client's operation finds no new timers if the loop runs first when it is kicked.
LEMMA NoneNew ==
  ASSUME Timely, LoopFirst, MayRun
  PROVE  timersNew = <<>> /\ Range(timersNew) = {}
<1>1. timersNew = <<>>
  BY DEF Timely, MayRun
<1> QED BY <1>1 DEF Range

\* An operation of a client makes item e to r, and starts its timer anew.
LEMMA ClientStep ==
  ASSUME IInv, MayRun, NEW e \in Slots, NEW r \in Item, r.read = ReadNow(r), NEW L,
         Queue(L, Since), Updated(Queues, L, e, ComputeExpiration(r)), SetQueues(L),
         item' = [item EXCEPT ![e] = r], UNCHANGED <<abstime, now, front, late>>,
         thecache' = thecache \/ (item[e] = NoItem /\ thecache' = <<e>> \o thecache)
  PROVE  IInv'
<1> DEFINE c == ComputeExpiration(r)
<1>1. Timely /\ Held /\ MaxLifetime /\ (LoopFirst => SecretsHaveTimers)
  BY DEF IInv
<1>2. /\ timers \in Seq(Slots) /\ timersNew \in Seq(Slots) /\ now \in Nat
      /\ due \in [Slots -> Nat]
      /\ Queues.timers = timers /\ Queues.new = timersNew /\ Queues.due = due
  BY <1>1, Typed DEF Queues
<1>3. /\ timers' = L.timers /\ timersNew' = L.new /\ due' = L.due
      /\ Range(timers') = Range(timers) \ {e}
      /\ Range(timersNew') \ {e} \subseteq Range(timersNew)
      /\ e \in Range(timersNew') <=> c # -1
      /\ due'[e] = IF c = -1 THEN 0 ELSE now + c * TPS
      /\ \A s \in Slots : s # e => due'[s] = due[s]
  BY <1>2 DEF SetQueues, Updated
<1>4. Timely'
  BY <1>1, <1>2, <1>3, ClientTimely
<1>5. /\ item' \in [Slots -> Item \cup {NoItem}] /\ item'[e] = r
      /\ \A s \in Slots : s # e => item'[s] = item[s]
      /\ \A s \in Slots : s # e => (item'[s] = NoItem <=> item[s] = NoItem)
  BY <1>1 DEF Held
<1>6. r # NoItem /\ (r.mode = "pin" => c = -1)
  BY <1>2, ItemIsNot, Expiration
<1> HIDE DEF c
<1>7. /\ thecache' \in Seq(Slots) /\ Distinct(thecache')
      /\ \A s \in Range(thecache') : item'[s] # NoItem
  <2>1. thecache \in Seq(Slots) /\ Distinct(thecache) /\ \A s \in Range(thecache) : s \in Slots /\ item[s] # NoItem
    BY <1>1, InRange DEF Held
  <2>2. CASE thecache' = thecache
    BY <1>5, <1>6, <2>1, <2>2
  <2>3. CASE item[e] = NoItem /\ thecache' = <<e>> \o thecache
    <3>1. thecache' \in Seq(Slots) /\ Insertion(thecache, thecache', 1, e)
      BY <2>1, <2>3, InFront
    <3>2. /\ Range(thecache') = Range(thecache) \cup {e}
          /\ Distinct(thecache') <=> Distinct(thecache) /\ e \notin Range(thecache)
      BY <2>1, <3>1, Inserted
    <3> QED BY <1>5, <1>6, <2>1, <2>3, <3>1, <3>2
  <2> QED BY <2>2, <2>3
<1>8. Held'
  <2>1. ASSUME NEW s \in Range(timers') \cup Range(timersNew')
        PROVE  item'[s] # NoItem /\ item'[s].mode # "pin"
    <3>1. CASE s = e
      BY <1>3, <1>5, <1>6, <2>1, <3>1
    <3>2. CASE s # e
      <4>1. s \in Range(timers) \cup Range(timersNew)
        BY <1>3, <2>1, <3>2, ZenonT(30)
      <4>2. s \in Slots /\ item[s] # NoItem /\ item[s].mode # "pin"
        BY <1>1, <1>2, <4>1, InRange, ZenonT(30) DEF Held
      <4> QED BY <1>5, <3>2, <4>2
    <3> QED BY <3>1, <3>2
  <2>2. \A s \in Slots : item'[s] = NoItem => due'[s] = 0
    BY <1>1, <1>3, <1>5, <1>6 DEF Held
  <2> QED BY <1>5, <1>7, <2>1, <2>2 DEF Held
<1>9. Bounded(r, due'[e]) /\ (c = -1 => NeedsNone(r))
  BY <1>2, <1>3, NewlyBounded DEF c
<1>10. MaxLifetime'
  <2>1. \A s \in Slots : item[s] # NoItem => Bounded(item[s], due[s])
    BY <1>1, BoundedItems
  <2>2. \A s \in Slots : item'[s] # NoItem => Bounded(item'[s], due'[s])
    BY <1>3, <1>5, <1>9, <2>1
  <2> QED BY <2>2 DEF MaxLifetime, Bounded, MaxTTLOf
<1>11. ASSUME LoopFirst PROVE SecretsHaveTimers'
  <2>1. Range(timersNew) = {}
    BY <1>1, <1>11, NoneNew
  <2>2. \A s \in Slots : item[s] # NoItem => s \in Range(timers) \/ NeedsNone(item[s])
    BY <1>1, <1>2, <1>11, <2>1, TimedItems, ZenonT(30)
  <2>3. \A s \in Slots : item'[s] # NoItem =>
           s \in Range(timers') \/ s \in Range(timersNew') \/ NeedsNone(item'[s])
    BY <1>3, <1>5, <1>9, <2>2
  <2>4. Range(timers' \o timersNew') = Range(timers') \cup Range(timersNew')
    <3>1. timers' \in Seq(Slots) /\ timersNew' \in Seq(Slots)
      BY <1>3 DEF Queue, Fit, TimerQueue
    <3> QED BY <3>1, RangeConcat
  <2> QED BY <2>3, <2>4 DEF SecretsHaveTimers, NeedsNone, Limited, MaxTTLOf
<1> QED BY <1>4, <1>8, <1>10, <1>11 DEF IInv

\* agent_put_cache with data.
LEMMA PutStep ==
  ASSUME IInv, NEW key \in Keys, NEW mode \in Modes, NEW session \in Session(mode),
         NEW arg \in TTLs, NEW ok \in Encrypts, Put(key, mode, session, arg, ok)
  PROVE  IInv'
<1> DEFINE ttl == IF arg = 0 THEN DefaultTTL(mode) ELSE arg
           New(restricted) ==
             [key |-> key, restricted |-> restricted, mode |-> mode, pw |-> ok,
              created |-> gnupg_get_time, ttl |-> ttl, read |-> "before"]
<1>1. Timely /\ Held /\ Queue(Queues, Since)
  BY DEF IInv, Timely
<1>2. /\ now \in Nat /\ abstime \in Nat /\ Since \in Int /\ Since <= now
      /\ timers \in Seq(Slots) /\ timersNew \in Seq(Slots)
  BY <1>1, Typed
<1>3. ttl \in Int /\ ok \in BOOLEAN /\ gnupg_get_time \in Nat /\ session \in Sessions \cup {-1}
  <2>1. TTLs \subseteq Int /\ DefTTL \in Int /\ DefTTLData \in Int /\ Encrypts \subseteq BOOLEAN
    BY CacheAssumption
  <2>2. DefaultTTL(mode) \in Int
    <3>1. CASE mode = "data"
      BY <2>1, <3>1 DEF DefaultTTL
    <3>2. CASE mode = "pin"
      BY <2>1, <3>2 DEF DefaultTTL
    <3>3. CASE mode \notin {"data", "pin"}
      BY <2>1, <3>3 DEF DefaultTTL
    <3> QED BY <3>1, <3>2, <3>3
  <2>3. gnupg_get_time \in Nat
    BY <1>2, Ticks, Zenon DEF gnupg_get_time
  <2>4. session \in Sessions \cup {-1}
    BY DEF Session
  <2> QED BY <2>1, <2>2, <2>3, <2>4
<1>4. ASSUME NEW x \in Sessions \cup {-1} PROVE New(x) \in Item /\ New(x).read = ReadNow(New(x))
  <2> HIDE DEF ttl
  <2>1. New(x) \in Item
    BY <1>3 DEF Item
  <2>2. New(x).created = gnupg_get_time /\ New(x).mode = mode /\ New(x).read = "before"
    OBVIOUS
  <2> HIDE DEF New
  <2>3. MaxTTLOf(mode) \in Nat
    BY CacheAssumption DEF MaxTTLOf
  <2>4. MaxTTLOf(mode) = 0 \/ gnupg_get_time < gnupg_get_time + MaxTTLOf(mode)
    BY <1>3, <2>3
  <2>5. ReadNow(New(x)) = "before"
    BY <2>2, <2>4 DEF ReadNow
  <2> QED BY <2>1, <2>2, <2>5
<1>5. /\ MayRun /\ UNCHANGED <<abstime, now, front, late>>
      /\ \/ /\ \E i \in 1..Len(thecache) :
                  LET e == thecache[i]
                      r == New(item[e].restricted)
                  IN  /\ item' = [item EXCEPT ![e] = r]
                      /\ SetQueues(UpdateExpiration(Queues, e, r))
            /\ UNCHANGED thecache
         \/ \E e \in Slots :
              /\ item[e] = NoItem
              /\ item' = [item EXCEPT ![e] = New(session)]
              /\ thecache' = <<e>> \o thecache
              /\ SetQueues(AddTimer(Queues, e, New(session)))
  BY Zenon DEF Put
<1> HIDE DEF New
<1>6. ASSUME NEW i \in 1..Len(thecache), item' = [item EXCEPT ![thecache[i]] = New(item[thecache[i]].restricted)],
             SetQueues(UpdateExpiration(Queues, thecache[i], New(item[thecache[i]].restricted))),
             UNCHANGED thecache
      PROVE  IInv'
  <2> DEFINE e == thecache[i]
             r == New(item[e].restricted)
             L == UpdateExpiration(Queues, e, r)
  <2>1. e \in Slots /\ item[e].restricted \in Sessions \cup {-1}
    BY <1>1, <1>6, Typed, ZenonT(30) DEF Item
  <2>2. r \in Item /\ r.read = ReadNow(r)
    BY <1>4, <2>1
  <2>3. item' = [item EXCEPT ![e] = r] /\ SetQueues(L)
    BY <1>6
  <2> HIDE DEF e, r
  <2>4. Queue(L, Since) /\ Updated(Queues, L, e, ComputeExpiration(r))
    BY <1>1, <1>2, <2>1, <2>2, TimerUpdated
  <2> HIDE DEF L
  <2> QED BY <1>5, <1>6, <2>1, <2>2, <2>3, <2>4, ClientStep, Zenon
<1>7. ASSUME NEW e \in Slots, item[e] = NoItem, item' = [item EXCEPT ![e] = New(session)],
             thecache' = <<e>> \o thecache, SetQueues(AddTimer(Queues, e, New(session)))
      PROVE  IInv'
  <2> DEFINE r == New(session)
             L == AddTimer(Queues, e, r)
  <2>1. r \in Item /\ r.read = ReadNow(r)
    BY <1>3, <1>4
  <2>2. e \notin Range(Queues.timers) /\ e \notin Range(Queues.new) /\ Queues.due[e] = 0
    BY <1>1, <1>7 DEF Held, Queues
  <2> HIDE DEF r
  <2>3. Queue(L, Since) /\ Updated(Queues, L, e, ComputeExpiration(r))
    BY <1>1, <1>2, <2>1, <2>2, TimerAdded
  <2>4. item' = [item EXCEPT ![e] = r] /\ SetQueues(L)
    BY <1>7 DEF r
  <2> HIDE DEF L
  <2> QED BY <1>5, <1>7, <2>1, <2>3, <2>4, ClientStep, Zenon
<1> QED BY <1>5, <1>6, <1>7, Zenon

\* agent_get_cache.
LEMMA GetStep ==
  ASSUME IInv, NEW key \in Keys, NEW mode \in Modes, NEW session \in Session(mode),
         Get(key, mode, session)
  PROVE  IInv'
<1>1. Timely /\ Held /\ Queue(Queues, Since)
  BY DEF IInv, Timely
<1>2. now \in Nat /\ abstime \in Nat /\ Since \in Int /\ Since <= now
  BY <1>1, Typed
<1>3. PICK i \in 1..Len(thecache) :
         /\ SetQueues(UpdateExpiration(Queues, thecache[i], item[thecache[i]]))
         /\ item' = [item EXCEPT ![thecache[i]].read = ReadNow(item[thecache[i]])]
  BY Zenon DEF Get
<1> DEFINE e == thecache[i]
           r == [item[e] EXCEPT !.read = ReadNow(item[e])]
           L == UpdateExpiration(Queues, e, item[e])
<1>4. e \in Slots /\ item[e] \in Item
  BY <1>1, Typed
<1>5. ReadNow(item[e]) \in {"before", "at", "after"}
  BY DEF ReadNow
<1>6. SetQueues(L) /\ item' = [item EXCEPT ![e] = r]
  BY <1>3
<1> HIDE DEF e
<1>7. /\ r \in Item /\ r.read = ReadNow(item[e]) /\ r.mode = item[e].mode /\ r.pw = item[e].pw
      /\ r.created = item[e].created /\ r.ttl = item[e].ttl
  BY <1>4, <1>5 DEF Item
<1> HIDE DEF r
<1>8. ReadNow(item[e]) = ReadNow(r)
  BY <1>7, ZenonT(30) DEF ReadNow
<1>9. ComputeExpiration(item[e]) = ComputeExpiration(r)
  BY <1>7 DEF ComputeExpiration
<1>10. Queue(L, Since) /\ Updated(Queues, L, e, ComputeExpiration(item[e]))
  BY <1>1, <1>2, <1>4, TimerUpdated
<1>11. MayRun /\ UNCHANGED <<thecache, abstime, now, front, late>>
  BY DEF Get
<1> HIDE DEF L
<1> QED BY <1>4, <1>6, <1>7, <1>8, <1>9, <1>10, <1>11, ClientStep, Zenon

\* An item without its data.
LEMMA Cleared ==
  ASSUME NEW x \in Item
  PROVE  LET r == [x EXCEPT !.pw = FALSE] IN
         r \in Item /\ ~r.pw /\ r.mode = x.mode /\ r # NoItem
<1> DEFINE r == [x EXCEPT !.pw = FALSE]
<1>1. r \in Item /\ ~r.pw /\ r.mode = x.mode
  BY Zenon DEF Item
<1> HIDE DEF r
<1>2. r # NoItem
  BY <1>1, ItemIsNot
<1> QED BY <1>1, <1>2 DEF r

\* Some items lose their data, and all others stay: what that means for the items.
Emptied(Hit) ==
  /\ item' \in [Slots -> Item \cup {NoItem}]
  /\ \A s \in Hit : ~item'[s].pw /\ item'[s] # NoItem /\ item'[s].mode = item[s].mode
  /\ \A s \in Slots \ Hit : item'[s] = item[s]

\* Secrets are flushed: the lists become q.
LEMMA FlushedItems ==
  ASSUME IInv, MayRun, NEW Hit, Hit \subseteq Slots, \A s \in Hit : item[s] # NoItem, Emptied(Hit),
         NEW q, Flushed(Queues, q, Hit), q \in TimerQueue,
         timers' = q.timers, timersNew' = q.new, due' = q.due, UNCHANGED <<thecache, now>>
  PROVE  Held' /\ MaxLifetime' /\ (LoopFirst => SecretsHaveTimers')
<1>1. Timely /\ Held /\ MaxLifetime /\ (LoopFirst => SecretsHaveTimers)
  BY ZenonT(30) DEF IInv
<1>2. /\ timers \in Seq(Slots) /\ timersNew \in Seq(Slots) /\ now \in Nat
      /\ Queues.timers = timers /\ Queues.new = timersNew /\ Queues.due = due
  BY <1>1, Typed, ZenonT(30) DEF Queues
<1>3. /\ Range(timers') \subseteq Range(timers)
      /\ Range(timers) \ Hit \subseteq Range(timers')
      /\ \A s \in Range(timersNew') : s \in Range(timersNew) \/ (s \in Hit /\ item[s].mode # "pin")
      /\ \A s \in Slots : s \notin Hit => due'[s] = due[s]
  BY <1>2 DEF Flushed
<1>4. /\ item' \in [Slots -> Item \cup {NoItem}]
      /\ \A s \in Slots : /\ item'[s] = NoItem <=> item[s] = NoItem
                          /\ s \in Hit => ~item'[s].pw
                          /\ s \notin Hit => item'[s] = item[s]
                          /\ item[s] # NoItem => item'[s].mode = item[s].mode
  BY ZenonT(30) DEF Emptied
<1>5. Range(timers) \subseteq Slots /\ Range(timersNew) \subseteq Slots /\ Range(thecache) \subseteq Slots
  BY <1>1, <1>2, InRange, ZenonT(30) DEF Held
<1>6. Held'
  <2>1. \A s \in Range(timers') \cup Range(timersNew') : item'[s] # NoItem /\ item'[s].mode # "pin"
    BY <1>1, <1>3, <1>4, <1>5, ZenonT(30) DEF Held
  <2>2. \A s \in Slots : item'[s] = NoItem => due'[s] = 0
    BY <1>1, <1>3, <1>4 DEF Held
  <2>3. \A s \in Range(thecache') : item'[s] # NoItem
    BY <1>1, <1>4, <1>5 DEF Held
  <2> QED BY <1>1, <1>4, <2>1, <2>2, <2>3, ZenonT(30) DEF Held
<1>7. MaxLifetime'
  <2>1. \A s \in Slots : item[s] # NoItem => Bounded(item[s], due[s])
    BY <1>1, BoundedItems, ZenonT(30)
  <2>2. \A s \in Slots : item'[s] # NoItem => Bounded(item'[s], due'[s])
    <3>1. \A s \in Hit : Bounded(item'[s], due'[s])
      BY <1>4, ZenonT(30) DEF Bounded
    <3> QED BY <1>3, <1>4, <2>1, <3>1, ZenonT(30)
  <2> QED BY <2>2 DEF MaxLifetime, Bounded, MaxTTLOf
<1>8. ASSUME LoopFirst PROVE SecretsHaveTimers'
  <2>1. Range(timersNew) = {}
    BY <1>1, <1>8, NoneNew, ZenonT(30)
  <2>2. \A s \in Slots : item[s] # NoItem => s \in Range(timers) \/ NeedsNone(item[s])
    BY <1>1, <1>2, <1>8, <2>1, TimedItems, ZenonT(30)
  <2>3. \A s \in Slots : item'[s] # NoItem => s \in Range(timers') \/ NeedsNone(item'[s])
    <3>1. \A s \in Hit : NeedsNone(item'[s])
      BY <1>4 DEF NeedsNone
    <3> QED BY <1>3, <1>4, <2>2, <3>1, ZenonT(30)
  <2>4. Range(timers' \o timersNew') = Range(timers') \cup Range(timersNew')
    BY RangeConcat DEF TimerQueue
  <2> QED BY <2>3, <2>4 DEF SecretsHaveTimers, NeedsNone, Limited, MaxTTLOf
<1> QED BY <1>6, <1>7, <1>8

\* agent_put_cache without data.
LEMMA ClearStep ==
  ASSUME IInv, NEW key \in Keys, NEW mode \in Modes, NEW session \in Session(mode),
         Clear(key, mode, session)
  PROVE  IInv'
<1>1. Timely /\ Held
  BY DEF IInv
<1>2. PICK i \in 1..Len(thecache) : item' = [item EXCEPT ![thecache[i]].pw = FALSE]
  BY Zenon DEF Clear
<1> DEFINE e == thecache[i]
           r == [item[e] EXCEPT !.pw = FALSE]
<1>3. e \in Slots /\ item[e] \in Item
  BY <1>1, Typed
<1>4. item' = [item EXCEPT ![e] = r]
  BY <1>2
<1> HIDE DEF e
<1>5. r \in Item /\ ~r.pw /\ r.mode = item[e].mode /\ r # NoItem
  BY <1>3, Cleared
<1> HIDE DEF r
<1>6. Emptied({e})
  BY <1>1, <1>3, <1>4, <1>5 DEF Emptied, Held
<1>7. /\ MayRun
      /\ UNCHANGED <<thecache, timers, timersNew, tv, abstime, now, kicked, due, front, late>>
  BY DEF Clear
<1>8. Timely'
  <2>1. Queues' = Queues /\ Since' = Since
    BY <1>7, ZenonT(30) DEF Queues, Since
  <2>2. Queue(Queues, Since)'
    BY <1>1, <1>7, <2>1, ZenonT(30) DEF Timely, Queue, Fit, Fresh, OnTime
  <2> QED BY <1>1, <1>7, <2>2 DEF Timely
<1>9. Flushed(Queues, Queues, {e}) /\ Queues \in TimerQueue
  BY <1>1 DEF Flushed, Timely, Queue, Fit
<1>10. timers' = Queues.timers /\ timersNew' = Queues.new /\ due' = Queues.due
  BY <1>7 DEF Queues
<1>11. item[e] # NoItem
  BY <1>3, ItemIsNot
<1>12. Held' /\ MaxLifetime' /\ (LoopFirst => SecretsHaveTimers')
  BY <1>3, <1>6, <1>7, <1>9, <1>10, <1>11, FlushedItems
<1> QED BY <1>8, <1>12 DEF IInv

\* agent_flush_cache.
LEMMA FlushStep ==
  ASSUME IInv, NEW pincache_only \in BOOLEAN, Flush(pincache_only)
  PROVE  IInv'
<1> DEFINE Hit == {e \in Range(thecache) :
                     item[e].pw /\ (pincache_only => item[e].mode = "pin")}
           q == FlushUpTo(Queues, Hit)[Len(thecache)]
<1>1. Timely /\ Held /\ Queue(Queues, Since)
  BY DEF IInv, Timely
<1>2. now \in Nat /\ abstime \in Nat /\ Since \in Int /\ Since <= now
  BY <1>1, Typed
<1>3. /\ MayRun /\ SetQueues(q)
      /\ item' = [s \in Slots |-> IF s \in Hit THEN [item[s] EXCEPT !.pw = FALSE] ELSE item[s]]
      /\ UNCHANGED <<thecache, abstime, now, front, late>>
  BY DEF Flush
<1>4. Hit \subseteq Slots /\ \A s \in Hit : item[s] # NoItem /\ item[s] \in Item
  <2>1. Hit \subseteq Range(thecache) /\ Range(thecache) \subseteq Slots
    BY <1>1, InRange DEF Held
  <2> HIDE DEF Hit
  <2> QED BY <1>1, <2>1 DEF Held
<1> HIDE DEF Hit
<1>5. Queue(q, Since) /\ Flushed(Queues, q, Hit)
  BY <1>1, <1>2, <1>4, FlushWalk DEF Held
<1> HIDE DEF q
<1>6. Emptied(Hit)
  <2>1. \A s \in Hit : LET r == [item[s] EXCEPT !.pw = FALSE] IN
                       r \in Item /\ ~r.pw /\ r.mode = item[s].mode /\ r # NoItem
    BY <1>4, Cleared
  <2> QED BY <1>1, <1>3, <1>4, <2>1 DEF Emptied, Held
<1>7. Timely'
  <2>1. Range(q.timers) \subseteq Range(timers)
    BY <1>5 DEF Flushed, Queues
  <2> QED BY <1>1, <1>3, <1>5, <2>1, ClientTimely, ZenonT(30)
<1>8. q \in TimerQueue
  BY <1>5, Zenon DEF Queue, Fit
<1>9. timers' = q.timers /\ timersNew' = q.new /\ due' = q.due
  BY <1>3 DEF SetQueues
<1>10. Held' /\ MaxLifetime' /\ (LoopFirst => SecretsHaveTimers')
  BY <1>3, <1>4, <1>5, <1>6, <1>8, <1>9, FlushedItems
<1> QED BY <1>7, <1>10 DEF IInv

\* Time passes.
LEMMA TickStep ==
  ASSUME IInv, Tick
  PROVE  IInv'
<1>1. Timely /\ Held /\ MaxLifetime /\ (LoopFirst => SecretsHaveTimers)
  BY DEF IInv
<1>2. /\ now < MaxTime /\ now' = now + 1
      /\ timers # <<>> => now < abstime + MaxLate
      /\ kicked # -1 => now < kicked + MaxLate
      /\ UNCHANGED <<item, thecache, timers, timersNew, tv, abstime, kicked, due, front, late>>
  BY DEF Tick
<1>3. /\ timers \in Seq(Slots) /\ timersNew \in Seq(Slots) /\ tv \in [Slots -> Nat]
      /\ due \in [Slots -> Nat] /\ now \in Nat /\ abstime \in Nat
  BY <1>1, Typed
<1>4. Timely'
  <2>1. Queues' = Queues /\ Queues.new = timersNew /\ Queues.tv = tv /\ Queues.due = due
    BY <1>2 DEF Queues
  <2>2. Fit(Queues)'
    BY <1>1, <2>1 DEF Timely, Queue, Fit
  <2>3. OnTime(Queues)'
    BY <1>1, <1>2, <2>1, Zenon DEF Timely, Queue, OnTime
  <2>4. Fresh(Queues, Since)'
    <3>1. CASE kicked = -1
      <4>1. timersNew = <<>>
        BY <1>1, <3>1 DEF Timely
      <4>2. Range(Queues'.new) = {}
        BY <2>1, <4>1 DEF Range
      <4> QED BY <4>2 DEF Fresh
    <3>2. CASE kicked # -1
      <4>1. Since = kicked /\ Since' = kicked
        BY <1>2, <3>2 DEF Since
      <4>2. ASSUME NEW s \in Range(timersNew)
            PROVE  kicked <= due[s] - TPS * tv[s] /\ due[s] - TPS * tv[s] <= now + 1
        <5>1. s \in Slots
          BY <1>3, <4>2, InRange
        <5>2. TPS * tv[s] \in Int /\ due[s] \in Int
          BY <1>3, <5>1, TimesTPS
        <5>3. kicked <= due[s] - TPS * tv[s] /\ due[s] - TPS * tv[s] <= now
          BY <1>1, <2>1, <4>1, <4>2 DEF Timely, Queue, Fresh
        <5> QED BY <1>3, <5>2, <5>3
      <4> QED BY <1>2, <2>1, <4>1, <4>2 DEF Fresh
    <3> QED BY <3>1, <3>2
  <2>5. Queue(Queues, Since)'
    BY <2>2, <2>3, <2>4 DEF Queue
  <2>6. /\ now' \in 0..MaxTime /\ kicked' <= now'
        /\ timers' # <<>> => now' <= abstime' + MaxLate
        /\ kicked' # -1 => now' <= kicked' + MaxLate
    BY <1>1, <1>2, <1>3, CacheAssumption DEF Timely
  <2> QED BY <1>1, <1>2, <2>5, <2>6 DEF Timely
<1>5. Held'
  BY <1>1, <1>2 DEF Held
<1>6. MaxLifetime'
  <2>1. ASSUME NEW s \in Slots, item[s] # NoItem, item[s].pw, MaxTTLOf(item[s].mode) > 0,
               item[s].read = "after"
        PROVE  due[s] <= now + 1
    <3>1. due[s] <= now
      BY <1>1, <2>1 DEF MaxLifetime
    <3> QED BY <1>3, <3>1
  <2> QED BY <1>1, <1>2, <2>1 DEF MaxLifetime, MaxTTLOf
<1>7. LoopFirst => SecretsHaveTimers'
  BY <1>1, <1>2 DEF SecretsHaveTimers, Limited, MaxTTLOf
<1> QED BY <1>4, <1>5, <1>6, <1>7 DEF IInv

\* The empty cache.
LEMMA InitInv == Init => IInv
<1> SUFFICES ASSUME Init PROVE IInv
  OBVIOUS
<1>1. /\ item = [s \in Slots |-> NoItem] /\ thecache = <<>> /\ timers = <<>> /\ timersNew = <<>>
      /\ tv = [s \in Slots |-> 0] /\ due = [s \in Slots |-> 0] /\ abstime = 0 /\ now = 0 /\ kicked = -1
      /\ front = [s \in Slots |-> 0] /\ late = [s \in Slots |-> 0]
  BY DEF Init
<1>2. Range(<<>>) = {} /\ <<>> \in Seq(Slots) /\ Distinct(<<>>)
  BY DEF Range, Distinct
<1>3. Fit(Queues)
  BY <1>1, <1>2 DEF Fit, Queues, TimerQueue
<1>4. Fresh(Queues, Since)
  BY <1>1, <1>2 DEF Fresh, Queues
<1>5. OnTime(Queues)
  <2> DEFINE w == [s \in Slots |-> 0]
  <2>1. w \in [Slots -> Int] /\ Schedule(<<>>, tv, abstime, w)
    BY DEF Schedule
  <2> QED BY <1>1, <1>2, <2>1 DEF OnTime, Queues
<1>6. Timely
  BY <1>1, <1>3, <1>4, <1>5, CacheAssumption DEF Timely, Queue
<1>7. Held
  BY <1>1, <1>2 DEF Held
<1>8. MaxLifetime /\ SecretsHaveTimers
  BY <1>1 DEF MaxLifetime, SecretsHaveTimers
<1> QED BY <1>6, <1>7, <1>8 DEF IInv

-----------------------------------------------------------------------------
(* agent_cache_expiration.  Its definitions, each by a name of its own. *)

Expired == timers # <<>> /\ abstime < now

Pops == Expired /\ tv[Head(timers)] = 0

LoopLists ==
  IF Pops
  THEN Expire([timers |-> Tail(timers), new |-> timersNew, tv |-> tv, due |-> due], Head(timers))
  ELSE Queues

LoopTimeout == IF Expired \/ LoopLists.timers = <<>> THEN 0 ELSE abstime - now

LateNow ==
  [s \in Slots |->
     IF s \in Range(LoopLists.timers) THEN late[s] + (IF Expired THEN 1 ELSE 0) ELSE 0]

LoopStart ==
  [timers |-> LoopLists.timers, timeout |-> LoopTimeout, tv |-> LoopLists.tv,
   front |-> [s \in Slots |-> IF s \in Range(LoopLists.timers) THEN front[s] ELSE 0]]

LoopEnd == InsertUpTo(LoopStart, LoopLists.new)[Len(LoopLists.new)]

\* The timers of list s, with the deltas sec, are on time from base on; l counts the
\* late wake-ups of the loop.
OnTimeFrom(s, sec, base, l) ==
  \E w \in [Slots -> Int] :
    /\ Schedule(s, sec, base, w)
    /\ \A x \in Range(s) : Punctual(w[x], due[x], front[x], l[x])

\* The new timers were started when the loop was kicked, or later.
LEMMA NewStarted ==
  ASSUME Timely, Held
  PROVE  \A x \in Range(timersNew) : Started(tv[x], due[x])
<1>1. /\ timersNew \in Seq(Slots) /\ tv \in [Slots -> Nat] /\ due \in [Slots -> Nat] /\ now \in Nat
  BY Typed
<1>2. SUFFICES ASSUME NEW x \in Range(timersNew) PROVE Started(tv[x], due[x])
  OBVIOUS
<1>3. kicked # -1
  <2>1. timersNew # <<>>
    BY DEF Range
  <2> QED BY <2>1 DEF Timely
<1>4. /\ Since = kicked /\ kicked \in Int /\ now <= kicked + MaxLate /\ MaxLate \in Nat
  BY <1>3, CacheAssumption, ZenonT(30) DEF Timely, Since
<1>5. Since <= due[x] - TPS * tv[x] /\ due[x] - TPS * tv[x] <= now
  BY DEF Timely, Queue, Fresh, Queues
<1> DEFINE a == TPS * tv[x]
           d == due[x]
<1>6. a \in Int /\ d \in Int
  BY <1>1, InRange, TimesTPS
<1> HIDE DEF a, d
<1>7. d <= now + a /\ now + a <= d + MaxLate
  BY <1>1, <1>4, <1>5, <1>6 DEF a, d
<1> QED BY <1>7 DEF Started, a, d

\* The loop woke up late: the timers that are left count from now on.
LEMMA Shifted ==
  ASSUME Timely, Held, Expired, NEW s \in Seq(Slots), Distinct(s),
         OnTimeFrom(s, tv, abstime, late), NEW sec \in [Slots -> Int],
         \A x \in Range(s) : sec[x] = tv[x], NEW l, \A x \in Range(s) : l[x] = late[x] + 1
  PROVE  OnTimeFrom(s, sec, now, l)
<1>1. /\ tv \in [Slots -> Nat] /\ due \in [Slots -> Nat] /\ now \in Nat /\ abstime \in Nat
      /\ front \in [Slots -> Nat] /\ late \in [Slots -> Nat]
  BY Typed, Zenon DEF Timely
<1>2. PICK w \in [Slots -> Int] :
        /\ Schedule(s, tv, abstime, w)
        /\ \A x \in Range(s) : Punctual(w[x], due[x], front[x], late[x])
  BY ZenonT(30) DEF OnTimeFrom
<1> DEFINE y == now - abstime
           when == [x \in Slots |-> w[x] + y]
<1>3. y \in Nat /\ y <= MaxLate /\ abstime + y = now
  <2>1. abstime < now /\ now <= abstime + MaxLate /\ MaxLate \in Nat
    BY CacheAssumption, Zenon DEF Expired, Timely
  <2> QED BY <2>1, <1>1, SMT
<1> HIDE DEF y
<1>4. when \in [Slots -> Int] /\ \A x \in Slots : when[x] = w[x] + y
  BY <1>2, <1>3
<1> HIDE DEF when
<1>5. Range(s) \subseteq Slots /\ Len(s) \in Nat /\ \A i \in 1..Len(s) : s[i] \in Range(s)
  BY InRange, ZenonT(30)
<1>6. MovedTo(s, tv, w, y, sec, now, when)
  <2>1. \A x \in Range(s) : when[x] = w[x] + y /\ (x # s[1] => sec[x] = tv[x])
    BY <1>4, <1>5, ZenonT(30)
  <2>2. ASSUME Len(s) > 0 PROVE w[s[1]] + y = now + TPS * sec[s[1]]
    <3>1. s[1] \in Range(s) /\ s[1] \in Slots
      BY <1>5, <2>2
    <3> DEFINE a == TPS * tv[s[1]]
    <3>2. a \in Int
      BY <1>1, <3>1, TimesTPS, Zenon
    <3>3. w[s[1]] = abstime + a /\ sec[s[1]] = tv[s[1]]
      BY <1>2, <2>2, <3>1, ZenonT(30) DEF Schedule
    <3> HIDE DEF a
    <3>4. w[s[1]] + y = now + a
      BY <1>1, <1>3, <3>2, <3>3
    <3> QED BY <3>3, <3>4, ZenonT(30) DEF a
  <2> QED BY <2>1, <2>2, ZenonT(30) DEF MovedTo
<1>7. Schedule(s, sec, now, when)
  <2>1. tv \in [Slots -> Int] /\ abstime \in Int /\ now \in Int /\ y \in Int
    BY <1>1, <1>3
  <2> QED BY <1>2, <1>4, <1>6, <2>1, ScheduleMoved, Zenon
<1>8. ASSUME NEW x \in Range(s) PROVE Punctual(when[x], due[x], front[x], l[x])
  <2>1. /\ x \in Slots /\ w[x] \in Int /\ due[x] \in Int /\ front[x] \in Nat /\ late[x] \in Nat
        /\ Punctual(w[x], due[x], front[x], late[x])
    BY <1>1, <1>2, <1>5, <1>8
  <2>2. Punctual(w[x] + y, due[x], front[x], late[x] + 1)
    BY <1>3, <2>1, PunctualLater, ZenonT(30)
  <2> QED BY <1>4, <2>1, <2>2, ZenonT(30)
<1> QED BY <1>4, <1>7, <1>8, Zenon DEF OnTimeFrom

\* The timer at the head is taken off the list.
LEMMA PoppedHead ==
  ASSUME Timely, Held, Pops
  PROVE  /\ Tail(timers) \in Seq(Slots) /\ Distinct(Tail(timers))
         /\ Head(timers) \in Slots /\ Head(timers) \in Range(timers)
         /\ Range(Tail(timers)) = Range(timers) \ {Head(timers)}
         /\ OnTimeFrom(Tail(timers), tv, abstime, late)
<1> DEFINE e == Head(timers)
           s == Tail(timers)
<1>1. /\ timers \in Seq(Slots) /\ tv \in [Slots -> Nat] /\ abstime \in Nat /\ Distinct(timers)
      /\ timers # <<>> /\ tv[e] = 0
  BY Typed DEF Pops, Expired
<1>2. /\ e \in Slots /\ s \in Seq(Slots) /\ Len(timers) = Len(s) + 1 /\ timers[1] = e
      /\ Len(s) \in Nat /\ \A i \in 1..Len(s) : timers[i + 1] = s[i]
  BY <1>1
<1> HIDE DEF e, s
<1>3. Insertion(s, timers, 1, e)
  BY <1>2 DEF Insertion
<1>4. Range(timers) = Range(s) \cup {e} /\ Distinct(s) /\ e \notin Range(s)
  BY <1>1, <1>2, <1>3, Inserted, ZenonT(30)
<1>5. PICK w \in [Slots -> Int] :
        /\ Schedule(timers, tv, abstime, w)
        /\ \A x \in Range(timers) : Punctual(w[x], due[x], front[x], late[x])
  BY ZenonT(30) DEF Timely, Queue, OnTime, Queues
<1>6. Schedule(s, tv, abstime, w)
  <2>1. \A x \in Slots : x # e => tv[x] = IF Follows(timers, e, x) THEN tv[x] + tv[e] ELSE tv[x]
    BY <1>1
  <2>2. tv \in [Slots -> Int] /\ abstime \in Int
    BY <1>1
  <2> QED BY <1>1, <1>2, <1>3, <1>5, <2>1, <2>2, ScheduleWithout, Zenon
<1>7. OnTimeFrom(s, tv, abstime, late)
  BY <1>4, <1>5, <1>6, Zenon DEF OnTimeFrom
<1> QED BY <1>2, <1>4, <1>7 DEF e, s

\* What the loop's first part makes of the lists and of the times.
Ready(L) ==
  /\ Fit(L)
  /\ \A x \in Range(L.new) : Started(L.tv[x], L.due[x])
  /\ OnTimeFrom(L.timers, L.tv, now + LoopTimeout, LateNow)
  /\ \A x \in Range(L.timers) : L.due[x] = due[x]

\* No timer is taken off the list.
LEMMA ReadyAsIs ==
  ASSUME Timely, Held, ~Pops
  PROVE  Ready(LoopLists) /\ LoopLists = Queues /\ LoopTimeout \in Nat
<1>1. /\ timers \in Seq(Slots) /\ timersNew \in Seq(Slots) /\ tv \in [Slots -> Nat]
      /\ due \in [Slots -> Nat] /\ now \in Nat /\ abstime \in Nat /\ Distinct(timers)
      /\ Queues.timers = timers /\ Queues.new = timersNew /\ Queues.tv = tv /\ Queues.due = due
      /\ Queue(Queues, Since) /\ late \in [Slots -> Nat] /\ Range(timers) \subseteq Slots
  BY Typed, InRange, Zenon DEF Queues, Timely
<1>2. LoopLists = Queues
  BY DEF LoopLists
<1>3. OnTimeFrom(timers, tv, abstime, late)
  BY <1>1, Zenon DEF Queue, OnTime, OnTimeFrom
<1>4. \A x \in Range(timers) : LateNow[x] = late[x] + (IF Expired THEN 1 ELSE 0)
  BY <1>1, <1>2 DEF LateNow
<1>5. LoopTimeout \in Nat /\ OnTimeFrom(timers, tv, now + LoopTimeout, LateNow)
  <2>1. CASE Expired
    <3>1. LoopTimeout = 0 /\ now + LoopTimeout = now
      BY <1>1, <2>1 DEF LoopTimeout
    <3>2. \A x \in Range(timers) : LateNow[x] = late[x] + 1
      BY <1>4, <2>1, ZenonT(30)
    <3>3. tv \in [Slots -> Int]
      BY <1>1
    <3>4. OnTimeFrom(timers, tv, now, LateNow)
      BY <1>1, <1>3, <2>1, <3>2, <3>3, Shifted, Zenon
    <3> QED BY <3>1, <3>4, ZenonT(30)
  <2>2. CASE ~Expired /\ timers # <<>>
    <3>1. LoopTimeout = abstime - now /\ LoopTimeout \in Nat /\ now + LoopTimeout = abstime
      BY <1>1, <1>2, <2>2 DEF LoopTimeout, Expired
    <3>2. \A x \in Range(timers) : LateNow[x] = late[x]
      BY <1>1, <1>4, <2>2
    <3> QED BY <1>3, <3>1, <3>2, Zenon DEF OnTimeFrom
  <2>3. CASE timers = <<>>
    <3>1. LoopTimeout = 0 /\ now + LoopTimeout = now
      BY <1>1, <1>2, <2>3 DEF LoopTimeout
    <3> DEFINE w == [x \in Slots |-> 0]
    <3>2. w \in [Slots -> Int] /\ Schedule(timers, tv, now, w) /\ Range(timers) = {}
      BY <2>3 DEF Schedule, Range
    <3> QED BY <3>1, <3>2, ZenonT(30) DEF OnTimeFrom
  <2> QED BY <2>1, <2>2, <2>3
<1>6. \A x \in Range(timersNew) : Started(tv[x], due[x])
  BY NewStarted
<1> QED BY <1>1, <1>2, <1>5, <1>6 DEF Ready, Queue

\* The item at the head loses its data, and gets a timer to be dropped.
LEMMA ReadyForgotten ==
  ASSUME Timely, Held, Pops, item[Head(timers)].pw
  PROVE  LET e == Head(timers) IN
         /\ Ready(LoopLists) /\ LoopTimeout = 0
         /\ Range(LoopLists.timers) = Range(timers) \ {e}
         /\ Range(LoopLists.new) = Range(timersNew) \cup {e}
         /\ \A x \in Slots : x # e => LoopLists.due[x] = due[x]
<1> DEFINE e == Head(timers)
           s == Tail(timers)
           r == [item[e] EXCEPT !.pw = FALSE]
           P == [timers |-> s, new |-> timersNew, tv |-> tv, due |-> due]
           c == UnusedTTL
           L == [timers |-> s, new |-> <<e>> \o timersNew, tv |-> [tv EXCEPT ![e] = c],
                 due |-> [due EXCEPT ![e] = now + c * TPS]]
<1>1. /\ timersNew \in Seq(Slots) /\ tv \in [Slots -> Nat] /\ due \in [Slots -> Nat]
      /\ now \in Nat /\ abstime \in Nat /\ Distinct(timersNew) /\ Range(timers) \cap Range(timersNew) = {}
  BY Typed
<1>2. /\ s \in Seq(Slots) /\ Distinct(s) /\ e \in Slots /\ e \in Range(timers)
      /\ Range(s) = Range(timers) \ {e} /\ OnTimeFrom(s, tv, abstime, late)
  BY PoppedHead
<1>3. item[e] \in Item /\ item[e].mode # "pin"
  BY <1>2 DEF Held
<1>4. LoopLists = AddTimer(P, e, r)
  BY DEF LoopLists, Expire
<1> HIDE DEF e, s
<1>5. r \in Item /\ ~r.pw /\ r.mode # "pin"
  BY <1>3, Cleared, ZenonT(30)
<1> HIDE DEF r
<1>6. ComputeExpiration(r) = c /\ c \in Nat
  BY <1>1, <1>5, Expiration, CacheAssumption, ZenonT(30)
<1>7. LoopLists = L
  <2>1. ~(c < 0)
    BY <1>6
  <2> HIDE DEF c
  <2> QED BY <1>4, <1>6, <2>1 DEF AddTimer
<1> DEFINE l == <<e>> \o timersNew
           sec == [tv EXCEPT ![e] = c]
           d == [due EXCEPT ![e] = now + c * TPS]
<1>8. L.timers = s /\ L.new = l /\ L.tv = sec /\ L.due = d /\ L = [timers |-> s, new |-> l, tv |-> sec, due |-> d]
  OBVIOUS
<1>9. l \in Seq(Slots) /\ Range(l) = Range(timersNew) \cup {e} /\ Distinct(l)
  <2>1. l \in Seq(Slots) /\ Insertion(timersNew, l, 1, e)
    BY <1>1, <1>2, InFront
  <2> HIDE DEF l
  <2>2. /\ Range(l) = Range(timersNew) \cup {e}
        /\ Distinct(l) <=> Distinct(timersNew) /\ e \notin Range(timersNew)
    BY <1>1, <2>1, Inserted
  <2> QED BY <1>1, <1>2, <2>1, <2>2, ZenonT(30)
<1>10. /\ sec \in [Slots -> Nat] /\ sec[e] = c /\ d[e] = now + c * TPS
       /\ \A x \in Slots : x # e => sec[x] = tv[x] /\ d[x] = due[x]
  BY <1>1, <1>2, <1>6
<1>11. d \in [Slots -> Nat]
  <2>1. now + c * TPS \in Nat
    <3>1. c \in Nat /\ TPS \in Nat
      BY <1>6, CacheAssumption
    <3> HIDE DEF c
    <3>2. c * TPS \in Nat
      BY <3>1
    <3> QED BY <1>1, <3>2
  <2> QED BY <1>1, <1>2, <2>1
<1> HIDE DEF L, l, sec, d, c
<1>12. Fit(L)
  BY <1>1, <1>2, <1>8, <1>9, <1>10, <1>11, Zenon DEF Fit, TimerQueue
<1>13. ASSUME NEW x \in Range(l) PROVE Started(sec[x], d[x])
  <2>1. CASE x = e
    <3>1. c * TPS = TPS * c /\ TPS * c \in Int /\ MaxLate \in Nat
      BY <1>6, CacheAssumption
    <3>2. d[e] = now + TPS * c
      BY <1>10, <3>1
    <3> QED BY <1>1, <1>10, <2>1, <3>1, <3>2 DEF Started
  <2>2. CASE x # e
    <3>1. x \in Range(timersNew) /\ x \in Slots
      BY <1>1, <1>9, <1>13, <2>2, InRange
    <3>2. Started(tv[x], due[x])
      BY <3>1, NewStarted
    <3> QED BY <1>10, <2>2, <3>1, <3>2
  <2> QED BY <2>1, <2>2, ZenonT(30)
<1>14. Expired /\ LoopTimeout = 0 /\ now + LoopTimeout = now
  BY <1>1 DEF Pops, LoopTimeout
<1>15. OnTimeFrom(s, sec, now, LateNow)
  <2>1. \A x \in Range(s) : x \in Slots /\ x # e
    BY <1>2, InRange, ZenonT(30)
  <2>2. \A x \in Range(s) : LateNow[x] = late[x] + 1
    BY <1>7, <1>8, <1>14, <2>1 DEF LateNow
  <2>3. sec \in [Slots -> Int] /\ \A x \in Range(s) : sec[x] = tv[x]
    BY <1>10, <2>1
  <2> QED BY <1>2, <1>14, <2>2, <2>3, Shifted
<1>16. \A x \in Range(s) : d[x] = due[x]
  BY <1>2, <1>10, InRange, ZenonT(30)
<1>17. Ready(LoopLists)
  BY <1>7, <1>8, <1>12, <1>13, <1>14, <1>15, <1>16, ZenonT(30) DEF Ready
<1> QED BY <1>2, <1>7, <1>8, <1>9, <1>10, <1>14, <1>17, Zenon DEF e

\* The item at the head has no data, and is dropped.
LEMMA ReadyDropped ==
  ASSUME Timely, Held, Pops, ~item[Head(timers)].pw
  PROVE  LET e == Head(timers) IN
         /\ Ready(LoopLists) /\ LoopTimeout = 0
         /\ Range(LoopLists.timers) = Range(timers) \ {e}
         /\ Range(LoopLists.new) = Range(timersNew)
         /\ \A x \in Slots : LoopLists.due[x] = IF x = e THEN 0 ELSE due[x]
<1> DEFINE e == Head(timers)
           s == Tail(timers)
           d == [due EXCEPT ![e] = 0]
           L == [timers |-> s, new |-> timersNew, tv |-> tv, due |-> d]
<1>1. /\ timersNew \in Seq(Slots) /\ tv \in [Slots -> Nat] /\ due \in [Slots -> Nat]
      /\ now \in Nat /\ abstime \in Nat /\ Distinct(timersNew) /\ Range(timers) \cap Range(timersNew) = {}
  BY Typed
<1>2. /\ s \in Seq(Slots) /\ Distinct(s) /\ e \in Slots /\ e \in Range(timers)
      /\ Range(s) = Range(timers) \ {e} /\ OnTimeFrom(s, tv, abstime, late)
  BY PoppedHead
<1>3. Unlink(timersNew, e) = timersNew
  BY <1>1, <1>2, Unlinked, ZenonT(30)
<1>4. LoopLists = L
  BY <1>3, Zenon DEF LoopLists, Expire
<1>5. L.timers = s /\ L.new = timersNew /\ L.tv = tv /\ L.due = d
  OBVIOUS
<1> HIDE DEF e, s
<1>6. d \in [Slots -> Nat] /\ \A x \in Slots : d[x] = IF x = e THEN 0 ELSE due[x]
  BY <1>1, <1>2, ZenonT(30)
<1>7. L \in TimerQueue
  BY <1>1, <1>2, <1>6, ZenonT(30) DEF TimerQueue
<1> HIDE DEF L, d
<1>8. Fit(L)
  BY <1>1, <1>2, <1>5, <1>7, ZenonT(30) DEF Fit
<1>9. \A x \in Range(timersNew) : Started(tv[x], d[x])
  <2>1. \A x \in Range(timersNew) : x \in Slots /\ x # e
    BY <1>1, <1>2, InRange
  <2> QED BY <1>6, <2>1, NewStarted
<1>10. Expired /\ LoopTimeout = 0 /\ now + LoopTimeout = now
  BY <1>1 DEF Pops, LoopTimeout
<1>11. OnTimeFrom(s, tv, now, LateNow)
  <2>1. \A x \in Range(s) : x \in Slots
    BY <1>2, InRange
  <2>2. \A x \in Range(s) : LateNow[x] = late[x] + 1
    BY <1>4, <1>5, <1>10, <2>1 DEF LateNow
  <2>3. tv \in [Slots -> Int]
    BY <1>1
  <2> QED BY <1>2, <1>10, <2>2, <2>3, Shifted
<1>12. \A x \in Range(s) : d[x] = due[x]
  BY <1>2, <1>6, InRange, ZenonT(30)
<1>13. Ready(LoopLists)
  BY <1>4, <1>5, <1>8, <1>9, <1>10, <1>11, <1>12, ZenonT(30) DEF Ready
<1> QED BY <1>2, <1>4, <1>5, <1>6, <1>10, <1>13, Zenon DEF e

\* The loop's second part: the list is on time when the new timers are in it.
LEMMA LoopDone ==
  ASSUME Timely, Held, Ready(LoopLists), LoopTimeout \in Nat
  PROVE  /\ Good(LoopEnd, LoopLists.due, LateNow)
         /\ Range(LoopEnd.timers) = Range(LoopLists.timers) \cup Range(LoopLists.new)
         /\ LateNow \in [Slots -> Nat]
<1> DEFINE L == LoopLists
           Q == LoopStart
<1>1. /\ L.timers \in Seq(Slots) /\ L.new \in Seq(Slots) /\ L.tv \in [Slots -> Nat]
      /\ L.due \in [Slots -> Nat] /\ Distinct(L.timers) /\ Distinct(L.new)
      /\ Range(L.timers) \cap Range(L.new) = {}
  BY DEF Ready, Fit, TimerQueue
<1>2. LateNow \in [Slots -> Nat] /\ front \in [Slots -> Nat] /\ now \in Nat
  <2>1. late \in [Slots -> Nat] /\ front \in [Slots -> Nat] /\ now \in Nat
    BY Typed, Zenon DEF Timely
  <2>2. \A s \in Slots : late[s] + (IF Expired THEN 1 ELSE 0) \in Nat
    BY <2>1
  <2> QED BY <2>1, <2>2 DEF LateNow
<1> HIDE DEF L
<1>3. /\ Q.timers = L.timers /\ Q.timeout = LoopTimeout /\ Q.tv = L.tv
      /\ \A s \in Slots : s \in Range(L.timers) => Q.front[s] = front[s]
      /\ Q \in Inserting
  BY <1>1, <1>2, Zenon DEF LoopStart, Inserting, L
<1> HIDE DEF Q
<1>4. OnTimeUntil(Q, L.due, LateNow)
  <2>1. PICK w \in [Slots -> Int] :
           /\ Schedule(L.timers, L.tv, now + LoopTimeout, w)
           /\ \A x \in Range(L.timers) : Punctual(w[x], due[x], front[x], LateNow[x])
    BY Zenon DEF Ready, OnTimeFrom, L
  <2>2. \A x \in Range(L.timers) : x \in Slots /\ L.due[x] = due[x]
    BY <1>1, InRange, ZenonT(30) DEF Ready, L
  <2>3. \A x \in Range(Q.timers) : Punctual(w[x], L.due[x], Q.front[x], LateNow[x])
    BY <1>3, <2>1, <2>2, ZenonT(30)
  <2>4. Schedule(Q.timers, Q.tv, now + Q.timeout, w)
    BY <1>3, <2>1, ZenonT(30)
  <2> QED BY <2>3, <2>4, Zenon DEF OnTimeUntil
<1>5. Good(Q, L.due, LateNow)
  BY <1>1, <1>3, <1>4, ZenonT(30) DEF Good
<1>6. \A x \in Range(L.new) : Started(Q.tv[x], L.due[x])
  BY <1>3, ZenonT(30) DEF Ready, L
<1>7. Range(L.new) \cap Range(Q.timers) = {}
  BY <1>1, <1>3
<1> DEFINE R == InsertUpTo(Q, L.new)[Len(L.new)]
<1>8. Good(R, L.due, LateNow) /\ Range(R.timers) = Range(Q.timers) \cup Range(L.new)
  BY <1>1, <1>2, <1>5, <1>6, <1>7, InsertWalk, Zenon
<1>9. LoopEnd = R
  BY DEF LoopEnd, Q, L
<1> HIDE DEF R
<1> QED BY <1>2, <1>3, <1>8, <1>9, ZenonT(30) DEF L

\* What agent_cache_expiration does, in these names.
LEMMA LoopStep ==
  ASSUME agent_cache_expiration
  PROVE  /\ IF Pops /\ item[Head(timers)].pw
            THEN /\ item' = [item EXCEPT ![Head(timers)].pw = FALSE]
                 /\ UNCHANGED thecache
            ELSE IF Pops
            THEN /\ item' = [item EXCEPT ![Head(timers)] = NoItem]
                 /\ thecache' = Unlink(thecache, Head(timers))
            ELSE UNCHANGED <<item, thecache>>
         /\ timers' = LoopEnd.timers /\ timersNew' = <<>>
         /\ IF LoopEnd.timers = <<>>
            THEN tv' = LoopEnd.tv /\ UNCHANGED abstime
            ELSE /\ tv' = [LoopEnd.tv EXCEPT ![Head(LoopEnd.timers)] = 0]
                 /\ abstime' = now + LoopEnd.timeout + LoopEnd.tv[Head(LoopEnd.timers)] * TPS
         /\ kicked' = -1 /\ due' = LoopLists.due /\ front' = LoopEnd.front /\ late' = LateNow
         /\ UNCHANGED now
  BY Zenon DEF agent_cache_expiration, Expired, Pops, LoopLists, LoopTimeout, LateNow, LoopStart, LoopEnd

\* The loop leaves the timers on time.
LEMMA LoopTimely ==
  ASSUME Timely, Held, Ready(LoopLists), LoopTimeout \in Nat, agent_cache_expiration
  PROVE  /\ Timely'
         /\ Range(timers') = Range(LoopLists.timers) \cup Range(LoopLists.new)
         /\ Range(timersNew') = {}
<1> DEFINE R == LoopEnd
           d == LoopLists.due
           h == Head(R.timers)
<1>1. /\ Good(R, d, LateNow) /\ Range(R.timers) = Range(LoopLists.timers) \cup Range(LoopLists.new)
      /\ LateNow \in [Slots -> Nat]
  BY LoopDone
<1>2. /\ timers' = R.timers /\ timersNew' = <<>>
      /\ IF R.timers = <<>>
         THEN tv' = R.tv /\ UNCHANGED abstime
         ELSE /\ tv' = [R.tv EXCEPT ![h] = 0]
              /\ abstime' = now + R.timeout + R.tv[h] * TPS
      /\ kicked' = -1 /\ due' = d /\ front' = R.front /\ late' = LateNow
      /\ UNCHANGED now
  BY LoopStep, ZenonT(30)
<1>3. d \in [Slots -> Nat] /\ now \in Nat /\ now \in 0..MaxTime /\ abstime \in Nat
  BY Typed DEF Ready, Fit, TimerQueue, Timely
<1> HIDE DEF R, d
<1>4. /\ R.timers \in Seq(Slots) /\ R.timeout \in Nat /\ R.tv \in [Slots -> Nat]
      /\ R.front \in [Slots -> Nat] /\ Distinct(R.timers)
  BY <1>1, Zenon DEF Good, Inserting
<1>5. PICK w \in [Slots -> Int] :
        /\ Schedule(R.timers, R.tv, now + R.timeout, w)
        /\ \A s \in Range(R.timers) : Punctual(w[s], d[s], R.front[s], LateNow[s])
  BY <1>1, ZenonT(30) DEF Good, OnTimeUntil
<1>6. /\ tv' \in [Slots -> Nat] /\ abstime' \in Nat
      /\ Schedule(R.timers, tv', abstime', w)
      /\ R.timers # <<>> => now <= abstime'
  <2>1. CASE R.timers = <<>>
    BY <1>2, <1>3, <1>4, <2>1 DEF Schedule
  <2>2. CASE R.timers # <<>>
    <3> DEFINE s == R.timers
               a == R.tv[h] * TPS
               base == now + R.timeout
    <3>1. s \in Seq(Slots) /\ Len(s) \in Nat /\ Len(s) > 0 /\ h = s[1] /\ h \in Slots
      BY <1>4, <2>2
    <3>2. tv' = [R.tv EXCEPT ![h] = 0] /\ abstime' = base + a
      BY <1>2, <2>2
    <3>3. R.tv[h] \in Nat /\ TPS \in Nat
      BY <1>4, <3>1, CacheAssumption
    <3> HIDE DEF h
    <3>4. a \in Nat /\ a = TPS * R.tv[h]
      BY <3>3
    <3>5. w[h] = base + a /\ base \in Nat
      <4>1. base \in Nat
        BY <1>3, <1>4
      <4>2. Schedule(s, R.tv, base, w)
        BY <1>5
      <4> HIDE DEF s, base, a
      <4>3. w[h] = base + TPS * R.tv[h]
        BY <3>1, <4>2 DEF Schedule
      <4> QED BY <3>4, <4>1, <4>3, ZenonT(30)
    <3> HIDE DEF a, base, s
    <3>6. /\ tv' \in [Slots -> Nat] /\ tv' \in [Slots -> Int] /\ tv'[h] = 0
          /\ \A x \in Slots : x # h => tv'[x] = R.tv[x]
      BY <1>4, <3>1, <3>2
    <3>7. MovedTo(s, R.tv, w, 0, tv', abstime', w)
      <4>1. \A x \in Range(s) : x \in Slots /\ w[x] \in Int /\ w[x] = w[x] + 0
        BY <1>5, <3>1, InRange
      <4>2. w[h] + 0 = abstime' + TPS * tv'[h]
        BY <3>2, <3>4, <3>5, <3>6, CacheAssumption
      <4> QED BY <3>1, <3>6, <4>1, <4>2, ZenonT(30) DEF MovedTo
    <3>8. Schedule(s, tv', abstime', w)
      <4>1. /\ R.tv \in [Slots -> Int] /\ base \in Int /\ abstime' \in Int /\ 0 \in Int
            /\ Schedule(s, R.tv, base, w) /\ Distinct(s)
        BY <1>4, <1>5, <3>2, <3>4, <3>5 DEF s, base
      <4> QED BY <1>5, <3>1, <3>6, <3>7, <4>1, ScheduleMoved, Zenon
    <3>9. abstime' \in Nat /\ now <= abstime'
      <4>1. now <= base
        BY <1>3, <1>4 DEF base
      <4> QED BY <1>3, <3>2, <3>4, <3>5, <4>1
    <3> QED BY <3>6, <3>8, <3>9 DEF s
  <2> QED BY <2>1, <2>2, ZenonT(30)
<1>7. Range(timersNew') = {} /\ Distinct(timersNew') /\ timersNew' \in Seq(Slots)
  BY <1>2 DEF Range, Distinct
<1>8. Queue(Queues, Since)'
  <2>1. /\ Queues'.timers = R.timers /\ Queues'.new = <<>> /\ Queues'.tv = tv' /\ Queues'.due = d
        /\ Queues' \in TimerQueue
    BY <1>2, <1>3, <1>4, <1>6, <1>7, Zenon DEF Queues, TimerQueue
  <2>2. Fit(Queues)'
    BY <1>2, <1>4, <1>7, <2>1, ZenonT(30) DEF Fit
  <2>3. Fresh(Queues, Since)'
    BY <1>2, <1>7, <2>1 DEF Fresh
  <2>4. OnTime(Queues)'
    BY <1>2, <1>5, <1>6, <2>1, Zenon DEF OnTime
  <2> QED BY <2>2, <2>3, <2>4 DEF Queue
<1>9. timers' # <<>> => now' <= abstime' + MaxLate
  BY <1>2, <1>3, <1>6, CacheAssumption
<1>10. -1 <= kicked' /\ kicked' <= now' /\ kicked' \in Int
  BY <1>2, <1>3
<1>11. Timely'
  BY <1>1, <1>2, <1>3, <1>4, <1>6, <1>8, <1>9, <1>10, Zenon DEF Timely
<1> QED BY <1>1, <1>2, <1>7, <1>11, ZenonT(30)

\* The loop changes no item but the one at the head of the list, which loses its
\* data or is dropped.
LEMMA LoopItems ==
  ASSUME Timely, Held, agent_cache_expiration
  PROVE  /\ item' \in [Slots -> Item \cup {NoItem}]
         /\ \A s \in Slots : (Pops /\ s = Head(timers)) \/ item'[s] = item[s]
         /\ Pops => LET e == Head(timers) IN
              IF item[e].pw THEN item'[e] # NoItem /\ ~item'[e].pw /\ item'[e].mode = item[e].mode
              ELSE item'[e] = NoItem
         /\ thecache' \in Seq(Slots) /\ Distinct(thecache')
         /\ \A s \in Range(thecache') : item'[s] # NoItem
<1> DEFINE e == Head(timers)
<1>1. /\ item \in [Slots -> Item \cup {NoItem}] /\ thecache \in Seq(Slots) /\ Distinct(thecache)
      /\ \A s \in Range(thecache) : s \in Slots /\ item[s] # NoItem
  BY InRange, Zenon DEF Held
<1>2. Pops => e \in Slots /\ e \in Range(timers)
  BY PoppedHead
<1>3. Pops => item[e] \in Item
  BY <1>2 DEF Held
<1>4. IF Pops /\ item[e].pw
      THEN /\ item' = [item EXCEPT ![e].pw = FALSE]
           /\ UNCHANGED thecache
      ELSE IF Pops
      THEN /\ item' = [item EXCEPT ![e] = NoItem]
           /\ thecache' = Unlink(thecache, e)
      ELSE UNCHANGED <<item, thecache>>
  BY LoopStep
<1> HIDE DEF e
<1>5. CASE ~Pops
  BY <1>1, <1>4, <1>5
<1>6. CASE Pops /\ item[e].pw
  <2> DEFINE r == [item[e] EXCEPT !.pw = FALSE]
  <2>1. r \in Item /\ ~r.pw /\ r.mode = item[e].mode /\ r # NoItem
    BY <1>3, <1>6, Cleared
  <2>2. item' = [item EXCEPT ![e] = r] /\ thecache' = thecache
    BY <1>4, <1>6
  <2> HIDE DEF r
  <2>3. /\ item' \in [Slots -> Item \cup {NoItem}] /\ item'[e] = r
        /\ \A s \in Slots : s # e => item'[s] = item[s]
    BY <1>1, <1>2, <1>6, <2>1, <2>2
  <2> QED BY <1>1, <1>6, <2>1, <2>2, <2>3 DEF e
<1>7. CASE Pops /\ ~item[e].pw
  <2>1. item' = [item EXCEPT ![e] = NoItem] /\ thecache' = Unlink(thecache, e)
    BY <1>4, <1>7
  <2>2. /\ item' \in [Slots -> Item \cup {NoItem}] /\ item'[e] = NoItem
        /\ \A s \in Slots : s # e => item'[s] = item[s]
    BY <1>1, <1>2, <1>7, <2>1
  <2>3. /\ thecache' \in Seq(Slots) /\ Distinct(thecache')
        /\ Range(thecache') \subseteq Range(thecache) \ {e}
    <3>1. CASE e \notin Range(thecache)
      <4>1. thecache' = thecache
        BY <1>1, <2>1, <3>1, Unlinked
      <4> QED BY <1>1, <3>1, <4>1
    <3>2. CASE e \in Range(thecache)
      <4>1. thecache' \in Seq(Slots) /\ \E p \in 1..Len(thecache) : Insertion(thecache', thecache, p, e)
        BY <1>1, <2>1, <3>2, Unlinked
      <4>2. PICK p \in 1..Len(thecache) : Insertion(thecache', thecache, p, e)
        BY <4>1
      <4>3. /\ Range(thecache) = Range(thecache') \cup {e}
            /\ Distinct(thecache) <=> Distinct(thecache') /\ e \notin Range(thecache')
        BY <1>1, <4>1, <4>2, Inserted
      <4> QED BY <1>1, <4>1, <4>3
    <3> QED BY <3>1, <3>2
  <2> QED BY <1>1, <1>7, <2>2, <2>3 DEF e
<1> QED BY <1>5, <1>6, <1>7, Zenon

\* agent_cache_expiration keeps the invariant.
LEMMA ExpirationStep ==
  ASSUME IInv, agent_cache_expiration
  PROVE  IInv'
<1> DEFINE e == Head(timers)
           Gone == {x \in Slots : Pops /\ x = e /\ ~item[e].pw}
<1>1. Timely /\ Held /\ MaxLifetime /\ (LoopFirst => SecretsHaveTimers)
  BY DEF IInv
<1>2. /\ timers \in Seq(Slots) /\ timersNew \in Seq(Slots) /\ due \in [Slots -> Nat]
      /\ Range(timers) \subseteq Slots /\ Range(timersNew) \subseteq Slots
  BY <1>1, Typed, InRange, ZenonT(30)
<1>3. /\ Ready(LoopLists) /\ LoopTimeout \in Nat
      /\ Range(LoopLists.timers) \cup Range(LoopLists.new) =
           (Range(timers) \cup Range(timersNew)) \ Gone
      /\ \A x \in Slots : (Pops /\ x = e) \/ LoopLists.due[x] = due[x]
      /\ Pops /\ ~item[e].pw => LoopLists.due[e] = 0
  <2>1. CASE ~Pops
    <3>1. Ready(LoopLists) /\ LoopLists = Queues /\ LoopTimeout \in Nat
      BY <1>1, <2>1, ReadyAsIs
    <3>2. LoopLists.timers = timers /\ LoopLists.new = timersNew /\ LoopLists.due = due
      BY <3>1 DEF Queues
    <3>3. Gone = {}
      BY <2>1
    <3> HIDE DEF Gone
    <3> QED BY <2>1, <3>1, <3>2, <3>3
  <2>2. CASE Pops
    <3>1. e \in Slots /\ e \in Range(timers) /\ e \notin Range(timersNew)
      BY <1>1, <2>2, PoppedHead, Typed, ZenonT(30)
    <3>2. CASE item[e].pw
      <4>1. /\ Ready(LoopLists) /\ LoopTimeout = 0
            /\ Range(LoopLists.timers) = Range(timers) \ {e}
            /\ Range(LoopLists.new) = Range(timersNew) \cup {e}
            /\ \A x \in Slots : x # e => LoopLists.due[x] = due[x]
        BY <1>1, <2>2, <3>2, ReadyForgotten
      <4>2. Gone = {}
        BY <3>2, ZenonT(30)
      <4> HIDE DEF e, Gone
      <4> QED BY <2>2, <3>1, <3>2, <4>1, <4>2, ZenonT(30)
    <3>3. CASE ~item[e].pw
      <4>1. /\ Ready(LoopLists) /\ LoopTimeout = 0
            /\ Range(LoopLists.timers) = Range(timers) \ {e}
            /\ Range(LoopLists.new) = Range(timersNew)
            /\ \A x \in Slots : LoopLists.due[x] = IF x = e THEN 0 ELSE due[x]
        BY <1>1, <2>2, <3>3, ReadyDropped
      <4>2. Gone = {e}
        BY <2>2, <3>1, <3>3, ZenonT(30)
      <4> HIDE DEF e, Gone
      <4> QED BY <2>2, <3>1, <3>3, <4>1, <4>2, ZenonT(30)
    <3> QED BY <3>2, <3>3, Zenon
  <2> QED BY <2>1, <2>2, ZenonT(30)
<1>4. /\ Timely' /\ Range(timersNew') = {}
      /\ Range(timers') = Range(LoopLists.timers) \cup Range(LoopLists.new)
  BY <1>1, <1>3, LoopTimely
<1>5. due' = LoopLists.due /\ now' = now
  BY LoopStep, ZenonT(30)
<1>6. /\ item' \in [Slots -> Item \cup {NoItem}]
      /\ \A s \in Slots : (Pops /\ s = e) \/ item'[s] = item[s]
      /\ Pops => IF item[e].pw THEN item'[e] # NoItem /\ ~item'[e].pw /\ item'[e].mode = item[e].mode
                 ELSE item'[e] = NoItem
      /\ thecache' \in Seq(Slots) /\ Distinct(thecache')
      /\ \A s \in Range(thecache') : item'[s] # NoItem
  BY <1>1, LoopItems, ZenonT(30)
<1> HIDE DEF e
<1>7. Held'
  <2>1. \A s \in Range(timers') \cup Range(timersNew') : item'[s] # NoItem /\ item'[s].mode # "pin"
    <3>1. \A s \in Range(timers') : /\ s \in Slots /\ item[s] # NoItem /\ item[s].mode # "pin"
                                   /\ ~(Pops /\ s = e /\ ~item[e].pw)
      BY <1>1, <1>2, <1>3, <1>4 DEF Held
    <3> QED BY <1>4, <1>6, <3>1, ZenonT(30)
  <2>2. \A s \in Slots : item'[s] = NoItem => due'[s] = 0
    BY <1>1, <1>3, <1>5, <1>6, Zenon DEF Held
  <2> QED BY <1>6, <2>1, <2>2, ZenonT(30) DEF Held
<1>8. MaxLifetime'
  <2>1. \A s \in Slots : item[s] # NoItem => Bounded(item[s], due[s])
    BY <1>1, BoundedItems
  <2>2. \A s \in Slots : item'[s] # NoItem => Bounded(item'[s], due'[s])
    <3>1. \A s \in Slots : Pops /\ s = e /\ item'[s] # NoItem => Bounded(item'[s], due'[s])
      BY <1>6, Zenon DEF Bounded
    <3> QED BY <1>3, <1>5, <1>6, <2>1, <3>1, Zenon
  <2> QED BY <1>5, <2>2 DEF MaxLifetime, Bounded, MaxTTLOf
<1>9. ASSUME LoopFirst PROVE SecretsHaveTimers'
  <2>1. \A s \in Slots : item[s] # NoItem =>
           s \in Range(timers) \/ s \in Range(timersNew) \/ NeedsNone(item[s])
    BY <1>1, <1>2, <1>9, TimedItems
  <2>2. \A s \in Slots : item'[s] # NoItem => s \in Range(timers') \/ NeedsNone(item'[s])
    <3>1. \A s \in Slots : Pops /\ s = e /\ item'[s] # NoItem => NeedsNone(item'[s])
      BY <1>6 DEF NeedsNone
    <3> QED BY <1>3, <1>4, <1>6, <2>1, <3>1, Zenon
  <2>3. Range(timers' \o timersNew') = Range(timers') \cup Range(timersNew')
    <3>1. timers' \in Seq(Slots) /\ timersNew' \in Seq(Slots)
      BY <1>4, Zenon DEF Timely, Queue, Fit, TimerQueue, Queues
    <3> QED BY <3>1, RangeConcat
  <2> QED BY <2>2, <2>3 DEF SecretsHaveTimers, NeedsNone, Limited, MaxTTLOf
<1> QED BY <1>4, <1>7, <1>8, <1>9, ZenonT(30) DEF IInv

-----------------------------------------------------------------------------
(* The theorems. *)

\* Every step of the agent keeps the invariant.
THEOREM Invariance == Spec => []IInv
<1>1. Init => IInv
  BY InitInv
<1>2. ASSUME IInv, [Next]_vars PROVE IInv'
  <2>1. CASE UNCHANGED vars
    <3>1. /\ UNCHANGED <<item, thecache, timers, timersNew, tv, abstime>>
          /\ UNCHANGED <<now, kicked, due, front, late>>
      BY <2>1 DEF vars
    <3>2. Queues' = Queues /\ Since' = Since
      BY <3>1 DEF Queues, Since
    <3>3. Timely'
      <4>1. Queue(Queues, Since)'
        BY <1>2, <3>1, <3>2, Zenon DEF IInv, Timely, Queue, Fit, Fresh, OnTime
      <4> QED BY <1>2, <3>1, <4>1 DEF IInv, Timely
    <3>4. Held' /\ MaxLifetime' /\ (LoopFirst => SecretsHaveTimers')
      BY <1>2, <3>1, Zenon DEF IInv, Held, MaxLifetime, SecretsHaveTimers, Limited, MaxTTLOf
    <3> QED BY <3>3, <3>4 DEF IInv
  <2>2. CASE \E key \in Keys, mode \in Modes : \E session \in Session(mode) :
                \E arg \in TTLs, ok \in Encrypts : Put(key, mode, session, arg, ok)
    BY <1>2, <2>2, PutStep
  <2>3. CASE \E key \in Keys, mode \in Modes : \E session \in Session(mode) :
                Clear(key, mode, session)
    BY <1>2, <2>3, ClearStep
  <2>4. CASE \E key \in Keys, mode \in Modes : \E session \in Session(mode) :
                Get(key, mode, session)
    BY <1>2, <2>4, GetStep
  <2>5. CASE \E pincache_only \in BOOLEAN : Flush(pincache_only)
    BY <1>2, <2>5, FlushStep
  <2>6. CASE agent_cache_expiration
    BY <1>2, <2>6, ExpirationStep
  <2>7. CASE Tick
    BY <1>2, <2>7, TickStep
  <2> QED BY <1>2, <2>1, <2>2, <2>3, <2>4, <2>5, <2>6, <2>7, ZenonT(30) DEF Next
<1> QED BY <1>1, <1>2, PTL DEF Spec

\* The cache and the timer lists name each live item at most once, and no PIN has a
\* timer (see TypeOK).
THEOREM ListsAreSound == Spec => []TypeOK
<1>1. IInv => TypeOK
  <2> SUFFICES ASSUME IInv PROVE TypeOK
    OBVIOUS
  <2>1. Timely /\ Held
    BY ZenonT(30) DEF IInv
  <2>2. /\ timers \in Seq(Slots) /\ timersNew \in Seq(Slots) /\ tv \in [Slots -> Nat]
        /\ abstime \in Nat /\ now \in Nat /\ Distinct(timers) /\ Distinct(timersNew)
        /\ Range(timers) \cap Range(timersNew) = {}
    BY <2>1, Typed
  <2>3. \A s \in Slots : item[s] # NoItem =>
          /\ item[s].key \in Keys /\ item[s].mode \in Modes
          /\ item[s].pw \in BOOLEAN /\ item[s].ttl \in Int
    BY <2>1 DEF Held, Item
  <2>4. now \in 0..MaxTime /\ kicked \in -1..MaxTime
    BY <2>1, CacheAssumption DEF Timely
  <2>5. \A i, j \in 1..Len(thecache) :
          item[thecache[i]] # NoItem /\ (thecache[i] = thecache[j] => i = j)
    BY <2>1, InRange, ZenonT(30) DEF Held, Distinct
  <2> DEFINE list == timers \o timersNew
             m == Len(timers)
             n == Len(timersNew)
  <2>6. /\ m \in Nat /\ n \in Nat /\ Len(list) = m + n
        /\ \A i \in 1..m : list[i] = timers[i] /\ timers[i] \in Range(timers)
        /\ \A i \in 1..n : list[m + i] = timersNew[i] /\ timersNew[i] \in Range(timersNew)
    BY <2>2, Concat, InRange
  <2>7. /\ \A i, j \in 1..m : timers[i] = timers[j] => i = j
        /\ \A i, j \in 1..n : timersNew[i] = timersNew[j] => i = j
    BY <2>2 DEF Distinct
  <2>8. \A s \in Range(timers) \cup Range(timersNew) : item[s] # NoItem
    BY <2>1, ZenonT(30) DEF Held
  <2> HIDE DEF list, m, n
  <2>9. ASSUME NEW i \in 1..Len(list)
        PROVE  \/ i \in 1..m /\ list[i] = timers[i] /\ list[i] \in Range(timers)
               \/ i - m \in 1..n /\ list[i] = timersNew[i - m] /\ list[i] \in Range(timersNew)
    <3>1. CASE i <= m
      BY <2>6, <2>9, <3>1
    <3>2. CASE ~(i <= m)
      <4>1. i - m \in 1..n /\ m + (i - m) = i
        BY <2>6, <2>9, <3>2
      <4> QED BY <2>6, <4>1, ZenonT(30)
    <3> QED BY <3>1, <3>2, ZenonT(30)
  <2>10. ASSUME NEW i \in 1..Len(list), NEW j \in 1..Len(list)
         PROVE  item[list[i]] # NoItem /\ (list[i] = list[j] => i = j)
    <3>1. item[list[i]] # NoItem
      BY <2>8, <2>9, ZenonT(30)
    <3>2. ASSUME list[i] = list[j] PROVE i = j
      <4>1. CASE i \in 1..m /\ list[i] = timers[i] /\ list[i] \in Range(timers)
        <5>1. j \in 1..m /\ list[j] = timers[j]
          BY <2>2, <2>9, <3>2, <4>1, Zenon
        <5> QED BY <2>7, <3>2, <4>1, <5>1, Zenon
      <4>2. CASE i - m \in 1..n /\ list[i] = timersNew[i - m] /\ list[i] \in Range(timersNew)
        <5>1. j - m \in 1..n /\ list[j] = timersNew[j - m]
          BY <2>2, <2>9, <3>2, <4>2, Zenon
        <5>2. i - m = j - m
          BY <2>7, <3>2, <4>2, <5>1, Zenon
        <5> QED BY <2>6, <5>2
      <4> QED BY <2>9, <4>1, <4>2
    <3> QED BY <3>1, <3>2
  <2>11. \A l \in {thecache, list} : \A i, j \in 1..Len(l) :
           item[l[i]] # NoItem /\ (l[i] = l[j] => i = j)
    BY <2>5, <2>10, ZenonT(30)
  <2> QED BY <2>2, <2>3, <2>4, <2>11, Zenon DEF TypeOK, list
<1> QED BY <1>1, Invariance, PTL

\* The delta queue of the timers is true to the time at which each item ought to
\* expire (see TimersAccurate).
THEOREM QueueIsAccurate == Spec => []TimersAccurate
<1>1. IInv => TimersAccurate
  <2> SUFFICES ASSUME IInv PROVE TimersAccurate
    OBVIOUS
  <2>1. Timely /\ Held
    BY DEF IInv
  <2>2. timers \in Seq(Slots) /\ tv \in [Slots -> Nat] /\ tv \in [Slots -> Int] /\ abstime \in Int
    BY <2>1, Typed
  <2>3. PICK w \in [Slots -> Int] :
          /\ Schedule(timers, tv, abstime, w)
          /\ \A s \in Range(timers) : Punctual(w[s], due[s], front[s], late[s])
    BY <2>1, ZenonT(30) DEF Timely, Queue, OnTime, Queues
  <2>4. RunOut(timers, tv, abstime, w)
    BY <2>2, <2>3, Sums, Zenon
  <2>5. ASSUME NEW i \in 1..Len(timers)
        PROVE  Punctual(RunsOut(i), due[timers[i]], front[timers[i]], late[timers[i]])
    <3>1. w[timers[i]] = RunsOut(i)
      BY <2>4 DEF RunOut, RunsOut
    <3>2. timers[i] \in Range(timers)
      BY <2>2, InRange, ZenonT(30)
    <3> QED BY <2>3, <3>1, <3>2, Zenon
  <2> QED BY <2>5 DEF TimersAccurate, Punctual
<1> QED BY <1>1, Invariance, PTL

\* No sequence of reads keeps a secret beyond its maximum lifetime (see MaxLifetime).
THEOREM LifetimeIsLimited == Spec => []MaxLifetime
<1>1. IInv => MaxLifetime
  BY DEF IInv
<1> QED BY <1>1, Invariance, PTL

\* If the loop runs as soon as it is kicked, every secret with a limited lifetime has a
\* timer (see SecretsHaveTimers).
THEOREM SecretsAreTimed == ASSUME LoopFirst PROVE Spec => []SecretsHaveTimers
<1>1. IInv => SecretsHaveTimers
  BY DEF IInv
<1> QED BY <1>1, Invariance, PTL

\* What PinsDoNotExpire says of a step.
PinsStay ==
  agent_cache_expiration =>
    \A s \in Slots : item[s] # NoItem /\ item[s].mode = "pin" => item'[s] = item[s]

\* The loop never takes a PIN (see PinsDoNotExpire).
THEOREM PinsAreKept == Spec => PinsDoNotExpire
<1>1. ASSUME IInv, [Next]_vars PROVE [PinsStay]_vars
  <2>1. SUFFICES ASSUME agent_cache_expiration, NEW s \in Slots, item[s].mode = "pin"
                 PROVE  item'[s] = item[s]
    BY DEF PinsStay
  <2>2. Timely /\ Held
    BY <1>1, ZenonT(30) DEF IInv
  <2>3. (Pops /\ s = Head(timers)) \/ item'[s] = item[s]
    BY <2>1, <2>2, LoopItems
  <2>4. Pops => Head(timers) \in Range(timers)
    BY <2>2, PoppedHead
  <2>5. \A x \in Range(timers) : item[x].mode # "pin"
    BY <2>2 DEF Held
  <2> QED BY <2>1, <2>3, <2>4, <2>5
<1> QED BY <1>1, Invariance, PTL DEF Spec, PinsDoNotExpire, PinsStay
=============================================================================
