-------------------------- MODULE AgentCacheTimers --------------------------
(***************************************************************************)
(* What the operations on the timer lists of the passphrase cache do to    *)
(* the times at which the timers run out: for lists of any length, any     *)
(* clock rate and any lateness of the loop.  A schedule w gives the time   *)
(* at which each timer of a list runs out; the deltas of the list are      *)
(* right if they agree with one.                                           *)
(***************************************************************************)
EXTENDS AgentCache, TLAPS

\* The seconds a prover gets for a leaf.
USE SMTT(30), ZenonT(30)

-----------------------------------------------------------------------------
(* The clock. *)

\* Divisions by the ticks of a second.
LEMMA Ticks ==
  ASSUME NEW t \in Nat
  PROVE  /\ t \div TPS \in Nat /\ t % TPS \in 0..(TPS - 1)
         /\ t = TPS * (t \div TPS) + (t % TPS)
  BY CacheAssumption

\* Half a second, by which the deltas are rounded.
LEMMA Half ==
   TPS \div 2 \in Nat /\ 2 * (TPS \div 2) <= TPS /\ TPS <= 2 * (TPS \div 2) + 1
  BY CacheAssumption

\* Deltas can be added up in seconds or in ticks.
LEMMA TimesTPS ==
  ASSUME NEW a \in Int, NEW b \in Int
  PROVE  /\ TPS * (a + b) = TPS * a + TPS * b /\ TPS * (a - b) = TPS * a - TPS * b
         /\ TPS * a \in Int
  BY CacheAssumption

\* Whole seconds later, gnupg_get_time has gone up by as many.
LEMMA SecondOf ==
  ASSUME NEW t \in Nat, NEW n \in Nat
  PROVE  (t + n * TPS) \div TPS = t \div TPS + n
  BY CacheAssumption

-----------------------------------------------------------------------------
(* Lists without duplicates. *)

Distinct(s) == \A i, j \in 1..Len(s) : s[i] = s[j] => i = j

\* List t is list s with e in front of its p-th element.
Insertion(s, t, p, e) ==
  /\ p \in 1..Len(s) + 1
  /\ Len(t) = Len(s) + 1
  /\ t[p] = e
  /\ \A i \in 1..p - 1 : t[i] = s[i]
  /\ \A i \in p..Len(s) : t[i + 1] = s[i]

\* The elements of a list.
LEMMA InRange ==
  ASSUME NEW S, NEW s \in Seq(S)
  PROVE  /\ Range(s) \subseteq S
         /\ Len(s) \in Nat
         /\ \A i \in 1..Len(s) : s[i] \in Range(s) /\ s[i] \in S
         /\ \A e \in Range(s) : \E i \in 1..Len(s) : s[i] = e
<1>1. DOMAIN s = 1..Len(s)
  OBVIOUS
<1> QED BY <1>1 DEF Range

\* Where an element of a list is.
LEMMA PlaceIn ==
  ASSUME NEW S, NEW s \in Seq(S), NEW e \in Range(s)
  PROVE  Place(s, e) \in 1..Len(s) /\ s[Place(s, e)] = e
<1>1. \E i \in 1..Len(s) : s[i] = e
  BY InRange
<1> QED BY <1>1 DEF Place

\* Two lists in a row.
LEMMA Concat ==
  ASSUME NEW S, NEW u \in Seq(S), NEW v \in Seq(S)
  PROVE  /\ u \o v \in Seq(S) /\ Len(u \o v) = Len(u) + Len(v)
         /\ \A i \in 1..Len(u) : (u \o v)[i] = u[i]
         /\ \A i \in 1..Len(v) : (u \o v)[Len(u) + i] = v[i]
<1>1. u \o v \in Seq(S) /\ Len(u \o v) = Len(u) + Len(v)
  OBVIOUS
<1>2. ASSUME NEW i \in 1..Len(u) PROVE (u \o v)[i] = u[i]
  OBVIOUS
<1>3. ASSUME NEW i \in 1..Len(v) PROVE (u \o v)[Len(u) + i] = v[i]
  OBVIOUS
<1> QED BY <1>1, <1>2, <1>3

\* What an insertion does to the elements.
LEMMA Inserted ==
  ASSUME NEW S, NEW s \in Seq(S), NEW t \in Seq(S), NEW p, NEW e, Insertion(s, t, p, e)
  PROVE  /\ Range(t) = Range(s) \cup {e}
         /\ Distinct(t) <=> Distinct(s) /\ e \notin Range(s)
<1> DEFINE n == Len(s)
<1>1. /\ n \in Nat /\ p \in 1..n + 1 /\ DOMAIN s = 1..n /\ DOMAIN t = 1..n + 1
      /\ Len(t) = n + 1
  BY DEF Insertion
<1>2. /\ t[p] = e
      /\ \A i \in 1..p - 1 : t[i] = s[i]
      /\ \A i \in p..n : t[i + 1] = s[i]
  BY DEF Insertion
<1> HIDE DEF n
<1>3. \A i \in 1..n + 1 : i = p \/ (i \in 1..p - 1 /\ i \in 1..n) \/ (i - 1 \in p..n /\ i - 1 \in 1..n /\ (i - 1) + 1 = i)
  BY <1>1
<1>4. \A i \in 1..n : (i \in 1..p - 1 /\ i \in 1..n + 1) \/ (i \in p..n /\ i + 1 \in 1..n + 1)
  BY <1>1
<1>5. \A i \in 1..n + 1 : i = p \/ \E j \in 1..n : t[i] = s[j]
  <2> SUFFICES ASSUME NEW i \in 1..n + 1, i # p PROVE \E j \in 1..n : t[i] = s[j]
    OBVIOUS
  <2>1. CASE i \in 1..p - 1 /\ i \in 1..n
    BY <1>2, <2>1
  <2>2. CASE i - 1 \in p..n /\ i - 1 \in 1..n /\ (i - 1) + 1 = i
    <3>1. t[(i - 1) + 1] = s[i - 1]
      BY <1>2, <2>2
    <3> QED BY <2>2, <3>1
  <2> QED BY <1>3, <2>1, <2>2
<1>6. \A j \in 1..n : \E i \in 1..n + 1 : i # p /\ t[i] = s[j]
  BY <1>1, <1>2, <1>4
<1>7. Range(t) = Range(s) \cup {e}
  <2>1. p \in 1..n + 1
    BY <1>1
  <2>2. \A y \in Range(t) : y \in Range(s) \cup {e}
    <3>1. \A i \in 1..n + 1 : t[i] \in Range(s) \cup {e}
      <4> SUFFICES ASSUME NEW i \in 1..n + 1 PROVE t[i] \in Range(s) \cup {e}
        OBVIOUS
      <4>1. CASE i = p
        BY <1>2, <4>1
      <4>2. CASE i # p
        BY <1>1, <1>5, <4>2, Zenon DEF Range
      <4> QED BY <4>1, <4>2
    <3> QED BY <1>1, <3>1 DEF Range
  <2>3. \A y \in Range(s) : y \in Range(t)
    BY <1>1, <1>6 DEF Range
  <2>4. e \in Range(t)
    BY <1>1, <1>2, <2>1 DEF Range
  <2> QED BY <2>2, <2>3, <2>4
<1>8. ASSUME Distinct(s), e \notin Range(s) PROVE Distinct(t)
  <2> SUFFICES ASSUME NEW i \in 1..n + 1, NEW j \in 1..n + 1, t[i] = t[j] PROVE i = j
    BY <1>1 DEF Distinct
  <2>1. \A a \in 1..n : s[a] # e
    BY <1>1, <1>8 DEF Range
  <2>2. CASE i = p \/ j = p
    BY <1>2, <1>5, <2>1, <2>2
  <2>3. CASE i # p /\ j # p
    <3> DEFINE a == IF i < p THEN i ELSE i - 1
               b == IF j < p THEN j ELSE j - 1
    <3>1. a \in 1..n /\ b \in 1..n /\ (a = b => i = j)
      BY <1>1, <2>3
    <3>2. t[i] = s[a]
      <4>1. CASE i < p
        BY <1>1, <1>2, <4>1
      <4>2. CASE ~(i < p)
        <5>1. i - 1 \in p..n /\ (i - 1) + 1 = i
          BY <1>1, <2>3, <4>2
        <5>2. t[(i - 1) + 1] = s[i - 1]
          BY <1>2, <5>1
        <5> QED BY <5>1, <5>2, <4>2
      <4> QED BY <4>1, <4>2
    <3>3. t[j] = s[b]
      <4>1. CASE j < p
        BY <1>1, <1>2, <4>1
      <4>2. CASE ~(j < p)
        <5>1. j - 1 \in p..n /\ (j - 1) + 1 = j
          BY <1>1, <2>3, <4>2
        <5>2. t[(j - 1) + 1] = s[j - 1]
          BY <1>2, <5>1
        <5> QED BY <5>1, <5>2, <4>2
      <4> QED BY <4>1, <4>2
    <3> HIDE DEF a, b
    <3>4. s[a] = s[b]
      BY <3>2, <3>3, Zenon
    <3>5. a = b
      BY <1>8, <3>1, <3>4 DEF Distinct, n
    <3> QED BY <3>1, <3>5
  <2> QED BY <2>2, <2>3
<1>9. ASSUME Distinct(t) PROVE Distinct(s) /\ e \notin Range(s)
  <2>1. e \notin Range(s)
    <3>1. \A j \in 1..n : s[j] # e
      <4> SUFFICES ASSUME NEW j \in 1..n, s[j] = e PROVE FALSE
        OBVIOUS
      <4>1. PICK i \in 1..n + 1 : i # p /\ t[i] = s[j]
        BY <1>6
      <4> QED BY <1>1, <1>2, <1>9, <4>1 DEF Distinct
    <3> QED BY <1>1, <3>1 DEF Range
  <2>2. ASSUME NEW i \in 1..n, NEW j \in 1..n, s[i] = s[j] PROVE i = j
    <3> DEFINE a == IF i < p THEN i ELSE i + 1
               b == IF j < p THEN j ELSE j + 1
    <3>1. a \in 1..n + 1 /\ b \in 1..n + 1 /\ (a = b => i = j)
      BY <1>1
    <3>2. t[a] = s[i] /\ t[b] = s[j]
      BY <1>1, <1>2
    <3> HIDE DEF a, b
    <3>3. a = b
      BY <1>1, <1>9, <2>2, <3>1, <3>2 DEF Distinct
    <3> QED BY <3>1, <3>3
  <2> QED BY <2>1, <2>2 DEF Distinct, n
<1> QED BY <1>7, <1>8, <1>9

\* An element in front of a list.
LEMMA InFront ==
  ASSUME NEW S, NEW s \in Seq(S), NEW e \in S
  PROVE  <<e>> \o s \in Seq(S) /\ Insertion(s, <<e>> \o s, 1, e)
  BY DEF Insertion

\* What insert_to_timer_list does to the links.
LEMMA LinkedAfter ==
  ASSUME NEW S, NEW s \in Seq(S), NEW e \in S, NEW k \in 0..Len(s)
  PROVE  LinkAfter(s, k, e) \in Seq(S) /\ Insertion(s, LinkAfter(s, k, e), k + 1, e)
<1> DEFINE p == k + 1
           u == SubSeq(s, 1, k)
           v == SubSeq(s, p, Len(s))
           w == u \o <<e>>
<1>0. p \in 1..Len(s) + 1 /\ p \in Nat /\ p - 1 = k /\ Len(s) \in Nat
  OBVIOUS
<1>1. u \in Seq(S) /\ Len(u) = p - 1 /\ \A i \in 1..p - 1 : u[i] = s[i]
  OBVIOUS
<1>2. v \in Seq(S) /\ Len(v) = Len(s) - p + 1 /\ \A i \in 1..Len(s) - p + 1 : v[i] = s[p + i - 1]
  OBVIOUS
<1> HIDE DEF u, v, p
<1>3. w \in Seq(S) /\ Len(w) = p /\ w[p] = e /\ \A i \in 1..p - 1 : w[i] = s[i]
  BY <1>0, <1>1
<1> HIDE DEF w
<1>4. LinkAfter(s, k, e) = w \o v
  BY DEF LinkAfter, u, v, w, p
<1> DEFINE t == w \o v
<1>5. /\ t \in Seq(S) /\ Len(t) = Len(s) + 1
      /\ \A i \in 1..p : t[i] = w[i]
      /\ \A i \in 1..Len(v) : t[p + i] = v[i]
  <2>1. t \in Seq(S) /\ Len(t) = Len(w) + Len(v)
    BY <1>2, <1>3, Concat
  <2>2. \A i \in 1..Len(w) : t[i] = w[i]
    BY <1>2, <1>3, Concat
  <2>3. \A i \in 1..Len(v) : t[Len(w) + i] = v[i]
    BY <1>2, <1>3, Concat
  <2> HIDE DEF t
  <2> QED BY <1>2, <1>3, <2>1, <2>2, <2>3
<1> HIDE DEF t
<1>6. \A i \in p..Len(s) : t[i + 1] = s[i]
  <2> SUFFICES ASSUME NEW i \in p..Len(s) PROVE t[i + 1] = s[i]
    OBVIOUS
  <2>1. i - p + 1 \in 1..Len(v) /\ p + (i - p + 1) = i + 1 /\ p + (i - p + 1) - 1 = i
    BY <1>0, <1>2
  <2>2. t[p + (i - p + 1)] = v[i - p + 1]
    BY <1>5, <2>1
  <2>3. v[i - p + 1] = s[p + (i - p + 1) - 1]
    BY <1>2, <2>1
  <2> QED BY <2>1, <2>2, <2>3
<1>7. \A i \in 1..p - 1 : i \in 1..p
  BY <1>0
<1>8. p \in 1..p
  BY <1>0
<1>9. Insertion(s, t, p, e)
  BY <1>0, <1>3, <1>5, <1>6, <1>7, <1>8 DEF Insertion
<1> QED BY <1>4, <1>5, <1>9 DEF t, p

\* To unlink an element undoes its insertion.
LEMMA Unlinked ==
  ASSUME NEW S, NEW t \in Seq(S), NEW e
  PROVE  /\ e \notin Range(t) => Unlink(t, e) = t
         /\ e \in Range(t) => /\ Unlink(t, e) \in Seq(S)
                              /\ \E p \in 1..Len(t) : Insertion(Unlink(t, e), t, p, e)
<1>1. e \notin Range(t) => Unlink(t, e) = t
  BY DEF Unlink
<1>2. ASSUME e \in Range(t)
      PROVE  /\ Unlink(t, e) \in Seq(S)
             /\ \E p \in 1..Len(t) : Insertion(Unlink(t, e), t, p, e)
  <2> DEFINE p == Place(t, e)
             u == SubSeq(t, 1, p - 1)
             v == SubSeq(t, p + 1, Len(t))
             s == u \o v
  <2>1. p \in 1..Len(t) /\ t[p] = e
    BY <1>2, PlaceIn
  <2>2. Unlink(t, e) = s
    BY <1>2, Zenon DEF Unlink
  <2> HIDE DEF p
  <2>4. u \in Seq(S) /\ Len(u) = p - 1 /\ \A i \in 1..p - 1 : u[i] = t[i]
    BY <2>1
  <2>5. v \in Seq(S) /\ Len(v) = Len(t) - p /\ \A i \in 1..Len(t) - p : v[i] = t[p + i]
    BY <2>1
  <2> HIDE DEF u, v
  <2>6. /\ s \in Seq(S) /\ Len(s) = Len(t) - 1
        /\ \A i \in 1..p - 1 : s[i] = u[i]
        /\ \A i \in 1..Len(t) - p : s[(p - 1) + i] = v[i]
    <3>1. s \in Seq(S) /\ Len(s) = Len(u) + Len(v)
      BY <2>4, <2>5, Concat, Zenon
    <3>2. \A i \in 1..Len(u) : s[i] = u[i]
      BY <2>4, <2>5, Concat
    <3>3. \A i \in 1..Len(v) : s[Len(u) + i] = v[i]
      BY <2>4, <2>5, Concat
    <3> HIDE DEF s
    <3> QED BY <2>1, <2>4, <2>5, <3>1, <3>2, <3>3
  <2> HIDE DEF s
  <2>7. \A i \in p..Len(s) : t[i + 1] = s[i]
    <3> SUFFICES ASSUME NEW i \in p..Len(s) PROVE t[i + 1] = s[i]
      OBVIOUS
    <3>1. i - p + 1 \in 1..Len(t) - p /\ (p - 1) + (i - p + 1) = i /\ p + (i - p + 1) = i + 1
      BY <2>1, <2>6
    <3> QED BY <2>5, <2>6, <3>1
  <2>8. Insertion(s, t, p, e)
    BY <2>1, <2>4, <2>6, <2>7 DEF Insertion
  <2> QED BY <2>1, <2>2, <2>6, <2>8
<1> QED BY <1>1, <1>2

\* What is left in front of an element that is taken out together with the rest.
LEMMA UpToElement ==
  ASSUME NEW S, NEW s \in Seq(S), NEW e, Distinct(s)
  PROVE  /\ UpTo(s, e) \in Seq(S) /\ Distinct(UpTo(s, e))
         /\ Range(UpTo(s, e)) \subseteq Range(s) \ {e}
         /\ e \notin Range(s) => UpTo(s, e) = s
<1>1. CASE e \notin Range(s)
  BY <1>1 DEF UpTo
<1>2. CASE e \in Range(s)
  <2> DEFINE p == Place(s, e)
             u == SubSeq(s, 1, p - 1)
  <2>1. p \in 1..Len(s) /\ s[p] = e
    BY <1>2, PlaceIn
  <2>2. UpTo(s, e) = u
    BY <1>2, Zenon DEF UpTo
  <2> HIDE DEF p
  <2>3. u \in Seq(S) /\ Len(u) = p - 1 /\ DOMAIN u = 1..p - 1 /\ \A i \in 1..p - 1 : u[i] = s[i]
    BY <2>1
  <2> HIDE DEF u
  <2>4. \A i \in 1..p - 1 : i \in 1..Len(s) /\ i # p
    BY <2>1
  <2>5. Distinct(u)
    BY <2>3, <2>4 DEF Distinct
  <2>6. \A i \in 1..p - 1 : u[i] \in Range(s) \ {e}
    <3>1. \A i \in 1..p - 1 : s[i] # e
      BY <2>1, <2>4 DEF Distinct
    <3> QED BY <2>3, <2>4, <3>1, InRange
  <2>7. Range(u) \subseteq Range(s) \ {e}
    BY <2>3, <2>6 DEF Range
  <2> QED BY <1>2, <2>2, <2>3, <2>5, <2>7
<1> QED BY <1>1, <1>2

-----------------------------------------------------------------------------
(* When the timers of a list run out. *)

\* w is when each timer of the list runs out, if the base of the list is at base.
Schedule(list, sec, base, w) ==
  /\ Len(list) > 0 => w[list[1]] = base + TPS * sec[list[1]]
  /\ \A i \in 1..Len(list) - 1 : w[list[i + 1]] = w[list[i]] + TPS * sec[list[i + 1]]

\* The places around a gap at p.
LEMMA Gap ==
  ASSUME NEW n \in Nat, NEW p \in 1..n + 1
  PROVE  /\ \A i \in p..n : i \in 1..n /\ i + 1 \in 1..n + 1 /\ i + 1 # p
         /\ \A i \in 1..n - 1 :
              /\ i \in 1..n /\ i + 1 \in 1..n /\ i <= n /\ i + 1 <= n
              /\ i + 1 < p => i \in 1..p - 1 /\ i + 1 \in 1..p - 1
              /\ i + 1 = p => i \in 1..p - 1 /\ i + 1 \in p..n
              /\ i + 1 > p => i \in p..n /\ i + 1 \in p..n /\ i + 1 # p
              /\ i + 1 < p \/ i + 1 = p \/ i + 1 > p
  OBVIOUS

\* A timer is taken out: the one behind it gets its delta.
LEMMA ScheduleWithout ==
  ASSUME NEW s \in Seq(Slots), NEW t \in Seq(Slots), NEW p, NEW e \in Slots, Insertion(s, t, p, e),
         Distinct(t), NEW sec \in [Slots -> Int], NEW base \in Int, NEW w \in [Slots -> Int],
         Schedule(t, sec, base, w), NEW new \in [Slots -> Int],
         \A x \in Slots : x # e => new[x] = IF Follows(t, e, x) THEN sec[x] + sec[e] ELSE sec[x]
  PROVE  Schedule(s, new, base, w)
<1> DEFINE n == Len(s)
<1>1. /\ n \in Nat /\ p \in 1..n + 1 /\ Len(t) = n + 1
      /\ \A i \in 1..n : s[i] \in Slots
      /\ \A i \in 1..n + 1 : t[i] \in Slots
  BY DEF Insertion
<1>2. /\ t[p] = e
      /\ \A i \in 1..p - 1 : t[i] = s[i]
      /\ \A i \in p..n : t[i + 1] = s[i]
  BY DEF Insertion
<1>3. \A i, j \in 1..n + 1 : t[i] = t[j] => i = j
  BY <1>1 DEF Distinct
<1>4. /\ w[t[1]] = base + TPS * sec[t[1]]
      /\ \A i \in 1..n : w[t[i + 1]] = w[t[i]] + TPS * sec[t[i + 1]]
  BY <1>1 DEF Schedule
<1> HIDE DEF n
<1>5. \A x \in Slots : TPS * (sec[x] + sec[e]) = TPS * sec[x] + TPS * sec[e]
                       /\ TPS * sec[x] \in Int /\ TPS * sec[e] \in Int
  BY TimesTPS, CacheAssumption, ZenonT(30)
\* The element before the gap, and the ones behind it.
<1>6. ASSUME NEW i \in 1..p - 1, i <= n PROVE s[i] = t[i] /\ s[i] # e /\ new[s[i]] = sec[s[i]]
  <2>1. s[i] = t[i] /\ i \in 1..n + 1 /\ i \in 1..n /\ i # p
    BY <1>1, <1>2, <1>6
  <2>2. s[i] # e
    BY <1>1, <1>2, <1>3, <2>1
  <2>3. ~Follows(t, e, s[i])
    <3> SUFFICES ASSUME NEW j \in 1..n, t[j] = e, t[j + 1] = t[i] PROVE FALSE
      BY <1>1, <2>1 DEF Follows
    <3>1. j = p /\ j + 1 = i
      BY <1>1, <1>2, <1>3, <2>1
    <3> QED BY <1>1, <3>1
  <2> QED BY <1>1, <2>1, <2>2, <2>3
<1>7. ASSUME NEW i \in p..n
      PROVE  /\ s[i] = t[i + 1] /\ i \in 1..n /\ i + 1 \in 1..n + 1 /\ s[i] # e
             /\ new[s[i]] = IF i = p THEN sec[s[i]] + sec[e] ELSE sec[s[i]]
  <2>1. s[i] = t[i + 1] /\ i + 1 \in 1..n + 1 /\ i \in 1..n /\ i + 1 # p
    BY <1>1, <1>2, Gap
  <2>2. s[i] # e
    BY <1>1, <1>2, <1>3, <2>1
  <2>3. Follows(t, e, s[i]) <=> i = p
    <3>1. ASSUME NEW j \in 1..n, t[j] = e, t[j + 1] = t[i + 1] PROVE i = p
      <4>1. {j, j + 1, p} \subseteq 1..n + 1
        BY <1>1
      <4>2. j = p
        BY <1>2, <1>3, <3>1, <4>1, Zenon
      <4>3. j + 1 = i + 1
        BY <1>3, <2>1, <3>1, <4>1, Zenon
      <4> QED BY <1>1, <4>2, <4>3
    <3>2. i = p => t[i] = e
      BY <1>2
    <3>3. Follows(t, e, s[i]) <=> \E j \in 1..n : t[j] = e /\ t[j + 1] = t[i + 1]
      <4>1. Len(t) - 1 = n
        BY <1>1
      <4> QED BY <2>1, <4>1, Zenon DEF Follows
    <3> QED BY <2>1, <3>1, <3>2, <3>3, Zenon
  <2> QED BY <1>1, <2>1, <2>2, <2>3, Zenon
<1>8. ASSUME n > 0 PROVE w[s[1]] = base + TPS * new[s[1]]
  <2>1. CASE p # 1
    BY <1>1, <1>4, <1>6, <1>8, <2>1
  <2>2. CASE p = 1
    <3>1. 1 \in p..n /\ 1 \in 1..n
      BY <1>1, <1>8, <2>2
    <3>2. s[1] = t[1 + 1] /\ new[s[1]] = sec[s[1]] + sec[e] /\ s[1] \in Slots
      BY <1>1, <1>7, <3>1, <2>2, ZenonT(30)
    <3>3. w[t[1 + 1]] = w[t[1]] + TPS * sec[t[1 + 1]] /\ t[1] = e
      BY <1>2, <1>4, <3>1, <2>2
    <3>4. w[s[1]] = (base + TPS * sec[e]) + TPS * sec[s[1]]
      BY <1>4, <3>2, <3>3
    <3>5. TPS * new[s[1]] = TPS * sec[s[1]] + TPS * sec[e]
      BY <1>5, <3>2
    <3>6. TPS * sec[s[1]] \in Int /\ TPS * sec[e] \in Int
      BY <1>5, <3>2
    <3> QED BY <3>4, <3>5, <3>6
  <2> QED BY <2>1, <2>2
<1>9. ASSUME NEW i \in 1..n - 1 PROVE w[s[i + 1]] = w[s[i]] + TPS * new[s[i + 1]]
  <2>0. i \in 1..n /\ i + 1 \in 1..n
    BY <1>1, Gap, Zenon
  <2>1. CASE i + 1 < p
    <3>1. i \in 1..p - 1 /\ i + 1 \in 1..p - 1 /\ i <= n /\ i + 1 <= n
      BY <1>1, <2>1, Gap, Zenon
    <3>2. s[i] = t[i] /\ s[i + 1] = t[i + 1] /\ new[s[i + 1]] = sec[s[i + 1]]
      BY <1>6, <3>1, Zenon
    <3> QED BY <1>4, <2>0, <3>2, Zenon
  <2>2. CASE i + 1 = p
    <3>1. i \in 1..p - 1 /\ i + 1 \in p..n /\ i <= n
      BY <1>1, <2>2, Gap
    <3>2. s[i] = t[i] /\ s[i + 1] = t[i + 1 + 1] /\ new[s[i + 1]] = sec[s[i + 1]] + sec[e]
      BY <1>6, <1>7, <3>1, <2>2
    <3>3. /\ w[t[i + 1]] = w[t[i]] + TPS * sec[t[i + 1]]
          /\ w[t[i + 1 + 1]] = w[t[i + 1]] + TPS * sec[t[i + 1 + 1]]
      BY <1>4, <2>0
    <3>4. t[i + 1] = e /\ s[i + 1] \in Slots /\ s[i] \in Slots
      BY <1>1, <1>2, <2>0, <2>2, Zenon
    <3>5. w[s[i]] \in Int /\ TPS * sec[s[i + 1]] \in Int /\ TPS * sec[e] \in Int
      BY <1>5, <3>4, Zenon
    <3> DEFINE a == TPS * sec[s[i + 1]]
               b == TPS * sec[e]
    <3>6. w[s[i + 1]] = (w[s[i]] + b) + a
      BY <3>2, <3>3, <3>4
    <3>7. TPS * new[s[i + 1]] = a + b
      BY <1>5, <3>2, <3>4, Zenon
    <3> HIDE DEF a, b
    <3>8. w[s[i]] \in Int /\ a \in Int /\ b \in Int
      BY <3>5 DEF a, b
    <3>9. (w[s[i]] + b) + a = w[s[i]] + (a + b)
      BY <3>8
    <3> QED BY <3>6, <3>7, <3>9
  <2>3. CASE i + 1 > p
    <3>1. i \in p..n /\ i + 1 \in p..n /\ i + 1 # p
      BY <1>1, <2>3, Gap
    <3>2. s[i] = t[i + 1] /\ s[i + 1] = t[i + 1 + 1] /\ new[s[i + 1]] = sec[s[i + 1]]
      BY <1>7, <3>1
    <3> QED BY <1>4, <2>0, <3>2, Zenon
  <2> QED BY <1>1, <2>1, <2>2, <2>3, Gap
<1> QED BY <1>8, <1>9 DEF Schedule, n

\* Timer e is put in at place p: its delta is taken off the one behind it.
Linked(s, p, e, sec, base, w, new, when) ==
  /\ when[e] = (IF p = 1 THEN base ELSE w[s[p - 1]]) + TPS * new[e]
  /\ \A x \in Range(s) : when[x] = w[x]
  /\ \A i \in 1..Len(s) : new[s[i]] = IF i = p THEN sec[s[i]] - new[e] ELSE sec[s[i]]

\* The new schedule is that of the list with e, and all other timers run out
\* when they did.
LEMMA ScheduleWith ==
  ASSUME NEW s \in Seq(Slots), NEW t \in Seq(Slots), NEW p, NEW e \in Slots, Insertion(s, t, p, e),
         Distinct(t), NEW sec \in [Slots -> Int], NEW base \in Int, NEW w \in [Slots -> Int],
         Schedule(s, sec, base, w), NEW new \in [Slots -> Int], NEW when \in [Slots -> Int],
         Linked(s, p, e, sec, base, w, new, when)
  PROVE  Schedule(t, new, base, when)
<1> DEFINE n == Len(s)
<1>1. /\ n \in Nat /\ p \in 1..n + 1 /\ Len(t) = n + 1 /\ p \in Nat
      /\ \A i \in 1..n : s[i] \in Slots /\ when[s[i]] = w[s[i]] /\ w[s[i]] \in Int /\ sec[s[i]] \in Int
      /\ \A i \in 1..n : new[s[i]] = IF i = p THEN sec[s[i]] - new[e] ELSE sec[s[i]]
  <2>1. n \in Nat /\ p \in 1..n + 1 /\ Len(t) = n + 1
    BY DEF Insertion
  <2>2. \A i \in 1..n : s[i] \in Range(s) /\ s[i] \in Slots
    BY InRange
  <2>3. \A i \in 1..n : when[s[i]] = w[s[i]] /\ w[s[i]] \in Int /\ sec[s[i]] \in Int
    BY <2>2, Zenon DEF Linked
  <2>4. \A i \in 1..n : new[s[i]] = IF i = p THEN sec[s[i]] - new[e] ELSE sec[s[i]]
    BY DEF Linked
  <2>5. p \in Nat
    BY <2>1
  <2> HIDE DEF n
  <2> QED BY <2>1, <2>2, <2>3, <2>4, <2>5, Zenon
<1>2. /\ t[p] = e
      /\ \A i \in 1..p - 1 : t[i] = s[i]
      /\ \A i \in p..n : t[i + 1] = s[i]
  BY DEF Insertion
<1>4. /\ n > 0 => w[s[1]] = base + TPS * sec[s[1]]
      /\ \A i \in 1..n - 1 : w[s[i + 1]] = w[s[i]] + TPS * sec[s[i + 1]]
  BY DEF Schedule
<1> HIDE DEF n
<1> DEFINE before == IF p = 1 THEN base ELSE w[s[p - 1]]
<1>5. before \in Int /\ when[e] = before + TPS * new[e] /\ new[e] \in Int
  <2>1. p # 1 => p - 1 \in 1..n
    BY <1>1
  <2> QED BY <1>1, <2>1 DEF Linked
<1>6. p <= n => w[s[p]] = before + TPS * sec[s[p]]
  <2>1. ASSUME p <= n, p # 1 PROVE p - 1 \in 1..n - 1 /\ (p - 1) + 1 = p
    BY <1>1, <2>1
  <2>2. p <= n => n > 0
    BY <1>1
  <2> QED BY <1>4, <2>1, <2>2, Zenon
<1> HIDE DEF before
\* The first element.
<1>8. when[t[1]] = base + TPS * new[t[1]]
  <2>1. CASE p = 1
    BY <1>2, <1>5, <2>1 DEF before
  <2>2. CASE p # 1
    <3>1. 1 \in 1..p - 1 /\ 1 \in 1..n /\ n > 0
      BY <1>1, <2>2
    <3> QED BY <1>1, <1>2, <1>4, <2>2, <3>1, ZenonT(30)
  <2> QED BY <2>1, <2>2
<1>9. ASSUME NEW i \in 1..n PROVE when[t[i + 1]] = when[t[i]] + TPS * new[t[i + 1]]
  <2>0. i + 1 < p \/ i + 1 = p \/ i = p \/ i > p
    BY <1>1
  <2>1. CASE i + 1 < p
    <3>1. i \in 1..p - 1 /\ i + 1 \in 1..p - 1 /\ i \in 1..n - 1 /\ i + 1 \in 1..n /\ i + 1 # p
      BY <1>1, <2>1
    <3>2. t[i] = s[i] /\ t[i + 1] = s[i + 1] /\ new[s[i + 1]] = sec[s[i + 1]]
      BY <1>1, <1>2, <3>1, Zenon
    <3>3. when[s[i]] = w[s[i]] /\ when[s[i + 1]] = w[s[i + 1]]
      BY <1>1, <3>1, Zenon
    <3>4. w[s[i + 1]] = w[s[i]] + TPS * sec[s[i + 1]]
      BY <1>4, <3>1
    <3> QED BY <3>2, <3>3, <3>4
  <2>2. CASE i + 1 = p
    <3>1. i \in 1..p - 1 /\ i = p - 1 /\ p # 1
      BY <1>1, <2>2
    <3>2. t[i] = s[i] /\ t[i + 1] = e /\ when[s[i]] = w[s[i]] /\ before = w[s[i]]
      BY <1>1, <1>2, <2>2, <3>1, Zenon DEF before
    <3> QED BY <1>5, <3>2
  <2>3. CASE i = p
    <3>1. i \in p..n /\ p <= n
      BY <1>1, <2>3
    <3>2. t[i] = e /\ t[i + 1] = s[i] /\ new[s[i]] = sec[s[i]] - new[e] /\ when[s[i]] = w[s[i]]
      BY <1>1, <1>2, <2>3, <3>1, Zenon
    <3> DEFINE a == sec[s[i]]
               b == new[e]
    <3>3. a \in Int /\ b \in Int
      BY <1>1, <1>5
    <3>4. w[s[i]] = before + TPS * a /\ when[e] = before + TPS * b
      BY <1>5, <1>6, <2>3, <3>1
    <3>5. new[s[i]] = a - b
      BY <3>2
    <3> HIDE DEF a, b
    <3>6. TPS * (a - b) = TPS * a - TPS * b /\ TPS * a \in Int
      BY <3>3, TimesTPS, Zenon
    <3>7. TPS * b \in Int
      BY <3>3, TimesTPS
    <3> DEFINE c == TPS * a
               d == TPS * b
    <3>8. c \in Int /\ d \in Int /\ w[s[i]] = before + c /\ when[e] = before + d /\ TPS * (a - b) = c - d
      BY <3>4, <3>6, <3>7
    <3> HIDE DEF c, d
    <3>9. w[s[i]] = when[e] + TPS * (a - b)
      BY <1>5, <3>8
    <3> QED BY <3>2, <3>5, <3>9
  <2>4. CASE i > p
    <3>1. i \in p..n /\ i - 1 \in p..n /\ i - 1 \in 1..n - 1 /\ (i - 1) + 1 = i /\ i # p /\ i - 1 \in 1..n
      BY <1>1, <2>4
    <3>2. t[i + 1] = s[i] /\ t[(i - 1) + 1] = s[i - 1]
      BY <1>2, <3>1
    <3>3. w[s[(i - 1) + 1]] = w[s[i - 1]] + TPS * sec[s[(i - 1) + 1]]
      BY <1>4, <3>1
    <3>4. t[i] = s[i - 1] /\ w[s[i]] = w[s[i - 1]] + TPS * sec[s[i]]
      BY <3>1, <3>2, <3>3
    <3>5. new[s[i]] = sec[s[i]] /\ when[s[i]] = w[s[i]] /\ when[s[i - 1]] = w[s[i - 1]]
      BY <1>1, <3>1, Zenon
    <3> QED BY <3>2, <3>4, <3>5
  <2> QED BY <2>0, <2>1, <2>2, <2>3, <2>4
<1>10. Len(t) - 1 = n
  BY <1>1
<1> QED BY <1>8, <1>9, <1>10 DEF Schedule

\* The base moves, and all timers with it by d; only the first delta may change.
MovedTo(s, sec, w, d, new, base2, when) ==
  /\ \A x \in Range(s) : when[x] = w[x] + d /\ (x # s[1] => new[x] = sec[x])
  /\ Len(s) > 0 => w[s[1]] + d = base2 + TPS * new[s[1]]

\* The schedule of the list is then that of the new base.
LEMMA ScheduleMoved ==
  ASSUME NEW s \in Seq(Slots), Distinct(s), NEW sec \in [Slots -> Int], NEW base \in Int,
         NEW w \in [Slots -> Int], Schedule(s, sec, base, w), NEW d \in Int,
         NEW new \in [Slots -> Int], NEW base2 \in Int, NEW when \in [Slots -> Int],
         MovedTo(s, sec, w, d, new, base2, when)
  PROVE  Schedule(s, new, base2, when)
<1> DEFINE n == Len(s)
<1>1. /\ n \in Nat
      /\ \A i \in 1..n : /\ s[i] \in Slots /\ when[s[i]] = w[s[i]] + d /\ w[s[i]] \in Int
                         /\ (s[i] # s[1] => new[s[i]] = sec[s[i]]) /\ sec[s[i]] \in Int
  BY InRange, Zenon DEF MovedTo
<1>2. \A i, j \in 1..n : s[i] = s[j] => i = j
  BY DEF Distinct
<1>3. \A i \in 1..n - 1 : w[s[i + 1]] = w[s[i]] + TPS * sec[s[i + 1]]
  BY DEF Schedule
<1> HIDE DEF n
<1>4. n > 0 => when[s[1]] = base2 + TPS * new[s[1]]
  <2>1. n > 0 => 1 \in 1..n
    BY <1>1
  <2> QED BY <1>1, <2>1 DEF n, MovedTo
<1>5. ASSUME NEW i \in 1..n - 1 PROVE when[s[i + 1]] = when[s[i]] + TPS * new[s[i + 1]]
  <2>1. i \in 1..n /\ i + 1 \in 1..n /\ 1 \in 1..n /\ i + 1 # 1
    BY <1>1
  <2>2. new[s[i + 1]] = sec[s[i + 1]]
    BY <1>1, <1>2, <2>1
  <2> DEFINE a == TPS * sec[s[i + 1]]
             b == w[s[i]]
  <2>3. a \in Int
    BY <1>1, <2>1, TimesTPS, Zenon
  <2>4. b \in Int /\ w[s[i + 1]] = b + a /\ when[s[i + 1]] = w[s[i + 1]] + d /\ when[s[i]] = b + d
    BY <1>1, <1>3, <2>1
  <2> HIDE DEF a, b
  <2>5. when[s[i + 1]] = when[s[i]] + a
    BY <2>3, <2>4
  <2> QED BY <2>2, <2>5 DEF a
<1> QED BY <1>4, <1>5 DEF Schedule, n

-----------------------------------------------------------------------------
(* The timer lists. *)

Item == [key : Keys, restricted : Sessions \cup {-1}, mode : Modes, pw : BOOLEAN,
         created : Nat, ttl : Int, read : {"before", "at", "after"}]

TimerQueue == [timers : Seq(Slots), new : Seq(Slots), tv : [Slots -> Nat], due : [Slots -> Nat]]

\* A timer that runs out at time x is true to the time d at which it ought to.
Punctual(x, d, f, l) ==
  /\ x >= d - f * (TPS \div 2)
  /\ x <= d + (TPS - 1) + f * (TPS \div 2) + (l + 1) * MaxLate

\* No item has two timers.
Fit(L) ==
  /\ L \in TimerQueue
  /\ Distinct(L.timers) /\ Distinct(L.new)
  /\ Range(L.timers) \cap Range(L.new) = {}

\* The new timers were started at time since or later.
Fresh(L, since) ==
  \A s \in Range(L.new) :
    since <= L.due[s] - TPS * L.tv[s] /\ L.due[s] - TPS * L.tv[s] <= now

\* The timers in the list are punctual.
OnTime(L) ==
  \E w \in [Slots -> Int] :
    /\ Schedule(L.timers, L.tv, abstime, w)
    /\ \A s \in Range(L.timers) : Punctual(w[s], L.due[s], front[s], late[s])

Queue(L, since) == Fit(L) /\ Fresh(L, since) /\ OnTime(L)

\* What compute_expiration makes of an item: nothing for a PIN, and otherwise
\* nothing only for an item without a limit, or with no ttl and read in the second
\* of its maximum lifetime.
LEMMA Expiration ==
  ASSUME NEW r \in Item, now \in Nat
  PROVE  LET c   == ComputeExpiration(r)
             end == r.created + MaxTTLOf(r.mode)
         IN  /\ c \in Nat \cup {-1}
             /\ r.mode = "pin" => c = -1
             /\ r.mode # "pin" /\ ~r.pw => c = UnusedTTL
             /\ r.pw /\ Limited(r) /\ c = -1 => ReadNow(r) = "at" /\ r.ttl < 0
             /\ r.pw /\ MaxTTLOf(r.mode) > 0 /\ c # -1 =>
                  /\ ReadNow(r) = "after" => c = 0
                  /\ ReadNow(r) = "before" => gnupg_get_time + c <= end
                  /\ ReadNow(r) = "at" => gnupg_get_time = end /\ (c = r.ttl)
<1> DEFINE t == gnupg_get_time
           max == MaxTTLOf(r.mode)
           end == r.created + max
           next == IF max > 0 THEN end - t ELSE 0
<1>1. t \in Nat
  BY Ticks DEF gnupg_get_time
<1>2. max \in Nat /\ UnusedTTL \in Nat /\ (r.mode = "pin" => max = 0)
  BY CacheAssumption DEF MaxTTLOf
<1>3. r.created \in Nat /\ r.ttl \in Int /\ r.pw \in BOOLEAN
  BY DEF Item
<1>4. ComputeExpiration(r) =
        IF r.mode = "pin" THEN -1
        ELSE IF ~r.pw THEN UnusedTTL
        ELSE IF next < 0 THEN 0
        ELSE IF r.ttl >= 0 /\ (next = 0 \/ r.ttl < next) THEN r.ttl
        ELSE IF next > 0 THEN next ELSE -1
  BY <1>1, <1>2, <1>3 DEF ComputeExpiration
<1>5. ReadNow(r) = IF max = 0 \/ t < end THEN "before" ELSE IF t = end THEN "at" ELSE "after"
  BY DEF ReadNow
<1>6. Limited(r) <=> r.mode # "pin" /\ (r.ttl >= 0 \/ max > 0)
  BY DEF Limited
<1> HIDE DEF t, max
<1> DEFINE c == ComputeExpiration(r)
<1>7. c \in Nat \cup {-1}
  BY <1>1, <1>2, <1>3, <1>4
<1>8. r.mode # "pin" /\ ~r.pw => c = UnusedTTL
  BY <1>4
<1>9. r.pw /\ Limited(r) /\ c = -1 => ReadNow(r) = "at" /\ r.ttl < 0
  BY <1>1, <1>2, <1>3, <1>4, <1>5, <1>6
<1>10. r.pw /\ max > 0 /\ c # -1 =>
         /\ ReadNow(r) = "after" => c = 0
         /\ ReadNow(r) = "before" => t + c <= end
         /\ ReadNow(r) = "at" => t = end /\ c = r.ttl
  BY <1>1, <1>2, <1>3, <1>4, <1>5
<1> QED BY <1>4, <1>7, <1>8, <1>9, <1>10 DEF t, max

\* remove_from_timer_list and remove_from_timer_list_new: the item has no timer
\* any more, and all the others are left on time.
LEMMA TimerRemoved ==
  ASSUME NEW L, NEW e \in Slots, NEW since \in Int, Queue(L, since),
         now \in Nat, abstime \in Nat
  PROVE  LET M == RemoveTimer(L, e) IN
         /\ Queue(M, since)
         /\ Range(M.timers) = Range(L.timers) \ {e}
         /\ Range(M.new) \subseteq Range(L.new) \ {e}
         /\ e \notin Range(L.new) => Range(M.new) = Range(L.new)
         /\ M.due[e] = 0 /\ \A s \in Slots : s # e => M.due[s] = L.due[s]
<1> DEFINE M == RemoveTimer(L, e)
           sec == [s \in Slots |-> IF s = e THEN 0
                                   ELSE IF Follows(L.timers, e, s) THEN L.tv[s] + L.tv[e]
                                   ELSE L.tv[s]]
           t == L.timers
           s0 == Unlink(L.timers, e)
<1>1. /\ t \in Seq(Slots) /\ L.new \in Seq(Slots) /\ L.tv \in [Slots -> Nat] /\ L.due \in [Slots -> Nat]
      /\ Distinct(t) /\ Distinct(L.new) /\ Range(t) \cap Range(L.new) = {}
  BY DEF Queue, Fit, TimerQueue
<1>2. M = [timers |-> s0, new |-> UpTo(L.new, e), tv |-> sec, due |-> [L.due EXCEPT ![e] = 0]]
  BY DEF RemoveTimer
<1>3. M.timers = s0 /\ M.new = UpTo(L.new, e) /\ M.tv = sec /\ M.due = [L.due EXCEPT ![e] = 0]
  BY <1>2
<1>4. sec \in [Slots -> Nat] /\ M.due \in [Slots -> Nat]
  BY <1>1, <1>3
<1>5. M.due[e] = 0 /\ \A s \in Slots : s # e => M.due[s] = L.due[s]
  BY <1>1, <1>3
<1>6. /\ UpTo(L.new, e) \in Seq(Slots) /\ Distinct(UpTo(L.new, e))
      /\ Range(UpTo(L.new, e)) \subseteq Range(L.new) \ {e}
      /\ e \notin Range(L.new) => UpTo(L.new, e) = L.new
  BY <1>1, UpToElement
<1>7. s0 \in Seq(Slots) /\ Distinct(s0) /\ Range(s0) = Range(t) \ {e}
  <2>1. CASE e \notin Range(t)
    BY <1>1, <2>1, Unlinked
  <2>2. CASE e \in Range(t)
    <3>1. s0 \in Seq(Slots) /\ \E p \in 1..Len(t) : Insertion(s0, t, p, e)
      BY <1>1, <2>2, Unlinked
    <3>2. PICK p : Insertion(s0, t, p, e)
      BY <3>1
    <3>3. Range(t) = Range(s0) \cup {e} /\ Distinct(s0) /\ e \notin Range(s0)
      BY <1>1, <3>1, <3>2, Inserted
    <3> QED BY <3>1, <3>3
  <2> QED BY <2>1, <2>2
<1>8. M \in TimerQueue
  <2> HIDE DEF s0, sec
  <2>1. [L.due EXCEPT ![e] = 0] \in [Slots -> Nat]
    BY <1>1
  <2> QED BY <1>2, <1>4, <1>6, <1>7, <2>1 DEF TimerQueue
<1>9. Fit(M)
  <2> HIDE DEF s0, sec, M
  <2> QED BY <1>1, <1>3, <1>6, <1>7, <1>8 DEF Fit
<1>10. Fresh(M, since)
  <2> SUFFICES ASSUME NEW s \in Range(M.new)
               PROVE  since <= M.due[s] - TPS * M.tv[s] /\ M.due[s] - TPS * M.tv[s] <= now
    BY DEF Fresh
  <2>1. s \in Range(L.new) /\ s # e /\ s \in Slots
    BY <1>1, <1>3, <1>6, InRange
  <2>2. ~Follows(t, e, s)
    <3>1. s \notin Range(t)
      BY <1>1, <2>1
    <3>2. \A i \in 1..Len(t) - 1 : i + 1 \in 1..Len(t)
      BY <1>1
    <3>3. \A i \in 1..Len(t) : t[i] \in Range(t)
      BY <1>1, InRange, ZenonT(30)
    <3> HIDE DEF t
    <3> QED BY <3>1, <3>2, <3>3 DEF Follows
  <2>3. M.tv[s] = L.tv[s] /\ M.due[s] = L.due[s]
    BY <1>3, <1>5, <2>1, <2>2
  <2> QED BY <2>1, <2>3 DEF Queue, Fresh
<1>11. OnTime(M)
  <2>1. PICK w \in [Slots -> Int] :
          /\ Schedule(t, L.tv, abstime, w)
          /\ \A s \in Range(t) : Punctual(w[s], L.due[s], front[s], late[s])
    BY DEF Queue, OnTime
  <2>2. L.tv \in [Slots -> Int] /\ sec \in [Slots -> Int] /\ abstime \in Int
    BY <1>1, <1>4
  <2>3. \A x \in Slots : x # e => sec[x] = IF Follows(t, e, x) THEN L.tv[x] + L.tv[e] ELSE L.tv[x]
    OBVIOUS
  <2> HIDE DEF s0, sec, t
  <2>4. Schedule(s0, sec, abstime, w)
    <3>1. CASE e \in Range(t)
      <4>1. PICK p : Insertion(s0, t, p, e)
        BY <1>1, <3>1, Unlinked DEF s0, t
      <4> QED BY <1>1, <1>7, <2>1, <2>2, <2>3, <4>1, ScheduleWithout, Zenon
    <3>2. CASE e \notin Range(t)
      <4>1. s0 = t
        BY <1>1, <3>2, Unlinked DEF s0, t
      <4>2. \A i \in 1..Len(t) : t[i] \in Slots /\ t[i] # e /\ t[i] \in Range(t)
        BY <1>1, <3>2, InRange
      <4>3. \A i \in 1..Len(t) : ~Follows(t, e, t[i])
        <5>1. \A i \in 1..Len(t) - 1 : i \in 1..Len(t)
          BY <1>1
        <5> QED BY <4>2, <5>1 DEF Follows
      <4>4. \A i \in 1..Len(t) : sec[t[i]] = L.tv[t[i]]
        BY <2>3, <4>2, <4>3
      <4>5. \A i \in 1..Len(t) - 1 : i + 1 \in 1..Len(t)
        BY <1>1
      <4>6. Len(t) > 0 => 1 \in 1..Len(t)
        BY <1>1
      <4> QED BY <2>1, <4>1, <4>4, <4>5, <4>6, ZenonT(30) DEF Schedule
    <3> QED BY <3>1, <3>2
  <2>5. \A s \in Range(s0) : Punctual(w[s], M.due[s], front[s], late[s])
    <3>1. \A s \in Range(s0) : s \in Range(t) /\ s # e /\ s \in Slots
      BY <1>1, <1>7, InRange
    <3> QED BY <1>5, <2>1, <3>1
  <2> HIDE DEF M
  <2> QED BY <1>3, <2>1, <2>4, <2>5 DEF OnTime
<1> HIDE DEF M, s0, sec
<1>12. Queue(M, since)
  BY <1>9, <1>10, <1>11, ZenonT(30) DEF Queue
<1> QED BY <1>3, <1>5, <1>6, <1>7, <1>12 DEF M

\* The lists L have become M, in which item e, and no other one, has a new timer of
\* c seconds, or none if c is -1.
Updated(L, M, e, c) ==
  /\ Range(M.timers) = Range(L.timers) \ {e}
  /\ Range(M.new) \ {e} \subseteq Range(L.new)
  /\ e \notin Range(L.new) => Range(L.new) \subseteq Range(M.new)
  /\ e \in Range(M.new) <=> c # -1
  /\ M.due[e] = IF c = -1 THEN 0 ELSE now + c * TPS
  /\ \A s \in Slots : s # e => M.due[s] = L.due[s]

\* A new timer for an item that has none.
LEMMA TimerAdded ==
  ASSUME NEW L, NEW e \in Slots, NEW since \in Int, Queue(L, since), since <= now,
         now \in Nat, abstime \in Nat, NEW r \in Item,
         e \notin Range(L.timers), e \notin Range(L.new), L.due[e] = 0
  PROVE  /\ Queue(AddTimer(L, e, r), since)
         /\ Updated(L, AddTimer(L, e, r), e, ComputeExpiration(r))
<1> DEFINE M == AddTimer(L, e, r)
           c == ComputeExpiration(r)
<1>1. /\ L.timers \in Seq(Slots) /\ L.new \in Seq(Slots) /\ L.tv \in [Slots -> Nat] /\ L.due \in [Slots -> Nat]
      /\ Distinct(L.timers) /\ Distinct(L.new) /\ Range(L.timers) \cap Range(L.new) = {}
  BY DEF Queue, Fit, TimerQueue
<1>2. c \in Nat \cup {-1}
  BY Expiration
<1>3. CASE c = -1
  <2>1. M = L
    BY <1>3 DEF AddTimer
  <2>2. Updated(L, L, e, c)
    <3> HIDE DEF c
    <3> QED BY <1>3, ZenonT(30) DEF Updated
  <2> QED BY <2>1, <2>2
<1>4. CASE c # -1
  <2> DEFINE l == <<e>> \o L.new
             sec == [L.tv EXCEPT ![e] = c]
             d == [L.due EXCEPT ![e] = now + c * TPS]
  <2>1. c \in Nat
    BY <1>2, <1>4
  <2>2. M = [timers |-> L.timers, new |-> l, tv |-> sec, due |-> d]
    BY <2>1 DEF AddTimer
  <2> HIDE DEF c
  <2>3. l \in Seq(Slots) /\ Range(l) = Range(L.new) \cup {e} /\ Distinct(l)
    <3>1. l \in Seq(Slots) /\ Insertion(L.new, l, 1, e)
      BY <1>1, InFront
    <3> HIDE DEF l
    <3> QED BY <1>1, <3>1, Inserted
  <2>4. c * TPS \in Nat /\ now + c * TPS \in Nat /\ c * TPS = TPS * c /\ (now + c * TPS) - TPS * c = now
    BY <2>1, CacheAssumption
  <2>5. /\ sec \in [Slots -> Nat] /\ d \in [Slots -> Nat]
        /\ sec[e] = c /\ d[e] = now + c * TPS
        /\ \A s \in Slots : s # e => sec[s] = L.tv[s] /\ d[s] = L.due[s]
    BY <1>1, <2>1, <2>4, ZenonT(30)
  <2> HIDE DEF l, sec, d
  <2>6. M.timers = L.timers /\ M.new = l /\ M.tv = sec /\ M.due = d /\ M \in TimerQueue
    BY <1>1, <2>2, <2>3, <2>5 DEF TimerQueue
  <2> HIDE DEF M
  <2>7. Fit(M)
    BY <1>1, <2>3, <2>6 DEF Fit
  <2>8. Fresh(M, since)
    <3>1. \A s \in Range(L.new) : s \in Slots /\ s # e
      BY <1>1, InRange
    <3>2. \A s \in Range(L.new) : since <= d[s] - TPS * sec[s] /\ d[s] - TPS * sec[s] <= now
      BY <2>5, <3>1 DEF Queue, Fresh
    <3>3. since <= d[e] - TPS * sec[e] /\ d[e] - TPS * sec[e] <= now
      BY <2>4, <2>5
    <3> QED BY <2>3, <2>6, <3>2, <3>3 DEF Fresh
  <2>9. OnTime(M)
    <3>1. PICK w \in [Slots -> Int] :
            /\ Schedule(L.timers, L.tv, abstime, w)
            /\ \A s \in Range(L.timers) : Punctual(w[s], L.due[s], front[s], late[s])
      BY DEF Queue, OnTime
    <3>2. \A i \in 1..Len(L.timers) : sec[L.timers[i]] = L.tv[L.timers[i]]
      <4> DEFINE t == L.timers
      <4>0. t \in Seq(Slots) /\ e \notin Range(t)
        BY <1>1
      <4> HIDE DEF t
      <4>1. \A i \in 1..Len(t) : t[i] \in Slots /\ t[i] # e
        BY <4>0, InRange
      <4> QED BY <2>5, <4>1 DEF t
    <3>3. Schedule(L.timers, sec, abstime, w)
      <4>1. \A i \in 1..Len(L.timers) - 1 : i + 1 \in 1..Len(L.timers)
        BY <1>1
      <4>2. Len(L.timers) > 0 => 1 \in 1..Len(L.timers)
        BY <1>1
      <4> QED BY <3>1, <3>2, <4>1, <4>2, Zenon DEF Schedule
    <3>4. \A s \in Range(L.timers) : d[s] = L.due[s]
      <4>1. \A s \in Range(L.timers) : s \in Slots /\ s # e
        BY <1>1, InRange
      <4> QED BY <2>5, <4>1
    <3> QED BY <2>6, <3>1, <3>3, <3>4 DEF OnTime
  <2>10. Updated(L, M, e, c)
    BY <1>4, <2>3, <2>5, <2>6 DEF Updated
  <2> QED BY <2>7, <2>8, <2>9, <2>10 DEF Queue, M, c
<1> QED BY <1>3, <1>4

\* update_expiration: the item's former timer is replaced.
LEMMA TimerUpdated ==
  ASSUME NEW L, NEW e \in Slots, NEW since \in Int, Queue(L, since), since <= now,
         now \in Nat, abstime \in Nat, NEW r \in Item
  PROVE  /\ Queue(UpdateExpiration(L, e, r), since)
         /\ Updated(L, UpdateExpiration(L, e, r), e, ComputeExpiration(r))
<1> DEFINE N == RemoveTimer(L, e)
           M == AddTimer(N, e, r)
           c == ComputeExpiration(r)
<1>1. /\ Queue(N, since)
      /\ Range(N.timers) = Range(L.timers) \ {e}
      /\ Range(N.new) \subseteq Range(L.new) \ {e}
      /\ e \notin Range(L.new) => Range(N.new) = Range(L.new)
      /\ N.due[e] = 0 /\ \A s \in Slots : s # e => N.due[s] = L.due[s]
  BY TimerRemoved, Zenon
<1>2. UpdateExpiration(L, e, r) = M
  BY DEF UpdateExpiration
<1> HIDE DEF N
<1>3. Queue(M, since) /\ Updated(N, M, e, c)
  BY <1>1, TimerAdded
<1> HIDE DEF M, c
<1>4. Updated(L, M, e, c)
  BY <1>1, <1>3 DEF Updated
<1> QED BY <1>2, <1>3, <1>4 DEF c

\* The lists L have become q, in which only items of Hit may have other timers.
Flushed(L, q, Hit) ==
  /\ Range(q.timers) \subseteq Range(L.timers)
  /\ Range(L.timers) \ Hit \subseteq Range(q.timers)
  /\ \A s \in Range(q.new) : s \in Range(L.new) \/ (s \in Hit /\ item[s].mode # "pin")
  /\ \A s \in Slots : s \notin Hit => q.due[s] = L.due[s]

\* One more item is flushed.
LEMMA FlushedOne ==
  ASSUME NEW L, NEW q, NEW Hit, NEW e \in Hit, e \in Slots, item[e] \in Item,
         NEW since \in Int, Queue(q, since), Flushed(L, q, Hit), since <= now,
         now \in Nat, abstime \in Nat
  PROVE  LET M == UpdateExpiration(q, e, [item[e] EXCEPT !.pw = FALSE]) IN
         Queue(M, since) /\ Flushed(L, M, Hit)
<1> DEFINE r == [item[e] EXCEPT !.pw = FALSE]
           M == UpdateExpiration(q, e, r)
<1>1. r \in Item /\ r.mode = item[e].mode
  BY Zenon DEF Item
<1> HIDE DEF r
<1>2. Queue(M, since) /\ Updated(q, M, e, ComputeExpiration(r))
  BY <1>1, TimerUpdated
<1>3. r.mode = "pin" => ComputeExpiration(r) = -1
  BY <1>1, Expiration
<1> HIDE DEF M
<1>4. Flushed(L, M, Hit)
  BY <1>1, <1>2, <1>3 DEF Flushed, Updated
<1> QED BY <1>2, <1>4 DEF M, r

-----------------------------------------------------------------------------
(* Insertion at the head of the timer list. *)

\* By how much the timers behind a new first one move, if the base of the list is
\* timeout ticks away.
Rounding(timeout) == (IF 2 * (timeout % TPS) >= TPS THEN TPS ELSE 0) - (timeout % TPS)

\* They move by at most half a second, and not at all if the base is at a second.
LEMMA RoundingBound ==
  ASSUME NEW timeout \in Nat
  PROVE  /\ Rounding(timeout) \in Int
         /\ -(TPS \div 2) <= Rounding(timeout) /\ Rounding(timeout) <= TPS \div 2
         /\ timeout % TPS = 0 => Rounding(timeout) = 0
<1> DEFINE r == timeout % TPS
           h == TPS \div 2
<1>1. r \in 0..(TPS - 1) /\ TPS \in Nat \ {0}
  BY Ticks, CacheAssumption
<1>2. h \in Nat /\ 2 * h <= TPS /\ TPS <= 2 * h + 1
  BY Half
<1> HIDE DEF r, h
<1> QED BY <1>1, <1>2 DEF Rounding, r, h

\* The delta that the former first timer gets keeps the time at which it runs out, up
\* to the rounding.
LEMMA BehindTime ==
  ASSUME NEW timeout \in Nat, NEW old \in Nat, NEW ttl \in Nat, now \in Nat,
         ttl <= timeout \div TPS
  PROVE  LET b == Behind(old, timeout \div TPS, timeout % TPS, ttl) IN
         /\ b \in Nat
         /\ (now + timeout + TPS * old) + Rounding(timeout) = (now + ttl * TPS) + TPS * b
<1> DEFINE q == timeout \div TPS
           r == timeout % TPS
           u == IF 2 * r >= TPS THEN 1 ELSE 0
           b == Behind(old, q, r, ttl)
<1>1. q \in Nat /\ r \in 0..(TPS - 1) /\ timeout = TPS * q + r /\ TPS \in Nat \ {0}
  BY Ticks, CacheAssumption
<1>2. b = old + q - ttl + u
  BY DEF Behind
<1>3. Rounding(timeout) = TPS * u - r
  <2>1. TPS * 1 = TPS /\ TPS * 0 = 0
    BY <1>1
  <2> QED BY <1>1, <2>1 DEF Rounding
<1>4. u \in Nat
  OBVIOUS
<1> HIDE DEF q, r, u, b
<1>5. b \in Nat
  BY <1>1, <1>2, <1>4 DEF q
<1>6. TPS * b = TPS * (old + q) - TPS * ttl + TPS * u
  <2>1. TPS * ((old + q - ttl) + u) = TPS * (old + q - ttl) + TPS * u
    BY <1>1, <1>4, TimesTPS
  <2>2. TPS * ((old + q) - ttl) = TPS * (old + q) - TPS * ttl
    BY <1>1, TimesTPS
  <2>3. b = (old + q - ttl) + u /\ (old + q) - ttl = old + q - ttl
    BY <1>1, <1>2, <1>4
  <2> QED BY <2>1, <2>2, <2>3
<1>7. TPS * (old + q) = TPS * old + TPS * q
  BY <1>1, TimesTPS
<1>8. ttl * TPS = TPS * ttl
  BY <1>1
<1> DEFINE x1 == TPS * old
           x2 == TPS * q
           x3 == TPS * ttl
           x4 == TPS * u
<1>9. x1 \in Int /\ x2 \in Int /\ x3 \in Int /\ x4 \in Int
  BY <1>1, <1>4, TimesTPS
<1>10. /\ TPS * b = (x1 + x2) - x3 + x4 /\ timeout = x2 + r
       /\ Rounding(timeout) = x4 - r /\ ttl * TPS = x3
  BY <1>1, <1>3, <1>6, <1>7, <1>8
<1> HIDE DEF x1, x2, x3, x4
<1>11. (now + timeout + x1) + Rounding(timeout) = (now + ttl * TPS) + TPS * b
  <2>1. (now + timeout + x1) + Rounding(timeout) = (now + (x2 + r) + x1) + (x4 - r)
    BY <1>10
  <2>2. (now + ttl * TPS) + TPS * b = (now + x3) + ((x1 + x2) - x3 + x4)
    BY <1>10
  <2>3. r \in Int
    BY <1>1
  <2>4. (now + (x2 + r) + x1) + (x4 - r) = (now + x3) + ((x1 + x2) - x3 + x4)
    BY <1>9, <2>3
  <2> QED BY <2>1, <2>2, <2>4
<1> QED BY <1>5, <1>11 DEF b, q, r, x1

\* A timer that was just started, up to the lateness of the loop and the part of a
\* second that is left of the base's time.
LEMMA PunctualNew ==
  ASSUME NEW x \in Int, NEW d \in Int, NEW f \in Nat, NEW l \in Nat,
         d <= x, x <= d + (TPS - 1) + MaxLate
  PROVE  Punctual(x, d, f, l)
<1> DEFINE h == TPS \div 2
           a == f * h
           b == l * MaxLate
<1>1. h \in Nat /\ MaxLate \in Nat /\ TPS \in Nat
  BY Half, CacheAssumption
<1>2. a \in Nat /\ b \in Nat /\ (l + 1) * MaxLate = b + MaxLate
  BY <1>1
<1> HIDE DEF a, b
<1>3. d - a <= x /\ x <= d + (TPS - 1) + a + (b + MaxLate)
  BY <1>1, <1>2
<1> QED BY <1>2, <1>3 DEF Punctual, a, h

\* A timer that is moved by half a second counts one more insertion in front.
LEMMA PunctualRounded ==
  ASSUME NEW x \in Int, NEW d \in Int, NEW f \in Nat, NEW l \in Nat, Punctual(x, d, f, l),
         NEW y \in Int, -(TPS \div 2) <= y, y <= TPS \div 2
  PROVE  Punctual(x + y, d, f + 1, l)
<1> DEFINE h == TPS \div 2
           a == f * h
           b == (l + 1) * MaxLate
<1>1. h \in Nat /\ MaxLate \in Nat /\ TPS \in Nat
  BY Half, CacheAssumption
<1>2. a \in Nat /\ b \in Nat /\ (f + 1) * h = a + h
  BY <1>1
<1>3. d - a <= x /\ x <= d + (TPS - 1) + a + b
  BY DEF Punctual
<1> HIDE DEF a, b
<1>4. d - (a + h) <= x + y /\ x + y <= d + (TPS - 1) + (a + h) + b
  BY <1>1, <1>2, <1>3
<1> QED BY <1>2, <1>4 DEF Punctual, b, h

\* The loop woke up late, by y ticks.
LEMMA PunctualLater ==
  ASSUME NEW x \in Int, NEW d \in Int, NEW f \in Nat, NEW l \in Nat, Punctual(x, d, f, l),
         NEW y \in Nat, y <= MaxLate
  PROVE  Punctual(x + y, d, f, l + 1)
<1> DEFINE h == TPS \div 2
           a == f * h
           b == (l + 1) * MaxLate
<1>1. h \in Nat /\ MaxLate \in Nat /\ TPS \in Nat
  BY Half, CacheAssumption
<1>2. a \in Nat /\ b \in Nat /\ (l + 1 + 1) * MaxLate = b + MaxLate
  BY <1>1
<1>3. d - a <= x /\ x <= d + (TPS - 1) + a + b
  BY DEF Punctual
<1> HIDE DEF a, b
<1>4. d - a <= x + y /\ x + y <= d + (TPS - 1) + a + (b + MaxLate)
  BY <1>1, <1>2, <1>3
<1> QED BY <1>2, <1>4 DEF Punctual, a, h

\* The list while the new timers are inserted; d and l are when the items ought to
\* expire, and the late wake-ups of the loop.
Inserting == [timers : Seq(Slots), timeout : Nat, tv : [Slots -> Nat], front : [Slots -> Nat]]

OnTimeUntil(Q, d, l) ==
  \E w \in [Slots -> Int] :
    /\ Schedule(Q.timers, Q.tv, now + Q.timeout, w)
    /\ \A s \in Range(Q.timers) : Punctual(w[s], d[s], Q.front[s], l[s])

Good(Q, d, l) == Q \in Inserting /\ Distinct(Q.timers) /\ OnTimeUntil(Q, d, l)

\* A timer of v seconds that ends at time t was started now, or by at most the
\* lateness of the loop before.
Started(v, t) == t <= now + TPS * v /\ now + TPS * v <= t + MaxLate

\* Q has become M, with one more timer, and the others not in the list left alone.
OneMore(Q, M, e) ==
  /\ Range(M.timers) = Range(Q.timers) \cup {e}
  /\ \A s \in Slots : s \notin Range(M.timers) => M.tv[s] = Q.tv[s]

\* insert_to_timer_list at the head of the list.
LEMMA InsertedFirst ==
  ASSUME NEW Q, NEW d \in [Slots -> Nat], NEW l \in [Slots -> Nat], Good(Q, d, l), now \in Nat,
         NEW e \in Slots, e \notin Range(Q.timers),
         Started(Q.tv[e], d[e]),
         Q.timers = <<>> \/ Q.timeout \div TPS >= Q.tv[e]
  PROVE  Good(InsertTimer(Q, e), d, l) /\ OneMore(Q, InsertTimer(Q, e), e)
<1> DEFINE s == Q.timers
           t == <<e>> \o s
           q == Q.timeout \div TPS
           r == Q.timeout % TPS
           sec == [x \in Slots |-> IF x = e THEN 0
                                   ELSE IF s # <<>> /\ x = Head(s) THEN Behind(Q.tv[x], q, r, Q.tv[e])
                                   ELSE Q.tv[x]]
           f == [x \in Slots |-> IF r # 0 /\ x \in Range(s) THEN Q.front[x] + 1 ELSE Q.front[x]]
           M == InsertTimer(Q, e)
           base == now + Q.timeout
           base2 == now + Q.tv[e] * TPS
           y == Rounding(Q.timeout)
<1>1. /\ s \in Seq(Slots) /\ Q.timeout \in Nat /\ Q.tv \in [Slots -> Nat] /\ Q.front \in [Slots -> Nat]
      /\ Distinct(s) /\ e \notin Range(s)
  BY ZenonT(30) DEF Good, Inserting
<1>2. M = [timers |-> t, timeout |-> Q.tv[e] * TPS, tv |-> sec, front |-> f]
  BY Zenon DEF InsertTimer
<1>3. M.timers = t /\ M.timeout = Q.tv[e] * TPS /\ M.tv = sec /\ M.front = f
  <2> HIDE DEF M, s, t, sec, f
  <2> QED BY <1>2, ZenonT(30)
<1>4. /\ y \in Int /\ -(TPS \div 2) <= y /\ y <= TPS \div 2
      /\ r = 0 => y = 0
  BY <1>1, RoundingBound, ZenonT(30)
<1>5. /\ Q.tv[e] \in Nat /\ Q.tv[e] * TPS \in Nat /\ Q.tv[e] * TPS = TPS * Q.tv[e]
      /\ base \in Int /\ base2 \in Int
  <2>1. Q.tv[e] \in Nat
    BY <1>1
  <2>2. TPS \in Nat
    BY CacheAssumption
  <2> QED BY <1>1, <2>1, <2>2
<1>6. Len(s) \in Nat /\ (s = <<>> <=> Len(s) = 0) /\ (s # <<>> => Head(s) = s[1] /\ s[1] \in Slots /\ s[1] \in Range(s))
  <2>1. s # <<>> => 1 \in 1..Len(s)
    BY <1>1
  <2>2. Len(s) \in Nat /\ (s = <<>> <=> Len(s) = 0) /\ (s # <<>> => Head(s) = s[1])
    BY <1>1
  <2> QED BY <1>1, <2>1, <2>2, InRange
\* The former first timer.
<1>7. ASSUME s # <<>>
      PROVE  LET b == Behind(Q.tv[s[1]], q, r, Q.tv[e]) IN
             b \in Nat /\ (base + TPS * Q.tv[s[1]]) + y = base2 + TPS * b
  <2>1. Q.tv[s[1]] \in Nat /\ Q.tv[e] <= q
    <3>1. q \in Nat
      BY <1>1, Ticks, Zenon
    <3> QED BY <1>1, <1>5, <1>6, <1>7, <3>1, ZenonT(30)
  <2> QED BY <1>1, <1>5, <2>1, BehindTime, Zenon
<1>8. /\ sec \in [Slots -> Nat] /\ sec[e] = 0
      /\ s # <<>> => sec[s[1]] = Behind(Q.tv[s[1]], q, r, Q.tv[e])
      /\ \A x \in Range(s) : x # s[1] => sec[x] = Q.tv[x]
      /\ \A x \in Slots : x # e /\ x \notin Range(s) => sec[x] = Q.tv[x]
  <2> HIDE DEF q, r, s
  <2>1. \A x \in Slots : sec[x] \in Nat
    BY <1>1, <1>6, <1>7, Zenon
  <2>2. sec \in [Slots -> Nat] /\ sec[e] = 0
    BY <2>1, Zenon
  <2>3. s # <<>> => sec[s[1]] = Behind(Q.tv[s[1]], q, r, Q.tv[e])
    BY <1>1, <1>6
  <2>4. \A x \in Range(s) : x \in Slots /\ x # e /\ s # <<>>
    <3>1. \A x \in Range(s) : x \in Slots /\ \E i \in 1..Len(s) : s[i] = x
      BY <1>1, InRange
    <3> QED BY <1>1, <1>6, <3>1
  <2>5. \A x \in Range(s) : x # s[1] => sec[x] = Q.tv[x]
    BY <1>6, <2>4
  <2>6. \A x \in Slots : x # e /\ x \notin Range(s) => sec[x] = Q.tv[x]
    BY <1>6
  <2> QED BY <2>2, <2>3, <2>5, <2>6, Zenon
<1>9. /\ f \in [Slots -> Nat]
      /\ \A x \in Range(s) : f[x] = IF r # 0 THEN Q.front[x] + 1 ELSE Q.front[x]
  <2> HIDE DEF r, s
  <2>1. \A x \in Range(s) : x \in Slots
    BY <1>1, InRange, ZenonT(30)
  <2> QED BY <1>1, <2>1
<1> HIDE DEF sec, f, M, y, q, r, base, base2, t
<1>10. t \in Seq(Slots) /\ Insertion(s, t, 1, e) /\ Distinct(t) /\ Range(t) = Range(s) \cup {e}
  <2>1. t \in Seq(Slots) /\ Insertion(s, t, 1, e)
    BY <1>1, InFront DEF t
  <2> QED BY <1>1, <2>1, Inserted
<1>11. PICK w \in [Slots -> Int] :
         /\ Schedule(s, Q.tv, base, w)
         /\ \A x \in Range(s) : Punctual(w[x], d[x], Q.front[x], l[x])
  BY ZenonT(30) DEF Good, OnTimeUntil, base
<1> DEFINE when == [x \in Slots |-> IF x = e THEN base2 ELSE w[x] + y]
<1>12. /\ when \in [Slots -> Int] /\ when[e] = base2
       /\ \A x \in Range(s) : when[x] = w[x] + y /\ w[x] \in Int /\ x \in Slots
  <2>1. \A x \in Range(s) : x \in Slots /\ x # e
    BY <1>1, InRange, ZenonT(30)
  <2> QED BY <1>4, <1>5, <2>1
<1> HIDE DEF when, s
<1>13. Q.tv \in [Slots -> Int] /\ sec \in [Slots -> Int]
  BY <1>1, <1>8
<1>14. Len(s) > 0 => w[s[1]] + y = base2 + TPS * sec[s[1]]
  <2>1. Len(s) > 0 => s # <<>> /\ w[s[1]] = base + TPS * Q.tv[s[1]]
    BY <1>6, <1>11 DEF Schedule
  <2> QED BY <1>7, <1>8, <2>1, ZenonT(30)
<1>15. Schedule(s, sec, base2, when)
  <2>1. \A x \in Range(s) : when[x] = w[x] + y /\ (x # s[1] => sec[x] = Q.tv[x])
    BY <1>8, <1>12, ZenonT(30)
  <2>2. s \in Seq(Slots) /\ Distinct(s) /\ y \in Int /\ base \in Int /\ base2 \in Int
    BY <1>1, <1>4, <1>5, ZenonT(30)
  <2>3. when \in [Slots -> Int] /\ Schedule(s, Q.tv, base, w)
    BY <1>11, <1>12, ZenonT(30)
  <2>4. MovedTo(s, Q.tv, w, y, sec, base2, when)
    BY <1>14, <2>1 DEF MovedTo
  <2> QED BY <1>13, <2>2, <2>3, <2>4, ScheduleMoved, Zenon
<1>16. Schedule(t, sec, base2, when)
  <2>1. when[e] = (IF 1 = 1 THEN base2 ELSE when[s[1 - 1]]) + TPS * sec[e]
    <3>1. TPS * 0 = 0
      BY CacheAssumption
    <3> QED BY <1>5, <1>8, <1>12, <3>1
  <2>2. \A i \in 1..Len(s) : sec[s[i]] = IF i = 1 THEN sec[s[i]] - sec[e] ELSE sec[s[i]]
    <3>1. \A i \in 1..Len(s) : sec[s[i]] \in Int
      <4>1. \A i \in 1..Len(s) : s[i] \in Slots
        BY <1>1, InRange
      <4> QED BY <1>13, <4>1
    <3>2. \A i \in 1..Len(s) : sec[s[i]] - 0 = sec[s[i]]
      BY <3>1
    <3> QED BY <1>8, <3>2
  <2>3. s \in Seq(Slots) /\ t \in Seq(Slots) /\ Insertion(s, t, 1, e) /\ Distinct(t)
    BY <1>1, <1>10
  <2>4. base2 \in Int /\ when \in [Slots -> Int]
    BY <1>5, <1>12
  <2>5. \A x \in Range(s) : when[x] = when[x]
    BY ZenonT(30)
  <2>6. Linked(s, 1, e, sec, base2, when, sec, when)
    BY <2>1, <2>2, <2>5 DEF Linked
  <2> QED BY <1>13, <1>15, <2>3, <2>4, <2>6, ScheduleWith, Zenon
<1>17. \A x \in Range(t) : Punctual(when[x], d[x], f[x], l[x])
  <2>1. Punctual(when[e], d[e], f[e], l[e])
    <3>1. base2 \in Int /\ d[e] \in Int /\ f[e] \in Nat /\ l[e] \in Nat
      BY <1>5, <1>9
    <3>2. base2 = now + TPS * Q.tv[e]
      BY <1>5 DEF base2
    <3>3. TPS \in Nat \ {0} /\ MaxLate \in Nat
      BY CacheAssumption
    <3>4. d[e] <= base2 /\ base2 <= d[e] + (TPS - 1) + MaxLate
      BY <3>1, <3>2, <3>3 DEF Started
    <3>5. Punctual(base2, d[e], f[e], l[e])
      BY <3>1, <3>4, PunctualNew, ZenonT(30)
    <3> QED BY <1>12, <3>5
  <2>2. ASSUME NEW x \in Range(s) PROVE Punctual(when[x], d[x], f[x], l[x])
    <3>1. w[x] \in Int /\ d[x] \in Int /\ Q.front[x] \in Nat /\ l[x] \in Nat
      BY <1>1, <1>12
    <3>2. Punctual(w[x], d[x], Q.front[x], l[x])
      BY <1>11, ZenonT(30)
    <3>3. CASE r # 0
      <4>1. Punctual(w[x] + y, d[x], Q.front[x] + 1, l[x])
        BY <1>4, <3>1, <3>2, PunctualRounded, Zenon
      <4> QED BY <1>9, <1>12, <3>3, <4>1
    <3>4. CASE r = 0
      <4>1. w[x] + y = w[x]
        BY <1>4, <3>1, <3>4
      <4> QED BY <1>9, <1>12, <3>2, <3>4, <4>1, ZenonT(30)
    <3> QED BY <3>3, <3>4, ZenonT(30)
  <2> QED BY <1>10, <2>1, <2>2, Zenon
<1>18. M \in Inserting
  BY <1>2, <1>5, <1>8, <1>9, <1>10, Zenon DEF Inserting
<1>19. OnTimeUntil(M, d, l)
  BY <1>3, <1>12, <1>16, <1>17, Zenon DEF OnTimeUntil, base2
<1>20. OneMore(Q, M, e)
  BY <1>3, <1>8, <1>10, Zenon DEF OneMore, s
<1> QED BY <1>3, <1>10, <1>18, <1>19, <1>20 DEF Good, M

-----------------------------------------------------------------------------
(* Induction along a list, and recursion along it. *)

INSTANCE WellFoundedInduction

\* A non-empty set of natural numbers has a least element.
LEMMA MinNat ==
  ASSUME NEW T, T \subseteq Nat, T # {}
  PROVE \E n \in T : \A m \in T : n <= m
  <1>1. PICK x \in T : \A y \in T : ~(<<y, x>> \in OpToRel(<, Nat))
    BY NatLessThanWellFounded, WFMin, Zenon
  <1>2. \A y \in T : ~(y < x)
    BY <1>1, Zenon DEF OpToRel
  <1> QED BY <1>2

\* What holds at the start of a walk, and at each place if it holds at the one
\* before, holds everywhere.
LEMMA Along ==
  ASSUME NEW n \in Nat, NEW G, 0 \in G,
         \A i \in 0..n - 1 : i \in G => i + 1 \in G
  PROVE  \A i \in 0..n : i \in G
<1> DEFINE Bad == {i \in Nat : i <= n /\ i \notin G}
<1>1. Bad = {}
  <2> SUFFICES ASSUME Bad # {} PROVE FALSE
    OBVIOUS
  <2>1. PICK m \in Bad : \A l \in Bad : m <= l
    <3>1. Bad \subseteq Nat
      OBVIOUS
    <3> HIDE DEF Bad
    <3> QED BY <3>1, MinNat, Zenon
  <2>2. m \in Nat /\ m <= n /\ m \notin G /\ m # 0
    BY <2>1
  <2>3. m - 1 \in 0..n - 1 /\ m - 1 \in Nat /\ m - 1 <= n /\ (m - 1) + 1 = m
    BY <2>2
  <2>4. m - 1 \notin Bad
    <3> HIDE DEF Bad
    <3> QED BY <2>1, <2>2, <2>3
  <2>5. m - 1 \in G
    BY <2>3, <2>4, ZenonT(30)
  <2> QED BY <2>2, <2>3, <2>5
<1> QED BY <1>1

\* g are the results of a walk of n steps from x whose i-th step is F, with the
\* result of each step in T.
Walk(g, n, T, F, x) ==
  /\ DOMAIN g = 0..n /\ g = [i \in 0..n |-> g[i]]
  /\ g[0] = x
  /\ \A i \in 1..n : g[i] = F[<<i, g[i - 1]>>]
  /\ \A i \in 0..n : g[i] \in T[i]

\* Such a walk exists.
LEMMA Iterates ==
  ASSUME NEW n \in Nat, NEW T, NEW F, NEW x \in T[0],
         \A i \in 1..n : \A q \in T[i - 1] : F[<<i, q>>] \in T[i]
  PROVE  \E g : Walk(g, n, T, F, x)
<1> DEFINE G == {m \in 0..n : \E g : Walk(g, m, T, F, x)}
<1>1. 0 \in G
  <2> DEFINE g0 == [i \in 0..0 |-> x]
  <2>1. Walk(g0, 0, T, F, x)
    BY DEF Walk
  <2> HIDE DEF g0
  <2> QED BY <2>1
<1>2. ASSUME NEW m \in 0..n - 1, m \in G PROVE m + 1 \in G
  <2>1. PICK g : Walk(g, m, T, F, x)
    BY <1>2
  <2> DEFINE h == [i \in 0..m + 1 |-> IF i = m + 1 THEN F[<<m + 1, g[m]>>] ELSE g[i]]
  <2>2. m \in Nat /\ m + 1 \in 1..n /\ m + 1 \in 0..n /\ (m + 1) - 1 = m /\ m \in 0..m
    OBVIOUS
  <2>3. /\ g[0] = x
        /\ \A i \in 1..m : g[i] = F[<<i, g[i - 1]>>]
        /\ \A i \in 0..m : g[i] \in T[i]
    BY <2>1, Zenon DEF Walk
  <2>4. /\ \A i \in 0..m : h[i] = g[i]
        /\ h[m + 1] = F[<<m + 1, g[m]>>]
    BY <2>2
  <2>5. DOMAIN h = 0..m + 1 /\ h = [i \in 0..m + 1 |-> h[i]]
    OBVIOUS
  <2> HIDE DEF h
  <2>6. h[m + 1] \in T[m + 1]
    BY <2>2, <2>3, <2>4
  <2>7. h[0] = x
    BY <2>2, <2>3, <2>4
  <2>8. \A i \in 1..m + 1 : h[i] = F[<<i, h[i - 1]>>]
    <3> SUFFICES ASSUME NEW i \in 1..m + 1 PROVE h[i] = F[<<i, h[i - 1]>>]
      OBVIOUS
    <3>1. i - 1 \in 0..m /\ (i = m + 1 \/ (i \in 1..m /\ i \in 0..m))
      BY <2>2
    <3>2. CASE i = m + 1
      BY <2>2, <2>4, <3>2
    <3>3. CASE i \in 1..m /\ i \in 0..m
      BY <2>3, <2>4, <3>1, <3>3
    <3> QED BY <3>1, <3>2, <3>3
  <2>9. \A i \in 0..m + 1 : h[i] \in T[i]
    <3>1. \A i \in 0..m + 1 : i = m + 1 \/ i \in 0..m
      BY <2>2
    <3> QED BY <2>3, <2>4, <2>6, <3>1
  <2>10. Walk(h, m + 1, T, F, x)
    BY <2>5, <2>7, <2>8, <2>9, ZenonT(30) DEF Walk
  <2> QED BY <2>2, <2>10
<1> HIDE DEF G
<1>3. n \in G
  BY <1>1, <1>2, Along
<1> QED BY <1>3 DEF G

-----------------------------------------------------------------------------
(* The walks along the lists. *)

\* The walk that adds up the deltas is well-defined.
LEMMA SecondsDef ==
  ASSUME NEW list \in Seq(Slots), NEW sec \in [Slots -> Int]
  PROVE  /\ Seconds(list, sec)[0] = 0
         /\ \A i \in 1..Len(list) :
              Seconds(list, sec)[i] = Seconds(list, sec)[i - 1] + sec[list[i]]
         /\ \A i \in 0..Len(list) : Seconds(list, sec)[i] \in Int
<1> DEFINE n == Len(list)
           at == Seconds(list, sec)
           T == [i \in 0..n |-> Int]
           F == [p \in (1..n) \X Int |-> p[2] + sec[list[p[1]]]]
           Is(g) == g = [i \in 0..n |-> IF i = 0 THEN 0 ELSE g[i - 1] + sec[list[i]]]
<1>1. n \in Nat /\ \A i \in 1..n : list[i] \in Slots /\ sec[list[i]] \in Int /\ i - 1 \in 0..n /\ i \in 0..n
  OBVIOUS
<1> HIDE DEF n
<1>2. \A i \in 1..n : \A q \in T[i - 1] : F[<<i, q>>] \in T[i] /\ F[<<i, q>>] = q + sec[list[i]]
  BY <1>1
<1>3. 0 \in T[0]
  BY <1>1
<1>4. PICK g : Walk(g, n, T, F, 0)
  <2> HIDE DEF T, F
  <2> QED BY <1>1, <1>2, <1>3, Iterates, Zenon
<1>5. Is(g)
  <2>1. /\ g = [i \in 0..n |-> g[i]]
        /\ g[0] = 0
        /\ \A i \in 1..n : g[i] = F[<<i, g[i - 1]>>] /\ g[i - 1] \in T[i - 1]
    <3> HIDE DEF T, F
    <3> QED BY <1>1, <1>4, Zenon DEF Walk
  <2>2. \A i \in 0..n : i = 0 \/ i \in 1..n
    BY <1>1
  <2>3. \A i \in 0..n : g[i] = IF i = 0 THEN 0 ELSE g[i - 1] + sec[list[i]]
    <3> HIDE DEF T, F
    <3> QED BY <1>2, <2>1, <2>2, Zenon
  <2> HIDE DEF F, T
  <2> QED BY <2>1, <2>3, Zenon
<1>6. Is(at)
  <2> HIDE DEF F, T
  <2> QED BY <1>5, Zenon DEF Seconds, n
<1>7. at[0] = 0 /\ \A i \in 1..n : at[i] = at[i - 1] + sec[list[i]]
  <2> HIDE DEF at, F, T
  <2> QED BY <1>1, <1>6
<1> DEFINE G == {i \in 0..n : at[i] \in Int}
<1>8. 0 \in G /\ \A i \in 0..n - 1 : i \in G => i + 1 \in G
  <2> HIDE DEF at, F, T
  <2>1. \A i \in 0..n - 1 : i + 1 \in 1..n /\ (i + 1) - 1 = i /\ i + 1 \in 0..n
    BY <1>1
  <2> QED BY <1>1, <1>7, <2>1
<1>9. \A i \in 0..n : i \in G
  <2> HIDE DEF G
  <2> QED BY <1>1, <1>8, Along, Zenon
<1> QED BY <1>7, <1>9 DEF n

\* The i-th timer runs out when the sum of the deltas says.
RunOut(list, sec, base, w) ==
  \A i \in 1..Len(list) : w[list[i]] = base + TPS * Seconds(list, sec)[i]

\* So it does in a schedule.
LEMMA Sums ==
  ASSUME NEW list \in Seq(Slots), NEW sec \in [Slots -> Int], NEW base \in Int,
         NEW w \in [Slots -> Int], Schedule(list, sec, base, w)
  PROVE  RunOut(list, sec, base, w)
<1> DEFINE n == Len(list)
           at == Seconds(list, sec)
           G == {i \in 0..n : i = 0 \/ w[list[i]] = base + TPS * at[i]}
<1>1. n \in Nat /\ \A i \in 1..n : list[i] \in Slots /\ sec[list[i]] \in Int /\ w[list[i]] \in Int
  OBVIOUS
<1>2. /\ at[0] = 0
      /\ \A i \in 1..n : at[i] = at[i - 1] + sec[list[i]]
      /\ \A i \in 0..n : at[i] \in Int
  BY SecondsDef
<1>3. /\ n > 0 => w[list[1]] = base + TPS * sec[list[1]]
      /\ \A i \in 1..n - 1 : w[list[i + 1]] = w[list[i]] + TPS * sec[list[i + 1]]
  BY DEF Schedule
<1> HIDE DEF n, at
<1>4. 0 \in G
  BY <1>1
<1>5. ASSUME NEW i \in 0..n - 1, i \in G PROVE i + 1 \in G
  <2>1. i + 1 \in 1..n /\ i + 1 \in 0..n /\ (i + 1) - 1 = i /\ i \in 0..n
    BY <1>1
  <2>2. at[i + 1] = at[i] + sec[list[i + 1]] /\ at[i] \in Int /\ sec[list[i + 1]] \in Int
    BY <1>1, <1>2, <2>1
  <2> DEFINE a == at[i]
             b == sec[list[i + 1]]
  <2>3. a \in Int /\ b \in Int
    BY <2>2
  <2> HIDE DEF a, b
  <2>4. TPS * (a + b) = TPS * a + TPS * b /\ TPS * a \in Int /\ TPS * b \in Int
    BY <2>3, TimesTPS, Zenon
  <2>5. CASE i = 0
    <3>1. at[1] = sec[list[1]]
      BY <1>2, <2>2, <2>5
    <3>2. w[list[1]] = base + TPS * sec[list[1]]
      BY <1>1, <1>3, <2>1
    <3> QED BY <2>1, <2>5, <3>1, <3>2
  <2>6. CASE i # 0
    <3>1. i \in 1..n - 1 /\ w[list[i]] = base + TPS * at[i]
      BY <1>1, <1>5, <2>6
    <3>2. w[list[i + 1]] = w[list[i]] + TPS * sec[list[i + 1]]
      BY <1>3, <3>1
    <3>3. w[list[i + 1]] = (base + TPS * a) + TPS * b /\ at[i + 1] = a + b
      BY <2>2, <3>1, <3>2 DEF a, b
    <3>4. w[list[i + 1]] = base + TPS * (a + b)
      BY <2>4, <3>3
    <3> QED BY <2>1, <3>3, <3>4
  <2> QED BY <2>5, <2>6
<1>6. \A i \in 0..n : i \in G
  <2> HIDE DEF G
  <2> QED BY <1>1, <1>4, <1>5, Along, Zenon
<1>7. \A i \in 1..n : i \in 0..n /\ i # 0
  BY <1>1
<1> QED BY <1>6, <1>7 DEF n, at, RunOut

\* agent_flush_cache's walk over the cache.
LEMMA FlushWalk ==
  ASSUME NEW L, NEW Hit, Hit \subseteq Slots, \A e \in Hit : item[e] \in Item,
         NEW since \in Int, Queue(L, since), since <= now, now \in Nat, abstime \in Nat,
         thecache \in Seq(Slots)
  PROVE  LET q == FlushUpTo(L, Hit)[Len(thecache)] IN Queue(q, since) /\ Flushed(L, q, Hit)
<1> DEFINE n == Len(thecache)
           S == {q \in TimerQueue : Queue(q, since) /\ Flushed(L, q, Hit)}
           Step(q, i) == IF thecache[i] \in Hit
                         THEN UpdateExpiration(q, thecache[i], [item[thecache[i]] EXCEPT !.pw = FALSE])
                         ELSE q
           T == [i \in 0..n |-> S]
           F == [p \in (1..n) \X S |-> Step(p[2], p[1])]
           Is(g) == g = [i \in 0..n |-> IF i = 0 THEN L ELSE Step(g[i - 1], i)]
           to == FlushUpTo(L, Hit)
<1>1. n \in Nat /\ \A i \in 1..n : i - 1 \in 0..n /\ i \in 0..n /\ thecache[i] \in Slots
  OBVIOUS
<1>2. L \in S
  BY DEF Flushed, Queue, Fit
<1>3. ASSUME NEW i \in 1..n, NEW q \in S PROVE Step(q, i) \in S
  <2>1. CASE thecache[i] \in Hit
    <3> DEFINE e == thecache[i]
               M == UpdateExpiration(q, e, [item[e] EXCEPT !.pw = FALSE])
    <3>1. e \in Hit /\ e \in Slots /\ item[e] \in Item
      BY <1>1, <2>1
    <3>2. Queue(q, since) /\ Flushed(L, q, Hit)
      OBVIOUS
    <3> HIDE DEF e
    <3>3. Queue(M, since) /\ Flushed(L, M, Hit)
      BY <3>1, <3>2, FlushedOne, Zenon
    <3> HIDE DEF M
    <3>4. M \in S
      BY <3>3 DEF Queue, Fit
    <3> QED BY <2>1, <3>4 DEF e, M
  <2>2. CASE thecache[i] \notin Hit
    BY <2>2
  <2> QED BY <2>1, <2>2
<1> HIDE DEF n, S, Step
<1>4. \A i \in 1..n : \A q \in T[i - 1] : F[<<i, q>>] \in T[i] /\ F[<<i, q>>] = Step(q, i)
  BY <1>1, <1>3
<1>5. L \in T[0]
  BY <1>1, <1>2
<1>6. PICK g : Walk(g, n, T, F, L)
  <2> HIDE DEF T, F
  <2> QED BY <1>1, <1>4, <1>5, Iterates, Zenon
<1>7. Is(g)
  <2> HIDE DEF T, F
  <2>1. /\ g = [i \in 0..n |-> g[i]]
        /\ g[0] = L
        /\ \A i \in 1..n : g[i] = F[<<i, g[i - 1]>>] /\ g[i - 1] \in T[i - 1]
    BY <1>1, <1>6, Zenon DEF Walk
  <2>2. \A i \in 0..n : i = 0 \/ i \in 1..n
    BY <1>1
  <2>3. \A i \in 0..n : g[i] = IF i = 0 THEN L ELSE Step(g[i - 1], i)
    BY <1>4, <2>1, <2>2, Zenon
  <2> QED BY <2>1, <2>3, Zenon
<1>8. to = CHOOSE f : Is(f)
  BY DEF FlushUpTo, Step, n
<1>9. Is(to)
  <2> HIDE DEF Is, to
  <2> QED BY <1>7, <1>8
<1>10. to[0] = L /\ \A i \in 1..n : to[i] = Step(to[i - 1], i)
  <2> HIDE DEF to, F, T
  <2> QED BY <1>1, <1>9
<1> DEFINE G == {i \in 0..n : to[i] \in S}
<1> HIDE DEF to, F, T
<1>11. 0 \in G
  BY <1>1, <1>2, <1>10
<1>12. ASSUME NEW i \in 0..n - 1, i \in G PROVE i + 1 \in G
  <2>1. i + 1 \in 1..n /\ (i + 1) - 1 = i /\ i + 1 \in 0..n
    BY <1>1
  <2> QED BY <1>3, <1>10, <1>12, <2>1
<1>13. n \in G
  <2> HIDE DEF G
  <2>1. n \in Nat /\ n \in 0..n
    BY <1>1
  <2>2. \A i \in 0..n - 1 : i \in G => i + 1 \in G
    BY <1>12
  <2>3. \A i \in 0..n : i \in G
    BY <1>11, <2>1, <2>2, Along
  <2> QED BY <2>1, <2>3
<1> QED BY <1>13 DEF S, to, n

\* The walk of insert_to_timer_list along the list ends: a place for the timer.
LEMMA Position ==
  ASSUME NEW n \in Nat, NEW at, \A i \in 0..n : at[i] \in Int, NEW rest \in Int, at[0] <= rest
  PROVE  \E k \in 0..n : at[k] <= rest /\ (k < n => at[k + 1] > rest)
<1> SUFFICES ASSUME \A k \in 0..n : at[k] <= rest => k < n /\ ~(at[k + 1] > rest)
             PROVE  FALSE
  OBVIOUS
<1> DEFINE G == {i \in 0..n : at[i] <= rest}
<1>1. 0 \in G /\ n \in 0..n
  OBVIOUS
<1>2. ASSUME NEW i \in 0..n - 1, i \in G PROVE i + 1 \in G
  <2>1. i + 1 \in 0..n /\ at[i + 1] \in Int
    OBVIOUS
  <2> QED BY <1>2, <2>1
<1> HIDE DEF G
<1>3. \A i \in 0..n : i \in G
  BY <1>1, <1>2, Along
<1> QED BY <1>1, <1>3 DEF G

\* insert_to_timer_list behind the head of the list.
LEMMA InsertedBehind ==
  ASSUME NEW Q, NEW d \in [Slots -> Nat], NEW l \in [Slots -> Nat], Good(Q, d, l), now \in Nat,
         NEW e \in Slots, e \notin Range(Q.timers),
         Started(Q.tv[e], d[e]),
         Q.timers # <<>>, ~(Q.timeout \div TPS >= Q.tv[e])
  PROVE  Good(InsertTimer(Q, e), d, l) /\ OneMore(Q, InsertTimer(Q, e), e)
<1> DEFINE s == Q.timers
           n == Len(s)
           q == Q.timeout \div TPS
           r == Q.timeout % TPS
           rest == Q.tv[e] - q
           at == Seconds(s, Q.tv)
           k == CHOOSE i \in 0..n : at[i] <= rest /\ (i < n => at[i + 1] > rest)
           left == rest - at[k]
           t == LinkAfter(s, k, e)
           sec == [x \in Slots |-> IF x = e THEN left
                                   ELSE IF k < n /\ x = s[k + 1] THEN Q.tv[x] - left ELSE Q.tv[x]]
           M == InsertTimer(Q, e)
           base == now + Q.timeout
<1>1. /\ s \in Seq(Slots) /\ Q.timeout \in Nat /\ Q.tv \in [Slots -> Nat] /\ Q.front \in [Slots -> Nat]
      /\ Distinct(s) /\ e \notin Range(s) /\ n \in Nat
  BY DEF Good, Inserting
<1>2. M = [timers |-> t, timeout |-> Q.timeout, tv |-> sec, front |-> Q.front]
  BY Zenon DEF InsertTimer
<1>3. /\ q \in Nat /\ r \in 0..(TPS - 1) /\ Q.timeout = TPS * q + r /\ Q.tv[e] \in Nat
      /\ rest \in Nat /\ base \in Int
  <2>1. q \in Nat /\ r \in 0..(TPS - 1) /\ Q.timeout = TPS * q + r
    BY <1>1, Ticks, Zenon
  <2>2. Q.tv[e] \in Nat
    BY <1>1
  <2>3. ~(q >= Q.tv[e])
    OBVIOUS
  <2>4. base \in Int
    BY <1>1
  <2> DEFINE a == Q.tv[e]
  <2> HIDE DEF q, r
  <2>5. a \in Nat /\ q \in Nat /\ ~(q >= a)
    BY <2>1, <2>2, <2>3
  <2> HIDE DEF a
  <2>6. a - q \in Nat
    BY <2>5
  <2> QED BY <2>1, <2>2, <2>4, <2>6 DEF a
<1>4. /\ at[0] = 0
      /\ \A i \in 1..n : at[i] = at[i - 1] + Q.tv[s[i]]
      /\ \A i \in 0..n : at[i] \in Int
  <2>1. Q.tv \in [Slots -> Int]
    BY <1>1
  <2> QED BY <1>1, <2>1, SecondsDef, Zenon
<1> HIDE DEF s, n, q, r, rest, at, base, M
<1>5. k \in 0..n /\ at[k] <= rest /\ (k < n => at[k + 1] > rest)
  <2>1. at[0] <= rest /\ rest \in Int
    BY <1>3, <1>4
  <2>2. \E i \in 0..n : at[i] <= rest /\ (i < n => at[i + 1] > rest)
    BY <1>1, <1>4, <2>1, Position, Zenon
  <2> QED BY <2>2
<1> HIDE DEF k
<1>6. left \in Nat /\ at[k] \in Int /\ rest = at[k] + left
  BY <1>3, <1>4, <1>5
<1> HIDE DEF left
<1>7. \A i \in 1..n : s[i] \in Slots /\ s[i] \in Range(s) /\ s[i] # e /\ Q.tv[s[i]] \in Nat
  <2>1. \A i \in 1..n : s[i] \in Slots /\ s[i] \in Range(s)
    BY <1>1, InRange, ZenonT(30) DEF n
  <2> QED BY <1>1, <2>1, ZenonT(30)
<1>8. k < n => k + 1 \in 1..n /\ Q.tv[s[k + 1]] - left \in Nat
  <2> SUFFICES ASSUME k < n PROVE k + 1 \in 1..n /\ Q.tv[s[k + 1]] - left \in Nat
    OBVIOUS
  <2>1. k + 1 \in 1..n /\ (k + 1) - 1 = k
    BY <1>1, <1>5
  <2>2. at[k + 1] = at[k] + Q.tv[s[k + 1]] /\ at[k + 1] > rest
    BY <1>4, <1>5, <2>1, ZenonT(30)
  <2>3. Q.tv[s[k + 1]] \in Nat
    BY <1>7, <2>1
  <2> DEFINE v == Q.tv[s[k + 1]]
             a == at[k]
  <2>4. a \in Int /\ v \in Nat /\ a + v > rest /\ rest = a + left /\ left \in Nat
    BY <1>6, <2>2, <2>3
  <2> HIDE DEF a, v
  <2>5. v - left \in Nat
    BY <2>4
  <2> QED BY <2>1, <2>5 DEF v
<1>9. /\ sec \in [Slots -> Nat] /\ sec[e] = left
      /\ \A i \in 1..n : sec[s[i]] = IF i = k + 1 THEN Q.tv[s[i]] - sec[e] ELSE Q.tv[s[i]]
      /\ \A x \in Slots : x # e /\ x \notin Range(s) => sec[x] = Q.tv[x]
  <2>1. \A x \in Slots : sec[x] \in Nat
    BY <1>1, <1>6, <1>8, Zenon
  <2>2. sec \in [Slots -> Nat] /\ sec[e] = left
    BY <2>1, Zenon
  <2>3. ASSUME NEW i \in 1..n
        PROVE  sec[s[i]] = IF i = k + 1 THEN Q.tv[s[i]] - sec[e] ELSE Q.tv[s[i]]
    <3>1. i = k + 1 => k < n
      BY <1>1, <1>5
    <3>2. k < n /\ s[i] = s[k + 1] => i = k + 1
      BY <1>1, <1>8, Zenon DEF Distinct, n
    <3> QED BY <1>7, <2>2, <3>1, <3>2, ZenonT(30)
  <2>4. \A x \in Slots : x # e /\ x \notin Range(s) => sec[x] = Q.tv[x]
    BY <1>7, <1>8, ZenonT(30)
  <2> QED BY <2>2, <2>3, <2>4, Zenon
<1> HIDE DEF sec
<1>10. t \in Seq(Slots) /\ Insertion(s, t, k + 1, e) /\ Distinct(t) /\ Range(t) = Range(s) \cup {e}
  <2>1. t \in Seq(Slots) /\ Insertion(s, t, k + 1, e)
    BY <1>1, <1>5, LinkedAfter, ZenonT(30) DEF n
  <2> HIDE DEF t
  <2> QED BY <1>1, <2>1, Inserted
<1> HIDE DEF t
<1>11. PICK w \in [Slots -> Int] :
         /\ Schedule(s, Q.tv, base, w)
         /\ \A x \in Range(s) : Punctual(w[x], d[x], Q.front[x], l[x])
  BY ZenonT(30) DEF Good, OnTimeUntil, base, s
<1>12. Q.tv \in [Slots -> Int] /\ sec \in [Slots -> Int]
  BY <1>1, <1>9
<1>13. \A i \in 1..n : w[s[i]] = base + TPS * at[i]
  <2>1. RunOut(s, Q.tv, base, w)
    BY <1>1, <1>3, <1>11, <1>12, Sums, Zenon
  <2> QED BY <2>1 DEF RunOut, n, at
<1> DEFINE end == base + TPS * rest
           when == [w EXCEPT ![e] = end]
<1>14. TPS * rest = TPS * at[k] + TPS * left /\ TPS * at[k] \in Int /\ TPS * left \in Int
  <2> DEFINE a == at[k]
  <2>1. a \in Int /\ left \in Int /\ rest = a + left
    BY <1>6
  <2> HIDE DEF a
  <2>2. TPS * (a + left) = TPS * a + TPS * left /\ TPS * a \in Int
    BY <2>1, TimesTPS, Zenon
  <2>3. TPS * left \in Int
    BY <2>1, TimesTPS
  <2> QED BY <2>1, <2>2, <2>3 DEF a
<1>15. end \in Int /\ when \in [Slots -> Int] /\ when[e] = end /\ \A x \in Range(s) : when[x] = w[x] /\ x \in Slots
  <2>1. end \in Int
    BY <1>3, <1>14
  <2>2. \A x \in Range(s) : x \in Slots /\ x # e
    BY <1>1, InRange, ZenonT(30)
  <2> HIDE DEF end
  <2> QED BY <2>1, <2>2
<1>16. when[e] = (IF k + 1 = 1 THEN base ELSE w[s[(k + 1) - 1]]) + TPS * sec[e]
  <2>1. CASE k = 0
    <3>1. rest = left
      BY <1>4, <1>6, <2>1
    <3> QED BY <1>9, <1>15, <2>1, <3>1
  <2>2. CASE k # 0
    <3>1. k \in 1..n /\ (k + 1) - 1 = k /\ k + 1 # 1
      BY <1>1, <1>5, <2>2
    <3>2. w[s[k]] = base + TPS * at[k]
      BY <1>13, <3>1, ZenonT(30)
    <3> DEFINE a == TPS * at[k]
               b == TPS * left
    <3>3. a \in Int /\ b \in Int /\ end = base + (a + b) /\ w[s[k]] = base + a
      BY <1>14, <3>2, ZenonT(30)
    <3> HIDE DEF a, b, end
    <3>4. end = w[s[k]] + b
      BY <1>3, <3>3
    <3> QED BY <1>9, <1>15, <3>1, <3>4, ZenonT(30) DEF b
  <2> QED BY <2>1, <2>2, ZenonT(30)
<1> HIDE DEF end, when
<1>17. Schedule(t, sec, base, when)
  <2>1. s \in Seq(Slots) /\ t \in Seq(Slots) /\ Insertion(s, t, k + 1, e) /\ Distinct(t) /\ base \in Int
    BY <1>1, <1>3, <1>10, Zenon
  <2>2. when \in [Slots -> Int] /\ \A x \in Range(s) : when[x] = w[x]
    BY <1>15, ZenonT(30)
  <2>3. \A i \in 1..Len(s) : sec[s[i]] = IF i = k + 1 THEN Q.tv[s[i]] - sec[e] ELSE Q.tv[s[i]]
    BY <1>9, ZenonT(30) DEF n
  <2>4. Linked(s, k + 1, e, Q.tv, base, w, sec, when)
    BY <1>16, <2>2, <2>3 DEF Linked
  <2> QED BY <1>11, <1>12, <2>1, <2>2, <2>4, ScheduleWith, Zenon
<1>18. \A x \in Range(t) : Punctual(when[x], d[x], Q.front[x], l[x])
  <2>1. Punctual(when[e], d[e], Q.front[e], l[e])
    <3>1. end \in Int /\ d[e] \in Int /\ Q.front[e] \in Nat /\ l[e] \in Nat
      BY <1>1, <1>15
    <3>2. end = (now + TPS * Q.tv[e]) + r
      <4> DEFINE a == Q.tv[e]
      <4>1. a \in Int /\ q \in Int /\ rest = a - q
        BY <1>3 DEF rest
      <4> HIDE DEF a
      <4>2. TPS * (a - q) = TPS * a - TPS * q /\ TPS * a \in Int
        BY <4>1, TimesTPS, Zenon
      <4>3. TPS * q \in Int
        BY <4>1, TimesTPS, ZenonT(30)
      <4> DEFINE x1 == TPS * a
                 x2 == TPS * q
      <4>4. /\ x1 \in Int /\ x2 \in Int /\ end = (now + Q.timeout) + (x1 - x2) /\ Q.timeout = x2 + r
            /\ r \in Int
        BY <1>3, <4>1, <4>2, <4>3 DEF end, base
      <4> HIDE DEF x1, x2
      <4>5. end = (now + x1) + r
        BY <1>1, <4>4
      <4> QED BY <4>5 DEF x1, a
    <3>3. TPS \in Nat \ {0} /\ MaxLate \in Nat
      BY CacheAssumption, ZenonT(30)
    <3> DEFINE x == now + TPS * Q.tv[e]
    <3>4. x \in Int
      <4> DEFINE a == Q.tv[e]
      <4>1. a \in Int
        BY <1>3
      <4> HIDE DEF a
      <4>2. TPS * a \in Int
        BY <4>1, TimesTPS
      <4>3. now + TPS * a \in Int
        BY <4>2
      <4> QED BY <4>3, ZenonT(30) DEF a
    <3>5. d[e] <= x /\ x <= d[e] + MaxLate /\ end = x + r
      BY <3>2, ZenonT(30) DEF Started
    <3> HIDE DEF x
    <3>6. d[e] <= end /\ end <= d[e] + (TPS - 1) + MaxLate
      <4> DEFINE y == d[e]
      <4>1. y \in Int /\ y <= x /\ x <= y + MaxLate /\ r \in 0..(TPS - 1)
        BY <1>3, <3>1, <3>5, ZenonT(30)
      <4> HIDE DEF y
      <4>2. y <= x + r /\ x + r <= y + (TPS - 1) + MaxLate
        BY <3>3, <3>4, <4>1
      <4> QED BY <3>5, <4>2, ZenonT(30) DEF y
    <3>7. Punctual(end, d[e], Q.front[e], l[e])
      BY <3>1, <3>6, PunctualNew, ZenonT(30)
    <3> QED BY <1>15, <3>7, ZenonT(30)
  <2>2. ASSUME NEW x \in Range(s) PROVE Punctual(when[x], d[x], Q.front[x], l[x])
    BY <1>11, <1>15, ZenonT(30)
  <2> QED BY <1>10, <2>1, <2>2, Zenon
<1>19. M.timers = t /\ M.timeout = Q.timeout /\ M.tv = sec /\ M.front = Q.front
  BY <1>2 DEF sec, t
<1>20. M \in Inserting
  BY <1>1, <1>2, <1>9, <1>10, Zenon DEF Inserting
<1>21. OnTimeUntil(M, d, l)
  BY <1>15, <1>17, <1>18, <1>19, Zenon DEF OnTimeUntil, base
<1>22. OneMore(Q, M, e)
  BY <1>9, <1>10, <1>19, Zenon DEF OneMore, s
<1> QED BY <1>10, <1>19, <1>20, <1>21, <1>22, Zenon DEF Good, M

\* insert_to_timer_list: one more timer, and all of them are on time.
LEMMA InsertedOne ==
  ASSUME NEW Q, NEW d \in [Slots -> Nat], NEW l \in [Slots -> Nat], Good(Q, d, l), now \in Nat,
         NEW e \in Slots, e \notin Range(Q.timers), Started(Q.tv[e], d[e])
  PROVE  Good(InsertTimer(Q, e), d, l) /\ OneMore(Q, InsertTimer(Q, e), e)
  BY InsertedFirst, InsertedBehind, ZenonT(30)

\* The loop inserts all of the new timers.
LEMMA InsertWalk ==
  ASSUME NEW Q, NEW d \in [Slots -> Nat], NEW l \in [Slots -> Nat], Good(Q, d, l), now \in Nat,
         NEW new \in Seq(Slots), Distinct(new), Range(new) \cap Range(Q.timers) = {},
         \A e \in Range(new) : Started(Q.tv[e], d[e])
  PROVE  LET R == InsertUpTo(Q, new)[Len(new)] IN
         Good(R, d, l) /\ Range(R.timers) = Range(Q.timers) \cup Range(new)
<1> DEFINE n == Len(new)
           In(R, i) == /\ Good(R, d, l)
                       /\ Range(R.timers) = Range(Q.timers) \cup {new[j] : j \in 1..i}
                       /\ \A s \in Slots : s \notin Range(R.timers) => R.tv[s] = Q.tv[s]
           T == [i \in 0..n |-> {R \in Inserting : In(R, i)}]
           F == [p \in (1..n) \X Inserting |-> InsertTimer(p[2], new[p[1]])]
           Step(R, i) == InsertTimer(R, new[i])
           Is(g) == g = [i \in 0..n |-> IF i = 0 THEN Q ELSE Step(g[i - 1], i)]
           to == InsertUpTo(Q, new)
<1>1. n \in Nat /\ \A i \in 1..n : i - 1 \in 0..n /\ i \in 0..n /\ new[i] \in Slots /\ new[i] \in Range(new)
  BY InRange
<1>2. \A i, j \in 1..n : new[i] = new[j] => i = j
  BY ZenonT(30) DEF Distinct
<1>3. In(Q, 0)
  <2>1. {new[j] : j \in 1..0} = {}
    OBVIOUS
  <2> QED BY <2>1
<1>4. {new[j] : j \in 1..n} = Range(new)
  BY InRange
<1> HIDE DEF n
<1>5. ASSUME NEW i \in 1..n, NEW R, In(R, i - 1) PROVE In(InsertTimer(R, new[i]), i)
  <2> DEFINE e == new[i]
             M == InsertTimer(R, e)
             Old == {new[j] : j \in 1..i - 1}
             All == {new[j] : j \in 1..i}
  <2>1. e \in Slots /\ e \in Range(new) /\ i \in Nat /\ i # 0
    BY <1>1
  <2>2. \A j \in 1..i - 1 : j \in 1..n /\ j # i
    BY <1>1
  <2>3. e \notin Old /\ All = Old \cup {e}
    <3>1. e \notin Old
      BY <1>2, <2>2, ZenonT(30)
    <3>2. \A j \in 1..i : j = i \/ j \in 1..i - 1
      BY <2>1
    <3>3. \A j \in 1..i - 1 : j \in 1..i
      BY <2>1
    <3>4. i \in 1..i
      BY <2>1
    <3> QED BY <3>1, <3>2, <3>3, <3>4, ZenonT(30)
  <2>4. Good(R, d, l) /\ Range(R.timers) = Range(Q.timers) \cup Old
    BY <1>5
  <2> HIDE DEF e, Old, All
  <2>5. e \notin Range(R.timers)
    BY <2>1, <2>3, <2>4, ZenonT(30)
  <2>6. R.tv[e] = Q.tv[e] /\ Started(R.tv[e], d[e])
    BY <1>5, <2>1, <2>5
  <2>7. Good(M, d, l) /\ OneMore(R, M, e)
    BY <2>1, <2>4, <2>5, <2>6, InsertedOne, Zenon
  <2> HIDE DEF M
  <2>8. Range(M.timers) = Range(Q.timers) \cup All
    BY <2>3, <2>4, <2>7, ZenonT(30) DEF OneMore
  <2>9. \A s \in Slots : s \notin Range(M.timers) => M.tv[s] = Q.tv[s]
    BY <1>5, <2>7, ZenonT(30) DEF OneMore
  <2> QED BY <2>7, <2>8, <2>9, Zenon DEF M, e, All
<1> HIDE DEF In
<1>6. \A i \in 1..n : \A R \in T[i - 1] : F[<<i, R>>] \in T[i] /\ F[<<i, R>>] = InsertTimer(R, new[i])
  <2> SUFFICES ASSUME NEW i \in 1..n, NEW R \in T[i - 1]
               PROVE  F[<<i, R>>] \in T[i] /\ F[<<i, R>>] = InsertTimer(R, new[i])
    BY Zenon
  <2>1. R \in Inserting /\ In(R, i - 1)
    BY <1>1, ZenonT(30)
  <2>2. F[<<i, R>>] = InsertTimer(R, new[i])
    BY <2>1, ZenonT(30)
  <2>3. In(InsertTimer(R, new[i]), i)
    BY <1>5, <2>1
  <2>4. InsertTimer(R, new[i]) \in Inserting
    BY <2>3, Zenon DEF In, Good
  <2>5. InsertTimer(R, new[i]) \in T[i]
    BY <1>1, <2>3, <2>4, ZenonT(30)
  <2> QED BY <2>2, <2>5
<1>7. Q \in T[0]
  <2>1. Q \in Inserting
    BY DEF Good
  <2> QED BY <1>1, <1>3, <2>1
<1>8. PICK g : Walk(g, n, T, F, Q)
  <2> HIDE DEF T, F
  <2> QED BY <1>1, <1>6, <1>7, Iterates, Zenon
<1>9. Is(g)
  <2> HIDE DEF T, F, Step
  <2>1. /\ g = [i \in 0..n |-> g[i]]
        /\ g[0] = Q
        /\ \A i \in 1..n : g[i] = F[<<i, g[i - 1]>>] /\ g[i - 1] \in T[i - 1]
    BY <1>1, <1>8, Zenon DEF Walk
  <2>2. \A i \in 0..n : i = 0 \/ i \in 1..n
    BY <1>1
  <2>3. \A i \in 0..n : g[i] = IF i = 0 THEN Q ELSE Step(g[i - 1], i)
    BY <1>6, <2>1, <2>2, Zenon DEF Step
  <2> QED BY <2>1, <2>3, Zenon
<1>10. to = CHOOSE f : Is(f)
  BY DEF InsertUpTo, n
<1>11. Is(to)
  <2> HIDE DEF Is, to
  <2> QED BY <1>9, <1>10
<1>12. to[0] = Q /\ \A i \in 1..n : to[i] = Step(to[i - 1], i)
  <2> HIDE DEF to, F, T, Step
  <2>1. 0 \in 0..n /\ \A i \in 1..n : i \in 0..n /\ i # 0
    BY <1>1
  <2>2. to[0] = Q
    BY <1>11, <2>1
  <2>3. ASSUME NEW i \in 1..n PROVE to[i] = Step(to[i - 1], i)
    BY <1>11, <2>1, Zenon
  <2> QED BY <2>2, <2>3
<1> DEFINE G == {i \in 0..n : In(to[i], i)}
<1> HIDE DEF to, F, T
<1>13. 0 \in G
  BY <1>1, <1>3, <1>12
<1>14. ASSUME NEW i \in 0..n - 1, i \in G PROVE i + 1 \in G
  <2>1. i + 1 \in 1..n /\ (i + 1) - 1 = i /\ i + 1 \in 0..n
    BY <1>1
  <2>2. In(to[i], i) /\ to[i + 1] = InsertTimer(to[i], new[i + 1])
    BY <1>12, <1>14, <2>1, ZenonT(30)
  <2>3. In(InsertTimer(to[i], new[i + 1]), i + 1)
    BY <1>5, <2>1, <2>2
  <2> QED BY <2>1, <2>2, <2>3, ZenonT(30)
<1>15. n \in G
  <2> HIDE DEF G
  <2>1. n \in Nat /\ n \in 0..n
    BY <1>1
  <2>2. \A i \in 0..n - 1 : i \in G => i + 1 \in G
    BY <1>14
  <2>3. \A i \in 0..n : i \in G
    BY <1>13, <2>1, <2>2, Along, Zenon
  <2> QED BY <2>1, <2>3
<1> QED BY <1>4, <1>15, ZenonT(30) DEF In, to, n

=============================================================================
