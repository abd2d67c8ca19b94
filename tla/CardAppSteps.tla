---------------------------- MODULE CardAppSteps ----------------------------
(***************************************************************************)
(* The inductive invariant of scdaemon's list of cards and the sessions    *)
(* that use them, and the steps of a session that keep the references to   *)
(* the cards; and what removal from a list does (module Lists).            *)
(***************************************************************************)
EXTENDS CardApp, NaturalsInduction, WellFoundedInduction, TLAPS

\* The seconds a prover gets for a leaf.
USE SMTT(30), ZenonT(30)

-----------------------------------------------------------------------------
(* What removal from a list does, for lists of any length.  The proofs are *)
(* inductions in the form of a least counterexample.                       *)

\* A non-empty set of natural numbers has a least element.
LEMMA MinNat ==
  ASSUME NEW T, T \subseteq Nat, T # {}
  PROVE \E n \in T : \A m \in T : n <= m
  <1>1. PICK x \in T : \A y \in T : ~(<<y, x>> \in OpToRel(<, Nat))
    BY NatLessThanWellFounded, WFMin, Zenon
  <1>2. \A y \in T : ~(y < x)
    BY <1>1, ZenonT(30) DEF OpToRel
  <1> QED BY <1>2

\* The walk over the list is well-defined: what is kept of the first i elements
\* follows from what is kept of those before.
LEMMA KeptUpToDef ==
  ASSUME NEW S, NEW s \in Seq(S), NEW X
  PROVE  KeptUpTo(s, X) = [i \in 0..Len(s) |->
         IF i = 0 THEN <<>>
         ELSE IF s[i] \in X THEN KeptUpTo(s, X)[i - 1] ELSE Append(KeptUpTo(s, X)[i - 1], s[i])]
  <1> DEFINE V(v, i) == IF i = 0 THEN <<>> ELSE IF s[i] \in X THEN v ELSE Append(v, s[i])
             Is(g, n) == g = [i \in 0..n |-> V(g[i - 1], i)]
             Bad == {n \in Nat : n <= Len(s) /\ ~\E g : Is(g, n)}
  <1>0. Len(s) \in Nat
    OBVIOUS
  <1>a. \A v, w : V(v, 0) = V(w, 0)
    OBVIOUS
  <1>1. Bad = {}
    <2> HIDE DEF V
    <2> SUFFICES ASSUME Bad # {} PROVE FALSE
      OBVIOUS
    <2>1. PICK n \in Bad : \A m \in Bad : n <= m
      <3> HIDE DEF Is
      <3>1. Bad \subseteq Nat
        OBVIOUS
      <3> HIDE DEF Bad
      <3> QED BY <3>1, MinNat, ZenonT(30)
    <2>a. n \in Nat /\ n <= Len(s) /\ ~\E g : Is(g, n)
      BY <2>1
    <2>2. CASE n = 0
      <3> DEFINE g0 == [i \in 0..0 |-> V(0, 0)]
      <3>1. Is(g0, 0)
        BY <1>a
      <3> QED BY <3>1, <2>2, <2>a
    <2>3. CASE n # 0
      <3>1. n - 1 \in Nat /\ n - 1 <= Len(s)
        BY <2>a, <2>3, <1>0
      <3>2. n - 1 \notin Bad
        <4> HIDE DEF Bad
        <4> QED BY <2>1, <2>a, <3>1
      <3>3. PICK g : Is(g, n - 1)
        <4> HIDE DEF Is
        <4> QED BY <3>1, <3>2
      <3> DEFINE h == [i \in 0..n |-> V(g[i - 1], i)]
      <3>4. \A i \in 0..(n - 1) : g[i] = V(g[i - 1], i)
        BY <3>3
      <3>5. \A i \in 0..(n - 1) : h[i] = g[i]
        BY <3>4, <2>a
      <3>6. \A i \in 0..n : V(h[i - 1], i) = V(g[i - 1], i)
        <4> SUFFICES ASSUME NEW i \in 0..n PROVE V(h[i - 1], i) = V(g[i - 1], i)
          BY ZenonT(30)
        <4>1. CASE i = 0
          BY <4>1, <1>a
        <4>2. CASE i # 0
          <5>1. i - 1 \in 0..(n - 1)
            BY <4>2, <2>a
          <5> QED BY <5>1, <3>5, ZenonT(30)
        <4> QED BY <4>1, <4>2
      <3>7. Is(h, n)
        BY <3>6
      <3> QED BY <3>7, <2>a, ZenonT(30)
    <2> QED BY <2>2, <2>3
  <1>2. PICK g : Is(g, Len(s))
    <2> HIDE DEF Is
    <2> QED BY <1>0, <1>1
  <1> QED BY <1>2, ZenonT(30) DEF KeptUpTo

\* Removal leaves a list, which has all elements of the old one except the removed
\* ones.
LEMMA WithoutRange ==
  ASSUME NEW S, NEW s \in Seq(S), NEW X
  PROVE  Without(s, X) \in Seq(S) /\ Range(Without(s, X)) = Range(s) \ X
  <1> DEFINE K == KeptUpTo(s, X)
             Good(n) == K[n] \in Seq(S) /\ Range(K[n]) = {s[i] : i \in 1..n} \ X
             Bad == {n \in Nat : n <= Len(s) /\ ~Good(n)}
  <1>0. Len(s) \in Nat /\ DOMAIN s = 1..Len(s)
    OBVIOUS
  <1>1. K[0] = <<>>
    BY <1>0, KeptUpToDef
  <1>2. \A n \in 1..Len(s) : K[n] = IF s[n] \in X THEN K[n - 1] ELSE Append(K[n - 1], s[n])
    <2> HIDE DEF K
    <2> SUFFICES ASSUME NEW n \in 1..Len(s)
                 PROVE  K[n] = IF s[n] \in X THEN K[n - 1] ELSE Append(K[n - 1], s[n])
      OBVIOUS
    <2>1. n \in 0..Len(s) /\ n # 0
      BY <1>0
    <2>2. K = [i \in 0..Len(s) |->
                 IF i = 0 THEN <<>>
                 ELSE IF s[i] \in X THEN K[i - 1] ELSE Append(K[i - 1], s[i])]
      BY KeptUpToDef DEF K
    <2> QED BY <2>1, <2>2, ZenonT(30)
  <1> HIDE DEF K
  <1>3. Bad = {}
    <2> SUFFICES ASSUME Bad # {} PROVE FALSE
      BY ZenonT(30)
    <2>1. PICK n \in Bad : \A m \in Bad : n <= m
      <3> HIDE DEF Good
      <3>1. Bad \subseteq Nat
        OBVIOUS
      <3> HIDE DEF Bad
      <3> QED BY <3>1, MinNat, ZenonT(30)
    <2>2. n \in Nat /\ n <= Len(s) /\ ~Good(n)
      BY <2>1, ZenonT(30)
    <2>3. CASE n = 0
      <3>1. Good(0)
        BY <1>1 DEF Range
      <3> QED BY <2>2, <2>3, <3>1
    <2>4. CASE n # 0
      <3>1. n - 1 \in Nat /\ n - 1 <= Len(s) /\ n \in 1..Len(s)
        BY <1>0, <2>2, <2>4
      <3>2. n - 1 \notin Bad
        <4> HIDE DEF Bad
        <4> QED BY <2>1, <2>2, <3>1
      <3>3. Good(n - 1)
        <4> HIDE DEF Good
        <4> QED BY <3>1, <3>2
      <3>4. s[n] \in S
        BY <1>0, <3>1
      <3>5. {s[i] : i \in 1..n} = {s[i] : i \in 1..(n - 1)} \cup {s[n]}
        BY <3>1
      <3>6. CASE s[n] \in X
        BY <1>2, <3>1, <3>3, <3>5, <3>6, <2>2
      <3>7. CASE s[n] \notin X
        <4>1. K[n] = Append(K[n - 1], s[n])
          BY <1>2, <3>1, <3>7, ZenonT(30)
        <4>2. K[n] \in Seq(S)
          BY <3>3, <3>4, <4>1
        <4>3. Range(K[n]) = Range(K[n - 1]) \cup {s[n]}
          <5> DEFINE k == K[n - 1]
          <5>1. k \in Seq(S) /\ Len(k) \in Nat
            BY <3>3
          <5>2. Len(Append(k, s[n])) = Len(k) + 1
            BY <5>1, <3>4
          <5>3. \A i \in 1..Len(k) : Append(k, s[n])[i] = k[i]
            BY <5>1, <3>4
          <5>4. Append(k, s[n])[Len(k) + 1] = s[n]
            BY <5>1, <3>4
          <5>5. DOMAIN Append(k, s[n]) = 1..(Len(k) + 1) /\ DOMAIN k = 1..Len(k)
            BY <5>1, <5>2, <3>4
          <5> HIDE DEF k
          <5>6. Range(Append(k, s[n])) = Range(k) \cup {s[n]}
            BY <5>1, <5>3, <5>4, <5>5 DEF Range
          <5> QED BY <4>1, <5>6 DEF k
        <4> QED BY <2>2, <3>3, <3>5, <3>7, <4>2, <4>3, ZenonT(30)
      <3> QED BY <3>6, <3>7
    <2> QED BY <2>3, <2>4
  <1>4. Good(Len(s))
    <2> HIDE DEF Good
    <2> QED BY <1>0, <1>3
  <1> QED BY <1>0, <1>4, ZenonT(30) DEF Without, K, Range
\* An element in front of a list, and moved to the front.
LEMMA Moved ==
    ASSUME NEW S, NEW p \in Seq(S), NEW x \in S
    PROVE  /\ <<x>> \o p \in Seq(S) /\ Range(<<x>> \o p) = {x} \cup Range(p)
           /\ <<x>> \o Without(p, {x}) \in Seq(S)
           /\ Range(<<x>> \o Without(p, {x})) = {x} \cup Range(p)
  <1>1. ASSUME NEW q \in Seq(S)
        PROVE  <<x>> \o q \in Seq(S) /\ Range(<<x>> \o q) = {x} \cup Range(q)
    <2> DEFINE u == <<x>> \o q
    <2>1. Len(q) \in Nat /\ u \in Seq(S) /\ Len(u) = Len(q) + 1
      OBVIOUS
    <2>2. u[1] = x /\ \A i \in 1..Len(q) : u[i + 1] = q[i]
      OBVIOUS
    <2> HIDE DEF u
    <2>3. DOMAIN u = 1..(Len(q) + 1) /\ DOMAIN q = 1..Len(q)
      BY <2>1
    <2>4. \A y : y \in Range(u) => y \in {x} \cup Range(q)
      <3> SUFFICES ASSUME NEW i \in 1..(Len(q) + 1) PROVE u[i] \in {x} \cup Range(q)
        BY <2>3 DEF Range
      <3>1. CASE i = 1
        BY <2>2, <3>1
      <3>2. CASE i # 1
        <4>1. i - 1 \in 1..Len(q) /\ (i - 1) + 1 = i
          BY <2>1, <3>2
        <4>2. u[i] = q[i - 1]
          BY <2>2, <4>1
        <4> QED BY <2>3, <4>1, <4>2 DEF Range
      <3> QED BY <3>1, <3>2
    <2>5. \A y : y \in {x} \cup Range(q) => y \in Range(u)
      <3>1. x \in Range(u)
        <4>1. 1 \in DOMAIN u
          BY <2>1, <2>3
        <4> QED BY <2>2, <4>1 DEF Range
      <3>2. ASSUME NEW i \in DOMAIN q PROVE q[i] \in Range(u)
        <4>1. i + 1 \in DOMAIN u /\ u[i + 1] = q[i]
          BY <2>1, <2>2, <2>3
        <4> QED BY <4>1 DEF Range
      <3> QED BY <3>1, <3>2 DEF Range
    <2>6. Range(u) = {x} \cup Range(q)
      BY <2>4, <2>5
    <2> QED BY <2>1, <2>6 DEF u
  <1>2. Without(p, {x}) \in Seq(S) /\ Range(Without(p, {x})) = Range(p) \ {x}
    BY WithoutRange
  <1>3. <<x>> \o p \in Seq(S) /\ Range(<<x>> \o p) = {x} \cup Range(p)
    BY <1>1
  <1>4. /\ <<x>> \o Without(p, {x}) \in Seq(S)
        /\ Range(<<x>> \o Without(p, {x})) = {x} \cup Range(Without(p, {x}))
    BY <1>1, <1>2, Zenon
  <1> QED BY <1>2, <1>3, <1>4, Zenon

-----------------------------------------------------------------------------
(* The inductive invariant. *)

\* The names of applications that occur, also those only clients know.
Names == Apps \cup {q.app : q \in Cmds} \cup {None}

PCs == {"closed", "idle", "get", "walk", "lock", "op", "sleep", "switch", "newlock",
        "scan", "register", "select", "null"}

CardData == [apps : Seq(Names), phys : Names, ref : Nat, owner : Sessions \cup {None},
             reset : BOOLEAN, aid : BOOLEAN, left : BOOLEAN]

CmdNames == {"serialno", "serialno2", "op", "keyop", "apdu", "switchapp", "switchcard",
             "keyinfo", "allapps", "apps", "restart", "reset", "end", None}

SessionData == [pc : PCs, cmd : CmdNames, app : Names, sn : Cards \cup {None},
                all : BOOLEAN, card : Cards \cup {None}, ctx : Cards \cup {None},
                cur : Names, removed : BOOLEAN, first : Cards \cup {None}]

Types ==
    /\ list \in Seq(Cards)
    /\ card \in [Cards -> CardData]
    /\ ses \in [Sessions -> SessionData]
    /\ locked \in Sessions \cup {None}
    /\ plugged \subseteq Cards

\* A card of the list has an application; the card itself has selected the first
\* one, unless a lookup or an APDU command has changed that, or it was reset or
\* pulled out.
Usable(k, in) ==
    /\ k.apps # <<>>
    /\ in /\ ~k.left /\ ~k.reset /\ ~k.aid => k.phys = k.apps[1]

CardInv(c) == Usable(card[c], c \in plugged)

\* The card a session works on.
Place(s) ==
    /\ ses[s].ctx \in Range(list) \cup {None}
    /\ HoldsList(s) => ses[s].card \in Range(list)
    /\ ses[s].pc \in {"lock", "op", "sleep"} /\ ses[s].cmd # "keyop" =>
         ses[s].card = ses[s].ctx
    /\ ses[s].pc \in {"newlock", "scan", "register", "select"} =>
         ses[s].ctx = None /\ ses[s].first = None
    /\ ses[s].pc = "register" => ses[s].card \in Cards \ Range(list)

\* The card of the first operation is that of the session, until the session is
\* told that it has been removed or asks for a card.
First(s) ==
    /\ ses[s].first # None =>
         ses[s].ctx = ses[s].first \/ (ses[s].ctx = None /\ ses[s].removed)
    /\ ses[s].pc \notin {"idle", "closed"}
       /\ ses[s].cmd \in {"serialno", "serialno2", "restart", "reset"} => ses[s].first = None
    /\ ses[s].pc = "op" /\ ses[s].cmd = "op" => ses[s].card = ses[s].first

\* A session that works with a card has its mutex, and that card has the
\* application of the session at the head of its list.
Owner(s) ==
    /\ ses[s].pc \in {"op", "sleep"} => card[ses[s].card].owner = s
    /\ ses[s].pc = "op" => ses[s].cur = Head1(ses[s].card) /\ ~card[ses[s].card].aid

\* A session that has locked the card is still there.
Locker(s) == locked = s => ses[s].pc # "closed"

SesInv(s) == Place(s) /\ First(s) /\ Owner(s) /\ Locker(s)

\* new_card_lock has one owner.
OneScan ==
    \A s, t \in Sessions :
      ses[s].pc \in {"scan", "register"} /\ ses[t].pc \in {"scan", "register"} => s = t

IInv ==
    /\ Types
    /\ \A c \in Range(list) : CardInv(c)
    /\ \A s \in Sessions : SesInv(s)
    /\ OneScan
    /\ RefCounts

-----------------------------------------------------------------------------
(* The applications of a card. *)

\* k becomes j: the card is usable and nothing but its applications has changed.
Becomes(k, j, in) ==
    /\ j \in CardData
    /\ Usable(k, in) => Usable(j, in)
    /\ j.ref = k.ref /\ j.owner = k.owner /\ j.reset = k.reset

\* The sequence of the applications after one or more were put in front of others.
LEMMA Front ==
    ASSUME NEW S, NEW p \in Seq(S), NEW q \in Seq(S), p # <<>>
    PROVE  p \o q \in Seq(S) /\ p \o q # <<>> /\ (p \o q)[1] = p[1]
  <1>1. Len(p) \in Nat /\ Len(q) \in Nat /\ Len(p) > 0
    OBVIOUS
  <1>2. p \o q \in Seq(S) /\ Len(p \o q) = Len(p) + Len(q)
    OBVIOUS
  <1>3. 1 \in 1..Len(p)
    BY <1>1
  <1>4. (p \o q)[1] = p[1]
    BY <1>1, <1>3
  <1>5. p \o q # <<>>
    BY <1>1, <1>2
  <1> QED BY <1>2, <1>4, <1>5

\* The first application of a card is one.
LEMMA FirstApp ==
    ASSUME NEW k \in CardData, k.apps # <<>>
    PROVE  k.apps[1] \in Names /\ k.apps[1] \in Range(k.apps)
  <1>1. k.apps \in Seq(Names)
    BY DEF CardData
  <1>2. 1 \in DOMAIN k.apps
    BY <1>1
  <1> QED BY <1>1, <1>2 DEF Range

\* run_reselect: the application is the first one and is selected.
LEMMA ReselectFacts ==
    ASSUME NEW k \in CardData, NEW a \in Names, NEW in
    PROVE  /\ Reselect(k, a) \in CardData
           /\ Usable(Reselect(k, a), in)
           /\ Reselect(k, a).apps[1] = a
           /\ Reselect(k, a).ref = k.ref /\ Reselect(k, a).owner = k.owner
           /\ Reselect(k, a).reset = k.reset /\ Reselect(k, a).aid = k.aid
           /\ ~Reselect(k, a).left /\ Reselect(k, a).phys = a
  <1> DEFINE rest == Without(k.apps, {a})
             apps == <<a>> \o rest
  <1>1. k.apps \in Seq(Names)
    BY DEF CardData
  <1>2. rest \in Seq(Names)
    BY <1>1, WithoutRange
  <1>3. <<a>> \in Seq(Names) /\ <<a>> # <<>> /\ <<a>>[1] = a
    OBVIOUS
  <1> HIDE DEF rest
  <1>4. apps \in Seq(Names) /\ apps # <<>> /\ apps[1] = a
    BY <1>2, <1>3, Front
  <1>5. Reselect(k, a) = [k EXCEPT !.phys = a, !.left = FALSE, !.apps = apps]
    BY DEF Reselect, rest
  <1> HIDE DEF apps
  <1> QED BY <1>4, <1>5, Zenon DEF CardData, Usable

\* select_all_additional_applications_internal keeps the first application.
LEMMA SelectAllFacts ==
    ASSUME NEW k \in CardData, NEW c \in Cards, NEW in, Usable(k, in)
    PROVE  Becomes(k, SelectAll(k, c), in)
  <1> DEFINE more == Without(AppsOf[c], Range(k.apps))
  <1>1. AppsOf[c] \in Seq(Names)
    <2>1. AppsOf[c] \in Seq(Apps)
      BY CardAssumption
    <2> QED BY <2>1 DEF Names
  <1>2. more \in Seq(Names)
    BY <1>1, WithoutRange
  <1>3. k.apps \in Seq(Names) /\ k.apps # <<>>
    BY DEF CardData, Usable
  <1>4. SelectAll(k, c) = IF more = <<>> THEN k
          ELSE [k EXCEPT !.apps = k.apps \o more, !.phys = k.apps[1], !.left = FALSE]
    BY DEF SelectAll
  <1> HIDE DEF more
  <1>5. k.apps \o more \in Seq(Names) /\ k.apps \o more # <<>> /\ (k.apps \o more)[1] = k.apps[1]
    BY <1>2, <1>3, Front
  <1>6. k.apps[1] \in Names
    BY <1>3, FirstApp
  <1>7. CASE more = <<>>
    BY <1>4, <1>7 DEF Becomes
  <1>8. CASE more # <<>>
    <2>1. SelectAll(k, c) = [k EXCEPT !.apps = k.apps \o more, !.phys = k.apps[1], !.left = FALSE]
      BY <1>4, <1>8
    <2> DEFINE apps == k.apps \o more
    <2> HIDE DEF apps
    <2>2. SelectAll(k, c) = [k EXCEPT !.apps = apps, !.phys = k.apps[1], !.left = FALSE]
      BY <2>1 DEF apps
    <2>3. apps \in Seq(Names) /\ apps # <<>> /\ apps[1] = k.apps[1]
      BY <1>5 DEF apps
    <2> QED BY <1>6, <2>2, <2>3, Zenon DEF CardData, Becomes, Usable
  <1> QED BY <1>7, <1>8

\* select_additional_application_internal.
LEMMA SelectAdditionalFacts ==
    ASSUME NEW k \in CardData, NEW a \in Names, NEW in, Usable(k, in)
    PROVE  Becomes(k, SelectAdditional(k, a), in)
  <1>1. CASE a \in Range(k.apps)
    BY <1>1 DEF SelectAdditional, Becomes
  <1>2. CASE a \notin Range(k.apps)
    <2> DEFINE apps == <<a>> \o k.apps
    <2>1. k.apps \in Seq(Names)
      BY DEF CardData
    <2>2. <<a>> \in Seq(Names) /\ <<a>> # <<>> /\ <<a>>[1] = a
      OBVIOUS
    <2>3. apps \in Seq(Names) /\ apps # <<>> /\ apps[1] = a
      BY <2>1, <2>2, Front
    <2>4. SelectAdditional(k, a) = [k EXCEPT !.apps = apps, !.phys = a, !.left = FALSE]
      BY <1>2 DEF SelectAdditional
    <2> HIDE DEF apps
    <2> QED BY <2>3, <2>4, Zenon DEF CardData, Becomes, Usable
  <1> QED BY <1>1, <1>2

\* The forced re-select after the use of the APDU command.
LEMMA CheckAidFacts ==
    ASSUME NEW k \in CardData, NEW ok \in BOOLEAN, Usable(k, ok)
    PROVE  Becomes(k, CheckAid(k, ok), ok) /\ ~CheckAid(k, ok).aid
  <1>1. CASE ~k.aid
    BY <1>1 DEF CheckAid, Becomes
  <1>2. CASE k.aid /\ ok
    <2> DEFINE a == k.apps[1]
               j == Reselect(k, a)
    <2>1. a \in Names
      BY FirstApp DEF Usable
    <2>2. CheckAid(k, ok) = [j EXCEPT !.aid = FALSE]
      BY <1>2 DEF CheckAid
    <2> HIDE DEF a
    <2>3. /\ j \in CardData /\ j.apps # <<>> /\ j.apps[1] = a
          /\ j.ref = k.ref /\ j.owner = k.owner /\ j.reset = k.reset /\ j.phys = a
      BY <2>1, ReselectFacts DEF Usable
    <2> HIDE DEF j
    <2> QED BY <2>2, <2>3, Zenon DEF CardData, Becomes, Usable
  <1>3. CASE k.aid /\ ~ok
    <2>1. CheckAid(k, ok) = [k EXCEPT !.aid = FALSE]
      BY <1>3 DEF CheckAid
    <2> QED BY <1>3, <2>1, Zenon DEF CardData, Becomes, Usable
  <1> QED BY <1>1, <1>2, <1>3

\* maybe_switch_app: without an error the session's application is the first one.
LEMMA MaybeSwitchFacts ==
    ASSUME NEW k \in CardData, NEW cur \in Names, NEW want \in Names,
           NEW ok \in BOOLEAN, Usable(k, ok)
    PROVE  /\ Becomes(k, MaybeSwitchApp(k, cur, want, ok).k, ok)
           /\ MaybeSwitchApp(k, cur, want, ok).cur \in Names
           /\ ~MaybeSwitchApp(k, cur, want, ok).k.aid
           /\ ~MaybeSwitchApp(k, cur, want, ok).err =>
                MaybeSwitchApp(k, cur, want, ok).cur =
                  MaybeSwitchApp(k, cur, want, ok).k.apps[1]
  <1> DEFINE j == CheckAid(k, ok)
             target == IF want \in Range(j.apps) THEN want ELSE cur
             m == MaybeSwitchApp(k, cur, want, ok)
  <1>1. Becomes(k, j, ok) /\ ~j.aid
    BY CheckAidFacts
  <1>2. j \in CardData /\ Usable(j, ok) /\ j.apps # <<>>
    BY <1>1 DEF Becomes, Usable
  <1>3. j.apps[1] \in Names
    BY <1>2, FirstApp
  <1>4. m = IF cur \notin Range(j.apps) THEN [k |-> j, cur |-> j.apps[1], err |-> FALSE]
            ELSE IF target = j.apps[1] /\ cur = j.apps[1] THEN [k |-> j, cur |-> cur, err |-> FALSE]
            ELSE IF ok THEN [k |-> Reselect(j, target), cur |-> target, err |-> FALSE]
            ELSE [k |-> j, cur |-> cur, err |-> TRUE]
    BY DEF MaybeSwitchApp
  <1>5. target \in Names
    OBVIOUS
  <1>6. /\ Becomes(k, Reselect(j, target), ok) /\ ~Reselect(j, target).aid
        /\ Reselect(j, target).apps[1] = target
    BY <1>1, <1>2, <1>5, ReselectFacts DEF Becomes
  <1> HIDE DEF j, target, m
  <1> QED BY <1>1, <1>3, <1>4, <1>5, <1>6 DEF m

-----------------------------------------------------------------------------
(* What a step of session s leaves to the others. *)

\* The other sessions: a SERIALNO may tell them that their card is present.
Others(s) ==
    \A t \in Sessions \ {s} :
      \/ ses'[t] = ses[t]
      \/ ses[t].ctx # None /\ ses'[t] = [ses[t] EXCEPT !.removed = FALSE]

\* The cards that other sessions work with.
CardsKept(s) ==
    \A t \in Sessions \ {s} : ses[t].pc \in {"op", "sleep"} =>
      /\ card'[ses[t].card].apps = card[ses[t].card].apps
      /\ card'[ses[t].card].aid = card[ses[t].card].aid
      /\ card'[ses[t].card].owner = card[ses[t].card].owner

\* A step of session s that keeps to this preserves the invariant of the others.
LEMMA OthersInv ==
    ASSUME IInv, NEW s \in Sessions, Others(s), CardsKept(s),
           Range(list') = Range(list), locked' \in {locked, None},
           NEW t \in Sessions, t # s
    PROVE  SesInv(t)' /\ ses'[t].ctx = ses[t].ctx /\ ses'[t].pc = ses[t].pc
  <1> USE CardAssumption
  <1>1. ses[t] \in SessionData
    BY DEF IInv, Types
  <1>2. /\ ses'[t].pc = ses[t].pc /\ ses'[t].cmd = ses[t].cmd
        /\ ses'[t].card = ses[t].card /\ ses'[t].ctx = ses[t].ctx
        /\ ses'[t].cur = ses[t].cur /\ ses'[t].first = ses[t].first
        /\ ses'[t].removed = ses[t].removed \/ ses[t].ctx # None
    <2>1. CASE ses'[t] = ses[t]
      BY <2>1
    <2>2. CASE ses[t].ctx # None /\ ses'[t] = [ses[t] EXCEPT !.removed = FALSE]
      BY <1>1, <2>2, Zenon DEF SessionData
    <2> QED BY <2>1, <2>2 DEF Others
  <1>3. Place(t) /\ First(t) /\ Owner(t) /\ Locker(t)
    BY DEF IInv, SesInv
  <1>4. Place(t)'
    BY <1>2, <1>3 DEF Place, HoldsList
  <1>5. First(t)'
    BY <1>2, <1>3 DEF First
  <1>6. Owner(t)'
    <2>1. CASE ses[t].pc \in {"op", "sleep"}
      <3>1. card[ses[t].card].owner = t
        BY <1>3, <2>1 DEF Owner
      <3>2. /\ card'[ses[t].card].apps = card[ses[t].card].apps
            /\ card'[ses[t].card].aid = card[ses[t].card].aid
            /\ card'[ses[t].card].owner = t
        BY <2>1, <3>1 DEF CardsKept
      <3> QED BY <1>2, <1>3, <3>2 DEF Owner, Head1
    <2>2. CASE ses[t].pc \notin {"op", "sleep"}
      BY <1>2, <2>2 DEF Owner
    <2> QED BY <2>1, <2>2
  <1>7. Locker(t)'
    BY <1>2, <1>3 DEF Locker
  <1> QED BY <1>2, <1>4, <1>5, <1>6, <1>7 DEF SesInv

\* So the invariant is preserved if the step preserves that of session s and of
\* the cards.
LEMMA Frame ==
    ASSUME IInv, NEW s \in Sessions, Others(s), CardsKept(s),
           Range(list') = Range(list), locked' \in {locked, None},
           Types', SesInv(s)', RefCounts',
           \A c \in Range(list) : CardInv(c)',
           ses'[s].pc \in {"scan", "register"} =>
             \A t \in Sessions \ {s} : ses[t].pc \notin {"scan", "register"}
    PROVE  IInv'
  <1>1. \A t \in Sessions \ {s} : SesInv(t)' /\ ses'[t].pc = ses[t].pc
    BY OthersInv
  <1>2. \A t \in Sessions : SesInv(t)'
    BY <1>1
  <1>3. OneScan'
    BY <1>1 DEF IInv, OneScan
  <1> QED BY <1>2, <1>3 DEF IInv

\* A step that changes no card and no session but s, and keeps the card of s.
LEMMA SessionStep ==
    ASSUME IInv, NEW s \in Sessions, NEW r \in SessionData, Set(s, r),
           r.ctx = ses[s].ctx, SesInv(s)',
           UNCHANGED <<list, card, plugged>>, locked' \in {locked, None},
           r.pc \in {"scan", "register"} =>
             \A t \in Sessions \ {s} : ses[t].pc \notin {"scan", "register"}
    PROVE  IInv'
  <1>1. ses \in [Sessions -> SessionData]
    BY DEF IInv, Types
  <1>2. ses'[s] = r /\ \A t \in Sessions \ {s} : ses'[t] = ses[t]
    BY <1>1 DEF Set
  <1>3. Types'
    BY <1>1 DEF Set, IInv, Types
  <1>4. Others(s) /\ CardsKept(s)
    BY <1>2 DEF Others, CardsKept
  <1>5. RefCounts'
    <2>1. \A t \in Sessions : ses'[t].ctx = ses[t].ctx
      BY <1>2
    <2>2. \A c \in Cards : {t \in Sessions : ses'[t].ctx = c} = {t \in Sessions : ses[t].ctx = c}
      BY <2>1
    <2> QED BY <2>2 DEF IInv, RefCounts
  <1>6. \A c \in Range(list) : CardInv(c)'
    BY DEF IInv, CardInv
  <1> QED BY <1>2, <1>3, <1>4, <1>5, <1>6, Frame

\* A card that is free or belongs to s is none that another session works with.
LEMMA OneCard ==
    ASSUME IInv, NEW s \in Sessions, NEW c \in Cards, card[c].owner \in {None, s},
           \A d \in Cards \ {c} : card'[d] = card[d]
    PROVE  CardsKept(s)
  <1> SUFFICES ASSUME NEW t \in Sessions \ {s}, ses[t].pc \in {"op", "sleep"}
               PROVE  card'[ses[t].card] = card[ses[t].card]
    BY DEF CardsKept
  <1>1. Owner(t) /\ Place(t)
    BY DEF IInv, SesInv
  <1>2. card[ses[t].card].owner = t /\ ses[t].card \in Range(list)
    BY <1>1 DEF Owner, Place, HoldsList
  <1>3. ses[t].card \in Cards
    BY <1>2 DEF IInv, Types, Range
  <1>4. t # None
    BY CardAssumption
  <1> QED BY <1>2, <1>3, <1>4

\* The same if the step also changes a card that is free or belongs to s, and
\* leaves its references alone.
LEMMA CardStep ==
    ASSUME IInv, NEW s \in Sessions, Others(s), ses' \in [Sessions -> SessionData],
           ses'[s].ctx = ses[s].ctx, SesInv(s)',
           NEW c \in Range(list), card[c].owner \in {None, s},
           NEW k \in CardData, card' = [card EXCEPT ![c] = k],
           Usable(k, c \in plugged), k.ref = card[c].ref,
           UNCHANGED <<list, plugged>>, locked' \in {locked, None},
           ses'[s].pc \notin {"scan", "register"}
    PROVE  IInv'
  <1>1. c \in Cards
    BY DEF IInv, Types, Range
  <1>2. card'[c] = k /\ \A d \in Cards \ {c} : card'[d] = card[d]
    BY <1>1 DEF IInv, Types
  <1>3. Types'
    BY <1>1 DEF IInv, Types
  <1>4. CardsKept(s)
    BY <1>1, <1>2, OneCard
  <1>5. \A t \in Sessions : ses'[t].ctx = ses[t].ctx
    BY <1>4, OthersInv
  <1>6. RefCounts'
    <2>1. \A d \in Cards : {t \in Sessions : ses'[t].ctx = d} = {t \in Sessions : ses[t].ctx = d}
      BY <1>5
    <2>2. \A d \in Cards : card'[d].ref = card[d].ref
      BY <1>2
    <2> QED BY <2>1, <2>2, Zenon DEF IInv, RefCounts
  <1>7. \A d \in Range(list) : CardInv(d)'
    <2>1. \A d \in Range(list) : d \in Cards
      BY DEF IInv, Types, Range
    <2> QED BY <1>2, <2>1 DEF IInv, CardInv
  <1> QED BY <1>3, <1>4, <1>6, <1>7, Frame

-----------------------------------------------------------------------------
(* The steps that change only the session. *)

\* The end of a command.
LEMMA IdleFields ==
    ASSUME NEW q \in SessionData
    PROVE  /\ Idle(q) \in SessionData
           /\ Idle(q).pc = "idle" /\ Idle(q).ctx = q.ctx /\ Idle(q).first = q.first
           /\ Idle(q).removed = q.removed
  <1>1. None \in CmdNames /\ None \in Names /\ "idle" \in PCs
    BY DEF CmdNames, Names, PCs
  <1> QED BY <1>1, Zenon DEF Idle, SessionData

\* A session without a command satisfies the invariant if its cards do, and if it
\* does not end with the lock.
LEMMA RestInv ==
    ASSUME NEW s \in Sessions, NEW r \in SessionData, ses'[s] = r,
           r.pc \in {"idle", "closed"}, r.pc = "closed" => locked' # s, r.ctx \in Range(list') \cup {None},
           r.first # None => r.ctx = r.first \/ (r.ctx = None /\ r.removed)
    PROVE  SesInv(s)'
  BY DEF SesInv, Place, First, Owner, Locker, HoldsList

\* A session that a client has not opened yet.
LEMMA NewSessionFields ==
    /\ NewSession \in SessionData
    /\ NewSession.pc = "closed" /\ NewSession.ctx = None /\ NewSession.first = None
  <1>1. None \in CmdNames /\ None \in Names /\ "closed" \in PCs
    BY DEF CmdNames, Names, PCs
  <1> QED BY <1>1 DEF NewSession, SessionData

\* What the invariant says of one session.
LEMMA SessionFacts ==
    ASSUME IInv, NEW s \in Sessions
    PROVE  /\ ses[s] \in SessionData /\ ses \in [Sessions -> SessionData]
           /\ Place(s) /\ First(s) /\ Owner(s) /\ Locker(s)
  BY DEF IInv, Types, SesInv

\* The elements of the list are cards.
LEMMA ListCards == ASSUME IInv PROVE Range(list) \subseteq Cards
  BY DEF IInv, Types, Range

\* card_get: the session's card, the first one of the list, or none.
LEMMA CardGetInv ==
    ASSUME IInv, NEW s \in Sessions, CardGet(s)
    PROVE  IInv'
  <1> DEFINE r == ses[s]
             walks == r.cmd \in {"keyop", "keyinfo", "allapps"}
  <1>1. r \in SessionData /\ ses \in [Sessions -> SessionData]
    BY SessionFacts
  <1>2. Place(s) /\ First(s) /\ Owner(s) /\ Locker(s)
    BY SessionFacts
  <1>3. r.pc = "get" /\ UNCHANGED <<list, card, plugged>>
    BY DEF CardGet
  <1>4. locked' \in {locked, None}
    BY DEF CardGet, Unlock
  <1>5. Range(list') = Range(list)
    BY <1>3
  <1>6. CASE walks /\ list # <<>>
    <2> DEFINE q == [r EXCEPT !.pc = "walk", !.card = list[1]]
    <2>1. Set(s, q)
      BY <1>6 DEF CardGet
    <2>2. list[1] \in Range(list) /\ list[1] \in Cards
      <3>1. list \in Seq(Cards) /\ 1 \in DOMAIN list
        BY <1>6 DEF IInv, Types
      <3> QED BY <3>1 DEF Range
    <2>3. q \in SessionData
      BY <1>1, <2>2, Zenon DEF SessionData, PCs
    <2>4. ses'[s] = q
      BY <1>1, <2>1 DEF Set
    <2>5. SesInv(s)'
      BY <1>1, <1>2, <1>3, <1>5, <1>6, <2>2, <2>4
         DEF SesInv, Place, First, Owner, Locker, HoldsList, SessionData
    <2> QED BY <1>1, <1>3, <1>4, <2>1, <2>3, <2>5, SessionStep, Zenon DEF SessionData
  <1>7. CASE ~walks /\ r.ctx # None
    <2> DEFINE q == [r EXCEPT !.pc = "lock", !.card = r.ctx]
    <2>1. Set(s, q)
      BY <1>7 DEF CardGet
    <2>3. q \in SessionData
      BY <1>1, Zenon DEF SessionData, PCs
    <2>4. ses'[s] = q
      BY <1>1, <2>1 DEF Set
    <2>5. SesInv(s)'
      BY <1>1, <1>2, <1>3, <1>5, <1>7, <2>4
         DEF SesInv, Place, First, Owner, Locker, HoldsList, SessionData
    <2> QED BY <1>1, <1>3, <1>4, <2>1, <2>3, <2>5, SessionStep, Zenon DEF SessionData
  <1>8. CASE ~(walks /\ list # <<>>) /\ ~(~walks /\ r.ctx # None)
    <2>0. WithoutCard(s, r)
      BY <1>8 DEF CardGet
    <2>1. CASE r.cmd = "serialno" \/ r.cmd = "serialno2"
      <3> DEFINE p == IF r.cmd = "serialno" THEN "newlock" ELSE "null"
                 q == [r EXCEPT !.pc = p]
      <3>1. Set(s, q)
        BY <2>0, <2>1 DEF WithoutCard
      <3>2. p \in {"newlock", "null"}
        OBVIOUS
      <3>3. r.ctx = None /\ r.first = None
        BY <1>2, <1>3, <1>8, <2>1 DEF First
      <3> HIDE DEF p
      <3>4. q \in SessionData
        BY <1>1, <3>2 DEF SessionData, PCs
      <3>5. ses'[s] = q
        BY <1>1, <3>1 DEF Set
      <3>6. SesInv(s)'
        BY <1>1, <1>2, <1>3, <1>5, <2>1, <3>2, <3>3, <3>5, ZenonT(30) DEF SesInv, Place, First, Owner, Locker, HoldsList, SessionData
      <3> QED BY <1>1, <1>3, <1>4, <3>1, <3>2, <3>4, <3>6, SessionStep, ZenonT(30) DEF SessionData
    <2>2. CASE r.cmd = "end"
      <3>1. Set(s, NewSession)
        BY <2>0, <2>2 DEF WithoutCard
      <3>2. r.ctx = None
        BY <1>8, <2>2
      <3>3. ses'[s] = NewSession
        BY <1>1, <3>1 DEF Set
      <3>4. locked' # s
        BY <1>8, <2>2, CardAssumption DEF CardGet, Unlock
      <3>5. SesInv(s)'
        BY <3>3, <3>4, NewSessionFields, RestInv
      <3> QED BY <1>3, <1>4, <3>1, <3>2, <3>5, NewSessionFields, SessionStep
    <2>3. CASE r.cmd \notin {"serialno", "serialno2", "end"}
      <3>1. Set(s, Idle(r))
        BY <2>0, <2>3 DEF WithoutCard
      <3>2. ses'[s] = Idle(r)
        BY <1>1, <3>1 DEF Set
      <3>3. SesInv(s)'
        BY <1>1, <1>2, <1>5, <3>2, IdleFields, RestInv DEF Place, First
      <3> QED BY <1>1, <1>3, <1>4, <3>1, <3>3, IdleFields, SessionStep
    <2> QED BY <2>1, <2>2, <2>3
  <1> QED BY <1>6, <1>7, <1>8

\* new_card_lock.
LEMMA NewLockInv ==
    ASSUME IInv, NEW s \in Sessions, NewLock(s)
    PROVE  IInv'
  <1> DEFINE r == ses[s]
             q == [r EXCEPT !.pc = "scan"]
  <1>1. r \in SessionData /\ ses \in [Sessions -> SessionData]
    BY SessionFacts
  <1>2. Place(s) /\ First(s) /\ Owner(s) /\ Locker(s)
    BY SessionFacts
  <1>3. /\ r.pc = "newlock" /\ Set(s, q)
        /\ \A t \in Sessions : ses[t].pc \notin {"scan", "register"}
        /\ UNCHANGED <<list, card, plugged, locked>>
    BY DEF NewLock, Goto
  <1>4. q \in SessionData /\ q.ctx = r.ctx
    BY <1>1 DEF SessionData, PCs
  <1>5. ses'[s] = q
    BY <1>1, <1>3 DEF Set
  <1>6. SesInv(s)'
    BY <1>1, <1>2, <1>3, <1>5
       DEF SesInv, Place, First, Owner, Locker, HoldsList, SessionData
  <1> QED BY <1>3, <1>4, <1>6, SessionStep, Zenon

\* The search for a reader with a new card.
LEMMA ScanInv ==
    ASSUME IInv, NEW s \in Sessions, Scan(s)
    PROVE  IInv'
  <1> DEFINE r == ses[s]
  <1>1. r \in SessionData /\ ses \in [Sessions -> SessionData]
    BY SessionFacts
  <1>2. Place(s) /\ First(s) /\ Owner(s) /\ Locker(s)
    BY SessionFacts
  <1>3. r.pc = "scan" /\ UNCHANGED <<list, card, plugged, locked>>
    BY Zenon DEF Scan
  <1>4. \A t \in Sessions \ {s} : ses[t].pc \notin {"scan", "register"}
    BY <1>3 DEF IInv, OneScan
  <1>5. PICK p \in {"register", "select"}, c \in Cards \cup {None} :
          /\ Set(s, [r EXCEPT !.pc = p, !.card = c])
          /\ p = "register" => c \in Cards \ Range(list)
    BY Zenon DEF Scan, IInv, Types
  <1> DEFINE q == [r EXCEPT !.pc = p, !.card = c]
  <1>6. q \in SessionData /\ q.ctx = r.ctx
    BY <1>1, Zenon DEF SessionData, PCs
  <1>7. ses'[s] = q
    BY <1>1, <1>5 DEF Set
  <1>8. SesInv(s)'
    BY <1>1, <1>2, <1>3, <1>5, <1>7
       DEF SesInv, Place, First, Owner, Locker, HoldsList, SessionData
  <1> QED BY <1>3, <1>4, <1>5, <1>6, <1>8, SessionStep, Zenon

\* A client connects.
LEMMA ConnectInv ==
    ASSUME IInv, NEW s \in Sessions, Connect(s)
    PROVE  IInv'
  <1> DEFINE r == ses[s]
             q == [r EXCEPT !.pc = "idle"]
  <1>1. r \in SessionData /\ ses \in [Sessions -> SessionData]
    BY SessionFacts
  <1>2. Place(s) /\ First(s)
    BY SessionFacts
  <1>3. Set(s, q) /\ UNCHANGED <<list, card, plugged, locked>>
    BY DEF Connect, Goto
  <1>4. q \in SessionData /\ q.ctx = r.ctx /\ q.pc = "idle" /\ q.first = r.first
        /\ q.removed = r.removed
    BY <1>1 DEF SessionData, PCs
  <1>5. ses'[s] = q
    BY <1>1, <1>3, ZenonT(30) DEF Set
  <1> HIDE DEF q
  <1>6. SesInv(s)'
    BY <1>2, <1>3, <1>4, <1>5, RestInv DEF Place, First
  <1> QED BY <1>3, <1>4, <1>6, SessionStep

\* The end of a client's connection.
LEMMA EndInv ==
    ASSUME IInv, NEW s \in Sessions, End(s)
    PROVE  IInv'
  <1> DEFINE r == ses[s]
             q == [r EXCEPT !.pc = "get", !.cmd = "end"]
  <1>1. r \in SessionData /\ ses \in [Sessions -> SessionData]
    BY SessionFacts
  <1>2. Place(s) /\ First(s) /\ Owner(s) /\ Locker(s)
    BY SessionFacts
  <1>3. Set(s, q) /\ UNCHANGED <<list, card, plugged, locked>>
    BY DEF End
  <1>4. q \in SessionData /\ q.ctx = r.ctx
    BY <1>1, Zenon DEF SessionData, PCs, CmdNames
  <1>5. ses'[s] = q
    BY <1>1, <1>3 DEF Set
  <1>6. SesInv(s)'
    BY <1>1, <1>2, <1>3, <1>5 DEF SesInv, Place, First, Owner, Locker, HoldsList, SessionData
  <1> QED BY <1>3, <1>4, <1>6, SessionStep, Zenon DEF SessionData

\* open_card with a command r that session s has just received.
LEMMA OpenCardInv ==
    ASSUME IInv, NEW s \in Sessions, NEW r \in SessionData,
           r.pc = "idle", r.ctx = ses[s].ctx, r.first = ses[s].first,
           r.removed = ses[s].removed,
           r.cmd \in {"op", "keyop", "apdu", "switchapp", "switchcard"},
           Set(s, OpenCard(r, IsLocked(s))),
           UNCHANGED <<list, card, plugged, locked>>
    PROVE  IInv'
  <1>1. ses \in [Sessions -> SessionData]
    BY SessionFacts
  <1>2. Place(s) /\ First(s)
    BY SessionFacts
  <1> DEFINE q == OpenCard(r, IsLocked(s))
  <1>3. ses'[s] = q
    BY <1>1 DEF Set
  <1>4. CASE r.removed \/ IsLocked(s)
    <2>1. q = Idle(r)
      BY <1>4 DEF OpenCard
    <2>2. SesInv(s)'
      BY <1>2, <1>3, <2>1, IdleFields, RestInv DEF Place, First
    <2> QED BY <2>1, <2>2, IdleFields, SessionStep
  <1>5. CASE ~(r.removed \/ IsLocked(s)) /\ r.ctx # None
    <2> DEFINE p == IF r.cmd = "switchcard" THEN "switch" ELSE "get"
    <2>1. q = [r EXCEPT !.pc = p]
      BY <1>5, Zenon DEF OpenCard, Opened, SessionData
    <2>2. p \in {"switch", "get"}
      OBVIOUS
    <2> HIDE DEF p, q
    <2>3. q \in SessionData /\ q.ctx = r.ctx /\ q.pc = p
      BY <2>1, <2>2 DEF SessionData, PCs
    <2>4. SesInv(s)'
      BY <1>2, <1>3, <1>5, <2>1, <2>2
         DEF SesInv, Place, First, Owner, Locker, HoldsList, SessionData
    <2> QED BY <2>2, <2>3, <2>4, SessionStep DEF q
  <1>6. CASE ~(r.removed \/ IsLocked(s)) /\ r.ctx = None
    <2> DEFINE p == IF list = <<>> THEN "newlock" ELSE "select"
    <2>1. q = [r EXCEPT !.pc = p]
      BY <1>6 DEF OpenCard
    <2>2. p \in {"newlock", "select"}
      OBVIOUS
    <2>3. r.first = None
      BY <1>2, <1>6 DEF First
    <2> HIDE DEF p, q
    <2>4. q \in SessionData /\ q.ctx = r.ctx /\ q.pc = p
      BY <2>1, <2>2 DEF SessionData, PCs
    <2>5. SesInv(s)'
      BY <1>2, <1>3, <1>6, <2>1, <2>2, <2>3
         DEF SesInv, Place, First, Owner, Locker, HoldsList, SessionData
    <2> QED BY <2>2, <2>4, <2>5, SessionStep DEF q
  <1> QED BY <1>4, <1>5, <1>6

\* The first step of every command.
LEMMA CommandInv ==
    ASSUME IInv, NEW s \in Sessions, Command(s)
    PROVE  IInv'
  <1>1. ses[s] \in SessionData /\ ses \in [Sessions -> SessionData]
    BY SessionFacts
  <1>2. Place(s) /\ First(s)
    BY SessionFacts
  <1>3. ses[s].pc = "idle" /\ UNCHANGED <<list, card, plugged, locked>>
    BY DEF Command
  <1> DEFINE R(q) == [ses[s] EXCEPT !.cmd = q.cmd, !.app = q.app, !.sn = q.sn, !.all = q.all]
  <1>4. PICK q \in Cmds :
          CASE q.cmd = "serialno" ->
                 Set(s, IF IsLocked(s) THEN Idle(R(q))
                        ELSE [R(q) EXCEPT !.pc = "get", !.removed = FALSE, !.first = None])
            [] q.cmd \in {"op", "keyop", "apdu", "switchapp", "switchcard"} ->
                 Set(s, OpenCard(R(q), IsLocked(s)))
            [] q.cmd \in {"keyinfo", "allapps", "apps"} ->
                 Set(s, [R(q) EXCEPT !.pc = "get"])
            [] q.cmd \in {"restart", "reset"} ->
                 Set(s, [R(q) EXCEPT !.pc = "get", !.first = None])
    BY Zenon DEF Command
  <1> DEFINE r == R(q)
  <1>5. /\ q.cmd \in {"serialno", "op", "keyop", "apdu", "switchapp", "switchcard",
                      "keyinfo", "allapps", "apps", "restart", "reset"}
        /\ q.cmd \in CmdNames
        /\ q.app \in Names /\ q.sn \in Cards \cup {None} /\ q.all \in BOOLEAN
    BY CardAssumption DEF CmdNames, Names
  <1>6. /\ r \in SessionData /\ r.pc = "idle" /\ r.cmd = q.cmd
        /\ r.ctx = ses[s].ctx /\ r.first = ses[s].first /\ r.removed = ses[s].removed
    BY <1>1, <1>3, <1>5, Zenon DEF SessionData
  <1> HIDE DEF R, r
  <1>7. CASE q.cmd \in {"op", "keyop", "apdu", "switchapp", "switchcard"}
    <2>1. Set(s, OpenCard(r, IsLocked(s)))
      BY <1>4, <1>7, Zenon DEF r
    <2> QED BY <1>3, <1>6, <1>7, <2>1, OpenCardInv
  <1>8. CASE q.cmd = "serialno" /\ IsLocked(s)
    <2>1. Set(s, Idle(r))
      BY <1>4, <1>8 DEF r
    <2>2. ses'[s] = Idle(r)
      BY <1>1, <2>1, ZenonT(30) DEF Set
    <2>3. SesInv(s)'
      BY <1>2, <1>3, <1>6, <2>2, IdleFields, RestInv DEF Place, First
    <2> QED BY <1>3, <1>6, <2>1, <2>3, IdleFields, SessionStep
  <1>9. CASE q.cmd = "serialno" /\ ~IsLocked(s)
    <2> DEFINE u == [r EXCEPT !.pc = "get", !.removed = FALSE, !.first = None]
    <2>1. Set(s, u)
      BY <1>4, <1>9 DEF r
    <2>2. ses'[s] = u
      BY <1>1, <2>1 DEF Set
    <2>3. u \in SessionData /\ u.ctx = r.ctx /\ u.pc = "get"
      BY <1>6, Zenon DEF SessionData, PCs
    <2>4. SesInv(s)'
      BY <1>2, <1>3, <1>6, <1>9, <2>2
         DEF SesInv, Place, First, Owner, Locker, HoldsList, SessionData
    <2> QED BY <1>3, <1>6, <2>1, <2>3, <2>4, SessionStep, Zenon
  <1>10. CASE q.cmd \in {"keyinfo", "allapps", "apps"}
    <2> DEFINE u == [r EXCEPT !.pc = "get"]
    <2>1. Set(s, u)
      BY <1>4, <1>10, Zenon DEF r
    <2>2. ses'[s] = u
      BY <1>1, <2>1 DEF Set
    <2>3. u \in SessionData /\ u.ctx = r.ctx /\ u.pc = "get"
      BY <1>6 DEF SessionData, PCs
    <2>4. SesInv(s)'
      BY <1>2, <1>3, <1>6, <1>10, <2>2
         DEF SesInv, Place, First, Owner, Locker, HoldsList, SessionData
    <2> QED BY <1>3, <1>6, <2>1, <2>3, <2>4, SessionStep, Zenon
  <1>11. CASE q.cmd \in {"restart", "reset"}
    <2> DEFINE u == [r EXCEPT !.pc = "get", !.first = None]
    <2>1. Set(s, u)
      BY <1>4, <1>11, Zenon DEF r
    <2>2. ses'[s] = u
      BY <1>1, <2>1 DEF Set
    <2>3. u \in SessionData /\ u.ctx = r.ctx /\ u.pc = "get"
      BY <1>6, Zenon DEF SessionData, PCs
    <2>4. SesInv(s)'
      BY <1>2, <1>3, <1>6, <1>11, <2>2, ZenonT(30) DEF SesInv, Place, First, Owner, Locker, HoldsList, SessionData
    <2> QED BY <1>3, <1>6, <2>1, <2>3, <2>4, SessionStep, Zenon
  <1> QED BY <1>5, <1>7, <1>8, <1>9, <1>10, <1>11

\* LOCK.
LEMMA LockInv ==
    ASSUME IInv, NEW s \in Sessions, Lock(s)
    PROVE  IInv'
  <1>1. /\ ses[s].pc = "idle" /\ locked' = s
        /\ UNCHANGED <<list, card, plugged, ses>>
    BY DEF Lock
  <1>2. Types'
    BY <1>1 DEF IInv, Types
  <1>3. \A t \in Sessions : SesInv(t)'
    <2> SUFFICES ASSUME NEW t \in Sessions PROVE SesInv(t)'
      OBVIOUS
    <2>1. Place(t) /\ First(t) /\ Owner(t)
      BY SessionFacts, ZenonT(30)
    <2>2. Place(t)' /\ First(t)' /\ Owner(t)'
      BY <1>1, <2>1 DEF Place, First, Owner, HoldsList, Head1
    <2>3. Locker(t)'
      BY <1>1 DEF Locker
    <2> QED BY <2>2, <2>3 DEF SesInv
  <1>4. OneScan' /\ RefCounts'
    BY <1>1 DEF IInv, OneScan, RefCounts
  <1>5. \A c \in Range(list') : CardInv(c)'
    BY <1>1 DEF IInv, CardInv
  <1> QED BY <1>2, <1>3, <1>4, <1>5, ZenonT(30) DEF IInv

-----------------------------------------------------------------------------
(* The steps that use a card and keep the references. *)

\* Taking or releasing the mutex of a card.
LEMMA WithOwner ==
    ASSUME NEW k \in CardData, NEW o \in Sessions \cup {None}, NEW in, Usable(k, in)
    PROVE  /\ [k EXCEPT !.owner = o] \in CardData /\ Usable([k EXCEPT !.owner = o], in)
           /\ [k EXCEPT !.owner = o].ref = k.ref /\ [k EXCEPT !.owner = o].owner = o
           /\ [k EXCEPT !.owner = o].apps = k.apps /\ [k EXCEPT !.owner = o].aid = k.aid
  BY ZenonT(30) DEF CardData, Usable

\* A command that has got its card.
LEMMA GetsFacts ==
    ASSUME IInv, NEW s \in Sessions, ses[s].pc \in {"walk", "lock", "op", "sleep"}
    PROVE  /\ ses[s].card \in Range(list) /\ ses[s].card \in Cards
           /\ card[ses[s].card] \in CardData
           /\ Usable(card[ses[s].card], ses[s].card \in plugged)
           /\ card[ses[s].card].apps # <<>>
  <1>1. ses[s].card \in Range(list)
    BY SessionFacts DEF Place, HoldsList
  <1>2. ses[s].card \in Cards
    BY <1>1, ListCards
  <1>3. card[ses[s].card] \in CardData /\ CardInv(ses[s].card)
    BY <1>1, <1>2 DEF IInv, Types
  <1> QED BY <1>1, <1>2, <1>3 DEF CardInv, Usable

\* The step of a session that ends its command and puts its card back as k.
LEMMA PutIdle ==
    ASSUME IInv, NEW s \in Sessions, ses[s].pc \in {"lock", "op", "sleep"},
           card[ses[s].card].owner \in {None, s},
           NEW q \in SessionData, Set(s, Idle(q)), q.ctx = ses[s].ctx,
           q.first = ses[s].first, q.removed = ses[s].removed \/ q.removed,
           NEW k \in CardData, Becomes(card[ses[s].card], k, ses[s].card \in plugged),
           Put(ses[s].card, k),
           UNCHANGED <<list, plugged>>, locked' \in {locked, None}
    PROVE  IInv'
  <1>1. /\ ses[s].card \in Range(list) /\ ses[s].card \in Cards
        /\ card[ses[s].card] \in CardData
        /\ Usable(card[ses[s].card], ses[s].card \in plugged)
    BY GetsFacts, ZenonT(30)
  <1>2. ses \in [Sessions -> SessionData] /\ Place(s) /\ First(s)
    BY SessionFacts
  <1> DEFINE j == [k EXCEPT !.owner = None]
  <1>3. j \in CardData /\ Usable(j, ses[s].card \in plugged) /\ j.ref = card[ses[s].card].ref
    BY <1>1, WithOwner DEF Becomes
  <1>4. card' = [card EXCEPT ![ses[s].card] = j]
    BY DEF Put
  <1>5. ses'[s] = Idle(q) /\ \A t \in Sessions \ {s} : ses'[t] = ses[t]
    BY <1>2 DEF Set
  <1>6. Others(s) /\ ses' \in [Sessions -> SessionData] /\ ses'[s].ctx = ses[s].ctx
        /\ ses'[s].pc = "idle"
    BY <1>2, <1>5, IdleFields, ZenonT(30) DEF Others, Set
  <1>7. SesInv(s)'
    <2>1. Idle(q) \in SessionData /\ Idle(q).pc = "idle" /\ Idle(q).ctx = ses[s].ctx
          /\ Idle(q).first = ses[s].first /\ Idle(q).removed = q.removed
      BY IdleFields, ZenonT(30)
    <2> QED BY <1>2, <1>5, <2>1, RestInv, ZenonT(30) DEF Place, First
  <1> HIDE DEF j
  <1> QED BY <1>1, <1>3, <1>4, <1>6, <1>7, CardStep, Zenon

\* The end of a key operation.
LEMMA OpDoneInv ==
    ASSUME IInv, NEW s \in Sessions, OpDone(s)
    PROVE  IInv'
  <1>1. /\ ses[s].pc = "op" /\ Put(ses[s].card, card[ses[s].card]) /\ Set(s, Idle(ses[s]))
        /\ UNCHANGED <<list, plugged, locked>>
    BY ZenonT(30) DEF OpDone
  <1>2. card[ses[s].card] \in CardData
        /\ Becomes(card[ses[s].card], card[ses[s].card], ses[s].card \in plugged)
    BY <1>1, GetsFacts, ZenonT(30) DEF Becomes
  <1>3. card[ses[s].card].owner = s /\ ses[s] \in SessionData
    BY <1>1, SessionFacts, ZenonT(30) DEF Owner
  <1> QED BY <1>1, <1>2, <1>3, PutIdle DEF SessionData

\* card_reset after its sleep.
LEMMA ResetDoneInv ==
    ASSUME IInv, NEW s \in Sessions, ResetDone(s)
    PROVE  IInv'
  <1>1. /\ ses[s].pc = "sleep" /\ Put(ses[s].card, card[ses[s].card]) /\ Set(s, Idle(ses[s]))
        /\ UNCHANGED <<list, plugged>> /\ locked' \in {locked, None}
    BY ZenonT(30) DEF ResetDone, Unlock
  <1>2. card[ses[s].card] \in CardData
        /\ Becomes(card[ses[s].card], card[ses[s].card], ses[s].card \in plugged)
    BY <1>1, GetsFacts, ZenonT(30) DEF Becomes
  <1>3. card[ses[s].card].owner = s /\ ses[s] \in SessionData
    BY <1>1, SessionFacts DEF Owner
  <1> QED BY <1>1, <1>2, <1>3, PutIdle DEF SessionData

\* APDU.
LEMMA ApduInv ==
    ASSUME IInv, NEW s \in Sessions, Apdu(s)
    PROVE  IInv'
  <1> DEFINE c == ses[s].card
  <1>1. /\ ses[s].pc = "lock" /\ card[c].owner = None /\ Set(s, Idle(ses[s]))
        /\ UNCHANGED <<list, plugged, locked>>
    BY DEF Apdu, Gets
  <1>2. c \in Cards /\ card[c] \in CardData /\ Usable(card[c], c \in plugged)
    BY <1>1, GetsFacts
  <1>3. PICK a \in Range(AppsOf[c]) : Put(c, [card[c] EXCEPT !.phys = a, !.aid = TRUE])
    BY Zenon DEF Apdu
  <1>4. a \in Names
    BY <1>2 DEF Names, Apps
  <1> DEFINE k == [card[c] EXCEPT !.phys = a, !.aid = TRUE]
  <1>5. k \in CardData /\ Becomes(card[c], k, c \in plugged)
    BY <1>2, <1>4, Zenon DEF CardData, Becomes, Usable
  <1>6. ses[s] \in SessionData
    BY SessionFacts
  <1> QED BY <1>1, <1>3, <1>5, <1>6, PutIdle DEF SessionData

\* app_switch_active_app.
LEMMA SwitchappInv ==
    ASSUME IInv, NEW s \in Sessions, Switchapp(s)
    PROVE  IInv'
  <1> DEFINE r == ses[s]
             c == ses[s].card
             in == c \in plugged
             k == IF in THEN SelectAll(card[c], c) ELSE card[c]
             m == MaybeSwitchApp(k, r.app, None, in)
  <1>0. in \in BOOLEAN
    OBVIOUS
  <1>1. /\ r.pc = "lock" /\ card[c].owner = None
        /\ UNCHANGED <<list, plugged, locked>>
    BY DEF Switchapp, Gets
  <1>2. c \in Cards /\ card[c] \in CardData /\ Usable(card[c], in)
    BY <1>1, GetsFacts
  <1>3. r \in SessionData /\ r.app \in Names /\ None \in Names
    BY SessionFacts, ZenonT(30) DEF SessionData, Names
  <1>4. k \in CardData /\ Usable(k, in) /\ Becomes(card[c], k, in)
    <2>1. CASE in
      BY <1>2, <2>1, SelectAllFacts, ZenonT(30) DEF Becomes
    <2>2. CASE ~in
      BY <1>2, <2>2, ZenonT(30) DEF Becomes
    <2> QED BY <2>1, <2>2, ZenonT(30)
  <1> HIDE DEF k
  <1>5. m.k \in CardData /\ m.cur \in Names /\ Becomes(card[c], m.k, in)
    <2>1. Becomes(k, m.k, in) /\ m.cur \in Names
      BY <1>0, <1>3, <1>4, MaybeSwitchFacts, Zenon
    <2> QED BY <1>4, <2>1, ZenonT(30) DEF Becomes
  <1>6. CASE r.app = None
    <2>1. Put(c, k) /\ Set(s, Idle(r))
      BY <1>6, ZenonT(30) DEF Switchapp, k
    <2> QED BY <1>1, <1>3, <1>4, <2>1, PutIdle, ZenonT(30) DEF SessionData
  <1>7. CASE r.app # None
    <2> DEFINE q == [r EXCEPT !.cur = m.cur]
    <2>1. Put(c, m.k) /\ Set(s, Idle(q))
      BY <1>7 DEF Switchapp, k
    <2>2. q \in SessionData /\ q.ctx = r.ctx /\ q.first = r.first /\ q.removed = r.removed
      BY <1>3, <1>5 DEF SessionData
    <2>3. q.removed \in BOOLEAN
      BY <2>2 DEF SessionData
    <2> HIDE DEF q, m
    <2> QED BY <1>1, <1>5, <2>1, <2>2, <2>3, PutIdle, ZenonT(30)
  <1> QED BY <1>6, <1>7

\* SERIALNO succeeds with the card of the session.
LEMMA SerialFacts ==
    ASSUME IInv, NEW s \in Sessions, NEW c \in Cards, NEW q \in SessionData,
           Serial(s, q, c), ses[s].ctx = c, q.ctx = c, q.first = None,
           c \in Range(list')
    PROVE  /\ Others(s) /\ ses' \in [Sessions -> SessionData]
           /\ ses'[s].ctx = ses[s].ctx /\ ses'[s].pc = "idle" /\ SesInv(s)'
  <1> DEFINE u == [Idle(q) EXCEPT !.removed = FALSE]
  <1>1. ses \in [Sessions -> SessionData]
    BY SessionFacts
  <1>2. Idle(q) \in SessionData /\ Idle(q).pc = "idle" /\ Idle(q).ctx = c /\ Idle(q).first = None
    BY IdleFields
  <1>3. u \in SessionData /\ u.pc = "idle" /\ u.ctx = c /\ u.first = None
    BY <1>2, Zenon DEF SessionData
  <1>4. ses'[s] = u
    BY DEF Serial
  <1>5. \A t \in Sessions \ {s} :
          ses'[t] = IF ses[t].ctx = c THEN [ses[t] EXCEPT !.removed = FALSE] ELSE ses[t]
    BY DEF Serial
  <1>6. c # None
    BY CardAssumption
  <1>7. Others(s)
    BY <1>5, <1>6 DEF Others
  <1>8. ASSUME NEW t \in Sessions \ {s} PROVE ses'[t] \in SessionData
    <2>1. ses[t] \in SessionData
      BY <1>1
    <2>2. [ses[t] EXCEPT !.removed = FALSE] \in SessionData
      BY <2>1, Zenon DEF SessionData
    <2> QED BY <1>5, <2>1, <2>2
  <1> HIDE DEF u
  <1>9. ses' \in [Sessions -> SessionData]
    <2>1. \A t \in Sessions : ses'[t] \in SessionData
      BY <1>3, <1>4, <1>8
    <2>2. DOMAIN ses' = Sessions /\ ses' = [t \in Sessions |-> ses'[t]]
      BY DEF Serial
    <2> QED BY <2>1, <2>2
  <1>10. SesInv(s)'
    BY <1>3, <1>4, RestInv
  <1> QED BY <1>3, <1>4, <1>7, <1>9, <1>10

\* A session that succeeds with SERIALNO and puts its card back as k.
LEMMA SerialPut ==
    ASSUME IInv, NEW s \in Sessions, ses[s].pc = "lock",
           ses[s].cmd \in {"serialno", "serialno2"}, card[ses[s].card].owner = None,
           NEW q \in SessionData, q.ctx = ses[s].ctx, q.first = ses[s].first,
           Serial(s, q, ses[s].card),
           NEW k \in CardData, Becomes(card[ses[s].card], k, ses[s].card \in plugged),
           Put(ses[s].card, k), UNCHANGED <<list, plugged, locked>>
    PROVE  IInv'
  <1>1. /\ ses[s].card \in Range(list) /\ ses[s].card \in Cards
        /\ card[ses[s].card] \in CardData
        /\ Usable(card[ses[s].card], ses[s].card \in plugged)
    BY GetsFacts, ZenonT(30)
  <1>2. ses[s].ctx = ses[s].card /\ ses[s].first = None
    BY SessionFacts DEF Place, First
  <1> DEFINE j == [k EXCEPT !.owner = None]
  <1>3. j \in CardData /\ Usable(j, ses[s].card \in plugged) /\ j.ref = card[ses[s].card].ref
    BY <1>1, WithOwner DEF Becomes
  <1>4. card' = [card EXCEPT ![ses[s].card] = j]
    BY ZenonT(30) DEF Put
  <1>5. /\ Others(s) /\ ses' \in [Sessions -> SessionData]
        /\ ses'[s].ctx = ses[s].ctx /\ ses'[s].pc = "idle" /\ SesInv(s)'
    BY <1>1, <1>2, SerialFacts, ZenonT(30)
  <1> HIDE DEF j
  <1> QED BY <1>1, <1>3, <1>4, <1>5, CardStep, Zenon

\* The second part of SERIALNO.
LEMMA Serialno2Inv ==
    ASSUME IInv, NEW s \in Sessions, Serialno2(s)
    PROVE  IInv'
  <1> DEFINE c == ses[s].card
             k == IF ses[s].all /\ c \in plugged THEN SelectAll(card[c], c) ELSE card[c]
  <1>1. /\ ses[s].pc = "lock" /\ ses[s].cmd = "serialno2" /\ card[c].owner = None
        /\ Put(c, k) /\ Serial(s, ses[s], c) /\ UNCHANGED <<list, plugged, locked>>
    BY ZenonT(30) DEF Serialno2, Gets
  <1>2. c \in Cards /\ card[c] \in CardData /\ Usable(card[c], c \in plugged)
    BY <1>1, GetsFacts, ZenonT(30)
  <1>3. k \in CardData /\ Becomes(card[c], k, c \in plugged)
    <2>1. Becomes(card[c], SelectAll(card[c], c), c \in plugged)
      BY <1>2, SelectAllFacts
    <2> QED BY <1>2, <2>1, ZenonT(30) DEF Becomes
  <1>4. ses[s] \in SessionData
    BY SessionFacts
  <1> HIDE DEF k
  <1> QED BY <1>1, <1>3, <1>4, SerialPut, ZenonT(30)

\* A key operation begins, or the application cannot be selected.
LEMMA OperateInv ==
    ASSUME IInv, NEW s \in Sessions, Operate(s)
    PROVE  IInv'
  <1> DEFINE r == ses[s]
             c == ses[s].card
             in == c \in plugged
             m == MaybeSwitchApp(card[c], r.cur, r.app, in)
  <1>0. in \in BOOLEAN
    OBVIOUS
  <1>1. /\ r.pc = "lock" /\ r.cmd \in {"op", "keyop"} /\ card[c].owner = None
        /\ UNCHANGED <<list, plugged, locked>>
    BY ZenonT(30) DEF Operate, Gets
  <1>2. c \in Range(list) /\ c \in Cards /\ card[c] \in CardData /\ Usable(card[c], in)
    BY <1>1, GetsFacts
  <1>3. r \in SessionData /\ r.app \in Names /\ r.cur \in Names /\ ses \in [Sessions -> SessionData]
    BY SessionFacts DEF SessionData
  <1>4. Place(s) /\ First(s) /\ Locker(s)
    BY SessionFacts
  <1>5. /\ Becomes(card[c], m.k, in) /\ m.cur \in Names /\ ~m.k.aid
        /\ ~m.err => m.cur = m.k.apps[1]
    <2> DEFINE k == card[c]
               a == r.cur
               w == r.app
    <2>1. k \in CardData /\ a \in Names /\ w \in Names /\ Usable(k, in)
      BY <1>2, <1>3, ZenonT(30)
    <2> HIDE DEF in, k, a, w
    <2>2. /\ Becomes(k, MaybeSwitchApp(k, a, w, in).k, in)
          /\ MaybeSwitchApp(k, a, w, in).cur \in Names
          /\ ~MaybeSwitchApp(k, a, w, in).k.aid
          /\ ~MaybeSwitchApp(k, a, w, in).err =>
               MaybeSwitchApp(k, a, w, in).cur = MaybeSwitchApp(k, a, w, in).k.apps[1]
      BY <1>0, <2>1, MaybeSwitchFacts, ZenonT(30)
    <2> QED BY <2>2, Zenon DEF in, k, a, w
  <1>6. m.k \in CardData
    BY <1>5, ZenonT(30) DEF Becomes
  <1>7. CASE m.err
    <2>1. Put(c, m.k) /\ Set(s, Idle(r))
      BY <1>7 DEF Operate
    <2> HIDE DEF m
    <2> QED BY <1>1, <1>3, <1>5, <1>6, <2>1, PutIdle, ZenonT(30) DEF SessionData
  <1>8. CASE ~m.err
    <2> DEFINE f == IF r.cmd = "op" /\ r.first = None THEN c ELSE r.first
               q == [r EXCEPT !.pc = "op", !.cur = m.cur, !.first = f]
               j == [m.k EXCEPT !.owner = s]
    <2>1. card' = [card EXCEPT ![c] = j] /\ Set(s, q)
      BY <1>3, <1>8 DEF Operate, SessionData
    <2>2. f \in Cards \cup {None}
      BY <1>2, <1>3, ZenonT(30) DEF SessionData
    <2>3. /\ f # None => r.ctx = f \/ (r.ctx = None /\ r.removed)
          /\ r.cmd = "op" => c = f /\ r.ctx = c
      BY <1>1, <1>2, <1>4, CardAssumption, ZenonT(30) DEF Place, First
    <2> HIDE DEF f
    <2>4. /\ j \in CardData /\ Usable(j, in) /\ j.ref = card[c].ref /\ j.owner = s
          /\ ~j.aid /\ j.apps[1] = m.cur
      BY <1>2, <1>5, <1>6, <1>8, WithOwner, Zenon DEF Becomes
    <2> HIDE DEF m, j
    <2>5. /\ q \in SessionData /\ q.pc = "op" /\ q.cur = m.cur /\ q.first = f /\ q.ctx = r.ctx
          /\ q.card = c /\ q.cmd = r.cmd /\ q.removed = r.removed
      BY <1>3, <1>5, <2>2, Zenon DEF SessionData, PCs
    <2>6. ses'[s] = q /\ \A t \in Sessions \ {s} : ses'[t] = ses[t]
      BY <1>3, <2>1 DEF Set
    <2>7. Others(s) /\ ses' \in [Sessions -> SessionData]
      BY <1>3, <2>1, <2>5, <2>6 DEF Others, Set
    <2>8. card'[c] = j
      BY <1>2, <2>1 DEF IInv, Types
    <2> HIDE DEF q
    <2>9. SesInv(s)'
      <3>1. Place(s)' /\ First(s)'
        BY <1>1, <1>2, <1>4, <2>3, <2>5, <2>6, ZenonT(30) DEF Place, First, HoldsList
      <3>2. Owner(s)' /\ Locker(s)'
        BY <1>1, <1>4, <2>4, <2>5, <2>6, <2>8, ZenonT(30) DEF Owner, Locker, Head1
      <3> QED BY <3>1, <3>2, ZenonT(30) DEF SesInv
    <2> QED BY <1>1, <1>2, <2>1, <2>4, <2>5, <2>6, <2>7, <2>9, CardStep, Zenon
  <1> QED BY <1>7, <1>8, ZenonT(30)

\* card_reset until it sleeps.
LEMMA ResetInv ==
    ASSUME IInv, NEW s \in Sessions, Reset(s)
    PROVE  IInv'
  <1> DEFINE r == ses[s]
             c == ses[s].card
             q == [r EXCEPT !.pc = "sleep"]
             j == [card[c] EXCEPT !.reset = TRUE, !.phys = None, !.owner = s]
  <1>1. /\ r.pc = "lock" /\ r.cmd = "reset" /\ card[c].owner = None /\ Set(s, q)
        /\ UNCHANGED <<list, plugged, locked>>
    BY DEF Reset, Gets, Goto
  <1>2. c \in Range(list) /\ c \in Cards /\ card[c] \in CardData /\ card[c].apps # <<>>
    BY <1>1, GetsFacts
  <1>3. card' = [card EXCEPT ![c] = j]
    BY <1>2, Zenon DEF Reset, IInv, Types, CardData
  <1>4. /\ j \in CardData /\ Usable(j, c \in plugged) /\ j.ref = card[c].ref /\ j.owner = s
    BY <1>2, Zenon DEF CardData, Usable, Names
  <1>5. r \in SessionData /\ ses \in [Sessions -> SessionData] /\ Place(s) /\ First(s)
    BY SessionFacts
  <1>6. /\ q \in SessionData /\ q.pc = "sleep" /\ q.first = r.first /\ q.ctx = r.ctx
        /\ q.card = c /\ q.cmd = r.cmd /\ q.removed = r.removed
    BY <1>5 DEF SessionData, PCs
  <1>7. ses'[s] = q /\ \A t \in Sessions \ {s} : ses'[t] = ses[t]
    BY <1>1, <1>5 DEF Set
  <1>8. Others(s) /\ ses' \in [Sessions -> SessionData]
    BY <1>1, <1>5, <1>6, <1>7, ZenonT(30) DEF Others, Set
  <1> HIDE DEF q, j
  <1>9. card'[c] = j
    BY <1>2, <1>3, ZenonT(30) DEF IInv, Types
  <1>10. SesInv(s)'
    <2>1. Place(s)' /\ First(s)'
      BY <1>1, <1>2, <1>5, <1>6, <1>7, ZenonT(30) DEF Place, First, HoldsList
    <2>2. Owner(s)' /\ Locker(s)'
      BY <1>1, <1>4, <1>6, <1>7, <1>9 DEF Owner, Locker
    <2> QED BY <2>1, <2>2 DEF SesInv
  <1> QED BY <1>1, <1>2, <1>3, <1>4, <1>6, <1>7, <1>8, <1>10, CardStep, Zenon

\* One card of the loop over all cards.
LEMMA WalkInv ==
    ASSUME IInv, NEW s \in Sessions, Walk(s)
    PROVE  IInv'
  <1> DEFINE r == ses[s]
             c == ses[s].card
             k == card[c]
             in == c \in plugged
             several == Len(k.apps) > 1
             found == /\ r.cmd # "allapps" /\ r.sn = c /\ r.app \in Range(k.apps)
                      /\ several => c \in plugged
             other == found /\ r.app # k.apps[1]
             at == CHOOSE i \in DOMAIN list : list[i] = c
             cur == IF other THEN r.app ELSE r.cur
             j == IF ~in THEN k
                  ELSE IF r.cmd = "allapps" THEN SelectAll(k, c)
                  ELSE IF several THEN [k EXCEPT !.phys = IF found THEN r.app ELSE k.apps[1],
                                                 !.left = other]
                  ELSE k
             q == IF found /\ r.cmd = "keyop" THEN [r EXCEPT !.pc = "lock", !.cur = cur]
                  ELSE IF found THEN Idle([r EXCEPT !.cur = cur])
                  ELSE IF at = Len(list) THEN Idle(r)
                  ELSE [r EXCEPT !.card = list[at + 1]]
  <1>1. r \in SessionData /\ ses \in [Sessions -> SessionData] /\ r.cur \in Names /\ r.app \in Names
    BY SessionFacts DEF SessionData
  <1>2. Place(s) /\ First(s) /\ Locker(s)
    BY SessionFacts
  <1>3. /\ r.pc = "walk" /\ k.owner = None /\ card' = [card EXCEPT ![c] = j] /\ Set(s, q)
        /\ UNCHANGED <<list, plugged, locked>>
    BY <1>1, Zenon DEF Walk, SessionData
  <1>4. c \in Range(list) /\ c \in Cards /\ k \in CardData /\ Usable(k, in) /\ k.apps # <<>>
    BY <1>3, GetsFacts, Zenon
  <1>5. at \in DOMAIN list /\ list \in Seq(Cards)
    BY <1>4 DEF IInv, Types, Range
  <1> HIDE DEF at
  <1>6. at # Len(list) => list[at + 1] \in Range(list) /\ list[at + 1] \in Cards
    <2>1. at # Len(list) => at + 1 \in DOMAIN list
      BY <1>5
    <2> QED BY <1>5, <2>1 DEF Range
  <1>7. j \in CardData /\ Usable(j, in) /\ j.ref = k.ref
    <2>1. k.apps[1] \in Names
      BY <1>4, FirstApp, ZenonT(30)
    <2>2. Becomes(k, SelectAll(k, c), in)
      BY <1>4, SelectAllFacts
    <2>3. ASSUME NEW b \in BOOLEAN, b = other
          PROVE  LET u == [k EXCEPT !.phys = IF found THEN r.app ELSE k.apps[1], !.left = b]
                 IN  u \in CardData /\ Usable(u, in) /\ u.ref = k.ref
      <3> DEFINE p == IF found THEN r.app ELSE k.apps[1]
      <3>1. p \in Names /\ (~b => p = k.apps[1])
        BY <1>1, <2>1, <2>3, Zenon
      <3> HIDE DEF p
      <3>2. LET u == [k EXCEPT !.phys = p, !.left = b]
            IN  u \in CardData /\ Usable(u, in) /\ u.ref = k.ref
        BY <1>4, <3>1, Zenon DEF CardData, Usable
      <3> QED BY <3>2 DEF p
    <2>4. other \in BOOLEAN
      OBVIOUS
    <2>5. LET u == [k EXCEPT !.phys = IF found THEN r.app ELSE k.apps[1], !.left = other]
          IN  u \in CardData /\ Usable(u, in) /\ u.ref = k.ref
      BY <2>3, <2>4, Zenon
    <2> QED BY <1>4, <2>2, <2>5, Zenon DEF Becomes
  <1>8. cur \in Names
    BY <1>1
  <1> HIDE DEF cur, j, found, other, several
  <1>9. /\ q \in SessionData /\ q.ctx = r.ctx /\ q.first = r.first /\ q.removed = r.removed
        /\ \/ q.pc = "idle"
           \/ q.pc = "lock" /\ q.cmd = "keyop" /\ r.cmd = "keyop" /\ q.card = c
           \/ q.pc = "walk" /\ q.cmd = r.cmd /\ q.card \in Range(list)
    <2>1. LET u == [r EXCEPT !.cur = cur] IN u \in SessionData /\ u.ctx = r.ctx
             /\ u.first = r.first /\ u.removed = r.removed
      BY <1>1, <1>8 DEF SessionData
    <2>2. CASE found /\ r.cmd = "keyop"
      BY <1>1, <1>8, <2>2, Zenon DEF SessionData, PCs
    <2>3. CASE found /\ r.cmd # "keyop"
      <3>1. q = Idle([r EXCEPT !.cur = cur])
        BY <2>3
      <3> QED BY <2>1, <3>1, IdleFields, Zenon
    <2>4. CASE ~found /\ at = Len(list)
      <3>1. q = Idle(r)
        BY <2>4
      <3> QED BY <1>1, <3>1, IdleFields, Zenon
    <2>5. CASE ~found /\ at # Len(list)
      <3>1. q = [r EXCEPT !.card = list[at + 1]]
        BY <2>5
      <3> QED BY <1>1, <1>3, <1>6, <2>5, <3>1 DEF SessionData
    <2> QED BY <2>2, <2>3, <2>4, <2>5, Zenon
  <1>10. ses'[s] = q /\ \A t \in Sessions \ {s} : ses'[t] = ses[t]
    BY <1>1, <1>3 DEF Set
  <1> HIDE DEF q
  <1>11. Others(s) /\ ses' \in [Sessions -> SessionData]
    BY <1>1, <1>3, <1>9, <1>10, ZenonT(30) DEF Others, Set
  <1>12. SesInv(s)'
    BY <1>2, <1>3, <1>4, <1>9, <1>10, ZenonT(30) DEF SesInv, Place, First, Owner, Locker, HoldsList
  <1> QED BY <1>3, <1>4, <1>7, <1>9, <1>10, <1>11, <1>12, CardStep, Zenon
=============================================================================
