--------------------------- MODULE CardAppProofs ---------------------------
(***************************************************************************)
(* Proofs about scdaemon's list of cards and the sessions that use them:   *)
(* the steps that change the references to the cards or the list, and the  *)
(* theorems.                                                               *)
(***************************************************************************)
EXTENDS CardAppSteps, FiniteSetTheorems

\* The seconds a prover gets for a leaf.
USE SMTT(30), ZenonT(30)

-----------------------------------------------------------------------------
(* The steps that change the references to the cards. *)

\* The sessions that refer to a card, with and without session s.
LEMMA Users ==
    ASSUME IInv, NEW s \in Sessions, NEW c \in Cards
    PROVE  LET n == Cardinality({t \in Sessions \ {s} : ses[t].ctx = c})
           IN  n \in Nat /\ card[c].ref = n + (IF ses[s].ctx = c THEN 1 ELSE 0)
  <1> DEFINE S == {t \in Sessions \ {s} : ses[t].ctx = c}
  <1>1. IsFiniteSet(S) /\ s \notin S
    BY CardAssumption, FS_Subset
  <1>2. Cardinality(S) \in Nat
    BY <1>1, FS_CardinalityType
  <1>3. card[c].ref = Cardinality({t \in Sessions : ses[t].ctx = c})
    BY DEF IInv, RefCounts
  <1>4. CASE ses[s].ctx = c
    <2>1. {t \in Sessions : ses[t].ctx = c} = S \cup {s}
      BY <1>4
    <2>2. Cardinality(S \cup {s}) = Cardinality(S) + 1
      BY <1>1, FS_AddElement, Zenon
    <2> QED BY <1>2, <1>3, <1>4, <2>1, <2>2, Zenon
  <1>5. CASE ses[s].ctx # c
    <2>1. {t \in Sessions : ses[t].ctx = c} = S
      BY <1>5
    <2>2. card[c].ref = Cardinality(S)
      BY <1>3, <2>1
    <2> HIDE DEF S
    <2>3. Cardinality(S) \in Nat /\ card[c].ref = Cardinality(S) + 0
      BY <1>2, <2>2
    <2> QED BY <1>5, <2>3 DEF S
  <1> QED BY <1>4, <1>5

\* A step that changes the card of session s, with the references to the cards
\* before and after it.
LEMMA RefStep ==
    ASSUME IInv, NEW s \in Sessions, NEW r \in SessionData, Set(s, r), SesInv(s)',
           r.pc \notin {"scan", "register"},
           card' \in [Cards -> CardData], CardsKept(s),
           \A c \in Cards :
             card'[c].ref = (card[c].ref + (IF r.ctx = c THEN 1 ELSE 0))
                              - (IF ses[s].ctx = c THEN 1 ELSE 0),
           \A c \in Range(list) : Usable(card'[c], c \in plugged),
           list' \in Seq(Cards), Range(list') = Range(list),
           plugged' = plugged, locked' \in {locked, None}
    PROVE  IInv'
  <1>1. ses \in [Sessions -> SessionData]
    BY SessionFacts
  <1>2. ses'[s] = r /\ \A t \in Sessions \ {s} : ses'[t] = ses[t]
    BY <1>1 DEF Set
  <1>3. ses' \in [Sessions -> SessionData]
    BY <1>1 DEF Set
  <1>4. Types'
    BY <1>3 DEF IInv, Types
  <1>5. Others(s)
    BY <1>2 DEF Others
  <1>6. RefCounts'
    <2> SUFFICES ASSUME NEW c \in Cards
                 PROVE  card'[c].ref = Cardinality({t \in Sessions : ses'[t].ctx = c})
      BY DEF RefCounts
    <2> DEFINE S == {t \in Sessions \ {s} : ses[t].ctx = c}
               n == Cardinality(S)
    <2>1. n \in Nat /\ card[c].ref = n + (IF ses[s].ctx = c THEN 1 ELSE 0)
      BY Users
    <2>2. IsFiniteSet(S) /\ s \notin S
      BY CardAssumption, FS_Subset
    <2>3. card'[c].ref = n + (IF r.ctx = c THEN 1 ELSE 0)
      <3> HIDE DEF n
      <3> QED BY <2>1
    <2>4. CASE r.ctx = c
      <3>1. {t \in Sessions : ses'[t].ctx = c} = S \cup {s}
        BY <1>2, <2>4
      <3>2. Cardinality(S \cup {s}) = n + 1
        BY <2>2, FS_AddElement, Zenon
      <3> QED BY <2>3, <2>4, <3>1, <3>2, Zenon
    <2>5. CASE r.ctx # c
      <3>1. {t \in Sessions : ses'[t].ctx = c} = S
        BY <1>2, <2>5
      <3>2. Cardinality({t \in Sessions : ses'[t].ctx = c}) = n
        BY <3>1, Zenon
      <3> HIDE DEF n
      <3>3. card'[c].ref = n
        BY <2>1, <2>3, <2>5
      <3> QED BY <3>2, <3>3
    <2> QED BY <2>4, <2>5
  <1>7. \A c \in Range(list) : CardInv(c)'
    BY DEF CardInv
  <1> QED BY <1>2, <1>4, <1>5, <1>6, <1>7, Frame

\* Session s, which waited for the mutex of its card, gives its reference back
\* and becomes r.
LEMMA UnrefStep ==
    ASSUME IInv, NEW s \in Sessions, ses[s].pc = "lock", ses[s].cmd # "keyop",
           card[ses[s].card].owner = None,
           NEW r \in SessionData, Set(s, r), SesInv(s)', r.ctx = None,
           r.pc \notin {"scan", "register"},
           Put(ses[s].card, Unref(card[ses[s].card])),
           UNCHANGED <<list, plugged>>, locked' \in {locked, None}
    PROVE  IInv'
  <1> DEFINE c == ses[s].card
             j == [Unref(card[c]) EXCEPT !.owner = None]
  <1>1. /\ c \in Range(list) /\ c \in Cards /\ card[c] \in CardData
        /\ Usable(card[c], c \in plugged)
    BY GetsFacts
  <1>2. ses[s].ctx = c
    BY SessionFacts DEF Place
  <1>3. card[c].ref \in Nat /\ card[c].ref > 0
    <2> DEFINE n == Cardinality({t \in Sessions \ {s} : ses[t].ctx = c})
    <2>1. n \in Nat /\ card[c].ref = n + (IF ses[s].ctx = c THEN 1 ELSE 0)
      BY <1>1, Users
    <2> HIDE DEF n
    <2> QED BY <1>2, <2>1
  <1>4. j \in CardData /\ Usable(j, c \in plugged) /\ j.ref = card[c].ref - 1
    <2> DEFINE n == card[c].ref - 1
    <2>1. n \in Nat
      BY <1>3
    <2> HIDE DEF n
    <2>2. j = [card[c] EXCEPT !.ref = n, !.owner = None]
      BY <1>1 DEF Unref, n, CardData
    <2> HIDE DEF j
    <2>3. j \in CardData /\ Usable(j, c \in plugged) /\ j.ref = n
      BY <1>1, <2>1, <2>2, Zenon DEF CardData, Usable
    <2> QED BY <2>3 DEF n
  <1>5. card' = [card EXCEPT ![c] = j] /\ card \in [Cards -> CardData]
    BY DEF Put, IInv, Types
  <1> HIDE DEF j
  <1>6. /\ card'[c] = j /\ \A d \in Cards \ {c} : card'[d] = card[d]
        /\ card' \in [Cards -> CardData]
    BY <1>1, <1>4, <1>5
  <1>7. CardsKept(s)
    BY <1>1, <1>6, OneCard
  <1>8. ASSUME NEW d \in Cards
        PROVE  card'[d].ref = (card[d].ref + (IF r.ctx = d THEN 1 ELSE 0))
                                - (IF ses[s].ctx = d THEN 1 ELSE 0)
    <2>1. r.ctx # d /\ card[d].ref \in Nat
      BY <1>5, CardAssumption DEF CardData
    <2> QED BY <1>2, <1>3, <1>4, <1>6, <2>1
  <1>9. \A d \in Range(list) : Usable(card'[d], d \in plugged)
    <2>1. \A d \in Range(list) : d \in Cards /\ Usable(card[d], d \in plugged)
      BY ListCards DEF IInv, CardInv
    <2> QED BY <1>4, <1>6, <2>1
  <1>10. list' \in Seq(Cards) /\ Range(list') = Range(list)
    BY DEF IInv, Types
  <1> QED BY <1>6, <1>7, <1>8, <1>9, <1>10, RefStep

\* A session without its card.
LEMMA NoCtxFields ==
    ASSUME NEW q \in SessionData
    PROVE  /\ NoCtx(q) \in SessionData /\ NoCtx(q).ctx = None /\ NoCtx(q).pc = q.pc
           /\ NoCtx(q).cmd = q.cmd /\ NoCtx(q).first = q.first
           /\ NoCtx(q).card = q.card
  BY Zenon DEF NoCtx, SessionData, Names

\* RESTART, RESET and the end of a session.
LEMMA ReleaseInv ==
    ASSUME IInv, NEW s \in Sessions, Release(s)
    PROVE  IInv'
  <1> DEFINE r == ses[s]
             q == IF r.cmd = "end" THEN NewSession ELSE Idle(NoCtx(r))
  <1>1. /\ r.pc = "lock" /\ r.cmd \in {"restart", "end", "reset"}
        /\ card[r.card].owner = None /\ Put(r.card, Unref(card[r.card])) /\ Set(s, q)
        /\ UNCHANGED <<list, plugged>> /\ locked' \in {locked, None}
    BY DEF Release, Gets, Unlock
  <1>2. r \in SessionData /\ ses \in [Sessions -> SessionData] /\ First(s)
    BY SessionFacts
  <1>3. r.cmd # "end" => r.first = None
    BY <1>1, <1>2 DEF First
  <1>4. q \in SessionData /\ q.pc \in {"idle", "closed"} /\ q.ctx = None /\ q.first = None
    <2>1. CASE r.cmd = "end"
      BY <2>1, NewSessionFields
    <2>2. CASE r.cmd # "end"
      BY <1>2, <1>3, <2>2, NoCtxFields, IdleFields
    <2> QED BY <2>1, <2>2
  <1> HIDE DEF q
  <1>5. ses'[s] = q
    BY <1>1, <1>2 DEF Set
  <1>6. locked' # s
    BY <1>1, CardAssumption DEF Release, Unlock
  <1>7. SesInv(s)'
    BY <1>4, <1>5, <1>6, RestInv, ZenonT(30)
  <1> QED BY <1>1, <1>4, <1>7, UnrefStep

\* SERIALNO of a session that has a card.
LEMMA SerialnoInv ==
    ASSUME IInv, NEW s \in Sessions, Serialno(s)
    PROVE  IInv'
  <1> DEFINE r == ses[s]
             c == ses[s].card
             k == card[c]
  <1>1. /\ r.pc = "lock" /\ r.cmd = "serialno" /\ k.owner = None
        /\ UNCHANGED <<list, plugged, locked>>
    BY DEF Serialno, Gets
  <1>2. c \in Range(list) /\ c \in Cards /\ k \in CardData /\ Usable(k, c \in plugged)
    BY <1>1, GetsFacts
  <1>3. r \in SessionData /\ ses \in [Sessions -> SessionData] /\ r.app \in Names
    BY SessionFacts DEF SessionData
  <1>4. r.first = None /\ Locker(s)
    BY <1>1, SessionFacts DEF First
  <1>5. Becomes(k, k, c \in plugged) /\ Becomes(k, SelectAdditional(k, r.app), c \in plugged)
    BY <1>2, <1>3, SelectAdditionalFacts DEF Becomes
  <1>6. CASE /\ Put(c, Unref(k))
             /\ Set(s, [NoCtx(r) EXCEPT !.pc = "newlock", !.card = None])
    <2> DEFINE q == [NoCtx(r) EXCEPT !.pc = "newlock", !.card = None]
    <2>1. /\ q \in SessionData /\ q.pc = "newlock" /\ q.ctx = None /\ q.first = None
          /\ q.cmd = "serialno"
      <3> DEFINE u == NoCtx(r)
      <3>1. u \in SessionData /\ u.ctx = None /\ u.first = None /\ u.cmd = "serialno"
        BY <1>1, <1>3, <1>4, NoCtxFields
      <3>2. "newlock" \in PCs
        BY DEF PCs
      <3> HIDE DEF u
      <3>3. LET v == [u EXCEPT !.pc = "newlock", !.card = None]
            IN  /\ v \in SessionData /\ v.pc = "newlock" /\ v.ctx = None /\ v.first = None
                /\ v.cmd = "serialno"
        BY <3>1, <3>2, Zenon DEF SessionData
      <3> QED BY <3>3 DEF u
    <2> HIDE DEF q
    <2>2. ses'[s] = q
      BY <1>3, <1>6 DEF Set, q
    <2>3. SesInv(s)'
      BY <2>1, <2>2 DEF SesInv, Place, First, Owner, Locker, HoldsList
    <2>4. Set(s, q)
      BY <1>6 DEF q
    <2> QED BY <1>1, <1>6, <2>1, <2>3, <2>4, UnrefStep
  <1>7. CASE Put(c, k) /\ Serial(s, r, c)
    BY <1>1, <1>2, <1>3, <1>5, <1>7, SerialPut, ZenonT(30)
  <1>8. CASE Put(c, SelectAdditional(k, r.app)) /\ Serial(s, [r EXCEPT !.cur = r.app], c)
    <2> DEFINE q == [r EXCEPT !.cur = r.app]
               j == SelectAdditional(k, r.app)
    <2>1. q \in SessionData /\ q.ctx = r.ctx /\ q.first = r.first
      BY <1>3 DEF SessionData
    <2>2. j \in CardData /\ Becomes(k, j, c \in plugged)
      BY <1>5 DEF Becomes
    <2>3. Put(c, j) /\ Serial(s, q, c)
      BY <1>8
    <2> HIDE DEF q, j
    <2> QED BY <1>1, <2>1, <2>2, <2>3, SerialPut
  <1>9. CASE Put(c, k) /\ Set(s, Idle([r EXCEPT !.removed = TRUE]))
    <2> DEFINE q == [r EXCEPT !.removed = TRUE]
    <2>1. q \in SessionData /\ q.ctx = r.ctx /\ q.first = r.first /\ q.removed
      BY <1>3, Zenon DEF SessionData
    <2>2. Set(s, Idle(q))
      BY <1>9
    <2>3. q.removed = (r.removed \/ q.removed)
      BY <1>3, Zenon DEF SessionData
    <2> HIDE DEF q
    <2> QED BY <1>1, <1>2, <1>5, <1>9, <2>1, <2>2, <2>3, PutIdle, ZenonT(30)
  <1> QED BY <1>6, <1>7, <1>8, <1>9 DEF Serialno

\* app_switch_current_card.
LEMMA SwitchcardInv ==
    ASSUME IInv, NEW s \in Sessions, Switchcard(s)
    PROVE  IInv'
  <1> DEFINE r == ses[s]
  <1>1. r \in SessionData /\ ses \in [Sessions -> SessionData] /\ Place(s) /\ First(s)
    BY SessionFacts
  <1>2. UNCHANGED <<list, plugged, locked>>
    BY DEF Switchcard
  <1>3. CASE r.ctx = None \/ r.sn \notin Range(list)
    <2>1. Set(s, Idle(r)) /\ UNCHANGED card
      BY <1>3 DEF Switchcard
    <2>2. ses'[s] = Idle(r)
      BY <1>1, <2>1 DEF Set
    <2>3. SesInv(s)'
      BY <1>1, <1>2, <2>2, IdleFields, RestInv DEF Place, First
    <2> QED BY <1>1, <1>2, <2>1, <2>3, IdleFields, SessionStep
  <1>4. CASE r.ctx # None /\ r.sn \in Range(list)
    <2> DEFINE q == [r EXCEPT !.ctx = r.sn, !.first = None]
               inc(c) == IF c = r.sn THEN 1 ELSE 0
               dec(c) == IF c = r.ctx THEN 1 ELSE 0
               n(c) == (card[c].ref + inc(c)) - dec(c)
    <2>1. r.sn \in Cards /\ r.ctx \in Cards /\ card \in [Cards -> CardData]
      BY <1>1, <1>4, ListCards DEF Place, IInv, Types
    <2>2. q \in SessionData /\ q.ctx = r.sn /\ q.first = None
      BY <1>1, <2>1, Zenon DEF SessionData
    <2>3. Set(s, Idle(q))
      BY <1>4 DEF Switchcard
    <2> HIDE DEF q
    <2>4. ses'[s] = Idle(q)
      BY <1>1, <2>3 DEF Set
    <2>5. SesInv(s)'
      BY <1>2, <1>4, <2>2, <2>4, IdleFields, RestInv, ZenonT(30)
    <2>6. \A c \in Cards : n(c) \in Nat
      <3> SUFFICES ASSUME NEW c \in Cards PROVE n(c) \in Nat
        OBVIOUS
      <3> DEFINE m == Cardinality({t \in Sessions \ {s} : ses[t].ctx = c})
      <3>1. m \in Nat /\ card[c].ref = m + (IF ses[s].ctx = c THEN 1 ELSE 0)
        BY Users
      <3> HIDE DEF m
      <3> QED BY <3>1
    <2>7. ASSUME NEW c \in Cards
          PROVE  card'[c] = [card[c] EXCEPT !.ref = n(c)]
      <3>1. card[c] \in CardData /\ card[c].ref \in Nat
        BY <2>1 DEF CardData
      <3>2. card'[c] = LET k == IF c = r.sn THEN [card[c] EXCEPT !.ref = @ + 1] ELSE card[c]
                       IN  IF c = r.ctx THEN Unref(k) ELSE k
        BY <1>4 DEF Switchcard
      <3>3. CASE c = r.sn /\ c = r.ctx
        BY <3>1, <3>2, <3>3, Zenon DEF Unref, CardData
      <3>4. CASE c = r.sn /\ c # r.ctx
        BY <3>1, <3>2, <3>4 DEF CardData
      <3>5. CASE c # r.sn /\ c = r.ctx
        BY <3>1, <3>2, <3>5 DEF Unref, CardData
      <3>6. CASE c # r.sn /\ c # r.ctx
        BY <3>1, <3>2, <3>6 DEF CardData
      <3> QED BY <3>3, <3>4, <3>5, <3>6
    <2>8. ASSUME NEW c \in Cards
          PROVE  /\ card'[c] \in CardData /\ card'[c].ref = n(c)
                 /\ card'[c].apps = card[c].apps /\ card'[c].aid = card[c].aid
                 /\ card'[c].owner = card[c].owner
                 /\ Usable(card[c], c \in plugged) => Usable(card'[c], c \in plugged)
      <3>1. card[c] \in CardData /\ n(c) \in Nat /\ card'[c] = [card[c] EXCEPT !.ref = n(c)]
        BY <2>1, <2>6, <2>7
      <3> HIDE DEF n
      <3> QED BY <3>1 DEF CardData, Usable
    <2>9. card' \in [Cards -> CardData]
      <3>1. DOMAIN card' = Cards /\ card' = [c \in Cards |-> card'[c]]
        BY <1>4 DEF Switchcard
      <3> HIDE DEF n
      <3> QED BY <2>8, <3>1
    <2>10. CardsKept(s)
      <3>1. \A t \in Sessions : HoldsList(t) => ses[t].card \in Cards
        BY ListCards, SessionFacts DEF Place
      <3> HIDE DEF n
      <3> QED BY <2>8, <3>1 DEF CardsKept, HoldsList
    <2>11. \A c \in Cards : card'[c].ref = (card[c].ref + (IF Idle(q).ctx = c THEN 1 ELSE 0))
                                             - (IF ses[s].ctx = c THEN 1 ELSE 0)
      BY <2>2, <2>8, IdleFields
    <2>12. \A c \in Range(list) : Usable(card'[c], c \in plugged)
      <3> HIDE DEF n
      <3> QED BY <2>8, ListCards DEF IInv, CardInv
    <2>13. list' \in Seq(Cards) /\ Range(list') = Range(list)
      BY <1>2, ZenonT(30) DEF IInv, Types
    <2> HIDE DEF n
    <2> QED BY <1>2, <2>2, <2>3, <2>5, <2>9, <2>10, <2>11, <2>12, <2>13, IdleFields, RefStep, ZenonT(30)
  <1> QED BY <1>3, <1>4

\* select_application takes the first card that fits.
LEMMA SelectInv ==
    ASSUME IInv, NEW s \in Sessions, Select(s)
    PROVE  IInv'
  <1> DEFINE r == ses[s]
             fits == {i \in DOMAIN list : Demand(r) \in {None, list[i]}}
             c == list[CHOOSE i \in fits : \A j \in fits : i <= j]
             conflict == Conflict(c, Name(r))
             ok == \/ conflict = "no"
                   \/ conflict = "switch" /\ (c \in plugged \/ r.app \in Range(card[c].apps))
             k == IF conflict = "switch" THEN SelectAdditional(card[c], r.app) ELSE card[c]
             a == IF conflict = "no" THEN Head1(c) ELSE r.app
             j == [k EXCEPT !.ref = @ + 1]
             q == [r EXCEPT !.ctx = c, !.cur = a]
  <1>1. /\ r \in SessionData /\ ses \in [Sessions -> SessionData] /\ Place(s) /\ First(s)
        /\ Locker(s) /\ r.app \in Names
    BY SessionFacts DEF SessionData
  <1>2. r.pc = "select" /\ WLockFree /\ UNCHANGED <<plugged, locked>>
    BY Zenon DEF Select
  <1>3. r.ctx = None /\ r.first = None
    BY <1>1, <1>2 DEF Place
  <1>4. CASE fits # {} /\ ok
    <2>1. /\ card' = [card EXCEPT ![c] = j] /\ list' = <<c>> \o Without(list, {c})
          /\ Set(s, Opened(q))
      BY <1>4, Zenon DEF Select
    <2>2. c \in Range(list)
      <3>1. DOMAIN list = 1..Len(list) /\ Len(list) \in Nat
        BY DEF IInv, Types
      <3>2. fits \subseteq Nat
        BY <3>1
      <3> HIDE DEF fits, ok
      <3>3. fits # {}
        BY <1>4
      <3>4. PICK n \in fits : \A l \in fits : n <= l
        BY <3>2, <3>3, MinNat, Zenon
      <3>5. (CHOOSE i \in fits : \A l \in fits : i <= l) \in fits
        BY <3>4
      <3> QED BY <3>5, Zenon DEF fits, Range
    <2> HIDE DEF fits, c
    <2>3. c \in Cards /\ card[c] \in CardData /\ Usable(card[c], c \in plugged)
          /\ card \in [Cards -> CardData]
      BY <2>2, ListCards DEF IInv, CardInv, Types
    <2>4. k \in CardData /\ Usable(k, c \in plugged) /\ k.ref = card[c].ref /\ a \in Names
      <3>1. Becomes(card[c], SelectAdditional(card[c], r.app), c \in plugged)
        BY <1>1, <2>3, SelectAdditionalFacts
      <3>2. Head1(c) \in Names
        BY <2>3, FirstApp DEF Head1, Usable
      <3> HIDE DEF conflict
      <3> QED BY <1>1, <2>3, <3>1, <3>2 DEF Becomes
    <2> HIDE DEF k, a
    <2>5. j \in CardData /\ Usable(j, c \in plugged) /\ j.ref = card[c].ref + 1
      BY <2>4 DEF CardData, Usable
    <2>6. /\ q \in SessionData /\ q.ctx = c /\ q.first = None /\ q.cmd = r.cmd
         
      BY <1>1, <1>3, <2>3, <2>4, Zenon DEF SessionData
    <2> HIDE DEF j, q
    <2>7. /\ Opened(q) \in SessionData /\ Opened(q).pc \in {"switch", "get"}
          /\ Opened(q).ctx = c /\ Opened(q).first = None
          /\ Opened(q).cmd = r.cmd \/ Opened(q).cmd = "serialno2"
      <3> DEFINE p == IF q.cmd = "switchcard" THEN "switch" ELSE "get"
                 m == IF q.cmd = "serialno" THEN "serialno2" ELSE q.cmd
      <3>1. Opened(q) = [q EXCEPT !.pc = p, !.cmd = m]
        BY <2>6 DEF Opened, SessionData
      <3>2. p \in {"switch", "get"} /\ (m = r.cmd \/ m = "serialno2") /\ r.cmd \in CmdNames
        BY <1>1, <2>6 DEF SessionData
      <3>3. p \in PCs /\ m \in CmdNames
        BY <3>2 DEF PCs, CmdNames
      <3> HIDE DEF p, m
      <3>4. /\ Opened(q) \in SessionData /\ Opened(q).pc = p /\ Opened(q).cmd = m
            /\ Opened(q).ctx = q.ctx /\ Opened(q).first = q.first
        BY <2>6, <3>1, <3>3, Zenon DEF SessionData
      <3> QED BY <2>6, <3>2, <3>4
    <2>8. ses'[s] = Opened(q)
      BY <1>1, <2>1 DEF Set
    <2>9. list' \in Seq(Cards) /\ Range(list') = Range(list)
      <3>1. list \in Seq(Cards)
        BY DEF IInv, Types
      <3>2. list' \in Seq(Cards) /\ Range(list') = {c} \cup Range(list)
        BY <2>1, <2>3, <3>1, Moved, Zenon
      <3> QED BY <2>2, <3>2
    <2>10. SesInv(s)'
      BY <1>1, <1>2, <2>2, <2>7, <2>8, <2>9, ZenonT(30) DEF SesInv, Place, First, Owner, Locker, HoldsList
    <2>11. /\ card'[c] = j /\ \A d \in Cards \ {c} : card'[d] = card[d]
           /\ card' \in [Cards -> CardData]
      BY <2>1, <2>3, <2>5, ZenonT(30)
    <2>12. CardsKept(s)
      BY <1>2 DEF CardsKept, WLockFree, HoldsList
    <2>13. ASSUME NEW d \in Cards
           PROVE  card'[d].ref = (card[d].ref + (IF Opened(q).ctx = d THEN 1 ELSE 0))
                                   - (IF ses[s].ctx = d THEN 1 ELSE 0)
      <3>1. ses[s].ctx # d /\ card[d].ref \in Nat
        BY <1>3, <2>3, CardAssumption DEF CardData
      <3> QED BY <2>5, <2>7, <2>11, <3>1
    <2>14. \A d \in Range(list) : Usable(card'[d], d \in plugged)
      <3>1. \A d \in Range(list) : d \in Cards /\ Usable(card[d], d \in plugged)
        BY ListCards DEF IInv, CardInv
      <3> QED BY <2>5, <2>11, <3>1
    <2> QED BY <1>2, <2>1, <2>7, <2>9, <2>10, <2>11, <2>12, <2>13, <2>14, RefStep, Zenon
  <1>5. CASE ~(fits # {} /\ ok)
    <2>1. /\ Set(s, Idle([r EXCEPT !.removed = r.removed \/ r.cmd = "serialno"]))
          /\ UNCHANGED <<list, card>>
      BY <1>1, <1>5, Zenon DEF Select, SessionData
    <2> DEFINE b == r.removed \/ r.cmd = "serialno"
               u == [r EXCEPT !.removed = b]
    <2>2. b \in BOOLEAN
      OBVIOUS
    <2> HIDE DEF b
    <2>3. u \in SessionData /\ u.ctx = None /\ u.first = None
      BY <1>1, <1>3, <2>2 DEF SessionData
    <2>4. Set(s, Idle(u))
      BY <2>1 DEF b
    <2> HIDE DEF u
    <2>5. ses'[s] = Idle(u)
      BY <1>1, <2>4 DEF Set
    <2>6. SesInv(s)'
      BY <2>3, <2>5, IdleFields, RestInv, ZenonT(30)
    <2> QED BY <1>2, <1>3, <2>1, <2>3, <2>4, <2>6, IdleFields, SessionStep, ZenonT(30)
  <1> QED BY <1>4, <1>5

-----------------------------------------------------------------------------
(* The steps that change the cards of the list, and the user. *)

\* A context that is not used.
LEMMA NoCardFields == NoCard \in CardData /\ NoCard.ref = 0
  <1>1. <<>> \in Seq(Names) /\ None \in Names
    BY DEF Names
  <1> QED BY <1>1 DEF NoCard, CardData

\* The context of a card that has just been found.
LEMMA FreshFields ==
    ASSUME NEW a \in Names, NEW in
    PROVE  Fresh(a) \in CardData /\ Usable(Fresh(a), in) /\ Fresh(a).ref = 0
  <1> DEFINE w == <<a>>
  <1>1. w \in Seq(Names) /\ w # <<>> /\ w[1] = a
    OBVIOUS
  <1>2. Fresh(a) = [NoCard EXCEPT !.apps = w, !.phys = a]
    BY DEF Fresh
  <1> HIDE DEF w
  <1> QED BY <1>1, <1>2, NoCardFields, Zenon DEF CardData, Usable

\* app_new_register: no session refers to the new card.
LEMMA RegisterInv ==
    ASSUME IInv, NEW s \in Sessions, Register(s)
    PROVE  IInv'
  <1> DEFINE r == ses[s]
             c == ses[s].card
             a == IF Name(r) = None THEN AppsOf[c][1] ELSE Name(r)
             q == [r EXCEPT !.pc = "scan"]
  <1>1. /\ r \in SessionData /\ ses \in [Sessions -> SessionData] /\ r.app \in Names
        /\ Place(s) /\ First(s) /\ Locker(s)
    BY SessionFacts DEF SessionData
  <1>2. r.pc = "register" /\ WLockFree /\ Set(s, q) /\ UNCHANGED <<plugged, locked>>
    BY DEF Register, Goto
  <1>3. c \in Cards /\ c \notin Range(list) /\ r.ctx = None /\ r.first = None
    BY <1>1, <1>2 DEF Place
  <1>4. /\ q \in SessionData /\ q.ctx = None /\ q.first = None /\ q.pc = "scan"
        /\ q.cmd = r.cmd
    BY <1>1, <1>3 DEF SessionData, PCs
  <1>5. ses'[s] = q /\ \A t \in Sessions \ {s} : ses'[t] = ses[t]
    BY <1>1, <1>2 DEF Set
  <1>6. \A t \in Sessions \ {s} : ses[t].pc \notin {"scan", "register"}
    BY <1>2 DEF IInv, OneScan
  <1>7. ses' \in [Sessions -> SessionData]
    BY <1>1, <1>2, <1>4, ZenonT(30) DEF Set
  <1> HIDE DEF q
  <1>8. SesInv(s)'
    BY <1>1, <1>2, <1>4, <1>5, ZenonT(30) DEF SesInv, Place, First, Owner, Locker, HoldsList
  <1>9. CASE c \notin plugged
    <2>1. UNCHANGED <<list, card>>
      BY <1>9 DEF Register
    <2> QED BY <1>2, <1>3, <1>4, <1>6, <1>8, <2>1, SessionStep, ZenonT(30)
  <1>10. CASE c \in plugged
    <2>1. list' = <<c>> \o list /\ card' = [card EXCEPT ![c] = Fresh(a)]
      BY <1>10, ZenonT(30) DEF Register
    <2>2. a \in Names
      <3>1. AppsOf[c] \in Seq(Apps) /\ AppsOf[c] # <<>>
        BY <1>3, CardAssumption
      <3>2. AppsOf[c][1] \in Apps
        BY <3>1
      <3> QED BY <1>1, <3>2, ZenonT(30) DEF Name, Names
    <2> HIDE DEF a
    <2>3. Fresh(a) \in CardData /\ Usable(Fresh(a), c \in plugged) /\ Fresh(a).ref = 0
      BY <2>2, FreshFields
    <2>4. list \in Seq(Cards) /\ card \in [Cards -> CardData]
      BY DEF IInv, Types
    <2>5. list' \in Seq(Cards) /\ Range(list') = {c} \cup Range(list)
      BY <1>3, <2>1, <2>4, Moved, Zenon
    <2>6. /\ card'[c] = Fresh(a) /\ \A d \in Cards \ {c} : card'[d] = card[d]
          /\ card' \in [Cards -> CardData]
      BY <1>3, <2>1, <2>3, <2>4, ZenonT(30)
    <2>7. Types'
      BY <1>2, <1>7, <2>5, <2>6, ZenonT(30) DEF IInv, Types
    <2>8. \A d \in Range(list') : CardInv(d)'
      BY <1>2, <2>3, <2>5, <2>6, ListCards, ZenonT(30) DEF IInv, CardInv
    <2>9. ASSUME NEW t \in Sessions \ {s} PROVE SesInv(t)'
      <3>1. Place(t) /\ First(t) /\ Locker(t) /\ ~HoldsList(t)
        BY <1>2, SessionFacts DEF WLockFree
      <3> QED BY <1>2, <1>5, <1>6, <2>5, <3>1, ZenonT(30) DEF SesInv, Place, First, Owner, Locker, HoldsList
    <2>10. \A t \in Sessions : SesInv(t)'
      BY <1>8, <2>9
    <2>11. OneScan'
      BY <1>5, <1>6 DEF OneScan
    <2>12. RefCounts'
      <3> SUFFICES ASSUME NEW d \in Cards
                   PROVE  card'[d].ref = Cardinality({t \in Sessions : ses'[t].ctx = d})
        BY DEF RefCounts
      <3>1. {t \in Sessions : ses'[t].ctx = d} = {t \in Sessions : ses[t].ctx = d}
        BY <1>3, <1>4, <1>5
      <3>2. card[d].ref = Cardinality({t \in Sessions : ses[t].ctx = d})
        BY DEF IInv, RefCounts
      <3>3. CASE d = c
        <4>1. \A t \in Sessions : ses[t].ctx # c
          BY <1>3, SessionFacts, CardAssumption DEF Place
        <4>2. {t \in Sessions : ses[t].ctx = c} = {}
          BY <4>1
        <4> QED BY <2>3, <2>6, <3>1, <3>3, <4>2, FS_EmptySet, Zenon
      <3>4. CASE d # c
        BY <2>6, <3>1, <3>2, <3>4, Zenon
      <3> QED BY <3>3, <3>4
    <2> QED BY <2>7, <2>8, <2>10, <2>11, <2>12, ZenonT(30) DEF IInv
  <1> QED BY <1>9, <1>10

\* The main loop removes cards: their sessions lose them and are told.
LEMMA UpdateInv ==
    ASSUME IInv, Update
    PROVE  IInv'
  <1> DEFINE gone == {c \in Range(list) : card[c].reset \/ c \notin plugged}
             Lost(r) == [NoCtx(r) EXCEPT !.removed = TRUE]
  <1>1. /\ WLockFree /\ list' = Without(list, gone)
        /\ card' = [c \in Cards |-> IF c \in gone THEN NoCard ELSE card[c]]
        /\ ses' = [s \in Sessions |-> IF ses[s].ctx \in gone THEN Lost(ses[s]) ELSE ses[s]]
        /\ UNCHANGED <<plugged, locked>>
    BY DEF Update
  <1>2. /\ list \in Seq(Cards) /\ card \in [Cards -> CardData]
        /\ ses \in [Sessions -> SessionData]
    BY DEF IInv, Types
  <1>3. gone \subseteq Range(list)
    OBVIOUS
  <1> HIDE DEF gone
  <1>4. list' \in Seq(Cards) /\ Range(list') = Range(list) \ gone
    BY <1>1, <1>2, WithoutRange
  <1>5. ASSUME NEW c \in Cards
        PROVE  card'[c] = (IF c \in gone THEN NoCard ELSE card[c]) /\ card'[c] \in CardData
    BY <1>1, <1>2, NoCardFields
  <1>6. card' \in [Cards -> CardData]
    BY <1>1, <1>2, NoCardFields
  <1>7. ASSUME NEW r \in SessionData
        PROVE  /\ Lost(r) \in SessionData /\ Lost(r).ctx = None /\ Lost(r).removed
               /\ Lost(r).pc = r.pc /\ Lost(r).cmd = r.cmd /\ Lost(r).card = r.card
               /\ Lost(r).first = r.first
    BY <1>7, NoCtxFields, Zenon DEF SessionData
  <1> HIDE DEF Lost
  <1>8. ASSUME NEW s \in Sessions
        PROVE  /\ ses'[s] = IF ses[s].ctx \in gone THEN Lost(ses[s]) ELSE ses[s]
               /\ ses'[s] \in SessionData /\ ses'[s].pc = ses[s].pc
    BY <1>1, <1>2, <1>7
  <1>9. ses' \in [Sessions -> SessionData]
    BY <1>1, <1>8
  <1>10. Types'
    BY <1>1, <1>4, <1>6, <1>9, ZenonT(30) DEF IInv, Types
  <1>11. \A c \in Range(list') : CardInv(c)'
    <2>1. \A c \in Range(list) : c \in Cards /\ Usable(card[c], c \in plugged)
      BY ListCards DEF IInv, CardInv
    <2> QED BY <1>1, <1>4, <1>5, <2>1 DEF CardInv
  <1>12. ASSUME NEW s \in Sessions PROVE SesInv(s)'
    <2>1. Place(s) /\ First(s) /\ Locker(s) /\ ~HoldsList(s)
      BY <1>1, SessionFacts DEF WLockFree
    <2>2. ses[s] \in SessionData
      BY <1>2, ZenonT(30)
    <2>3. CASE ses[s].ctx \in gone
      <3>1. ses'[s] = Lost(ses[s]) /\ ses[s].ctx # None
        <4>1. None \notin Range(list)
          BY ListCards, CardAssumption
        <4> QED BY <1>3, <1>8, <2>3, <4>1
      <3>2. /\ ses'[s].ctx = None /\ ses'[s].removed /\ ses'[s].pc = ses[s].pc
            /\ ses'[s].cmd = ses[s].cmd /\ ses'[s].first = ses[s].first
        BY <1>7, <2>2, <3>1, ZenonT(30)
      <3> QED BY <1>1, <2>1, <3>1, <3>2
              DEF SesInv, Place, First, Owner, Locker, HoldsList
    <2>4. CASE ses[s].ctx \notin gone
      <3>1. ses'[s] = ses[s]
        BY <1>8, <2>4
      <3> QED BY <1>1, <1>4, <2>1, <2>4, <3>1, ZenonT(30) DEF SesInv, Place, First, Owner, Locker, HoldsList
    <2> QED BY <2>3, <2>4
  <1>13. OneScan'
    BY <1>8 DEF IInv, OneScan
  <1>14. RefCounts'
    <2> SUFFICES ASSUME NEW c \in Cards
                 PROVE  card'[c].ref = Cardinality({s \in Sessions : ses'[s].ctx = c})
      BY DEF RefCounts
    <2>0. c # None
      BY CardAssumption
    <2>1. CASE c \in gone
      <3>1. \A s \in Sessions : ses'[s].ctx # c
        BY <1>2, <1>7, <1>8, <2>0, <2>1
      <3>2. {s \in Sessions : ses'[s].ctx = c} = {}
        BY <3>1
      <3> QED BY <1>5, <2>1, <3>2, NoCardFields, FS_EmptySet, Zenon
    <2>2. CASE c \notin gone
      <3>1. \A s \in Sessions : ses'[s].ctx = c <=> ses[s].ctx = c
        BY <1>2, <1>7, <1>8, <2>0, <2>2
      <3>2. {s \in Sessions : ses'[s].ctx = c} = {s \in Sessions : ses[s].ctx = c}
        BY <3>1
      <3> QED BY <1>5, <2>2, <3>2, ZenonT(30) DEF IInv, RefCounts
    <2> QED BY <2>1, <2>2
  <1> QED BY <1>10, <1>11, <1>12, <1>13, <1>14, ZenonT(30) DEF IInv

\* The daemon dies and another one starts without cards and sessions.
LEMMA CrashInv ==
    ASSUME IInv, NEW s \in Sessions, Crash(s)
    PROVE  IInv'
  <1>1. /\ list' = <<>> /\ card' = [c \in Cards |-> NoCard]
        /\ ses' = [t \in Sessions |-> NewSession] /\ locked' = None /\ plugged' = plugged
    BY DEF Crash
  <1>2. list' \in Seq(Cards) /\ Range(list') = {}
    BY <1>1 DEF Range
  <1>3. Types'
    BY <1>1, <1>2, NoCardFields, NewSessionFields, ZenonT(30) DEF IInv, Types
  <1>4. \A t \in Sessions : ses'[t] = NewSession
    BY <1>1, ZenonT(30)
  <1>5. \A t \in Sessions : SesInv(t)'
    BY <1>1, <1>4, NewSessionFields, RestInv, CardAssumption, ZenonT(30)
  <1>6. OneScan'
    BY <1>4, NewSessionFields DEF OneScan
  <1>7. RefCounts'
    <2> SUFFICES ASSUME NEW c \in Cards
                 PROVE  card'[c].ref = Cardinality({t \in Sessions : ses'[t].ctx = c})
      BY DEF RefCounts
    <2>1. {t \in Sessions : ses'[t].ctx = c} = {}
      BY <1>4, NewSessionFields, CardAssumption, ZenonT(30)
    <2> QED BY <1>1, <2>1, NoCardFields, FS_EmptySet, Zenon
  <1> QED BY <1>2, <1>3, <1>5, <1>6, <1>7, ZenonT(30) DEF IInv

\* The steps after which only a card is plugged in or not, the lock is gone, or
\* the main loop has gone on.
LEMMA WorldInv ==
    ASSUME IInv, UNCHANGED <<list, card, ses>>, locked' \in {locked, None},
           plugged' \subseteq Cards, plugged' \cap Range(list) \subseteq plugged
    PROVE  IInv'
  <1>1. Types'
    BY CardAssumption, ZenonT(30) DEF IInv, Types
  <1>2. \A c \in Range(list) : CardInv(c)'
    BY DEF IInv, CardInv, Usable
  <1>3. ASSUME NEW s \in Sessions PROVE SesInv(s)'
    <2>1. Place(s) /\ First(s) /\ Owner(s) /\ Locker(s)
      BY SessionFacts, ZenonT(30)
    <2>2. Place(s)' /\ First(s)' /\ Owner(s)'
      BY <2>1, ZenonT(30) DEF Place, First, Owner, HoldsList, Head1
    <2>3. Locker(s)'
      BY <2>1, CardAssumption, ZenonT(30) DEF Locker
    <2> QED BY <2>2, <2>3 DEF SesInv
  <1>4. OneScan' /\ RefCounts'
    BY DEF IInv, OneScan, RefCounts
  <1> QED BY <1>1, <1>2, <1>3, <1>4, ZenonT(30) DEF IInv

-----------------------------------------------------------------------------
(* The theorems. *)

\* scdaemon starts without sessions.
LEMMA InitInv == Init => IInv
  <1> SUFFICES ASSUME Init PROVE IInv
    OBVIOUS
  <1>1. /\ list = InitList /\ list \in Seq(Cards) /\ plugged = Cards /\ locked = None
        /\ card = [c \in Cards |-> IF c \in Range(InitList) THEN Fresh(AppsOf[c][1]) ELSE NoCard]
    BY CardAssumption DEF Init
  <1>2. \A s \in Sessions : ses[s] = Idle(NewSession)
    BY DEF Init
  <1>3. /\ Idle(NewSession) \in SessionData /\ Idle(NewSession).pc = "idle"
        /\ Idle(NewSession).ctx = None /\ Idle(NewSession).first = None
    BY NewSessionFields, IdleFields, ZenonT(30)
  <1>4. ses \in [Sessions -> SessionData]
    BY <1>3 DEF Init
  <1>5. ASSUME NEW c \in Cards
        PROVE  /\ Fresh(AppsOf[c][1]) \in CardData /\ Usable(Fresh(AppsOf[c][1]), c \in plugged)
               /\ Fresh(AppsOf[c][1]).ref = 0
    <2>1. AppsOf[c] \in Seq(Apps) /\ AppsOf[c] # <<>>
      BY CardAssumption
    <2>2. AppsOf[c][1] \in Names
      BY <2>1 DEF Names
    <2> QED BY <2>2, FreshFields
  <1>6. ASSUME NEW c \in Cards
        PROVE  card[c] \in CardData /\ card[c].ref = 0
    BY <1>1, <1>5, NoCardFields, ZenonT(30)
  <1>7. card \in [Cards -> CardData]
    BY <1>1, <1>5, NoCardFields
  <1>8. Types
    BY <1>1, <1>4, <1>7 DEF Types
  <1>9. \A c \in Range(list) : CardInv(c)
    <2>1. Range(list) \subseteq Cards
      BY <1>1 DEF Range
    <2> QED BY <1>1, <1>5, <2>1, ZenonT(30) DEF CardInv
  <1>10. \A s \in Sessions : SesInv(s)
    BY <1>2, <1>3, ZenonT(30) DEF SesInv, Place, First, Owner, Locker, HoldsList
  <1>11. OneScan
    BY <1>2, <1>3 DEF OneScan
  <1>12. RefCounts
    <2> SUFFICES ASSUME NEW c \in Cards
                 PROVE  card[c].ref = Cardinality({s \in Sessions : ses[s].ctx = c})
      BY DEF RefCounts
    <2>1. {s \in Sessions : ses[s].ctx = c} = {}
      BY <1>2, <1>3, CardAssumption, ZenonT(30)
    <2> QED BY <1>6, <2>1, FS_EmptySet, Zenon
  <1> QED BY <1>8, <1>9, <1>10, <1>11, <1>12, ZenonT(30) DEF IInv

\* Every step preserves the invariant.
LEMMA NextInv == IInv /\ [Next]_vars => IInv'
  <1> SUFFICES ASSUME IInv, [Next]_vars PROVE IInv'
    OBVIOUS
  <1>1. ASSUME NEW s \in Sessions, Step(s) PROVE IInv'
    BY <1>1, CardGetInv, WalkInv, SerialnoInv, Serialno2Inv, OperateInv, OpDoneInv, ApduInv,
       SwitchappInv, ReleaseInv, ResetInv, ResetDoneInv, SwitchcardInv, NewLockInv, ScanInv,
       RegisterInv, SelectInv, CrashInv, ZenonT(30) DEF Step
  <1>2. ASSUME NEW s \in Sessions, Command(s) \/ Lock(s) \/ Connect(s) \/ End(s) PROVE IInv'
    BY <1>2, CommandInv, LockInv, ConnectInv, EndInv, ZenonT(30)
  <1>3. ASSUME NEW s \in Sessions, UnlockSession(s) PROVE IInv'
    <2>1. UNCHANGED <<list, card, ses, plugged>> /\ locked' = None
      BY <1>3 DEF UnlockSession
    <2> QED BY <2>1, WorldInv DEF IInv, Types
  <1>4. CASE Wake \/ UNCHANGED vars
    <2>1. UNCHANGED <<list, card, ses, plugged, locked>>
      BY <1>4 DEF Wake, vars
    <2> QED BY <2>1, WorldInv DEF IInv, Types
  <1>5. CASE Update
    BY <1>5, UpdateInv
  <1>6. ASSUME NEW c \in Cards, Unplug(c) PROVE IInv'
    <2>1. UNCHANGED <<list, card, ses, locked>> /\ plugged' = plugged \ {c}
      BY <1>6 DEF Unplug
    <2> QED BY <2>1, WorldInv DEF IInv, Types
  <1>7. ASSUME NEW c \in Cards, Plug(c) PROVE IInv'
    <2>1. /\ UNCHANGED <<list, card, ses, locked>> /\ plugged' = plugged \cup {c}
          /\ c \notin Range(list)
      BY <1>7 DEF Plug
    <2> QED BY <2>1, WorldInv DEF IInv, Types
  <1> QED BY <1>1, <1>2, <1>3, <1>4, <1>5, <1>6, <1>7, ZenonT(30) DEF Next

\* The invariant, for any number of sessions and cards, any applications and any
\* commands.
THEOREM Invariance == Spec => []IInv
  BY InitInv, NextInv, PTL DEF Spec

\* A card's reference count is the number of sessions whose card it is.
THEOREM ReferencesCounted == Spec => []RefCounts
  <1>1. IInv => RefCounts
    BY ZenonT(30) DEF IInv
  <1> QED BY Invariance, <1>1, PTL

\* The main loop frees no card that a session refers to, waits for or works with.
THEOREM UsedCardsKept == Spec => []CardsLive
  <1>1. IInv => CardsLive
    <2> SUFFICES ASSUME IInv PROVE CardsLive
      OBVIOUS
    <2>1. \A s \in Sessions : Place(s)
      BY SessionFacts
    <2>2. \A c \in Range(list) : card[c].apps # <<>>
      BY DEF IInv, CardInv, Usable
    <2> QED BY <2>1, <2>2 DEF CardsLive, Place
  <1> QED BY Invariance, <1>1, PTL

\* The operations of a client are all done on the card of the first one, until
\* it asks for a card or gives it back.
THEOREM OneCardPerClient == Spec => []SameCard
  <1>1. IInv => SameCard
    BY SessionFacts, ZenonT(30) DEF SameCard, First
  <1> QED BY Invariance, <1>1, PTL

\* An operation runs in the application of its session, which is the first one of
\* the card and the one that it has selected.
THEOREM ApplicationSelected == Spec => []SelectedApp
  <1>1. IInv => SelectedApp
    <2> SUFFICES ASSUME IInv, NEW s \in Sessions, ses[s].pc = "op"
                 PROVE  LET c == ses[s].card IN
                        /\ ses[s].cur = Head1(c)
                        /\ c \in plugged /\ ~card[c].left /\ ~card[c].reset =>
                             card[c].phys = Head1(c)
      BY DEF SelectedApp
    <2>1. ses[s].cur = Head1(ses[s].card) /\ ~card[ses[s].card].aid
      BY SessionFacts DEF Owner
    <2>2. Usable(card[ses[s].card], ses[s].card \in plugged)
      BY GetsFacts
    <2> QED BY <2>1, <2>2 DEF Usable, Head1
  <1> QED BY Invariance, <1>1, PTL

\* locked_session never points to a session that has ended: do_reset gives the
\* lock back at the end of every connection.
THEOREM LockGivenBack == Spec => []LockHasOwner
  <1>1. IInv => LockHasOwner
    BY SessionFacts DEF LockHasOwner, Locker, IInv, Types
  <1> QED BY Invariance, <1>1, PTL
=============================================================================
