-------------------------- MODULE DaemonConnProofs --------------------------
(***************************************************************************)
(* Proofs about the connections of gpg-agent to scdaemon.                  *)
(***************************************************************************)
EXTENDS DaemonConn, TLAPS

\* The seconds a prover gets for a leaf.
USE SMTT(30), ZenonT(30)

-----------------------------------------------------------------------------
(* The inductive invariant. *)

\* The types that TypeOK leaves out.
MoreTypes ==
  /\ require \in [Sessions -> BOOLEAN]
  /\ reusable \in BOOLEAN
  /\ peer \in [Ctxs -> 0..started]
  /\ started \in Nat
  /\ alive \subseteq 1..started
  /\ waited \subseteq watched
  /\ watched \subseteq 1..started
  /\ freed \in BOOLEAN

\* The context of a session is open, unless wait_child_thread has just released
\* it; only then a session may be caught with it.  Only a session that was given
\* the primary context and requires a socket wants the lock while it has one.
LocalOpen ==
  \A s \in Sessions :
    /\ local[s].ctx # NoCtx =>
         /\ local[s].there
         /\ ctx[local[s].ctx] = IF s \in freeing THEN "released" ELSE "open"
    /\ local[s].in_use => local[s].there
    /\ phase[s] \in {"forked", "giving", "busy"} => local[s].ctx # NoCtx \/ s \in caught
    /\ phase[s] = "starting" /\ local[s].ctx # NoCtx => local[s].ctx \in given
    /\ s \in freeing => local[s].invalid /\ (local[s].in_use => s \in caught)
    /\ s \in caught => local[s].invalid /\ phase[s] = "busy"

\* An invalid context is one in use or being released, and no longer the primary
\* one once wait_child_thread is done.
InvalidInUse ==
  \A s \in Sessions : local[s].invalid /\ local[s].ctx # NoCtx =>
    /\ local[s].in_use \/ s \in freeing
    /\ LockFree => local[s].ctx # primary

\* The primary context was created; it is open while it waits for a session, and
\* it is not that of a daemon whose end has been dealt with.
PrimaryKnown ==
  primary # NoCtx =>
    /\ ctx[primary] # "unused"
    /\ reusable /\ ~freed => ctx[primary] = "open"
    /\ peer[primary] \notin watched \ (alive \cup waited)

\* An open primary context waits for a session or belongs to one.
PrimaryHeld ==
  primary # NoCtx /\ ctx[primary] = "open" /\ ~reusable /\ primary \notin given =>
    \E s \in Sessions : local[s].ctx = primary

\* Contexts not yet created have no daemon; a daemon that runs and was given a
\* waiting thread still has it.
Fresh ==
  /\ \A c \in Ctxs : ctx[c] = "unused" => peer[c] = 0
  /\ reusable => primary # NoCtx
  /\ watched \cap alive \subseteq waited

\* The daemon of the primary context is the only one waited for.
OneWaiter == waited # {} => primary # NoCtx /\ waited = {peer[primary]}

\* What wait_child_thread has done so far: the sessions it has visited have an
\* invalid context, and it frees one context at a time.
Waiting ==
  /\ LockFree => todo = {} /\ freeing = {} /\ ~freed
  /\ ~LockFree => ending \notin alive
  /\ ~LockFree => \A s \in Sessions \ todo : local[s].there => local[s].invalid
  /\ \A s, t \in freeing : s = t
  /\ freed => primary # NoCtx /\ ctx[primary] = "released"

\* agent_kill_daemon uses the primary context, at least while the daemon runs.
KillerPrimary ==
  killer # NoCtx =>
    /\ killer \in Ctxs /\ ctx[killer] # "unused"
    /\ peer[killer] \in watched \cap alive => killer = primary

IInv ==
  /\ TypeOK /\ MoreTypes /\ OneUser /\ LocalOpen /\ InvalidInUse
  /\ PrimaryKnown /\ PrimaryHeld /\ PrimaryOpen /\ Fresh
  /\ OneWaiter /\ Waiting /\ KillerPrimary
  /\ NoDeadContext /\ NoLeak /\ ~misused

-----------------------------------------------------------------------------
(* Lemmas. *)

\* The values of d_local.
LocalData == [ctx : Ctxs \cup {NoCtx}, in_use : BOOLEAN, invalid : BOOLEAN,
              there : BOOLEAN]

\* NULL is no context.
LEMMA NoCtxIsNone == NoCtx \notin Ctxs
  BY DaemonAssumption DEF NoCtx, Ctxs

\* assuan_new returns a context that did not exist.
LEMMA NewUnused == \A c \in New : c \in Ctxs /\ ctx[c] = "unused"
  BY DEF New

\* TypeOK in two parts.
InUseMarks ==
  \A s \in Sessions : local[s].in_use <=> phase[s] \in {"forked", "giving", "busy"}

Types ==
  /\ local \in [Sessions -> LocalData]
  /\ phase \in [Sessions -> {"idle", "starting", "forked", "giving", "busy"}]
  /\ primary \in Ctxs \cup {NoCtx}
  /\ socket \in 0..started
  /\ ctx \in [Ctxs -> {"unused", "open", "released"}]
  /\ ending \in waited \cup {0}
  /\ todo \cup freeing \cup caught \subseteq Sessions

\* The two parts make up TypeOK.
LEMMA TypeParts == TypeOK <=> Types /\ InUseMarks
  BY DEF TypeOK, Types, InUseMarks, LocalData

\* The same after a step.
LEMMA TypePartsNext == TypeOK' <=> Types' /\ InUseMarks'
  BY DEF TypeOK, Types, InUseMarks, LocalData

\* While start_daemon_lock is free wait_child_thread has nothing under way.
LEMMA Quiet ==
  ASSUME Waiting, LockFree, UNCHANGED waiter
  PROVE  /\ LockFree' /\ Waiting'
         /\ todo = {} /\ freeing = {} /\ ~freed
         /\ UNCHANGED <<ending, todo, freeing, freed>>
  BY DEF Waiting, LockFree, waiter

\* What daemon_unlock makes of the local data of a session.
LEMMA UnlockedFields ==
  ASSUME NEW l \in LocalData
  PROVE  /\ Unlocked(l) \in LocalData
         /\ Unlocked(l).ctx = IF l.invalid THEN NoCtx ELSE l.ctx
         /\ Unlocked(l).in_use = FALSE
         /\ Unlocked(l).invalid = FALSE
         /\ Unlocked(l).there = l.there
  <1>1. CASE l.invalid
    BY <1>1, Zenon DEF Unlocked, LocalData
  <1>2. CASE ~l.invalid
    BY <1>2, Zenon DEF Unlocked, LocalData
  <1> QED BY <1>1, <1>2, Zenon DEF LocalData

\* daemon_start preserves the invariant.
LEMMA StartInv ==
  ASSUME IInv, NEW s \in Sessions, NEW req \in BOOLEAN, Start(s, req)
  PROVE  IInv'
  <1> USE NoCtxIsNone DEF IInv
  <1>0. Types /\ InUseMarks
    BY TypeParts
  <1>1. /\ phase[s] = "idle"
        /\ require' = [require EXCEPT ![s] = req]
        /\ UNCHANGED <<primary, reusable, socket, ctx, peer, started, alive, waited,
                       watched, given, killer, misused>>
        /\ UNCHANGED <<ending, todo, freeing, freed>>
    BY DEF Start, waiter
  <1>2. PrimaryKnown' /\ PrimaryOpen' /\ Fresh' /\ OneWaiter' /\ KillerPrimary'
    BY <1>1 DEF PrimaryKnown, PrimaryOpen, Fresh, OneWaiter, KillerPrimary, Open, LockFree
  <1>3. CASE local[s].ctx # NoCtx
    <2>1. /\ local' = [local EXCEPT ![s].in_use = TRUE]
          /\ phase' = [phase EXCEPT ![s] = "busy"]
          /\ caught' = caught \cup (freeing \cap {s})
      BY <1>3 DEF Start
    <2>2. /\ local'[s] = [local[s] EXCEPT !.in_use = TRUE]
          /\ \A t \in Sessions \ {s} : local'[t] = local[t]
          /\ local' \in [Sessions -> LocalData]
      BY <1>0, <2>1, Zenon DEF Types, LocalData
    <2>3. /\ local'[s].in_use
          /\ \A t \in Sessions : /\ local'[t].ctx = local[t].ctx
                                 /\ local'[t].invalid = local[t].invalid
                                 /\ local'[t].there = local[t].there
      BY <1>0, <2>2 DEF Types, LocalData
    <2>4. Types'
      BY <1>0, <1>1, <2>1, <2>2 DEF Types
    <2>5. InUseMarks'
      BY <1>0, <1>1, <2>1, <2>2, <2>3 DEF Types, InUseMarks
    <2>6. MoreTypes'
      BY <1>1 DEF MoreTypes
    <2>7. OneUser' /\ PrimaryHeld' /\ NoLeak'
      BY <1>1, <2>3 DEF OneUser, PrimaryHeld, NoLeak
    <2>8. InvalidInUse' /\ NoDeadContext'
      <3>1. InvalidInUse'
        BY <1>1, <2>2, <2>3, Zenon DEF InvalidInUse, LockFree
      <3>2. NoDeadContext'
        BY <1>1, <2>2, <2>3, Zenon DEF NoDeadContext
      <3> QED BY <3>1, <3>2
    <2>9. LocalOpen'
      BY <1>0, <1>1, <1>3, <2>1, <2>2, <2>3 DEF Types, LocalOpen
    <2>10. Waiting'
      BY <1>1, <2>3 DEF Waiting, LockFree
    <2> QED BY <1>1, <1>2, <2>4, <2>5, <2>6, <2>7, <2>8, <2>9, <2>10, TypePartsNext
  <1>4. CASE local[s].ctx = NoCtx
    <2>1. /\ phase' = [phase EXCEPT ![s] = "starting"]
          /\ ~local[s].in_use
          /\ UNCHANGED <<local, caught>>
      BY <1>4 DEF Start
    <2>2. Types' /\ MoreTypes'
      BY <1>0, <1>1, <2>1 DEF Types, MoreTypes
    <2>3. InUseMarks'
      BY <1>0, <1>1, <2>1 DEF Types, InUseMarks
    <2>4. LocalOpen'
      BY <1>0, <1>1, <1>4, <2>1 DEF Types, LocalOpen
    <2>5. OneUser' /\ InvalidInUse' /\ PrimaryHeld' /\ NoDeadContext' /\ NoLeak' /\ Waiting'
      BY <1>1, <2>1 DEF OneUser, InvalidInUse, PrimaryHeld, NoDeadContext, NoLeak,
         Waiting, LockFree
    <2> QED BY <1>1, <1>2, <2>2, <2>3, <2>4, <2>5, TypePartsNext
  <1> QED BY <1>3, <1>4

\* Taking over the primary context that a session left preserves the invariant.
LEMMA ReuseInv ==
  ASSUME IInv, NEW s \in Sessions, Reuse(s)
  PROVE  IInv'
  <1> USE NoCtxIsNone DEF IInv
  <1>0. Types /\ InUseMarks
    BY TypeParts
  <1>1. /\ LockFree /\ LockFree' /\ Waiting' /\ freeing = {} /\ ~freed
        /\ UNCHANGED <<ending, todo, freeing, freed>>
    BY Quiet DEF Reuse
  <1>2. /\ phase[s] = "starting"
        /\ primary # NoCtx /\ reusable /\ reusable' = FALSE
        /\ local' = [local EXCEPT ![s] = UsedLocal(primary)]
        /\ phase' = [phase EXCEPT ![s] = "busy"]
        /\ UNCHANGED <<require, primary, socket, ctx, peer, started, alive, waited,
                       watched, caught, given, killer, misused>>
    BY DEF Reuse, Got
  <1> USE <1>0, <1>1, <1>2 DEF UsedLocal
  <1>3. Types'
    BY DEF Types, LocalData
  <1>4. InUseMarks' /\ MoreTypes'
    BY Zenon DEF Types, InUseMarks, MoreTypes
  <1>5. OneUser' /\ InvalidInUse'
    BY DEF Types, OneUser, InvalidInUse
  <1>6. LocalOpen'
    BY DEF Types, LocalOpen, PrimaryKnown
  <1>7. PrimaryHeld' /\ NoDeadContext'
    BY DEF Types, PrimaryHeld, PrimaryKnown, NoDeadContext
  <1>8. NoLeak'
    BY DEF Types, NoLeak, LocalOpen
  <1>9. PrimaryKnown' /\ PrimaryOpen' /\ Fresh' /\ OneWaiter' /\ KillerPrimary'
    BY DEF PrimaryKnown, PrimaryOpen, Fresh, OneWaiter, KillerPrimary, Open
  <1> QED
    BY <1>3, <1>4, <1>5, <1>6, <1>7, <1>8, <1>9, TypePartsNext

\* Connecting to the socket of a running daemon preserves the invariant.
LEMMA ConnectInv ==
  ASSUME IInv, NEW s \in Sessions, Connect(s)
  PROVE  IInv'
  <1> USE NoCtxIsNone DEF IInv
  <1>0. Types /\ InUseMarks
    BY TypeParts
  <1>1. PICK c \in Ctxs :
          /\ ctx[c] = "unused"
          /\ ctx' = [ctx EXCEPT ![c] = "open"]
          /\ peer' = [peer EXCEPT ![c] = socket]
          /\ local' = [local EXCEPT ![s] = UsedLocal(c)]
    BY NewUnused, Zenon DEF Connect, Got
  <1>2. /\ phase[s] = "starting"
        /\ phase' = [phase EXCEPT ![s] = "busy"]
        /\ socket \in alive
        /\ UNCHANGED <<require, primary, reusable, socket, started, alive, waited,
                       watched, caught, given, killer, misused>>
    BY DEF Connect, Got
  <1>3. /\ LockFree /\ LockFree' /\ Waiting' /\ freeing = {} /\ ~freed
        /\ UNCHANGED <<ending, todo, freeing, freed>>
    BY Quiet DEF Connect
  <1> USE <1>0, <1>1, <1>2, <1>3 DEF UsedLocal
  <1>4. Types'
    BY DEF Types, LocalData
  <1>5. InUseMarks' /\ MoreTypes'
    BY DEF Types, InUseMarks, MoreTypes
  <1>6. OneUser' /\ InvalidInUse'
    BY DEF Types, OneUser, InvalidInUse, LocalOpen, PrimaryKnown
  <1>7. LocalOpen'
    BY DEF Types, LocalOpen
  <1>8. PrimaryKnown' /\ PrimaryOpen' /\ Fresh'
    BY DEF Types, PrimaryKnown, PrimaryOpen, Fresh, MoreTypes, Open
  <1>9. OneWaiter' /\ KillerPrimary'
    BY DEF Types, OneWaiter, KillerPrimary, PrimaryKnown, MoreTypes
  <1>10. PrimaryHeld' /\ NoLeak'
    BY DEF Types, PrimaryKnown, PrimaryHeld, NoLeak, LocalOpen
  <1>11. NoDeadContext'
    BY DEF Types, NoDeadContext, LocalOpen, MoreTypes, Fresh
  <1> QED
    BY <1>4, <1>5, <1>6, <1>7, <1>8, <1>9, <1>10, <1>11, TypePartsNext

\* Starting the daemon preserves the invariant.
LEMMA ForkInv ==
  ASSUME IInv, NEW s \in Sessions, Fork(s)
  PROVE  IInv'
  <1> USE NoCtxIsNone DEF IInv
  <1>0. Types /\ InUseMarks
    BY TypeParts
  <1>1. PICK c \in Ctxs :
          /\ ctx[c] = "unused"
          /\ ctx' = [ctx EXCEPT ![c] = "open"]
          /\ peer' = [peer EXCEPT ![c] = started']
          /\ primary' = c
          /\ local' = [local EXCEPT ![s] = UsedLocal(c)]
    BY NewUnused, Zenon DEF Fork
  <1>2. /\ phase[s] = "starting"
        /\ phase' = [phase EXCEPT ![s] = IF require[s] THEN "forked" ELSE "busy"]
        /\ started' = started + 1
        /\ alive' = alive \cup {started'}
        /\ waited' = waited \cup {started'}
        /\ watched' = watched \cup {started'}
        /\ socket' \in {0, started'}
        /\ reusable' = FALSE
        /\ primary = NoCtx
        /\ UNCHANGED <<require, caught, given, killer, misused>>
    BY DEF Fork
  <1>3. /\ started \in Nat /\ started' \in Nat
        /\ started' \notin alive \cup watched \cup waited
        /\ \A d \in Ctxs : peer[d] # started'
    BY <1>2 DEF MoreTypes
  <1>q. /\ LockFree /\ LockFree' /\ Waiting' /\ freeing = {} /\ ~freed
        /\ UNCHANGED <<ending, todo, freeing, freed>>
    BY Quiet DEF Fork
  <1>4. Types'
    BY <1>0, <1>1, <1>2, <1>3, <1>q DEF Types, LocalData, UsedLocal
  <1>5. InUseMarks'
    BY <1>0, <1>1, <1>2 DEF Types, InUseMarks, UsedLocal
  <1>6. MoreTypes'
    <2>1. peer' \in [Ctxs -> 0..started']
      BY <1>1, <1>2, <1>3 DEF MoreTypes
    <2>2. 1..started \subseteq 1..started' /\ started' \in 1..started'
      BY <1>2, <1>3
    <2>3. alive' \subseteq 1..started' /\ watched' \subseteq 1..started'
      BY <1>2, <2>2 DEF MoreTypes
    <2>4. waited' \subseteq watched'
      BY <1>2 DEF MoreTypes
    <2> QED BY <1>2, <1>3, <1>q, <2>1, <2>3, <2>4, Zenon DEF MoreTypes
  <1> USE <1>0, <1>1, <1>2, <1>3, <1>q DEF UsedLocal
  <1>7. OneUser' /\ InvalidInUse'
    BY DEF Types, OneUser, InvalidInUse, LocalOpen
  <1>8. LocalOpen'
    BY DEF Types, LocalOpen
  <1>9. PrimaryKnown' /\ PrimaryOpen'
    BY DEF Types, PrimaryKnown, PrimaryOpen, MoreTypes, Open
  <1>10. Fresh'
    BY DEF Types, Fresh, MoreTypes
  <1>11. PrimaryHeld' /\ NoLeak'
    BY DEF Types, PrimaryHeld, NoLeak, LocalOpen
  <1>12. NoDeadContext'
    BY DEF Types, NoDeadContext, LocalOpen, MoreTypes
  <1>13. OneWaiter'
    <2>1. waited' = {started'} /\ peer'[c] = started'
      BY DEF OneWaiter, MoreTypes
    <2> QED BY <2>1 DEF OneWaiter
  <1>14. KillerPrimary'
    BY DEF Types, KillerPrimary, MoreTypes
  <1> QED
    BY <1>4, <1>5, <1>6, <1>7, <1>8, <1>9, <1>10, <1>11, <1>12, <1>13, <1>14, TypePartsNext

\* The failure to create the waiting thread preserves the invariant.
LEMMA ForkFailsInv ==
  ASSUME IInv, NEW s \in Sessions, ForkFails(s)
  PROVE  IInv'
  <1> USE NoCtxIsNone DEF IInv
  <1>0. Types /\ InUseMarks
    BY TypeParts
  <1>1. PICK c \in Ctxs :
          /\ ctx[c] = "unused"
          /\ ctx' = [ctx EXCEPT ![c] = "released"]
          /\ peer' = [peer EXCEPT ![c] = started']
          /\ primary' = c
    BY NewUnused, Zenon DEF ForkFails
  <1>2. /\ phase[s] = "starting"
        /\ phase' = [phase EXCEPT ![s] = "idle"]
        /\ local' = [local EXCEPT ![s] = [Unlocked(local[s]) EXCEPT !.there = TRUE]]
        /\ started' = started + 1
        /\ alive' = alive \cup {started'}
        /\ socket' \in {0, started'}
        /\ reusable' = FALSE
        /\ primary = NoCtx
        /\ UNCHANGED <<require, waited, watched, caught, given, killer, misused>>
    BY DEF ForkFails
  <1>3. /\ started \in Nat /\ started' \in Nat
        /\ started' \notin alive \cup watched \cup waited
        /\ \A d \in Ctxs : peer[d] # started'
    BY <1>2 DEF MoreTypes
  <1>q. /\ LockFree /\ LockFree' /\ Waiting' /\ freeing = {} /\ ~freed
        /\ UNCHANGED <<ending, todo, freeing, freed>>
    BY Quiet DEF ForkFails
  <1>4. /\ local'[s] \in LocalData
        /\ local'[s].ctx \in {local[s].ctx, NoCtx}
        /\ ~local'[s].in_use /\ ~local'[s].invalid /\ local'[s].there
    <2>1. local[s] \in LocalData /\ Unlocked(local[s]) \in LocalData
      BY <1>0, UnlockedFields, Zenon DEF Types
    <2>2. Unlocked(local[s]).ctx \in {local[s].ctx, NoCtx}
      BY <2>1, UnlockedFields, Zenon
    <2>3. ~Unlocked(local[s]).in_use /\ ~Unlocked(local[s]).invalid
      BY <2>1, UnlockedFields, Zenon
    <2>4. local'[s] = [Unlocked(local[s]) EXCEPT !.there = TRUE]
      BY <1>0, <1>2 DEF Types
    <2> QED BY <2>1, <2>2, <2>3, <2>4, Zenon DEF LocalData
  <1>5. ~local[s].in_use
    BY <1>0, <1>2 DEF InUseMarks
  <1>6. local' \in [Sessions -> LocalData] /\ \A t \in Sessions \ {s} : local'[t] = local[t]
    BY <1>0, <1>2, <1>4 DEF Types
  <1>7. Types'
    BY <1>0, <1>1, <1>2, <1>3, <1>6, <1>q DEF Types
  <1>8. InUseMarks'
    BY <1>0, <1>2, <1>4, <1>6 DEF Types, InUseMarks
  <1>9. MoreTypes'
    <2>1. peer' \in [Ctxs -> 0..started']
      BY <1>1, <1>2, <1>3 DEF MoreTypes
    <2>2. 1..started \subseteq 1..started' /\ started' \in 1..started'
      BY <1>2, <1>3
    <2>3. alive' \subseteq 1..started' /\ watched' \subseteq 1..started'
      BY <1>2, <2>2 DEF MoreTypes
    <2> QED BY <1>2, <1>3, <1>q, <2>1, <2>3, Zenon DEF MoreTypes
  <1> USE <1>0, <1>1, <1>2, <1>3, <1>4, <1>5, <1>6, <1>q
  <1>10. OneUser' /\ InvalidInUse'
    BY DEF Types, OneUser, InvalidInUse, LocalOpen
  <1>11. LocalOpen'
    BY DEF Types, LocalOpen
  <1>12. PrimaryKnown' /\ PrimaryOpen' /\ PrimaryHeld'
    BY DEF Types, PrimaryKnown, PrimaryOpen, PrimaryHeld, MoreTypes
  <1>13. Fresh'
    BY DEF Types, Fresh, MoreTypes
  <1>14. NoLeak'
    BY DEF Types, NoLeak, LocalOpen, InvalidInUse
  <1>15. NoDeadContext'
    BY DEF Types, NoDeadContext, LocalOpen, MoreTypes
  <1>16. OneWaiter'
    BY DEF OneWaiter
  <1>17. KillerPrimary'
    BY DEF Types, KillerPrimary, MoreTypes
  <1> QED
    BY <1>7, <1>8, <1>9, <1>10, <1>11, <1>12, <1>13, <1>14, <1>15, <1>16, <1>17,
       TypePartsNext

\* Leaving daemon_start early, with a context but without a daemon, preserves
\* the invariant.
LEMMA NoHomedirInv ==
  ASSUME IInv, NEW s \in Sessions, NoHomedir(s)
  PROVE  IInv'
  <1> USE NoCtxIsNone DEF IInv
  <1>0. Types /\ InUseMarks
    BY TypeParts
  <1>1. PICK c \in Ctxs :
          /\ ctx[c] = "unused"
          /\ ctx' = [ctx EXCEPT ![c] = "open"]
          /\ local' = [local EXCEPT ![s] = UsedLocal(c)]
    BY NewUnused, Zenon DEF NoHomedir, Got
  <1>2. /\ phase[s] = "starting"
        /\ phase' = [phase EXCEPT ![s] = "busy"]
        /\ primary = NoCtx
        /\ UNCHANGED <<require, primary, reusable, socket, peer, started, alive,
                       waited, watched, caught, given, killer, misused>>
    BY DEF NoHomedir, Got
  <1>q. /\ LockFree /\ LockFree' /\ Waiting' /\ freeing = {} /\ ~freed
        /\ UNCHANGED <<ending, todo, freeing, freed>>
    BY Quiet DEF NoHomedir
  <1> USE <1>0, <1>1, <1>2, <1>q DEF UsedLocal
  <1>3. Types'
    BY DEF Types, LocalData
  <1>4. InUseMarks' /\ MoreTypes'
    BY DEF Types, InUseMarks, MoreTypes
  <1>5. OneUser' /\ InvalidInUse'
    BY DEF Types, OneUser, InvalidInUse, LocalOpen
  <1>6. LocalOpen'
    BY DEF Types, LocalOpen
  <1>7. PrimaryKnown' /\ PrimaryOpen' /\ PrimaryHeld' /\ Fresh'
    BY DEF Types, PrimaryKnown, PrimaryOpen, PrimaryHeld, Fresh
  <1>8. NoLeak'
    BY DEF Types, NoLeak, LocalOpen
  <1>9. NoDeadContext'
    <2>1. peer[c] \notin watched
      BY DEF Fresh, MoreTypes
    <2> QED BY <2>1 DEF Types, NoDeadContext, LocalOpen
  <1>10. OneWaiter' /\ KillerPrimary'
    BY DEF Types, OneWaiter, KillerPrimary
  <1> QED
    BY <1>3, <1>4, <1>5, <1>6, <1>7, <1>8, <1>9, <1>10, TypePartsNext

\* What a session releases when it unlocks its context was open.
LEMMA UnlockReleaseOpen ==
  ASSUME IInv, NEW s \in Sessions, s \notin freeing, Release(UnlockReleases(local[s]))
  PROVE  /\ ~misused'
         /\ ctx' \in [Ctxs -> {"unused", "open", "released"}]
         /\ \A c \in Ctxs : ctx'[c] = IF local[s].invalid /\ c = local[s].ctx
                                      THEN "released" ELSE ctx[c]
  <1>1. CASE local[s].invalid
    <2>1. UnlockReleases(local[s]) = {local[s].ctx}
      BY <1>1 DEF UnlockReleases
    <2>2. ctx' = [c \in Ctxs |-> IF c = local[s].ctx THEN "released" ELSE ctx[c]]
      BY <2>1 DEF Release
    <2>3. misused' = (misused \/ \E c \in {local[s].ctx} \ {NoCtx} : ctx[c] # "open")
      BY <2>1 DEF Release
    <2>4. ~misused /\ \A c \in {local[s].ctx} \ {NoCtx} : ctx[c] = "open"
      BY DEF IInv, LocalOpen
    <2>5. ~misused'
      BY <2>3, <2>4, Zenon
    <2> QED BY <1>1, <2>2, <2>5 DEF IInv, TypeOK
  <1>2. CASE ~local[s].invalid
    <2>1. UnlockReleases(local[s]) = {}
      BY <1>2 DEF UnlockReleases
    <2> QED BY <1>2, <2>1 DEF Release, IInv, TypeOK
  <1> QED BY <1>1, <1>2

\* daemon_unlock preserves what the invariant says of contexts and of the local
\* data: the session keeps its context if that is still valid, else it has none.
LEMMA UnlockKeeps ==
  ASSUME IInv, LockFree, UNCHANGED waiter,
         NEW s \in Sessions, NEW f \in {"idle", "starting"},
         Release(UnlockReleases(local[s])),
         local' \in [Sessions -> LocalData],
         \A t \in Sessions \ {s} : local'[t] = local[t],
         local'[s].ctx = IF local[s].invalid THEN NoCtx ELSE local[s].ctx,
         ~local'[s].in_use, ~local'[s].invalid,
         local[s].there => local'[s].there,
         phase' = [phase EXCEPT ![s] = f],
         given \subseteq given',
         f = "starting" => local'[s].ctx \in given' \cup {NoCtx},
         caught' = caught \ {s},
         UNCHANGED <<require, primary, reusable, socket, peer, started, alive,
                     waited, watched, killer>>
  PROVE  IInv'
  <1> USE NoCtxIsNone
  <1>0. Types /\ InUseMarks
    BY TypeParts DEF IInv
  <1>q. /\ LockFree' /\ Waiting' /\ freeing = {} /\ ~freed
        /\ UNCHANGED <<ending, todo, freeing, freed>>
    BY Quiet DEF IInv
  <1>1. /\ ~misused'
        /\ ctx' \in [Ctxs -> {"unused", "open", "released"}]
        /\ \A c \in Ctxs : ctx'[c] = IF local[s].invalid /\ c = local[s].ctx
                                     THEN "released" ELSE ctx[c]
    BY <1>q, UnlockReleaseOpen
  <1>2. local[s].invalid /\ local[s].ctx # NoCtx =>
          /\ local[s].ctx # primary
          /\ \A t \in Sessions \ {s} : local[t].ctx # local[s].ctx
    BY DEF IInv, InvalidInUse, OneUser
  <1>3. Types' /\ MoreTypes'
    BY <1>0, <1>1, <1>q DEF IInv, Types, MoreTypes
  <1>4. InUseMarks'
    BY <1>0 DEF Types, InUseMarks
  <1>5. OneUser' /\ InvalidInUse'
    BY <1>0, <1>q DEF IInv, Types, OneUser, InvalidInUse
  <1>6. LocalOpen'
    BY <1>0, <1>1, <1>2, <1>q DEF IInv, Types, LocalOpen, LocalData
  <1>7. PrimaryKnown' /\ PrimaryOpen' /\ Fresh'
    BY <1>0, <1>1, <1>2, <1>q, Zenon DEF IInv, Types, PrimaryKnown, PrimaryOpen, Fresh, Open
  <1>8. PrimaryHeld'
    BY <1>0, <1>1, <1>2 DEF IInv, Types, PrimaryHeld
  <1>9. NoDeadContext'
    BY <1>0 DEF IInv, Types, NoDeadContext
  <1>10. NoLeak'
    BY <1>0, <1>1 DEF IInv, Types, NoLeak
  <1>11. OneWaiter' /\ KillerPrimary'
    BY <1>1 DEF IInv, OneWaiter, KillerPrimary
  <1> QED
    BY <1>1, <1>3, <1>4, <1>5, <1>6, <1>7, <1>8, <1>9, <1>10, <1>11, <1>q, TypePartsNext
       DEF IInv

\* daemon_unlock preserves the invariant.
LEMMA UnlockInv ==
  ASSUME IInv, NEW s \in Sessions, Unlock(s)
  PROVE  IInv'
  <1>1. local[s] \in LocalData /\ local \in [Sessions -> LocalData]
    BY TypeParts DEF IInv, Types
  <1>2. local' = [local EXCEPT ![s] = Unlocked(local[s])]
    BY DEF Unlock
  <1>3. /\ local' \in [Sessions -> LocalData]
        /\ local'[s] = Unlocked(local[s])
        /\ \A t \in Sessions \ {s} : local'[t] = local[t]
    BY <1>1, <1>2, UnlockedFields, Zenon
  <1>4. /\ local'[s].ctx = IF local[s].invalid THEN NoCtx ELSE local[s].ctx
        /\ ~local'[s].in_use /\ ~local'[s].invalid
        /\ local[s].there => local'[s].there
    BY <1>1, <1>3, UnlockedFields, Zenon
  <1> QED
    BY <1>3, <1>4, UnlockKeeps, Zenon DEF Unlock

\* Giving up preserves the invariant.
LEMMA StartFailsInv ==
  ASSUME IInv, NEW s \in Sessions, StartFails(s)
  PROVE  IInv'
  <1>0. Types /\ InUseMarks
    BY TypeParts DEF IInv
  <1>1. caught = caught \ {s}
    BY DEF StartFails, IInv, LocalOpen
  <1>2. CASE /\ Release(UnlockReleases(local[s]))
             /\ local' = [local EXCEPT ![s] = [Unlocked(local[s]) EXCEPT !.there = TRUE]]
    <2>1. local[s] \in LocalData /\ Unlocked(local[s]) \in LocalData
      BY <1>0, UnlockedFields, Zenon DEF Types
    <2>2. /\ Unlocked(local[s]).ctx = IF local[s].invalid THEN NoCtx ELSE local[s].ctx
          /\ ~Unlocked(local[s]).in_use /\ ~Unlocked(local[s]).invalid
      BY <2>1, UnlockedFields, Zenon
    <2>3. /\ local'[s] = [Unlocked(local[s]) EXCEPT !.there = TRUE]
          /\ \A t \in Sessions \ {s} : local'[t] = local[t]
      BY <1>0, <1>2 DEF Types
    <2>4. /\ local'[s] \in LocalData
          /\ local'[s].ctx = IF local[s].invalid THEN NoCtx ELSE local[s].ctx
          /\ ~local'[s].in_use /\ ~local'[s].invalid /\ local'[s].there
      BY <2>1, <2>2, <2>3, Zenon DEF LocalData
    <2>5. local' \in [Sessions -> LocalData]
      BY <1>0, <1>2, <2>3, <2>4 DEF Types
    <2> QED BY <1>1, <1>2, <2>3, <2>4, <2>5, UnlockKeeps, Zenon DEF StartFails
  <1>3. CASE UNCHANGED <<local, ctx, misused>>
    <2>1. /\ phase[s] = "starting"
          /\ phase' = [phase EXCEPT ![s] = "idle"]
          /\ UNCHANGED <<require, primary, reusable, socket, peer, started, alive,
                         waited, watched, caught, given, killer>>
      BY DEF StartFails
    <2>2. /\ LockFree' /\ Waiting' /\ freeing = {} /\ ~freed
          /\ UNCHANGED <<ending, todo, freeing, freed>>
      BY Quiet DEF IInv, StartFails
    <2>3. Types' /\ InUseMarks' /\ MoreTypes'
      BY <1>0, <1>3, <2>1, <2>2 DEF IInv, Types, InUseMarks, MoreTypes
    <2>4. LocalOpen'
      BY <1>0, <1>3, <2>1, <2>2 DEF IInv, Types, LocalOpen
    <2>5. OneUser' /\ InvalidInUse' /\ NoDeadContext' /\ NoLeak'
      BY <1>3, <2>1, <2>2, Zenon DEF IInv, OneUser, InvalidInUse, NoDeadContext, NoLeak, LockFree
    <2> QED
      BY <1>3, <2>1, <2>2, <2>3, <2>4, <2>5, TypePartsNext DEF IInv, PrimaryKnown,
         PrimaryHeld, PrimaryOpen, Fresh, OneWaiter, KillerPrimary, Open, LockFree
  <1> QED BY <1>2, <1>3 DEF StartFails

\* The comparison with the primary connection preserves the invariant.
LEMMA RetryInv ==
  ASSUME IInv, NEW s \in Sessions, Retry(s)
  PROVE  IInv'
  <1>0. Types /\ InUseMarks
    BY TypeParts DEF IInv
  <1>1. PICK f \in {"giving", "busy"} : phase' = [phase EXCEPT ![s] = f]
    BY Zenon DEF Retry
  <1>2. /\ phase[s] = "forked"
        /\ UNCHANGED <<local, require, primary, reusable, socket, ctx, peer, started,
                       alive, waited, watched, caught, given, killer, misused>>
        /\ UNCHANGED <<ending, todo, freeing, freed>>
    BY Zenon DEF Retry, waiter
  <1>3. Types' /\ InUseMarks' /\ MoreTypes'
    BY <1>0, <1>1, <1>2 DEF IInv, Types, InUseMarks, MoreTypes
  <1>4. LocalOpen'
    BY <1>0, <1>1, <1>2 DEF IInv, Types, LocalOpen
  <1>5. OneUser' /\ InvalidInUse' /\ NoDeadContext' /\ NoLeak' /\ Waiting'
    BY <1>2, Zenon DEF IInv, OneUser, InvalidInUse, NoDeadContext, NoLeak, Waiting, LockFree
  <1> QED
    BY <1>2, <1>3, <1>4, <1>5, TypePartsNext DEF IInv, PrimaryKnown, PrimaryHeld,
       PrimaryOpen, Fresh, OneWaiter, KillerPrimary, Open, LockFree

\* Unlocking the primary connection to try again with a socket preserves the
\* invariant.
LEMMA GiveUpInv ==
  ASSUME IInv, NEW s \in Sessions, GiveUp(s)
  PROVE  IInv'
  <1>1. local[s] \in LocalData /\ local \in [Sessions -> LocalData]
    BY TypeParts DEF IInv, Types
  <1>2. local' = [local EXCEPT ![s] = Unlocked(local[s])]
    BY DEF GiveUp
  <1>3. /\ local' \in [Sessions -> LocalData]
        /\ local'[s] = Unlocked(local[s])
        /\ \A t \in Sessions \ {s} : local'[t] = local[t]
    BY <1>1, <1>2, UnlockedFields, Zenon
  <1>4. /\ local'[s].ctx = IF local[s].invalid THEN NoCtx ELSE local[s].ctx
        /\ ~local'[s].in_use /\ ~local'[s].invalid
        /\ local[s].there => local'[s].there
    BY <1>1, <1>3, UnlockedFields, Zenon
  <1>5. caught = caught \ {s}
    BY Zenon DEF GiveUp, IInv, LocalOpen
  <1>6. given \subseteq given' /\ local'[s].ctx \in given' \cup {NoCtx}
    BY <1>4 DEF GiveUp
  <1> QED
    BY <1>3, <1>4, <1>5, <1>6, UnlockKeeps, Zenon DEF GiveUp

\* The end of a session preserves the invariant.
LEMMA ResetInv ==
  ASSUME IInv, NEW s \in Sessions, Reset(s)
  PROVE  IInv'
  <1> USE NoCtxIsNone
  <1>0. Types /\ InUseMarks
    BY TypeParts DEF IInv
  <1>1. /\ phase[s] = "idle"
        /\ local' = [local EXCEPT ![s] = NoLocal]
        /\ UNCHANGED <<phase, require, primary, socket, peer, started, alive,
                       waited, watched, caught, given, killer>>
    BY Zenon DEF Reset
  <1>q. /\ LockFree /\ LockFree' /\ Waiting' /\ freeing = {} /\ ~freed
        /\ UNCHANGED <<ending, todo, freeing, freed>>
    BY Quiet, Zenon DEF IInv, Reset
  <1>2. ~local[s].in_use
    BY <1>0, <1>1 DEF InUseMarks
  <1>3. local' \in [Sessions -> LocalData]
    BY <1>0, <1>1 DEF Types, LocalData, NoLocal
  <1>4. InUseMarks'
    BY <1>0, <1>1, <1>3 DEF Types, InUseMarks, NoLocal
  <1>5. CASE local[s].ctx # NoCtx /\ local[s].ctx = primary
    <2>1. reusable' = TRUE /\ UNCHANGED <<ctx, misused>>
      BY <1>5, Zenon DEF Reset
    <2>2. Types' /\ MoreTypes'
      BY <1>0, <1>1, <1>3, <1>q, <2>1 DEF IInv, Types, MoreTypes
    <2>3. OneUser' /\ InvalidInUse' /\ LocalOpen'
      BY <1>0, <1>1, <1>5, <1>q, <2>1 DEF IInv, Types, OneUser, InvalidInUse, LocalOpen, NoLocal
    <2>4. PrimaryKnown' /\ PrimaryHeld' /\ PrimaryOpen' /\ Fresh'
      <3>1. ctx[primary] = "open"
        BY <1>5, <1>q DEF IInv, LocalOpen
      <3>2. PrimaryKnown' /\ PrimaryHeld'
        BY <1>1, <2>1, <3>1 DEF IInv, PrimaryKnown, PrimaryHeld
      <3>3. PrimaryOpen' /\ Fresh'
        BY <1>1, <1>5, <2>1, <3>1 DEF IInv, PrimaryOpen, Fresh, Open
      <3> QED BY <3>2, <3>3
    <2>5. NoDeadContext' /\ NoLeak'
      <3>1. /\ local'[s].ctx = NoCtx
            /\ \A t \in Sessions \ {s} : local'[t] = local[t]
        BY <1>0, <1>1 DEF Types, NoLocal
      <3>2. NoDeadContext'
        BY <1>1, <3>1 DEF IInv, NoDeadContext
      <3>3. NoLeak'
        BY <1>1, <1>5, <2>1, <3>1 DEF IInv, NoLeak
      <3> QED BY <3>2, <3>3
    <2>6. OneWaiter' /\ KillerPrimary'
      BY <1>1, <2>1, Zenon DEF IInv, OneWaiter, KillerPrimary
    <2> QED
      BY <1>4, <1>q, <2>1, <2>2, <2>3, <2>4, <2>5, <2>6, TypePartsNext DEF IInv
  <1>6. CASE ~(local[s].ctx # NoCtx /\ local[s].ctx = primary)
    <2>1. /\ UNCHANGED reusable
          /\ ctx' = [c \in Ctxs |-> IF c = local[s].ctx THEN "released" ELSE ctx[c]]
          /\ misused' = (misused \/ \E c \in {local[s].ctx} \ {NoCtx} : ctx[c] # "open")
      BY <1>6 DEF Reset, Release
    <2>2. ~misused /\ \A c \in {local[s].ctx} \ {NoCtx} : ctx[c] = "open"
      BY <1>q DEF IInv, LocalOpen
    <2>3. ~misused'
      BY <2>1, <2>2, Zenon
    <2>4. Types' /\ MoreTypes'
      BY <1>0, <1>1, <1>3, <1>q, <2>1 DEF IInv, Types, MoreTypes
    <2>5. OneUser' /\ InvalidInUse'
      BY <1>0, <1>1, <1>q, <2>1 DEF IInv, Types, OneUser, InvalidInUse, NoLocal
    <2>6. LocalOpen'
      BY <1>0, <1>1, <1>q, <2>1 DEF IInv, Types, OneUser, LocalOpen, NoLocal, LocalData
    <2>7. PrimaryKnown' /\ PrimaryOpen' /\ Fresh'
      <3>1. \A c \in Ctxs : ctx'[c] = ctx[c] \/ (c = local[s].ctx /\ ctx'[c] = "released")
        BY <1>0, <2>1 DEF Types
      <3>2. primary # NoCtx => primary \in Ctxs /\ ctx'[primary] = ctx[primary]
        BY <1>0, <1>6, <2>1 DEF Types
      <3>3. PrimaryKnown' /\ PrimaryOpen'
        BY <1>1, <1>q, <2>1, <3>2 DEF IInv, PrimaryKnown, PrimaryOpen, Open
      <3>4. Fresh'
        BY <1>1, <2>1, <3>1 DEF IInv, Fresh
      <3> QED BY <3>3, <3>4
    <2>8. PrimaryHeld'
      BY <1>0, <1>1, <1>6, <2>1 DEF IInv, Types, PrimaryHeld, NoLocal
    <2>9. NoDeadContext' /\ NoLeak'
      BY <1>0, <1>1, <2>1 DEF IInv, Types, NoDeadContext, NoLeak, NoLocal
    <2>10. OneWaiter' /\ KillerPrimary'
      BY <1>1, <2>1 DEF IInv, OneWaiter, KillerPrimary
    <2> QED
      BY <1>4, <1>q, <2>3, <2>4, <2>5, <2>6, <2>7, <2>8, <2>9, <2>10, TypePartsNext DEF IInv
  <1> QED BY <1>5, <1>6

\* The death of a daemon preserves the invariant.
LEMMA DaemonDiesInv ==
  ASSUME IInv, NEW n, DaemonDies(n)
  PROVE  IInv'
  <1>1. /\ alive' = alive \ {n}
        /\ UNCHANGED <<local, phase, require, primary, reusable, socket, ctx, peer, started,
                       waited, watched, caught, given, killer, misused>>
        /\ UNCHANGED <<ending, todo, freeing, freed>>
    BY DEF DaemonDies, waiter
  <1> USE <1>1 DEF IInv
  <1>2. watched' \ (alive' \cup waited') = watched \ (alive \cup waited)
    BY DEF Fresh
  <1>3. PrimaryKnown' /\ NoDeadContext'
    BY <1>2 DEF PrimaryKnown, NoDeadContext
  <1>4. TypeOK' /\ MoreTypes' /\ Fresh'
    BY Zenon DEF TypeOK, MoreTypes, Fresh
  <1>5. OneUser' /\ LocalOpen' /\ InvalidInUse' /\ NoLeak'
    BY Zenon DEF OneUser, LocalOpen, InvalidInUse, NoLeak, LockFree
  <1>6. Waiting' /\ OneWaiter' /\ KillerPrimary'
    BY DEF Waiting, OneWaiter, KillerPrimary, LockFree
  <1> QED
    BY <1>3, <1>4, <1>5, <1>6 DEF PrimaryHeld, PrimaryOpen, Open, LockFree

\* That wait_child_thread gets the lock preserves the invariant.
LEMMA WaitBeginInv ==
  ASSUME IInv, NEW n, WaitBegin(n)
  PROVE  IInv'
  <1> USE DEF IInv
  <1>1. /\ ending' = n /\ n \in waited \ alive
        /\ todo' = {s \in Sessions : local[s].there}
        /\ UNCHANGED <<local, phase, require, primary, reusable, socket, ctx, peer, started,
                       alive, waited, freeing, freed, watched, caught, given, killer, misused>>
    BY DEF WaitBegin
  <1>2. n # 0
    BY <1>1 DEF MoreTypes
  <1>3. freeing = {} /\ ~freed /\ LockFree /\ ~LockFree'
    BY <1>1, <1>2 DEF WaitBegin, Waiting, LockFree
  <1>4. TypeOK' /\ MoreTypes'
    BY <1>1, <1>3 DEF TypeOK, MoreTypes
  <1>5. OneUser' /\ LocalOpen' /\ InvalidInUse' /\ NoDeadContext' /\ NoLeak'
    BY <1>1, <1>3, Zenon DEF OneUser, LocalOpen, InvalidInUse, NoDeadContext, NoLeak
  <1>6. PrimaryKnown' /\ PrimaryHeld' /\ Fresh' /\ OneWaiter' /\ KillerPrimary' /\ PrimaryOpen'
    BY <1>1, <1>3, Zenon DEF PrimaryKnown, PrimaryHeld, Fresh, OneWaiter, KillerPrimary, PrimaryOpen
  <1>7. Waiting'
    BY <1>1, <1>3 DEF Waiting
  <1> QED BY <1>1, <1>4, <1>5, <1>6, <1>7

\* The context of s being marked by wait_child_thread preserves the invariant.
LEMMA WaitSessionInv ==
  ASSUME IInv, NEW s \in Sessions, WaitSession(s)
  PROVE  IInv'
  <1> USE NoCtxIsNone DEF IInv
  <1>0. Types /\ InUseMarks
    BY TypeParts
  <1>1. /\ s \in todo /\ freeing = {} /\ todo' = todo \ {s}
        /\ local' = [local EXCEPT ![s].invalid = TRUE]
        /\ UNCHANGED <<phase, require, primary, reusable, socket, peer, started, alive,
                       waited, ending, freed, watched, caught, given, killer>>
    BY DEF WaitSession
  <1>2. ~LockFree /\ ~LockFree'
    BY <1>1 DEF Waiting, LockFree
  <1>3. /\ local'[s] = [local[s] EXCEPT !.invalid = TRUE]
        /\ \A t \in Sessions \ {s} : local'[t] = local[t]
        /\ local' \in [Sessions -> LocalData]
    BY <1>0, <1>1, Zenon DEF Types, LocalData
  <1>4. /\ local'[s].invalid
        /\ \A t \in Sessions : /\ local'[t].ctx = local[t].ctx
                               /\ local'[t].in_use = local[t].in_use
                               /\ local'[t].there = local[t].there
    BY <1>0, <1>3 DEF Types, LocalData
  <1>5. InUseMarks' /\ MoreTypes'
    BY <1>0, <1>1, <1>4 DEF InUseMarks, MoreTypes
  <1>6. PrimaryOpen'
    BY <1>2 DEF PrimaryOpen
  <1>7. OneUser'
    BY <1>1, <1>4 DEF OneUser
  <1>8. NoDeadContext'
    BY <1>1, <1>3, <1>4 DEF NoDeadContext
  <1>9. CASE ~local[s].in_use /\ local[s].ctx # NoCtx
    <2>1. /\ freeing' = {s}
          /\ ctx' = [c \in Ctxs |-> IF c = local[s].ctx THEN "released" ELSE ctx[c]]
          /\ misused' = (misused \/ \E c \in {local[s].ctx} \ {NoCtx} : ctx[c] # "open")
      BY <1>9 DEF WaitSession, Release
    <2>2. ctx[local[s].ctx] = "open" /\ local[s].ctx \in Ctxs
      BY <1>0, <1>1, <1>9 DEF LocalOpen, Types, LocalData
    <2>3. ~misused'
      BY <2>1, <2>2, Zenon
    <2>4. Types'
      BY <1>0, <1>1, <1>3, <2>1 DEF Types
    <2>5. LocalOpen'
      <3> SUFFICES ASSUME NEW t \in Sessions PROVE LocalOpen!(t)'
        BY DEF LocalOpen
      <3>1. LocalOpen!(t)
        BY DEF LocalOpen
      <3>2. CASE t = s
        BY <1>0, <1>1, <1>4, <1>9, <2>1, <2>2, <3>1, <3>2 DEF Types
      <3>3. CASE t # s
        <4>1. local'[t] = local[t] /\ t \notin freeing /\ t \notin freeing'
          BY <1>1, <1>3, <2>1, <3>3
        <4>2. local[t].ctx # NoCtx => ctx'[local[t].ctx] = ctx[local[t].ctx]
          BY <1>0, <1>9, <2>1, <3>3 DEF OneUser, Types, LocalData
        <4> QED BY <1>1, <3>1, <4>1, <4>2
      <3> QED BY <3>2, <3>3
    <2>6. InvalidInUse'
      BY <1>1, <1>2, <1>3, <1>4, <2>1 DEF InvalidInUse
    <2>7. PrimaryKnown' /\ PrimaryHeld'
      BY <1>0, <1>1, <1>4, <1>9, <2>1, <2>2 DEF PrimaryKnown, PrimaryHeld, OneUser, Types
    <2>8. Fresh' /\ OneWaiter' /\ KillerPrimary'
      BY <1>0, <1>1, <2>1, <2>2 DEF Fresh, OneWaiter, KillerPrimary, Types
    <2>9. Waiting'
      <3>1. ending' \notin alive' /\ \A t, u \in freeing' : t = u
        BY <1>1, <1>2, <2>1 DEF Waiting
      <3>2. \A t \in Sessions \ todo' : local'[t].there => local'[t].invalid
        BY <1>1, <1>2, <1>3, <1>4 DEF Waiting
      <3>3. freed' => primary' # NoCtx /\ ctx'[primary'] = "released"
        BY <1>0, <1>1, <2>1 DEF Waiting, Types
      <3> QED BY <1>2, <3>1, <3>2, <3>3, Zenon DEF Waiting
    <2>10. NoLeak'
      BY <1>0, <1>1, <1>4, <2>1 DEF NoLeak, Types
    <2> QED BY <1>5, <1>6, <1>7, <1>8, <2>3, <2>4, <2>5, <2>6, <2>7, <2>8, <2>9, <2>10,
               TypePartsNext
  <1>10. CASE ~(~local[s].in_use /\ local[s].ctx # NoCtx)
    <2>1. UNCHANGED <<ctx, misused, freeing>>
      BY <1>10 DEF WaitSession
    <2>2. Types'
      BY <1>0, <1>1, <1>3, <2>1 DEF Types
    <2>3. LocalOpen'
      BY <1>1, <1>3, <1>4, <2>1 DEF LocalOpen
    <2>4. InvalidInUse'
      BY <1>1, <1>2, <1>3, <1>4, <1>10, <2>1 DEF InvalidInUse
    <2>5. PrimaryKnown' /\ PrimaryHeld' /\ Fresh' /\ OneWaiter' /\ KillerPrimary' /\ NoLeak'
      BY <1>1, <1>4, <2>1 DEF PrimaryKnown, PrimaryHeld, Fresh, OneWaiter, KillerPrimary, NoLeak
    <2>6. Waiting'
      BY <1>1, <1>2, <1>3, <1>4, <2>1 DEF Waiting, LockFree
    <2> QED BY <1>5, <1>6, <1>7, <1>8, <2>1, <2>2, <2>3, <2>4, <2>5, <2>6, TypePartsNext
  <1> QED BY <1>9, <1>10

\* That wait_child_thread clears the context it has released preserves the
\* invariant.
LEMMA WaitForgetInv ==
  ASSUME IInv, NEW s \in Sessions, WaitForget(s)
  PROVE  IInv'
  <1> USE NoCtxIsNone DEF IInv
  <1>0. Types /\ InUseMarks
    BY TypeParts
  <1>1. /\ s \in freeing /\ freeing' = {}
        /\ local' = [local EXCEPT ![s].ctx = NoCtx]
        /\ UNCHANGED <<phase, require, primary, reusable, socket, ctx, peer, started, alive,
                       waited, ending, todo, freed, watched, caught, given, killer, misused>>
    BY DEF WaitForget
  <1>2. freeing = {s} /\ ~LockFree /\ ~LockFree'
    BY <1>1 DEF Waiting, LockFree
  <1>3. /\ local'[s] = [local[s] EXCEPT !.ctx = NoCtx]
        /\ \A t \in Sessions \ {s} : local'[t] = local[t]
        /\ local' \in [Sessions -> LocalData]
    BY <1>0, <1>1 DEF Types, LocalData
  <1>4. /\ local'[s].ctx = NoCtx
        /\ \A t \in Sessions : /\ local'[t].invalid = local[t].invalid
                               /\ local'[t].in_use = local[t].in_use
                               /\ local'[t].there = local[t].there
    BY <1>0, <1>3 DEF Types, LocalData
  <1>5. Types'
    BY <1>0, <1>1, <1>3 DEF Types
  <1>6. InUseMarks' /\ MoreTypes'
    BY <1>0, <1>1, <1>4 DEF InUseMarks, MoreTypes
  <1>7. OneUser' /\ NoDeadContext' /\ InvalidInUse'
    BY <1>1, <1>2, <1>3, <1>4 DEF OneUser, NoDeadContext, InvalidInUse
  <1>8. LocalOpen'
    <2> SUFFICES ASSUME NEW t \in Sessions PROVE LocalOpen!(t)'
      BY DEF LocalOpen
    <2>1. LocalOpen!(t)
      BY DEF LocalOpen
    <2>2. CASE t = s
      <3>1. local'[s].in_use => s \in caught'
        BY <1>1, <1>4, <2>1, <2>2
      <3>2. s \in caught' => local'[s].invalid /\ phase'[s] = "busy"
        BY <1>1, <1>4, <2>1, <2>2
      <3>3. local'[s].in_use => local'[s].there
        BY <1>4, <2>1, <2>2
      <3>4. phase'[s] \in {"forked", "giving", "busy"} => local'[s].in_use
        BY <1>6 DEF InUseMarks
      <3> QED BY <1>1, <1>4, <2>2, <3>1, <3>2, <3>3, <3>4
    <2>3. CASE t # s
      BY <1>1, <1>2, <1>3, <2>1, <2>3
    <2> QED BY <2>2, <2>3
  <1>9. PrimaryKnown' /\ Fresh' /\ OneWaiter' /\ KillerPrimary'
    BY <1>1 DEF PrimaryKnown, Fresh, OneWaiter, KillerPrimary
  <1>10. PrimaryOpen'
    BY <1>2 DEF PrimaryOpen
  <1>11. local[s].ctx # NoCtx => ctx[local[s].ctx] = "released"
    BY <1>1 DEF LocalOpen
  <1>12. PrimaryHeld' /\ NoLeak'
    BY <1>1, <1>3, <1>11 DEF PrimaryHeld, NoLeak
  <1>13. Waiting'
    BY <1>1, <1>2, <1>4 DEF Waiting
  <1> QED
    BY <1>1, <1>5, <1>6, <1>7, <1>8, <1>9, <1>10, <1>12, <1>13, TypePartsNext

\* The release of the primary context preserves the invariant.
LEMMA WaitPrimaryInv ==
  ASSUME IInv, WaitPrimary
  PROVE  IInv'
  <1> USE NoCtxIsNone DEF IInv
  <1>0. Types /\ InUseMarks
    BY TypeParts
  <1>1. /\ reusable /\ ~freed /\ freed' = TRUE
        /\ ctx' = [c \in Ctxs |-> IF c = primary THEN "released" ELSE ctx[c]]
        /\ misused' = (misused \/ \E c \in {primary} \ {NoCtx} : ctx[c] # "open")
        /\ UNCHANGED <<local, phase, require, primary, reusable, socket, peer, started, alive,
                       waited, ending, todo, freeing, watched, caught, given, killer>>
    BY DEF WaitPrimary, Release
  <1>2. ~LockFree /\ ~LockFree'
    BY <1>1 DEF WaitPrimary, VisitedAll, LockFree
  <1>3. primary \in Ctxs /\ ctx[primary] = "open"
    BY <1>0, <1>1 DEF Types, Fresh, PrimaryKnown
  <1>4. ~misused'
    BY <1>1, <1>3, Zenon
  <1>5. Types'
    BY <1>0, <1>1 DEF Types
  <1>6. InUseMarks' /\ MoreTypes' /\ OneUser' /\ NoDeadContext'
    BY <1>0, <1>1 DEF InUseMarks, MoreTypes, OneUser, NoDeadContext
  <1>7. \A s \in Sessions : local[s].ctx # NoCtx => ctx'[local[s].ctx] = ctx[local[s].ctx]
    BY <1>0, <1>1 DEF OneUser, Types, LocalData
  <1>8. LocalOpen'
    BY <1>1, <1>7 DEF LocalOpen
  <1>9. InvalidInUse' /\ PrimaryOpen'
    BY <1>1, <1>2 DEF InvalidInUse, PrimaryOpen
  <1>10. PrimaryKnown' /\ PrimaryHeld' /\ Fresh' /\ OneWaiter' /\ KillerPrimary'
    BY <1>0, <1>1, <1>3 DEF PrimaryKnown, PrimaryHeld, Fresh, OneWaiter, KillerPrimary, Types
  <1>11. NoLeak' /\ Waiting'
    BY <1>0, <1>1, <1>2, <1>3, Zenon DEF NoLeak, Waiting, Types
  <1> QED
    BY <1>4, <1>5, <1>6, <1>8, <1>9, <1>10, <1>11, TypePartsNext

\* The end of wait_child_thread preserves the invariant.
LEMMA WaitEndInv ==
  ASSUME IInv, WaitEnd
  PROVE  IInv'
  <1> USE NoCtxIsNone DEF IInv
  <1>0. Types /\ InUseMarks
    BY TypeParts
  <1>1. /\ ending # 0 /\ todo = {} /\ freeing = {} /\ (reusable => freed)
        /\ primary' = NoCtx /\ reusable' = FALSE /\ socket' = 0
        /\ waited' = waited \ {ending} /\ ending' = 0 /\ freed' = FALSE
        /\ UNCHANGED <<local, phase, require, ctx, peer, started, alive, todo, freeing,
                       watched, caught, given, killer, misused>>
    BY DEF WaitEnd, VisitedAll, WaitResets
  <1>2. /\ ~LockFree /\ LockFree' /\ ending \notin alive
        /\ \A s \in Sessions : local[s].there => local[s].invalid
    BY <1>1 DEF Waiting, LockFree
  <1>3. waited = {ending} /\ waited' = {} /\ primary # NoCtx /\ peer[primary] = ending
    BY <1>0, <1>1 DEF Types, OneWaiter
  <1>4. Types' /\ MoreTypes'
    <2>1. socket' \in 0..started'
      BY <1>1 DEF MoreTypes
    <2>2. ending' \in waited' \cup {0}
      BY <1>1
    <2>3. Types'
      BY <1>0, <1>1, <2>1, <2>2 DEF Types
    <2>4. MoreTypes'
      BY <1>1, Zenon DEF MoreTypes
    <2> QED BY <2>3, <2>4
  <1>5. InUseMarks' /\ OneUser' /\ LocalOpen' /\ InvalidInUse'
    BY <1>0, <1>1, Zenon DEF InUseMarks, OneUser, LocalOpen, InvalidInUse
  <1>6. PrimaryKnown' /\ PrimaryHeld' /\ PrimaryOpen' /\ OneWaiter' /\ Waiting'
    BY <1>1, <1>2, <1>3, Zenon DEF PrimaryKnown, PrimaryHeld, PrimaryOpen, OneWaiter, Waiting
  <1>7. Fresh'
    BY <1>1, <1>2, <1>3, Zenon DEF Fresh
  <1>8. KillerPrimary'
    BY <1>1, <1>2, <1>3 DEF KillerPrimary
  <1>9. NoDeadContext'
    BY <1>1, <1>2, Zenon DEF NoDeadContext, LocalOpen, InvalidInUse
  <1>10. NoLeak'
    BY <1>1, <1>3 DEF NoLeak, PrimaryHeld, Waiting
  <1> QED
    BY <1>1, <1>4, <1>5, <1>6, <1>7, <1>8, <1>9, <1>10, TypePartsNext

-----------------------------------------------------------------------------
(* Theorems. *)

\* Before daemon_start is called for the first time the invariant holds.
LEMMA InitInv == Init => IInv
  <1> SUFFICES ASSUME Init PROVE IInv
    OBVIOUS
  <1>1. Types /\ InUseMarks
    BY DEF Init, Types, InUseMarks, LocalData, NoLocal
  <1>2. MoreTypes
    <2>1. started = 0 /\ 0 \in 0..started
      BY DEF Init
    <2>2. require \in [Sessions -> BOOLEAN] /\ peer \in [Ctxs -> 0..started]
      BY <2>1 DEF Init
    <2>3. started \in Nat
      BY <2>1
    <2>4. /\ reusable \in BOOLEAN /\ freed \in BOOLEAN
          /\ alive = {} /\ waited = {} /\ watched = {}
      BY Zenon DEF Init
    <2> QED BY <2>2, <2>3, <2>4, Zenon DEF MoreTypes
  <1>3. OneUser /\ LocalOpen /\ InvalidInUse /\ NoDeadContext
    BY DEF Init, OneUser, LocalOpen, InvalidInUse, NoDeadContext, NoLocal
  <1>4. PrimaryKnown /\ PrimaryHeld /\ PrimaryOpen /\ Fresh /\ NoLeak
    BY DEF Init, PrimaryKnown, PrimaryHeld, PrimaryOpen, Fresh, NoLeak
  <1>5. OneWaiter /\ Waiting /\ KillerPrimary
    BY DEF Init, OneWaiter, Waiting, KillerPrimary, LockFree
  <1> QED BY <1>1, <1>2, <1>3, <1>4, <1>5, TypeParts DEF Init, IInv

\* Every step preserves the invariant; agent_kill_daemon only uses a context.
LEMMA NextInv == IInv /\ [Next]_vars => IInv'
  <1> SUFFICES ASSUME IInv, [Next]_vars PROVE IInv'
    OBVIOUS
  <1>1. CASE KillBegins \/ KillEnds \/ UNCHANGED vars
    <2>1. /\ UNCHANGED <<local, phase, require, primary, reusable, socket, ctx, peer,
                         started, alive, waited, watched, caught, given, misused>>
          /\ UNCHANGED <<ending, todo, freeing, freed>>
          /\ killer' \in {killer, primary, NoCtx}
      BY <1>1 DEF KillBegins, KillEnds, vars, waiter
    <2>2. TypeOK' /\ MoreTypes' /\ LocalOpen' /\ OneUser' /\ InvalidInUse'
      BY <2>1, Zenon DEF IInv, TypeOK, MoreTypes, LocalOpen, OneUser, InvalidInUse, LockFree
    <2>3. PrimaryKnown' /\ PrimaryHeld' /\ PrimaryOpen' /\ Fresh' /\ OneWaiter' /\ Waiting'
      BY <2>1, Zenon DEF IInv, PrimaryKnown, PrimaryHeld, PrimaryOpen, Fresh, OneWaiter, Waiting,
         LockFree, Open
    <2>4. KillerPrimary'
      BY <2>1 DEF IInv, KillerPrimary, PrimaryKnown, TypeOK
    <2> QED
      BY <2>1, <2>2, <2>3, <2>4, Zenon DEF IInv, NoDeadContext, NoLeak
  <1>2. CASE WaitStep
    BY <1>2, WaitBeginInv, WaitSessionInv, WaitForgetInv, WaitPrimaryInv, WaitEndInv
       DEF WaitStep
  <1> QED
    BY <1>1, <1>2, StartInv, ReuseInv, ConnectInv, ForkInv, RetryInv, GiveUpInv,
       ForkFailsInv, NoHomedirInv, StartFailsInv, UnlockInv, ResetInv, DaemonDiesInv
       DEF Next

\* Whatever the sessions, the waiting threads and the daemons do, for any number
\* of sessions and with every fault: the invariant above holds.
THEOREM Invariance == Spec => []IInv
  BY InitInv, NextInv, PTL DEF Spec

\* Types, and the in-use mark of d_local is set exactly while a session talks to
\* the daemon (daemon_start, daemon_unlock).
THEOREM Typing == Spec => []TypeOK
  <1>1. IInv => TypeOK
    BY DEF IInv
  <1> QED BY <1>1, Invariance, PTL

\* daemon_start never gives a context to two sessions, and nobody has the primary
\* context while it is marked as reusable.
THEOREM SingleUse == Spec => []OneUser
  <1>1. IInv => OneUser
    BY DEF IInv
  <1> QED BY <1>1, Invariance, PTL

\* wait_child_thread, daemon_unlock and agent_reset_daemon never release the
\* context a session is using, unless it took that context up during the release,
\* nor that of agent_kill_daemon while the daemon runs, nor any context twice.
THEOREM OpenWhileUsed == Spec => []NoUseAfterRelease
  <1>1. IInv => NoUseAfterRelease
    <2> SUFFICES ASSUME IInv PROVE NoUseAfterRelease
      OBVIOUS
    <2>1. \A s \in Sessions \ caught : phase[s] = "busy" => Open(local[s].ctx)
      BY DEF IInv, TypeOK, LocalOpen, Open
    <2>2. killer # NoCtx /\ peer[killer] \in watched \cap alive => Open(killer)
      <3> SUFFICES ASSUME killer # NoCtx, peer[killer] \in watched \cap alive
                   PROVE  Open(killer)
        OBVIOUS
      <3>1. killer = primary /\ peer[primary] \in watched \cap alive
        BY DEF IInv, KillerPrimary
      <3>2. waited = {peer[primary]}
        BY <3>1 DEF IInv, Fresh, OneWaiter
      <3>3. LockFree
        BY <3>1, <3>2 DEF IInv, Waiting, TypeOK, LockFree
      <3> QED BY <3>1, <3>3 DEF IInv, PrimaryOpen
    <2> QED BY <2>1, <2>2 DEF IInv, NoUseAfterRelease
  <1> QED BY <1>1, Invariance, PTL

\* After wait_child_thread has dealt with a daemon's end, daemon_start hands out
\* no connection to it.
THEOREM DeadNotReused == Spec => []NoDeadContext
  <1>1. IInv => NoDeadContext
    BY DEF IInv
  <1> QED BY <1>1, Invariance, PTL

\* Every open context belongs to a session or is the primary one, except those
\* given up to retry with a socket.
THEOREM ContextsKept == Spec => []NoLeak
  <1>1. IInv => NoLeak
    BY DEF IInv
  <1> QED BY <1>1, Invariance, PTL

\* primary_ctx of a daemon that is waited for is an open context, but while
\* wait_child_thread is clearing it.
THEOREM PrimaryIsOpen == Spec => []PrimaryOpen
  <1>1. IInv => PrimaryOpen
    BY DEF IInv
  <1> QED BY <1>1, Invariance, PTL

=============================================================================
