------------------------------ MODULE CardApp ------------------------------
(***************************************************************************)
(* scdaemon's list of cards (scd/app.c) and the sessions that use them     *)
(* (scd/command.c).                                                        *)
(*                                                                         *)
(* Every session is a thread.  A command takes the card list as a reader   *)
(* and then the mutex of one card (card_get); finding new cards, selecting *)
(* one for a session and the main loop's look at the readers take the list *)
(* as a writer.  A writer that waits keeps new readers out.  What is done  *)
(* under the write lock, or under a card's mutex without waiting for the   *)
(* client, is one step.                                                    *)
(*                                                                         *)
(* A card is a USB token, so a card and its reader are the same thing.     *)
(***************************************************************************)
EXTENDS Naturals, FiniteSets, Sequences, Functions, Lists

CONSTANTS
    Sessions,
    Cards,
    AppsOf,       \* the applications of each card, best one first
    Cmds,         \* the commands that clients send
    InitList,     \* the cards known from earlier connections
    MaxCmds,      \* bound on the commands sent
    MaxUnplugs,   \* bound on the cards pulled out
    None

Apps == UNION {Range(AppsOf[c]) : c \in Cards}

ASSUME CardAssumption ==
    /\ IsFiniteSet(Sessions)
    /\ None \notin Sessions \cup Cards
    /\ DOMAIN AppsOf = Cards
    /\ \A c \in Cards : AppsOf[c] \in Seq(Apps) /\ AppsOf[c] # <<>>
    /\ InitList \in Seq(Cards)
    /\ \A q \in Cmds :
         /\ q.cmd \in {"serialno", "op", "keyop", "apdu", "switchapp", "switchcard",
                       "keyinfo", "allapps", "apps", "restart", "reset"}
         /\ q.sn \in Cards \cup {None} /\ q.all \in BOOLEAN

VARIABLES
    list,     \* card_top and its next pointers
    card,     \* the card contexts
    plugged,  \* the cards that are plugged in
    ses,      \* the sessions: ctrl and server_local
    locked,   \* locked_session
    loop,     \* the main loop: in its select, or waiting for the write lock
    cmds,     \* the number of commands sent
    unplugs   \* the number of cards pulled out

vars == <<list, card, plugged, ses, locked, loop, cmds, unplugs>>

\* A session that holds the list as a reader: it waits for the mutex of a card,
\* walks over the cards, or has a card.
HoldsList(s) == ses[s].pc \in {"walk", "lock", "op", "sleep"}

\* A thread that waits in card_list_w_lock.
WriterWaits(s) == ses[s].pc \in {"register", "select"}

\* card_list_r_lock and card_list_w_lock do not have to wait.
RLockFree == loop = "select" /\ \A s \in Sessions : ~WriterWaits(s)
WLockFree == \A s \in Sessions : ~HoldsList(s)

\* IS_LOCKED: another session has locked the card.
IsLocked(s) == locked \notin {None, s}

\* A card context.  apps is the list card->app, phys the application that the
\* card itself has selected, owner the session that has the mutex; left is a
\* history: a lookup has selected an application that is not the first one.
NoCard == [apps |-> <<>>, phys |-> None, ref |-> 0, owner |-> None,
           reset |-> FALSE, aid |-> FALSE, left |-> FALSE]

\* A session.  cmd, app, sn and all are the command and its arguments, card is
\* the card a command works on, ctx, cur and removed are ctrl->card_ctx,
\* ctrl->current_apptype and card_removed; first is a history: the card of the
\* first operation since the client last asked for a card.
NewSession == [pc |-> "closed", cmd |-> None, app |-> None, sn |-> None,
               all |-> FALSE, card |-> None, ctx |-> None, cur |-> None,
               removed |-> FALSE, first |-> None]

\* The context of a card that has just been found.
Fresh(a) == [NoCard EXCEPT !.apps = <<a>>, !.phys = a]

\* The command ends and the session waits for the next one.
Idle(r) == [r EXCEPT !.pc = "idle", !.cmd = None, !.app = None, !.sn = None,
                     !.all = FALSE, !.card = None]

Init ==
    /\ list = InitList
    /\ card = [c \in Cards |-> IF c \in Range(InitList) THEN Fresh(AppsOf[c][1]) ELSE NoCard]
    /\ plugged = Cards
    /\ ses = [s \in Sessions |-> Idle(NewSession)]
    /\ locked = None
    /\ loop = "select"
    /\ cmds = 0
    /\ unplugs = 0

Set(s, r) == ses' = [ses EXCEPT ![s] = r]
Goto(s, l) == Set(s, [ses[s] EXCEPT !.pc = l])

\* ctrl->card_ctx and ctrl->current_apptype are cleared.
NoCtx(r) == [r EXCEPT !.ctx = None, !.cur = None]

Head1(c) == card[c].apps[1]

-----------------------------------------------------------------------------
(* Applications of one card. *)

\* select_all_additional_applications_internal: the others are appended, and
\* the first one is selected again if there were any.
SelectAll(k, c) ==
    LET more == Without(AppsOf[c], Range(k.apps))
    IN  IF more = <<>> THEN k
        ELSE [k EXCEPT !.apps = @ \o more, !.phys = k.apps[1], !.left = FALSE]

\* Mutant: the application is selected but not moved to the head of the list.
ReselectInPlace(k, a) == [k EXCEPT !.phys = a, !.left = FALSE]

\* run_reselect and the move to the head of the list.
Reselect(k, a) ==
    [k EXCEPT !.phys = a, !.left = FALSE,
              !.apps = <<a>> \o Without(@, {a})]

\* The forced re-select after the use of the APDU command; its failure, on a
\* card that was pulled out (ok is false), is ignored.
CheckAid(k, ok) ==
    IF ~k.aid THEN k
    ELSE IF ok THEN [Reselect(k, k.apps[1]) EXCEPT !.aid = FALSE]
    ELSE [k EXCEPT !.aid = FALSE]

\* maybe_switch_app for a session whose current application is cur and a key
\* reference that belongs to want: the card, the new current application, and
\* whether selecting it failed.
MaybeSwitchApp(k0, cur, want, ok) ==
    LET k == CheckAid(k0, ok)
        head == k.apps[1]
        target == IF want \in Range(k.apps) THEN want ELSE cur
    IN  IF cur \notin Range(k.apps) THEN [k |-> k, cur |-> head, err |-> FALSE]
        ELSE IF target = head /\ cur = head THEN [k |-> k, cur |-> cur, err |-> FALSE]
        ELSE IF ok THEN [k |-> Reselect(k, target), cur |-> target, err |-> FALSE]
        ELSE [k |-> k, cur |-> cur, err |-> TRUE]

\* check_application_conflict without a serial number.  Only tokens with two
\* applications can switch.
Conflict(c, app) ==
    IF app \in {None, Head1(c)} THEN "no"
    ELSE IF app \in Range(AppsOf[c]) THEN "switch" ELSE "yes"

\* select_additional_application_internal: a new application becomes the first
\* one; one that is there already stays where it is.
SelectAdditional(k, a) ==
    IF a \in Range(k.apps) THEN k
    ELSE [k EXCEPT !.apps = <<a>> \o @, !.phys = a, !.left = FALSE]

-----------------------------------------------------------------------------
(* Getting and releasing a card. *)

\* card_get returned NULL.
WithoutCard(s, r) ==
    CASE r.cmd = "serialno" -> Set(s, [r EXCEPT !.pc = "newlock"])
      [] r.cmd = "serialno2" -> Set(s, [r EXCEPT !.pc = "null"])
      [] r.cmd = "end" -> Set(s, NewSession)
      [] OTHER -> Set(s, Idle(r))

\* Mutant: the end of a connection does not unlock.
UnlockByCommand(s) ==
    locked' = IF ses[s].cmd \in {"restart", "reset"} /\ locked = s
              THEN None ELSE locked

\* The commands that unlock a session implicitly.
Unlock(s) ==
    locked' = IF ses[s].cmd \in {"restart", "reset", "end"} /\ locked = s
              THEN None ELSE locked

\* card_get: the list is locked for reading; with a keygrip every card is asked
\* for the key, else it is the session's card.
CardGet(s) ==
    LET r == ses[s]
        walks == r.cmd \in {"keyop", "keyinfo", "allapps"}
    IN  /\ r.pc = "get"
        /\ RLockFree
        /\ IF walks /\ list # <<>>
           THEN Set(s, [r EXCEPT !.pc = "walk", !.card = list[1]]) /\ UNCHANGED locked
           ELSE IF ~walks /\ r.ctx # None
           THEN Set(s, [r EXCEPT !.pc = "lock", !.card = r.ctx]) /\ UNCHANGED locked
           ELSE WithoutCard(s, r) /\ Unlock(s)
        /\ UNCHANGED <<list, card, plugged, loop, cmds, unplugs>>

\* lock_card in card_get: the session gets the card's mutex for a command.
Gets(s, cmd) ==
    /\ ses[s].pc = "lock"
    /\ ses[s].cmd = cmd
    /\ card[ses[s].card].owner = None

\* One card in the loop of do_with_keygrip or send_card_and_app_list (which goes
\* by slot, here by list).  A key is known by its card and application.  With more than one application each is
\* selected in turn, and the first one again after an unsuccessful loop.
Walk(s) ==
    LET r == ses[s]
        c == r.card
        k == card[c]
        several == Len(k.apps) > 1
        found == /\ r.cmd # "allapps" /\ r.sn = c /\ r.app \in Range(k.apps)
                 /\ several => c \in plugged
        other == found /\ r.app # k.apps[1]
        at == CHOOSE i \in DOMAIN list : list[i] = c
    IN  /\ r.pc = "walk"
        /\ k.owner = None
        /\ card' = [card EXCEPT ![c] =
             IF c \notin plugged THEN k
             ELSE IF r.cmd = "allapps" THEN SelectAll(k, c)
             ELSE IF several THEN [k EXCEPT !.phys = IF found THEN r.app ELSE k.apps[1],
                                            !.left = other]
             ELSE k]
        /\ Set(s, IF found /\ r.cmd = "keyop"
                  THEN [r EXCEPT !.pc = "lock", !.cur = IF other THEN r.app ELSE @]
                  ELSE IF found THEN Idle([r EXCEPT !.cur = IF other THEN r.app ELSE @])
                  ELSE IF at = Len(list) THEN Idle(r)
                  ELSE [r EXCEPT !.card = list[at + 1]])
        /\ UNCHANGED <<list, plugged, locked, loop, cmds, unplugs>>

\* card_put after the card context has become k.
Put(c, k) == card' = [card EXCEPT ![c] = [k EXCEPT !.owner = None]]

\* The session gives its reference back.
Unref(k) == [k EXCEPT !.ref = @ - 1]

-----------------------------------------------------------------------------
(* What the commands do with the card they got. *)

\* SERIALNO succeeds: the card counts as present for all its sessions.
Serial(s, r, c) ==
    ses' = [t \in Sessions |->
              LET q == IF t = s THEN Idle(r) ELSE ses[t]
              IN  IF ses[t].ctx = c THEN [q EXCEPT !.removed = FALSE] ELSE q]

\* open_card_with_request for a session that has a card.  With an application
\* that card is kept if it allows to switch; without one it is given back.
Serialno(s) ==
    LET r == ses[s]
        c == r.card
        k == card[c]
        conflict == IF r.sn \notin {None, c} THEN "no" ELSE Conflict(c, r.app)
        works == c \in plugged \/ r.app \in Range(k.apps)
    IN  /\ Gets(s, "serialno")
        /\ \/ /\ r.app = None
              /\ Put(c, Unref(k))
              /\ Set(s, [NoCtx(r) EXCEPT !.pc = "newlock", !.card = None])
           \/ /\ r.app # None
              /\ conflict = "no"
              /\ Put(c, k)
              /\ Serial(s, r, c)
           \/ /\ r.app # None
              /\ conflict = "switch" /\ works
              /\ Put(c, SelectAdditional(k, r.app))
              /\ Serial(s, [r EXCEPT !.cur = r.app], c)
           \/ /\ r.app # None
              /\ conflict = "yes" \/ (conflict = "switch" /\ ~works)
              /\ Put(c, k)
              /\ Set(s, Idle([r EXCEPT !.removed = TRUE]))
        /\ UNCHANGED <<list, plugged, locked, loop, cmds, unplugs>>

\* The second card_get of open_card_with_request, after select_application.
Serialno2(s) ==
    LET r == ses[s]
        c == r.card
    IN  /\ Gets(s, "serialno2")
        /\ Put(c, IF r.all /\ c \in plugged THEN SelectAll(card[c], c) ELSE card[c])
        /\ Serial(s, r, c)
        /\ UNCHANGED <<list, plugged, locked, loop, cmds, unplugs>>

\* A key operation (PKSIGN, PKDECRYPT, GETATTR...): the application is switched
\* if needed, which fails on a card that was pulled out; then the operation
\* may ask the client for a PIN.
Operate(s) ==
    LET r == ses[s]
        c == r.card
        k == card[c]
        m == MaybeSwitchApp(k, r.cur, r.app, c \in plugged)
    IN  /\ Gets(s, "op") \/ Gets(s, "keyop")
        /\ IF m.err
           THEN Put(c, m.k) /\ Set(s, Idle(r))
           ELSE /\ card' = [card EXCEPT ![c] = [m.k EXCEPT !.owner = s]]
                /\ Set(s, [r EXCEPT !.pc = "op", !.cur = m.cur,
                             !.first = IF r.cmd = "op" /\ @ = None THEN c ELSE @])
        /\ UNCHANGED <<list, plugged, locked, loop, cmds, unplugs>>

OpDone(s) ==
    LET c == ses[s].card
    IN  /\ ses[s].pc = "op"
        /\ Put(c, card[c])
        /\ Set(s, Idle(ses[s]))
        /\ UNCHANGED <<list, plugged, locked, loop, cmds, unplugs>>

\* APDU: whatever the client sends may select another application.
Apdu(s) ==
    LET c == ses[s].card
    IN  /\ Gets(s, "apdu")
        /\ \E a \in Range(AppsOf[c]) :
             Put(c, [card[c] EXCEPT !.phys = a, !.aid = TRUE])
        /\ Set(s, Idle(ses[s]))
        /\ UNCHANGED <<list, plugged, locked, loop, cmds, unplugs>>

\* app_switch_active_app; "getinfo active_apps" is the same without a name.
Switchapp(s) ==
    LET r == ses[s]
        c == r.card
        k == IF c \in plugged THEN SelectAll(card[c], c) ELSE card[c]
        m == MaybeSwitchApp(k, r.app, None, c \in plugged)
    IN  /\ Gets(s, "switchapp") \/ Gets(s, "apps")
        /\ IF r.app = None
           THEN /\ Put(c, k)
                /\ Set(s, Idle(r))
           ELSE /\ Put(c, m.k)
                /\ Set(s, Idle([r EXCEPT !.cur = m.cur]))
        /\ UNCHANGED <<list, plugged, locked, loop, cmds, unplugs>>

\* Mutant: do_reset forgets to give the reference back.
ReleaseKeepsRef(s) ==
    LET r == ses[s]
        c == r.card
    IN  /\ Gets(s, "restart") \/ Gets(s, "end") \/ (Gets(s, "reset") /\ IsLocked(s))
        /\ Put(c, card[c])
        /\ Set(s, IF r.cmd = "end" THEN NewSession ELSE Idle(NoCtx(r)))
        /\ Unlock(s)
        /\ UNCHANGED <<list, plugged, loop, cmds, unplugs>>

\* RESTART, the end of the connection, and a RESET while another session has
\* locked the card: the card is given back.
Release(s) ==
    LET r == ses[s]
        c == r.card
    IN  /\ Gets(s, "restart") \/ Gets(s, "end") \/ (Gets(s, "reset") /\ IsLocked(s))
        /\ Put(c, Unref(card[c]))
        /\ Set(s, IF r.cmd = "end" THEN NewSession ELSE Idle(NoCtx(r)))
        /\ Unlock(s)
        /\ UNCHANGED <<list, plugged, loop, cmds, unplugs>>

\* card_reset: the card is reset and the main loop told to remove it; the
\* session keeps its reference until then.
Reset(s) ==
    LET c == ses[s].card
    IN  /\ Gets(s, "reset")
        /\ ~IsLocked(s)
        /\ card' = [card EXCEPT ![c].reset = TRUE, ![c].phys = None,
                                 ![c].owner = s]
        /\ Goto(s, "sleep")
        /\ UNCHANGED <<list, plugged, locked, loop, cmds, unplugs>>

\* card_reset sleeps for a second, by when the main loop waits for the list.
ResetDone(s) ==
    LET c == ses[s].card
    IN  /\ ses[s].pc = "sleep"
        /\ loop = "write"
        /\ Put(c, card[c])
        /\ Set(s, Idle(ses[s]))
        /\ Unlock(s)
        /\ UNCHANGED <<list, plugged, loop, cmds, unplugs>>

\* app_switch_current_card: only the list is locked, and only for reading.
Switchcard(s) ==
    LET r == ses[s]
    IN  /\ r.pc = "switch"
        /\ RLockFree
        /\ IF r.ctx = None \/ r.sn \notin Range(list)
           THEN Set(s, Idle(r)) /\ UNCHANGED card
           ELSE /\ Set(s, Idle([r EXCEPT !.ctx = r.sn, !.first = None]))
                /\ card' = [c \in Cards |->
                     LET k == IF c = r.sn THEN [card[c] EXCEPT !.ref = @ + 1] ELSE card[c]
                     IN  IF c = r.ctx THEN Unref(k) ELSE k]
        /\ UNCHANGED <<list, plugged, locked, loop, cmds, unplugs>>

-----------------------------------------------------------------------------
(* select_application; only SERIALNO asks for an application or a card. *)

Name(r) == IF r.cmd = "serialno" THEN r.app ELSE None
Demand(r) == IF r.cmd = "serialno" THEN r.sn ELSE None

\* new_card_lock: one session at a time looks for new cards.
NewLock(s) ==
    /\ ses[s].pc = "newlock"
    /\ \A t \in Sessions : ses[t].pc \notin {"scan", "register"}
    /\ Goto(s, "scan")
    /\ UNCHANGED <<list, card, plugged, locked, loop, cmds, unplugs>>

\* The next reader that is not in use and has the application that is asked for.
Scan(s) ==
    LET new == {c \in plugged \ Range(list) :
                  Name(ses[s]) \in {None} \cup Range(AppsOf[c])}
    IN  /\ ses[s].pc = "scan"
        /\ \/ \E c \in new : Set(s, [ses[s] EXCEPT !.pc = "register", !.card = c])
           \/ new = {} /\ Set(s, [ses[s] EXCEPT !.pc = "select", !.card = None])
        /\ UNCHANGED <<list, card, plugged, locked, loop, cmds, unplugs>>

\* app_new_register: a card context with one application.
Register(s) ==
    LET r == ses[s]
        a == IF Name(r) = None THEN AppsOf[r.card][1] ELSE Name(r)
    IN  /\ r.pc = "register"
        /\ WLockFree
        /\ IF r.card \in plugged
           THEN /\ list' = <<r.card>> \o list
                /\ card' = [card EXCEPT ![r.card] = Fresh(a)]
           ELSE UNCHANGED <<list, card>>
        /\ Goto(s, "scan")
        /\ UNCHANGED <<plugged, locked, loop, cmds, unplugs>>

\* Where a command goes on once its session has a card.
Opened(r) == [r EXCEPT !.pc = IF r.cmd = "switchcard" THEN "switch" ELSE "get",
                       !.cmd = IF @ = "serialno" THEN "serialno2" ELSE @]

\* The choice of a card from the list.
Select(s) ==
    LET r == ses[s]
        fits == {i \in DOMAIN list : Demand(r) \in {None, list[i]}}
        c == list[CHOOSE i \in fits : \A j \in fits : i <= j]
        conflict == Conflict(c, Name(r))
        ok == \/ conflict = "no"
              \/ conflict = "switch" /\ (c \in plugged \/ r.app \in Range(card[c].apps))
        k == IF conflict = "switch" THEN SelectAdditional(card[c], r.app) ELSE card[c]
    IN  /\ r.pc = "select"
        /\ WLockFree
        /\ IF fits # {} /\ ok
           THEN /\ card' = [card EXCEPT ![c] = [k EXCEPT !.ref = @ + 1]]
                /\ list' = <<c>> \o Without(list, {c})
                /\ Set(s, Opened([r EXCEPT !.ctx = c,
                             !.cur = IF conflict = "no" THEN Head1(c) ELSE r.app]))
           ELSE /\ Set(s, Idle([r EXCEPT !.removed = @ \/ r.cmd = "serialno"]))
                /\ UNCHANGED <<list, card>>
        /\ UNCHANGED <<plugged, locked, loop, cmds, unplugs>>

-----------------------------------------------------------------------------
(* The commands' first steps, which use no lock. *)

\* open_card: an error, the session's card, or a card is looked for.
OpenCard(r, busy) ==
    IF r.removed \/ busy THEN Idle(r)
    ELSE IF r.ctx # None THEN Opened(r)
    ELSE [r EXCEPT !.pc = IF list = <<>> THEN "newlock" ELSE "select"]

Command(s) ==
    /\ ses[s].pc = "idle"
    /\ cmds < MaxCmds
    /\ cmds' = cmds + 1
    /\ \E q \in Cmds :
         LET r == [ses[s] EXCEPT !.cmd = q.cmd, !.app = q.app, !.sn = q.sn, !.all = q.all]
         IN  CASE q.cmd = "serialno" ->
                    Set(s, IF IsLocked(s) THEN Idle(r)
                           ELSE [r EXCEPT !.pc = "get", !.removed = FALSE, !.first = None])
               [] q.cmd \in {"op", "keyop", "apdu", "switchapp", "switchcard"} ->
                    Set(s, OpenCard(r, IsLocked(s)))
               [] q.cmd \in {"keyinfo", "allapps", "apps"} ->
                    Set(s, [r EXCEPT !.pc = "get"])
               [] q.cmd \in {"restart", "reset"} ->
                    Set(s, [r EXCEPT !.pc = "get", !.first = None])
    /\ UNCHANGED <<list, card, plugged, locked, loop, unplugs>>

\* LOCK and UNLOCK.
Lock(s) ==
    /\ ses[s].pc = "idle"
    /\ cmds < MaxCmds
    /\ cmds' = cmds + 1
    /\ locked = None
    /\ locked' = s
    /\ UNCHANGED <<list, card, plugged, ses, loop, unplugs>>

UnlockSession(s) ==
    /\ ses[s].pc = "idle"
    /\ locked = s
    /\ locked' = None
    /\ UNCHANGED <<list, card, plugged, ses, loop, cmds, unplugs>>

\* A client connects, and the end of its connection.
Connect(s) ==
    /\ ses[s].pc = "closed"
    /\ Goto(s, "idle")
    /\ UNCHANGED <<list, card, plugged, locked, loop, cmds, unplugs>>

End(s) ==
    /\ ses[s].pc = "idle"
    /\ Set(s, [ses[s] EXCEPT !.pc = "get", !.cmd = "end"])
    /\ UNCHANGED <<list, card, plugged, locked, loop, cmds, unplugs>>

\* cmd_serialno uses the card it did not get: the daemon dies, and gpg-agent
\* starts another one.
Crash(s) ==
    /\ ses[s].pc = "null"
    /\ list' = <<>>
    /\ card' = [c \in Cards |-> NoCard]
    /\ ses' = [t \in Sessions |-> NewSession]
    /\ locked' = None
    /\ loop' = "select"
    /\ UNCHANGED <<plugged, cmds, unplugs>>

-----------------------------------------------------------------------------
(* The main loop and the user. *)

\* A timeout or scd_kick_the_loop ends the select.
Wake ==
    /\ loop = "select"
    /\ loop' = "write"
    /\ UNCHANGED <<list, card, plugged, ses, locked, cmds, unplugs>>

\* Mutant: a client that loses its card is not told.
UpdateSilent ==
    LET gone == {c \in Range(list) : card[c].reset \/ c \notin plugged}
    IN  /\ loop = "write"
        /\ WLockFree
        /\ loop' = "select"
        /\ list' = Without(list, gone)
        /\ card' = [c \in Cards |-> IF c \in gone THEN NoCard ELSE card[c]]
        /\ ses' = [s \in Sessions |->
                     IF ses[s].ctx \in gone THEN NoCtx(ses[s]) ELSE ses[s]]
        /\ UNCHANGED <<plugged, locked, cmds, unplugs>>

\* Mutant: the loop removes cards without the write lock.
UpdateUnlocked ==
    LET gone == {c \in Range(list) : card[c].reset \/ c \notin plugged}
    IN  /\ loop = "write"
        /\ loop' = "select"
        /\ list' = Without(list, gone)
        /\ card' = [c \in Cards |-> IF c \in gone THEN NoCard ELSE card[c]]
        /\ ses' = [s \in Sessions |->
                     IF ses[s].ctx \in gone
                     THEN [NoCtx(ses[s]) EXCEPT !.removed = TRUE] ELSE ses[s]]
        /\ UNCHANGED <<plugged, locked, cmds, unplugs>>

\* scd_update_reader_status_file and send_client_notifications: a card that
\* was reset or pulled out is taken from its sessions and from the list.
Update ==
    LET gone == {c \in Range(list) : card[c].reset \/ c \notin plugged}
    IN  /\ loop = "write"
        /\ WLockFree
        /\ loop' = "select"
        /\ list' = Without(list, gone)
        /\ card' = [c \in Cards |-> IF c \in gone THEN NoCard ELSE card[c]]
        /\ ses' = [s \in Sessions |->
                     IF ses[s].ctx \in gone
                     THEN [NoCtx(ses[s]) EXCEPT !.removed = TRUE] ELSE ses[s]]
        /\ UNCHANGED <<plugged, locked, cmds, unplugs>>

\* A token is pulled out, and plugged in again once the loop has noticed.
Unplug(c) ==
    /\ c \in plugged
    /\ unplugs < MaxUnplugs
    /\ unplugs' = unplugs + 1
    /\ plugged' = plugged \ {c}
    /\ UNCHANGED <<list, card, ses, locked, loop, cmds>>

Plug(c) ==
    /\ c \notin plugged \cup Range(list)
    /\ plugged' = plugged \cup {c}
    /\ UNCHANGED <<list, card, ses, locked, loop, cmds, unplugs>>

-----------------------------------------------------------------------------
\* The steps that a session takes by itself once its command was sent.
Step(s) ==
    \/ CardGet(s) \/ Walk(s)
    \/ Serialno(s) \/ Serialno2(s) \/ Operate(s) \/ OpDone(s) \/ Apdu(s)
    \/ Switchapp(s) \/ Release(s) \/ Reset(s) \/ ResetDone(s) \/ Switchcard(s)
    \/ NewLock(s) \/ Scan(s) \/ Register(s) \/ Select(s) \/ Crash(s)

Next ==
    \/ \E s \in Sessions :
         Step(s) \/ Command(s) \/ Lock(s) \/ UnlockSession(s) \/ Connect(s) \/ End(s)
    \/ Wake \/ Update
    \/ \E c \in Cards : Unplug(c) \/ Plug(c)

Spec == Init /\ [][Next]_vars

-----------------------------------------------------------------------------
(* Properties. *)

\* A card's reference count is the number of sessions it is the current card
\* of, whatever commands, resets and removals came in between: neither is a
\* card context freed that is "still used", nor one released twice.
RefCounts ==
    \A c \in Cards : card[c].ref = Cardinality({s \in Sessions : ses[s].ctx = c})

\* A card is not freed while a session refers to it, waits for its mutex or
\* works with it ("it is guaranteed that no card/app is accessed"): the cards
\* of sessions are in the list, and those in the list have their applications.
CardsLive ==
    /\ \A s \in Sessions :
         /\ ses[s].ctx \in Range(list) \cup {None}
         /\ HoldsList(s) => ses[s].card \in Range(list)
    /\ \A c \in Range(list) : card[c].apps # <<>>

\* "The client can assume that all operations are done on the same card" until
\* it uses SERIALNO or gives the card back, also when that card is removed
\* and there is another one (open_card's CARD_REMOVED).
SameCard ==
    \A s \in Sessions :
      ses[s].pc = "op" /\ ses[s].cmd = "op" => ses[s].card = ses[s].first

\* An operation runs in the application that is current for its session, that
\* is first in the card's list and that the card has selected; except when a
\* lookup by another session left another one selected, or the card has just
\* been reset or pulled out.
SelectedApp ==
    \A s \in Sessions :
      LET c == ses[s].card IN
      ses[s].pc = "op" =>
        /\ ses[s].cur = Head1(c)
        /\ c \in plugged /\ ~card[c].left /\ ~card[c].reset => card[c].phys = Head1(c)

\* The card is locked by a session that is still there: however a connection
\* ends, with or without a card, which may have been reset or taken away by then,
\* do_reset gives the lock back before the session's data are freed, and no later
\* session finds itself locked out for good or, at the same address, in
\* possession of a lock it never asked for.
LockHasOwner == locked # None => ses[locked].pc # "closed"

\* SERIALNO has a card when it reports success: "an error is returned if no
\* such card available".
SerialnoHasCard == \A s \in Sessions : ses[s].pc # "null"
=============================================================================
