------------------------------- MODULE Reopen -------------------------------
(***************************************************************************)
(* Reopening a table: apps/web/src/session and packages/transport-peerjs.   *)
(* Every player of a table without hidden information saves the whole of    *)
(* it.  Whoever opens it again registers its room code with the signalling  *)
(* server and hosts the copy; when the code is taken, it joins the host and *)
(* offers its copy, and the longer one wins.  Registrations outlive pages,  *)
(* sockets drop unnoticed, channels break, and players leave while a call   *)
(* is awaited.                                                             *)
(*                                                                         *)
(* A copy is the sequence of its actions, each with who may act next: one   *)
(* player at a time, as rules that are enforced have it.  One device per    *)
(* player.  The waits between attempts and the two minutes of the whole are *)
(* left to chance.                                                         *)
(***************************************************************************)
EXTENDS Integers, Sequences, FiniteSets, SequencesExt

CONSTANTS
    Owners,        \* the players, each with a device
    First,         \* who acts first
    Nowhere,       \* no device
    TakenRetries,  \* ADDRESS_TAKEN_RETRIES
    ReopenConfs    \* the situations considered, a subset of ReopenConf

(* Bounds: actions; times a player opens the table or tries again; screens left;
   pages that die; sockets that drop; channels that break.                  *)
ReopenConf == [actions : Nat, opens : Nat, leaves : Nat, deaths : Nat, cuts : Nat, breaks : Nat]
ASSUME ReopenAssumption ==
    /\ ReopenConfs \subseteq ReopenConf /\ TakenRetries \in Nat
    /\ First \in Owners /\ Nowhere \notin Owners

VARIABLES
    visit,     \* the situation, its bounds being used up
    screen,    \* what each player's screen is at
    copies,    \* the copy each device has saved
    hosted,    \* the table a hosting device runs
    chans,     \* the channel of each guest
    code,      \* whose registration holds the room code
    unheard    \* the players who never heard of an action of theirs

reopenVars == <<visit, screen, copies, hosted, chans, code, unheard>>

(* stage: see Stages.  ask: the registration asked of the signalling server;
   tries: how often it said that the code is taken; old: that of a flow that was
   aborted; link: the socket of a host, which is "cut" until the page hears of
   it; timer: it will register again.                                       *)
Stages == {"away", "asking", "joining", "greeting", "pausing", "host", "guest",
           "down", "ousted", "failed"}
Asks == {"none", "asked", "granted", "taken"}
Screen(stage) == [stage |-> stage, ask |-> "none", tries |-> 0, old |-> "none",
                  link |-> "up", timer |-> FALSE]
NoChan == [host |-> Nowhere, seated |-> FALSE, up |-> << >>, down |-> << >>]

(* Whose peer a registration is: that of the flow or the listener on the screen,
   of an aborted flow, or of a page that is gone.                           *)
Held(d, by) == [of |-> d, by |-> by]
FreeCode == Held(Nowhere, "none")

At(d, stages) == screen[d].stage \in stages
Set(d, s) == screen' = [screen EXCEPT ![d] = s]
Spend(bound) == visit[bound] > 0 /\ visit' = [visit EXCEPT ![bound] = @ - 1]

-----------------------------------------------------------------------------
(* The table. *)

ToAct(log) == IF log = << >> THEN First ELSE Last(log).next
NewAction(p, next) == [by |-> p, next |-> next, id |-> visit.actions]
GuestsOf(h) == {d \in Owners : chans[d].host = h}

(* broadcastState, which the host's own client saves.                       *)
Announce(h, log, but) ==
    /\ hosted' = [hosted EXCEPT ![h] = log]
    /\ copies' = [copies EXCEPT ![h] = log]
    /\ chans' = [d \in Owners |->
                   IF d \in GuestsOf(h) \ {but} /\ chans[d].seated
                   THEN [chans[d] EXCEPT !.down = Append(@, log)] ELSE chans[d]]

(* Channels that close: what is under way is lost, and with it perhaps what
   became of a guest's action.                                              *)
Deaf(ds) == {d \in ds : chans[d].host # Nowhere /\
                        \E a \in ToSet(hosted[chans[d].host]) \ ToSet(copies[d]) : a.by = d}
Close(ds) ==
    /\ chans' = [d \in Owners |-> IF d \in ds THEN NoChan ELSE chans[d]]
    /\ unheard' = unheard \cup Deaf(ds)

(* The client of a channel that closed: a guest is shown that the connection was
   lost, a flow tries again later or gives up.                              *)
Cutoff(s) == IF s.stage = "guest" THEN {[s EXCEPT !.stage = "down"]}
             ELSE {[s EXCEPT !.stage = "pausing"], [s EXCEPT !.stage = "failed"]}

(* A listener that closes: its guests lose their channels, its peer its code,
   which stays registered for a while when the socket is gone.              *)
Released(d) ==
    IF code # Held(d, "screen") THEN code
    ELSE IF screen[d].stage = "host" /\ screen[d].link # "up" THEN Held(d, "gone") ELSE FreeCode
Cut(d, s) ==
    LET others == GuestsOf(d)
    IN  /\ Close(others \cup {d})
        /\ \E after \in [others -> UNION {Cutoff(screen[g]) : g \in others}] :
              /\ \A g \in others : after[g] \in Cutoff(screen[g])
              /\ screen' = [e \in Owners |-> IF e = d THEN s
                                              ELSE IF e \in others THEN after[e] ELSE screen[e]]
        /\ hosted' = [hosted EXCEPT ![d] = << >>]
        /\ UNCHANGED copies
Dispose(d, s) == Cut(d, s) /\ code' = Released(d)

-----------------------------------------------------------------------------
(* Screens. *)

(* resumeMatch: host first.  Abandoned flows come to their end by themselves. *)
Flow(s) == [Screen("asking") EXCEPT !.ask = "asked", !.old = s.old]
OpenScreen(d) ==
    /\ At(d, {"away", "failed", "pausing"}) /\ Spend("opens")
    /\ Set(d, Flow(screen[d]))
    /\ UNCHANGED <<copies, hosted, chans, code, unheard>>

(* The player leaves, or asks to try again: the session is disposed, or the flow
   aborted, which keeps the registration it waits for until it is answered.  *)
Aborted(s) == IF s.stage = "asking" THEN s.ask ELSE s.old
Abort(d, again) ==
    LET s == screen[d]
        old == Aborted(s)
        mine == Held(d, "screen")
    IN  /\ ~At(d, {"away"}) /\ Spend("leaves")
        /\ s.stage = "asking" => s.old = "none"
        /\ again => At(d, {"asking", "joining", "greeting"})
        /\ LET next == IF again THEN Flow([s EXCEPT !.old = old])
                       ELSE [Screen("away") EXCEPT !.old = old]
           IN  IF s.stage = "asking"
               THEN /\ Set(d, next)
                    /\ code' = IF code = mine THEN Held(d, "old") ELSE code
                    /\ UNCHANGED <<copies, hosted, chans, unheard>>
               ELSE Dispose(d, next)

(* Reconnect: the player asks for it, and a host that lost its code does at once. *)
Reconnect(d) ==
    /\ At(d, {"down", "ousted"})
    /\ IF At(d, {"down"}) THEN Spend("opens") ELSE UNCHANGED visit
    /\ Set(d, Flow(screen[d]))
    /\ UNCHANGED <<copies, hosted, chans, code, unheard>>

(* The page is closed by the system: its registrations stay for a while.    *)
Killed(d) ==
    /\ ~At(d, {"away"}) /\ Spend("deaths")
    /\ Cut(d, Screen("away"))
    /\ code' = IF code.of = d THEN Held(d, "gone") ELSE code

-----------------------------------------------------------------------------
(* The signalling server. *)

(* A peer gets a code nobody holds, and keeps the one it holds itself.      *)
Grant(d, ask, by) ==
    /\ ask = "asked"
    /\ IF code \in {FreeCode, Held(d, by)} THEN code' = Held(d, by) ELSE UNCHANGED code
Verdict(d, by) == IF code \in {FreeCode, Held(d, by)} THEN "granted" ELSE "taken"
Register(d) ==
    /\ Grant(d, screen[d].ask, "screen")
    /\ Set(d, [screen[d] EXCEPT !.ask = Verdict(d, "screen")])
    /\ UNCHANGED <<visit, copies, hosted, chans, unheard>>
RegisterOld(d) ==
    /\ Grant(d, screen[d].old, "old")
    /\ Set(d, [screen[d] EXCEPT !.old = Verdict(d, "old")])
    /\ UNCHANGED <<visit, copies, hosted, chans, unheard>>

(* It finds out that a peer is gone, or only its socket.                    *)
Expire ==
    /\ \/ code.by = "gone"
       \/ /\ code.by = "screen" /\ At(code.of, {"host"})
          /\ screen[code.of].link # "up" /\ screen[code.of].ask # "granted"
    /\ code' = FreeCode
    /\ UNCHANGED <<visit, screen, copies, hosted, chans, unheard>>

-----------------------------------------------------------------------------
(* provider.host and hostWithServer. *)

(* A peer that is destroyed gives its code back.                            *)
GivenBack(d, by) == IF code = Held(d, by) THEN FreeCode ELSE code

Hosts(d) ==
    /\ At(d, {"asking"}) /\ screen[d].ask = "granted"
    /\ Set(d, [Screen("host") EXCEPT !.old = screen[d].old])
    /\ hosted' = [hosted EXCEPT ![d] = copies[d]]
    /\ UNCHANGED <<visit, copies, chans, code, unheard>>

(* The code is taken: a few tries, then whoever holds it is joined.         *)
Taken(d) ==
    LET s == screen[d]
    IN  /\ At(d, {"asking"}) /\ s.ask = "taken"
        /\ Set(d, IF s.tries < TakenRetries
                  THEN [s EXCEPT !.ask = "asked", !.tries = @ + 1]
                  ELSE [s EXCEPT !.ask = "none", !.stage = "joining"])
        /\ UNCHANGED <<visit, copies, hosted, chans, code, unheard>>

(* No answer in time, or no network: the whole sequence again, or enough of it. *)
HostFails(d) ==
    /\ At(d, {"asking"}) /\ screen[d].ask # "taken"
    /\ code' = GivenBack(d, "screen")
    /\ \E stage \in {"pausing", "failed"} :
          Set(d, [screen[d] EXCEPT !.stage = stage, !.ask = "none", !.tries = 0])
    /\ UNCHANGED <<visit, copies, hosted, chans, unheard>>

(* An aborted flow closes what it gets: the listener, or nothing.           *)
OldEnds(d) ==
    /\ screen[d].old # "none"
    /\ code' = GivenBack(d, "old")
    /\ Set(d, [screen[d] EXCEPT !.old = "none"])
    /\ UNCHANGED <<visit, copies, hosted, chans, unheard>>

Resumes(d) ==
    /\ At(d, {"pausing"}) /\ Set(d, Flow(screen[d]))
    /\ UNCHANGED <<visit, copies, hosted, chans, code, unheard>>

-----------------------------------------------------------------------------
(* joinOnce. *)

(* The signalling server brings the two together; the client says hello with its
   copy.  A join that fails, or whose host does not answer, is tried again.  *)
Connects(d) ==
    LET h == code.of
    IN  /\ At(d, {"joining"}) /\ code.by = "screen" /\ h # d
        /\ At(h, {"host"}) /\ screen[h].link = "up"
        /\ chans' = [chans EXCEPT ![d] = [NoChan EXCEPT !.host = h,
                                            !.up = <<[kind |-> "hello", log |-> copies[d]]>>]]
        /\ Set(d, [screen[d] EXCEPT !.stage = "greeting"])
        /\ UNCHANGED <<visit, copies, hosted, code, unheard>>
JoinFails(d) ==
    /\ At(d, {"joining"})
    /\ \E stage \in {"pausing", "failed"} : Set(d, [screen[d] EXCEPT !.stage = stage, !.tries = 0])
    /\ UNCHANGED <<visit, copies, hosted, chans, code, unheard>>

(* The channel breaks, or the welcome does not come in time.                *)
Breaks(d) ==
    /\ chans[d].host # Nowhere /\ Spend("breaks")
    /\ Close({d})
    /\ \E s \in Cutoff(screen[d]) : Set(d, [s EXCEPT !.tries = 0])
    /\ UNCHANGED <<copies, hosted, code>>

-----------------------------------------------------------------------------
(* At the table. *)

HostActs(h) ==
    /\ At(h, {"host"}) /\ ToAct(hosted[h]) = h /\ Spend("actions")
    /\ \E next \in Owners : Announce(h, Append(hosted[h], NewAction(h, next)), h)
    /\ UNCHANGED <<screen, code, unheard>>

(* A guest acts by what it sees.                                            *)
GuestActs(d) ==
    /\ At(d, {"guest"}) /\ ToAct(copies[d]) = d /\ chans[d].up = << >> /\ chans[d].down = << >>
    /\ \E next \in Owners :
          chans' = [chans EXCEPT ![d].up = <<[kind |-> "command", next |-> next]>>]
    /\ UNCHANGED <<visit, screen, copies, hosted, code, unheard>>

(* Mutation: another copy is adopted, longer or not.                        *)
AdoptsAny(mine, theirs) == Len(theirs) # Len(mine)

(* maybeAdopt: a strictly longer copy.                                      *)
Adopts(mine, theirs) == Len(theirs) > Len(mine)

(* admit: the copy offered is adopted or not, and the guest welcomed.       *)
Greets(h, d) ==
    LET hello == Head(chans[d].up)
        log == IF Adopts(hosted[h], hello.log) THEN hello.log ELSE hosted[h]
    IN  /\ d \in GuestsOf(h) /\ chans[d].up # << >> /\ hello.kind = "hello"
        /\ hosted' = [hosted EXCEPT ![h] = log]
        /\ copies' = [copies EXCEPT ![h] = log]
        /\ chans' = [e \in Owners |->
              IF e = d THEN [chans[e] EXCEPT !.seated = TRUE, !.up = Tail(@), !.down = <<log>>]
              ELSE IF e \in GuestsOf(h) /\ chans[e].seated /\ log # hosted[h]
              THEN [chans[e] EXCEPT !.down = Append(@, log)] ELSE chans[e]]
        /\ UNCHANGED <<visit, screen, code, unheard>>

(* A command of whose turn it is changes the table; another is refused.     *)
Executes(h, d) ==
    LET cmd == Head(chans[d].up)
    IN  /\ d \in GuestsOf(h) /\ chans[d].up # << >> /\ cmd.kind = "command"
        /\ IF ToAct(hosted[h]) = d
           THEN LET log == Append(hosted[h], NewAction(d, cmd.next))
                IN  /\ Spend("actions")
                    /\ hosted' = [hosted EXCEPT ![h] = log]
                    /\ copies' = [copies EXCEPT ![h] = log]
                    /\ chans' = [e \in Owners |->
                          IF e \notin GuestsOf(h) \/ ~chans[e].seated THEN chans[e]
                          ELSE [chans[e] EXCEPT !.up = IF e = d THEN Tail(@) ELSE @,
                                                !.down = Append(@, log)]]
           ELSE /\ chans' = [chans EXCEPT ![d].up = Tail(@)]
                /\ UNCHANGED <<visit, hosted, copies>>
        /\ UNCHANGED <<screen, code, unheard>>

(* TableClient: what comes is shown, and saved.                             *)
Hears(d) ==
    /\ chans[d].down # << >>
    /\ copies' = [copies EXCEPT ![d] = Head(chans[d].down)]
    /\ chans' = [chans EXCEPT ![d].down = Tail(@)]
    /\ Set(d, [screen[d] EXCEPT !.stage = "guest", !.tries = 0])
    /\ UNCHANGED <<visit, hosted, code, unheard>>

-----------------------------------------------------------------------------
(* PeerJsListener. *)

SocketDrops(h) ==
    /\ At(h, {"host"}) /\ screen[h].link = "up" /\ Spend("cuts")
    /\ Set(h, [screen[h] EXCEPT !.link = "cut"])
    /\ UNCHANGED <<copies, hosted, chans, code, unheard>>

(* Mutation: that the socket dropped is not acted on.                       *)
DisconnectedIgnored(h) ==
    /\ At(h, {"host"}) /\ screen[h].link = "cut"
    /\ Set(h, [screen[h] EXCEPT !.link = "down"])
    /\ UNCHANGED <<visit, copies, hosted, chans, code, unheard>>

(* The disconnected event; scheduleReconnect.                               *)
Disconnected(h) ==
    /\ At(h, {"host"}) /\ screen[h].link = "cut"
    /\ Set(h, [screen[h] EXCEPT !.link = "down", !.timer = TRUE])
    /\ UNCHANGED <<visit, copies, hosted, chans, code, unheard>>

(* reconnectNow, by the timer or because the device wakes: it schedules the next
   try too, but does nothing while a request is under way.                  *)
Reregister(h) ==
    LET s == screen[h]
    IN  /\ At(h, {"host"}) /\ s.timer
        /\ Set(h, IF s.ask = "none" THEN [s EXCEPT !.ask = "asked"] ELSE [s EXCEPT !.timer = FALSE])
        /\ UNCHANGED <<visit, copies, hosted, chans, code, unheard>>

(* The open event.                                                          *)
Reregistered(h) ==
    /\ At(h, {"host"}) /\ screen[h].ask = "granted"
    /\ Set(h, [screen[h] EXCEPT !.link = "up", !.ask = "none", !.timer = FALSE])
    /\ UNCHANGED <<visit, copies, hosted, chans, code, unheard>>

(* The request fails: the error and disconnected events.                    *)
NotReregistered(h) ==
    /\ At(h, {"host"}) /\ screen[h].ask \in {"asked", "granted"}
    /\ Set(h, [screen[h] EXCEPT !.ask = "none", !.timer = TRUE])
    /\ UNCHANGED <<visit, copies, hosted, chans, code, unheard>>

(* markLost: "two hosts of one table would each wait forever for the other".
   The session is disposed, and the screen reconnects.                      *)
Ousted(h) ==
    /\ At(h, {"host"}) /\ screen[h].ask = "taken"
    /\ Dispose(h, [Screen("ousted") EXCEPT !.old = screen[h].old])
    /\ UNCHANGED visit

-----------------------------------------------------------------------------
ReopenInit ==
    /\ visit \in ReopenConfs
    /\ screen = [d \in Owners |-> Screen("away")]
    /\ copies = [d \in Owners |-> << >>]
    /\ hosted = [d \in Owners |-> << >>]
    /\ chans = [d \in Owners |-> NoChan]
    /\ code = FreeCode /\ unheard = {}

ReopenNext ==
    \/ Expire
    \/ \E d \in Owners :
          \/ OpenScreen(d) \/ Reconnect(d) \/ Killed(d) \/ \E again \in BOOLEAN : Abort(d, again)
          \/ Register(d) \/ RegisterOld(d) \/ OldEnds(d)
          \/ Hosts(d) \/ Taken(d) \/ HostFails(d) \/ Resumes(d)
          \/ Connects(d) \/ JoinFails(d) \/ Breaks(d)
          \/ HostActs(d) \/ GuestActs(d) \/ Hears(d)
          \/ SocketDrops(d) \/ Disconnected(d) \/ Reregister(d)
          \/ Reregistered(d) \/ NotReregistered(d) \/ Ousted(d)
          \/ \E h \in Owners : Greets(h, d) \/ Executes(h, d)

ReopenSpec == ReopenInit /\ [][ReopenNext]_reopenVars

-----------------------------------------------------------------------------
(* Properties. *)

ReopenTypeOK ==
    /\ \A d \in Owners :
         /\ screen[d].stage \in Stages /\ {screen[d].ask, screen[d].old} \subseteq Asks
         /\ chans[d].host # Nowhere <=> At(d, {"greeting", "guest"})
         /\ chans[d].host \in Owners => At(chans[d].host, {"host"})
    /\ code.of \in Owners \cup {Nowhere} /\ unheard \subseteq Owners

(* "an aborted flow disposes whatever it created" (retry.ts), and "two hosts of
   one table would each wait forever for the other" (PeerJsListener): the code is
   held by a screen that hosts or is about to, by a flow that is still to end, or
   by a page that is gone; and a host that does not hold it has not heard that its
   socket dropped, or is going to ask for the code again.                   *)
HostFound ==
    /\ code.by = "screen" => At(code.of, {"host"}) \/ screen[code.of].ask = "granted"
    /\ code.by = "old" => screen[code.of].old = "granted"
    /\ \A d \in Owners : At(d, {"host"}) /\ code # Held(d, "screen") =>
          screen[d].link = "cut" \/ (screen[d].link = "down" /\ (screen[d].timer \/ screen[d].ask # "none"))

(* "The newer copy of the match wins" (GameScreen.tsx), however often the table is
   hosted again by one player or the other: what a device has saved is only gone
   on with, or exchanged for a copy at least as long that parts from it at an
   action of somebody who was cut off before hearing of it, and acted again. *)
Branch(s, t) == {i \in DOMAIN s \cap DOMAIN t :
                   s[i] # t[i] /\ \A j \in 1 .. i - 1 : s[j] = t[j]}
NothingUndone ==
    [][\A d \in Owners :
         \/ IsPrefix(copies[d], copies'[d])
         \/ /\ Len(copies'[d]) >= Len(copies[d])
            /\ \A i \in Branch(copies[d], copies'[d]) :
                  copies[d][i].by = copies'[d][i].by /\ copies[d][i].by \in unheard]_reopenVars
=============================================================================
