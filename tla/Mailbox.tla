------------------------------ MODULE Mailbox ------------------------------
(***************************************************************************)
(* Playing while apart: apps/web/src/mailbox.  A guest whose host is away   *)
(* mails its moves to the host's device, which applies them and mails the   *)
(* new position back.  Every message waits in the mailbox and may also come *)
(* by push; a page or the service worker of the device acts on it, in runs  *)
(* of processMessages that other events come in between.  The host may also *)
(* open the table and play live.                                           *)
(*                                                                         *)
(* One table of open-face Chinese poker, one device per player.  A copy is  *)
(* the sequence of its moves (its length is seq); what a view redacts, the  *)
(* sealing, chat and the texts of errors are left out.                      *)
(***************************************************************************)
EXTENDS Integers, Sequences, FiniteSets, FiniteSetsExt, SequencesExt

CONSTANTS
    Guests, Keeper,    \* the players; the keeper's device hosts the table
    MailConfs          \* the situations considered, a subset of MailConf

Mailed == Guests \cup {Keeper}
RunIds == 1 .. 2

(* overlap: the devices on which two runs may be under way.  pinned: the worker
   lacks the rules of the table.  dies: a run may end anywhere, once.  Bounds: moves
   of a guest, moves of the host, openings of the table, messages in all, calls of
   the mailbox that fail.                                                   *)
MailConf == [moves : Nat, own : Nat, opens : Nat, mails : Nat, overlap : SUBSET Mailed,
             pinned : BOOLEAN, refuses : BOOLEAN, fails : Nat, dies : {"no", "may", "did"}]
ASSUME MailAssumption == MailConfs \subseteq MailConf /\ Keeper \notin Guests

VARIABLES
    post,      \* the situation, its bounds being used up
    boxes,     \* the messages in the mailbox for each player
    pushes,    \* the pushes that may still arrive
    posted,    \* the last id given
    saved,     \* the copy each device has saved
    handled,   \* the moves the keeper's device marked as applied from a push
    runs,      \* what is being processed
    live,      \* the table on the keeper's page, and what its mailer sent
    sent,      \* the number of moves each guest mailed
    denied     \* the moves a table refused

mailVars == <<post, boxes, pushes, posted, saved, handled, runs, live, sent, denied>>

-----------------------------------------------------------------------------
(* The mailbox. *)

(* A message: a move, or a position; base is the length of the copy that a push
   changes, -1 for one that is whole.                                       *)
Letter(from, kind, move, log, alive) ==
    [id |-> posted + 1, from |-> from, kind |-> kind, move |-> move, log |-> log,
     live |-> alive, base |-> -1, push |-> FALSE]
Cmd(g, move)      == Letter(g, "cmd", move, << >>, FALSE)
View(log, alive)  == Letter(Keeper, "view", << >>, log, alive)

(* The server gives the ids, in the order in which messages come: a mailbox is a
   set of messages, read by id.                                             *)
Earliest(mail) == CHOOSE m \in mail : \A o \in mail : m.id <= o.id
ById(mail) ==
    {q \in [1 .. Cardinality(mail) -> mail] :
        /\ \A m \in mail : \E i \in DOMAIN q : q[i] = m
        /\ \A i, j \in DOMAIN q : i < j => q[i].id < q[j].id}
Ids(mail) == {m.id : m \in mail}

(* send: a position replaces the one that was not collected.  A push brings the
   message whole, or as a change from base, or does not come at all.        *)
Send(to, m, base) ==
    /\ posted < post.mails /\ posted' = posted + 1
    /\ boxes' = [boxes EXCEPT ![to] =
                   {o \in @ : m.kind = "cmd" \/ o.kind = "cmd"} \cup {m}]
    /\ \E b \in {-1} \cup ({base} \cap 0 .. Len(m.log)), come \in BOOLEAN :
         /\ ~come => b = -1
         /\ pushes' = IF come THEN pushes \cup {[to |-> to, taken |-> FALSE, m |-> [m EXCEPT !.base = b]]}
                   ELSE pushes

-----------------------------------------------------------------------------
(* Guests. *)

(* MailRelay.mail: the stand-in for a host who is away mails what the client sends. *)
GuestMove(g) ==
    /\ ~live.on /\ sent[g] < post.moves
    /\ sent' = [sent EXCEPT ![g] = @ + 1]
    /\ Send(Keeper, Cmd(g, <<g, sent'[g]>>), -1)
    /\ UNCHANGED <<post, saved, handled, runs, live, denied>>

-----------------------------------------------------------------------------
(* Runs.  known is the copy the letters were opened with, snap the one a step
   works on.                                                                *)

NoRun == [at |-> Keeper, page |-> FALSE, via |-> "check", pc |-> "off", mail |-> {},
          known |-> << >>, snap |-> [log |-> << >>, push |-> FALSE], to |-> {}, done |-> {},
          again |-> FALSE]
RunsAt(d) == {s \in RunIds : runs[s].pc # "off" /\ runs[s].at = d}
Free(s, d) == s = Min({t \in RunIds : runs[t].pc = "off"} \cup {3}) /\ (d \in post.overlap \/ RunsAt(d) = {})
Started(s, d, page, via, mail) ==
    runs' = [runs EXCEPT ![s] = [NoRun EXCEPT !.at = d, !.page = page, !.via = via,
                                              !.pc = "open", !.mail = mail]]
Fail(s) ==    \* the mailbox does not answer, and the run ends
    /\ post.fails > 0 /\ post' = [post EXCEPT !.fails = @ - 1]
    /\ runs' = [runs EXCEPT ![s] = NoRun] /\ UNCHANGED <<boxes, pushes, posted>>

(* Where a run is: in a page, or in the worker while no page is open or after it
   did not answer in time.  A worker that has the rules does what a page does.  *)
Shown(d)  == d = Keeper /\ live.on
Worker(d) == d \in post.overlap \/ (post.pinned /\ ~Shown(d))

(* processInbox: a page checks once at a time.  An empty mailbox changes nothing. *)
Check(s, d, page) ==
    /\ Free(s, d) /\ boxes[d] # {}
    /\ IF page THEN \A t \in RunsAt(d) : ~(runs[t].page /\ runs[t].via = "check") ELSE Worker(d)
    /\ Started(s, d, page, "check", boxes[d])
    /\ UNCHANGED <<post, boxes, pushes, posted, saved, handled, live, sent, denied>>

(* onPush: an open page gets the push, and the worker too when the page does not
   answer in time.                                                          *)
OnPush(s, p, page) ==
    /\ p \in pushes /\ Free(s, p.to)
    /\ IF page THEN ~p.taken ELSE p.taken \/ (Worker(p.to) /\ ~Shown(p.to))
    /\ pushes' = (pushes \ {p}) \cup
          IF page /\ p.to \in post.overlap THEN {[p EXCEPT !.taken = TRUE]} ELSE {}
    /\ Started(s, p.to, page, "push", {p.m})
    /\ UNCHANGED <<post, boxes, posted, saved, handled, live, sent, denied>>

(* Mutation: a copy that went on from the base is taken for it. *)
IsBaseOrLater(log, m) == Len(log) >= m.base

(* applyDelta.                                                              *)
IsBase(log, m) == Len(log) = m.base
Rebuilt(log, m) ==
    IF m.base = -1 THEN m
    ELSE [m EXCEPT !.log = log \o SubSeq(@, m.base + 1, Len(@)), !.push = TRUE]

(* processMessages opens the letters: a change of another copy is left to the
   mailbox, a move that was applied from its push is only removed.          *)
Useless(r, m) == m.base # -1 /\ ~IsBase(saved[r.at].log, m)

(* Mutation: the last move marked stands for all before it. *)
AppliedByLast(r, m) == m.kind = "cmd" /\ r.via # "push" /\ \E h \in handled : m.id <= h
Applied(r, m) == m.kind = "cmd" /\ r.via # "push" /\ m.id \in handled
Open(s) ==
    LET r == runs[s]
        log == saved[r.at].log
        old == {m \in r.mail : Applied(r, m)}
        opened == {m \in r.mail : ~Useless(r, m) /\ ~Applied(r, m)}
    IN  /\ r.pc = "open"
        /\ runs' = [runs EXCEPT ![s].pc = IF r.at = Keeper THEN "moves"
                                         ELSE IF opened = {} THEN "ack" ELSE "store",
                                ![s].mail = {Rebuilt(log, m) : m \in opened},
                                ![s].known = log, ![s].snap = saved[r.at],
                                ![s].done = Ids(old),
                                ![s].again = \E m \in r.mail : Useless(r, m)]
        /\ handled' = handled \ Ids(old)
        /\ UNCHANGED <<post, boxes, pushes, posted, saved, live, sent, denied>>

-----------------------------------------------------------------------------
(* Positions, on a guest's device; the mailbox has one at most, from its host. *)

(* isNewer, or the whole copy of one that came by push.                     *)
Newer(m, copy) ==
    \/ Len(m.log) > Len(copy.log)
    \/ Len(m.log) = Len(copy.log) /\ copy.push /\ ~m.push
StoreView(s) ==
    LET r == runs[s]
        m == Earliest(r.mail)
    IN  /\ r.pc = "store"
        /\ saved' = IF Newer(m, r.snap) THEN [saved EXCEPT ![r.at] = [log |-> m.log, push |-> m.push]]
                    ELSE saved
        /\ runs' = [runs EXCEPT ![s] = [r EXCEPT !.pc = "ack", !.done = @ \cup {m.id}]]
        /\ UNCHANGED <<post, boxes, pushes, posted, handled, live, sent, denied>>

-----------------------------------------------------------------------------
(* Moves, on the keeper's device. *)

(* Who applies them: the table open on this page, or the saved copy; a worker
   without the rules leaves them in the mailbox.                            *)
Moves(s) ==
    LET r == runs[s]
    IN  /\ r.pc = "moves"
        /\ runs' = [runs EXCEPT
              ![s].pc = CASE r.mail = {} \/ (~r.page /\ post.pinned) -> "ack"
                          [] r.mail # {} /\ r.page /\ live.on -> "deliver"
                          [] OTHER -> "apply",
              ![s].known = IF r.page /\ live.on THEN @ ELSE saved[Keeper].log,
              ![s].snap = saved[Keeper]]
        /\ UNCHANGED <<post, boxes, pushes, posted, saved, handled, live, sent, denied>>

(* live.deliver, a move at a time.  One that is refused, or comes after the table
   was closed, is mailed back with the copy the run began with (mailErrors); when
   that cannot be sent the run ends here.                                   *)
Deliver(s) ==
    LET r == runs[s]
        m == Earliest(r.mail)
        log == Append(live.log, m.move)
        on == [r EXCEPT !.mail = @ \ {m}, !.done = @ \cup {m.id},
                        !.pc = IF r.mail # {m} THEN "deliver"
                               ELSE IF r.via = "push" THEN "mark" ELSE "ack"]
    IN  /\ r.pc = "deliver"
        /\ \/ /\ live.on
              /\ live' = [live EXCEPT !.log = log]
              /\ saved' = [saved EXCEPT ![Keeper].log = log]
              /\ runs' = [runs EXCEPT ![s] = on]
              /\ UNCHANGED <<post, boxes, pushes, posted, denied>>
           \/ /\ ~live.on \/ post.refuses
              /\ denied' = denied \cup {m.move}
              /\ \/ /\ Send(m.from, View(r.known, TRUE), -1)
                    /\ runs' = [runs EXCEPT ![s] = on]
                    /\ UNCHANGED post
                 \/ Fail(s)
              /\ UNCHANGED <<saved, live>>
        /\ UNCHANGED <<handled, sent>>

(* markHandled, once the open table took all the moves of a push.           *)
Mark(s) ==
    LET r == runs[s]
    IN  /\ r.pc = "mark"
        /\ handled' = handled \cup r.done
        /\ runs' = [runs EXCEPT ![s].pc = "ack"]
        /\ UNCHANGED <<post, boxes, pushes, posted, saved, live, sent, denied>>

(* applyMailed: the table restored from the saved copy takes the moves in order,
   refusing some.  Those of a push are marked (markHandled) before the copy is
   put.                                                                     *)
Apply(s) ==
    LET r == runs[s]
    IN  /\ r.pc = "apply"
        /\ \E no \in SUBSET r.mail : \E q \in ById(r.mail \ no) :
             /\ no # {} => post.refuses
             /\ runs' = [runs EXCEPT ![s].snap.log = @ \o [i \in DOMAIN q |-> q[i].move], ![s].pc = "put"]
             /\ denied' = denied \cup {m.move : m \in no}
        /\ handled' = IF r.via = "push" THEN handled \cup Ids(r.mail) ELSE handled
        /\ UNCHANGED <<post, boxes, pushes, posted, saved, live, sent>>

PutCopy(s) ==
    LET r == runs[s]
    IN  /\ r.pc = "put"
        /\ saved' = [saved EXCEPT ![Keeper] = r.snap]
        /\ runs' = [runs EXCEPT ![s].pc = "mail", ![s].to = Guests]
        /\ UNCHANGED <<post, boxes, pushes, posted, handled, live, sent, denied>>

(* mailViews: every player gets the new position, its push the change from the
   one before these moves.                                                  *)
MailViews(s) ==
    LET r == runs[s]
    IN  /\ r.pc = "mail"
        /\ \/ \E g \in r.to :
                 /\ Send(g, View(r.snap.log, FALSE), Len(r.known))
                 /\ runs' = [runs EXCEPT ![s].to = @ \ {g},
                                         ![s].pc = IF r.to = {g} THEN "ack" ELSE "mail",
                                         ![s].done = @ \cup Ids(r.mail)]
              /\ UNCHANGED post
           \/ Fail(s)
        /\ UNCHANGED <<saved, handled, live, sent, denied>>

(* ackMail; a run of a push removes nothing, and reads the mailbox if it has to. *)
Ack(s) ==
    LET r == runs[s]
    IN  /\ r.pc = "ack"
        /\ \/ /\ r.via # "push"
              /\ boxes' = [boxes EXCEPT ![r.at] = {m \in @ : m.id \notin r.done}]
              /\ runs' = [runs EXCEPT ![s] = NoRun] /\ UNCHANGED <<post, pushes, posted>>
           \/ /\ r.via = "push" /\ UNCHANGED boxes
              /\ IF r.again THEN Started(s, r.at, r.page, "again", boxes[r.at])
                 ELSE runs' = [runs EXCEPT ![s] = NoRun]
              /\ UNCHANGED <<post, pushes, posted>>
           \/ Fail(s)
        /\ UNCHANGED << saved, handled, live, sent, denied>>

(* The browser ends the page or the worker.                                 *)
Die(s) ==
    /\ post.dies = "may" /\ post' = [post EXCEPT !.dies = "did"]
    /\ runs[s].pc # "off" /\ runs' = [runs EXCEPT ![s] = NoRun]
    /\ UNCHANGED <<boxes, pushes, posted, saved, handled, live, sent, denied>>

-----------------------------------------------------------------------------
(* The table live on the keeper's page. *)

OpenTable ==
    /\ ~live.on /\ post.opens > 0
    /\ Keeper \in post.overlap \/ RunsAt(Keeper) = {}
    /\ post' = [post EXCEPT !.opens = @ - 1]
    /\ live' = [on |-> TRUE, mails |-> TRUE, log |-> saved[Keeper].log, mailed |-> [g \in Guests |-> -1]]
    /\ UNCHANGED <<boxes, pushes, posted, saved, handled, runs, sent, denied>>
CloseTable ==
    /\ live.on /\ live' = [live EXCEPT !.on = FALSE]
    /\ UNCHANGED <<post, boxes, pushes, posted, saved, handled, runs, sent, denied>>

(* A move of the host, saved as every change is.                            *)
OwnMove ==
    /\ live.on /\ post.own > 0
    /\ post' = [post EXCEPT !.own = @ - 1]
    /\ live' = [live EXCEPT !.log = Append(@, <<Keeper, post.own>>)]
    /\ saved' = [saved EXCEPT ![Keeper].log = live'.log]
    /\ UNCHANGED <<boxes, pushes, posted, handled, runs, sent, denied>>

(* mailAbsentSeats: whoever is away gets each position once, also a last time
   after the table was closed.                                              *)
MailAbsent(g) ==
    /\ live.mails /\ live.mailed[g] # Len(live.log)
    /\ Send(g, View(live.log, TRUE), live.mailed[g])
    /\ live' = [live EXCEPT !.mailed[g] = Len(live.log)]
    /\ UNCHANGED <<post, saved, handled, runs, sent, denied>>

-----------------------------------------------------------------------------
MailInit ==
    /\ post \in MailConfs
    /\ boxes = [d \in Mailed |-> {}] /\ pushes = {} /\ posted = 0
    /\ saved = [d \in Mailed |-> [log |-> << >>, push |-> FALSE]]
    /\ handled = {} /\ runs = [s \in RunIds |-> NoRun]
    /\ live = [on |-> FALSE, mails |-> FALSE, log |-> << >>, mailed |-> [g \in Guests |-> -1]]
    /\ sent = [g \in Guests |-> 0] /\ denied = {}

MailNext ==
    \/ \E g \in Guests : GuestMove(g) \/ MailAbsent(g)
    \/ \E s \in RunIds, page \in BOOLEAN :
          (\E d \in Mailed : Check(s, d, page)) \/ (\E p \in pushes : OnPush(s, p, page))
    \/ \E s \in RunIds : \/ Open(s) \/ StoreView(s) \/ Moves(s) \/ Deliver(s)
                         \/ Apply(s) \/ Mark(s) \/ PutCopy(s) \/ MailViews(s) \/ Ack(s) \/ Die(s)
    \/ OpenTable \/ CloseTable \/ OwnMove
MailSpec == MailInit /\ [][MailNext]_mailVars

-----------------------------------------------------------------------------
(* Properties. *)

MovesOf == Guests \X (1 .. post.moves)
MailTypeOK ==
    /\ \A d \in Mailed : \A m, o \in boxes[d] : m.id \in 1 .. posted /\ (m.id = o.id => m = o)
    /\ \A p \in pushes : p.to \in Mailed /\ p.m.id \in 1 .. posted
    /\ \A g \in Guests : sent[g] \in 0 .. post.moves
    /\ denied \subseteq MovesOf /\ handled \subseteq 1 .. posted
    /\ ~saved[Keeper].push

Mine == {move \in MovesOf : move[2] <= sent[move[1]]}
OnTable(move) == \E i \in DOMAIN saved[Keeper].log : saved[Keeper].log[i] = move
Waiting(move) == \E m \in boxes[Keeper] : m.move = move /\ m.id \notin handled
InHand(move) == \E s \in RunsAt(Keeper) : \E m \in runs[s].mail : m.move = move

(* No move that was mailed is lost: it is on the table, was refused, waits in the
   mailbox to be collected, or is being applied.  Whatever pushes come late or
   never, sends fail, and the table opens and closes.  Not kept, and left out by
   name: the browser dies between the mark and the copy, or two runs are under way
   on the host's device (inbox.ts 249-268).                                 *)
MovesKept ==
    post.dies # "did" /\ Keeper \notin post.overlap =>
        \A move \in Mine : OnTable(move) \/ move \in denied \/ Waiting(move) \/ InHand(move)

(* What a guest sees and saves is a position the table was in: a change is only
   put on the copy it is from, whatever pushes were lost, overtaken or late.
   Not kept, and left out by name, with two runs on the host's device, which may
   go on from the same copy.                                                *)
CopiesTrue ==
    Keeper \notin post.overlap =>
        \A g \in Guests : IsPrefix(saved[g].log, saved[Keeper].log)
=============================================================================
