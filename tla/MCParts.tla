------------------------------ MODULE MCParts ------------------------------
(* Instances for TLC of the parts of the system that share no state with each
   other: open-face Chinese poker, backgammon, the synchronisation of devices, the
   mailbox, the reopening of a table, the dealer process, the grants of a
   player's devices and the door of a club.  One run takes each of them on, a part
   at a time.                                                              *)
EXTENDS OfcTable, Backgammon, Sync, Mailbox, Reopen, Dealers, Grants, ClubDoor, TLC

CONSTANTS Parts, d1, d2, d3, g1, t1, t2, r1, r2, k1, k2

VARIABLE part    \* the part that moves; the others stay as they began
partsVars == <<part, ofcVars, bgVars, syncVars, mailVars, reopenVars, dealerVars,
               grantVars, doorVars>>

-----------------------------------------------------------------------------
(* Poker.  Two hands of two seats; a hand of three with one in Fantasyland; and
   settlements with a buy-in, from where both are in Fantasyland.  The hands end
   with entries into Fantasyland, stays in it, fouls and ties.              *)
Eval1(cat, ranks) == [cat |-> cat, ranks |-> ranks]
Hand(top, middle, bottom) == [top |-> top, middle |-> middle, bottom |-> bottom]
Kings    == Eval1(2, <<13, 4>>)
Aces     == Eval1(2, <<14, 4>>)
High     == Eval1(1, <<9, 8, 4>>)
Sevens   == Eval1(1, <<7, 5, 4, 3, 2>>)
Sixes    == Eval1(2, <<6, 12, 9, 3>>)
Straight == Eval1(5, <<9>>)
House    == Eval1(7, <<8, 9>>)
Quads    == Eval1(8, <<5, 6>>)
MCShowdowns ==
    {<<Hand(Kings, Straight, Quads), Hand(High, Sixes, House)>>,
     <<Hand(High, Sixes, Straight), Hand(High, House, Sixes)>>,
     <<Hand(High, Sixes, Straight), Hand(High, Sixes, Straight)>>,
     <<Hand(Kings, Straight, House), Hand(High, Sixes, Straight), Hand(High, House, Sixes)>>,
     <<Hand(High, Straight, House), Hand(High, Sixes, Quads), Hand(Kings, House, Quads)>>}
Table2 == [variant |-> "pineapple", n |-> 2, buyIn |-> 0, cards |-> 14, progressive |-> FALSE,
           super |-> FALSE, owed |-> <<0, 0>>, hands |-> 1, entries |-> 0, asks |-> 0]
MCOfcConfs ==
    {[Table2 EXCEPT !.hands = 2],
     [Table2 EXCEPT !.n = 3, !.owed = <<0, 14, 0>>],
     [Table2 EXCEPT !.n = 3, !.owed = <<14, 14, 14>>, !.entries = 2],
     [Table2 EXCEPT !.owed = <<14, 14>>, !.entries = 3, !.asks = 1, !.buyIn = 20]}

(* The rules "super" and 17 cards: a hand in which two seats qualify for 18, with
   a pair of kings or aces over the wheel, from one deck.                   *)
DeckConfs == {[Table2 EXCEPT !.variant = "pineapple27", !.n = 3, !.cards = 17,
                             !.super = TRUE, !.owed = <<0, 0, 0>>]}
DeckShowdowns == {<<Hand(Kings, Sevens, House), Hand(Aces, Sevens, Quads),
                    Hand(High, Sevens, Straight)>>}

(* Backgammon, on four points with two checkers each: a match to two points by
   the Crawford rule, a game for money, and a match on the free board.      *)
MCPlacing == <<0, 1, 0, 1>>
Match(length, crawford, jacoby, free, count, offers) ==
    [length |-> length, crawford |-> crawford, jacoby |-> jacoby, free |-> free,
     games |-> count, offers |-> offers]
MCBgConfs == {Match(2, TRUE, TRUE, FALSE, 3, 1), Match(0, TRUE, TRUE, FALSE, 1, 2),
              Match(2, TRUE, FALSE, TRUE, 1, 0)}

(* Devices: two with connections that break and devices that stop, three of which
   two play, at peace, and a hub that takes one peer only and loses its address. *)
MCDevices == {d1, d2, d3}
Setup(devices, plays, cap, versions, breaks, losses, stops) ==
    [devices |-> devices, plays |-> plays, cap |-> cap, versions |-> versions,
     breaks |-> breaks, losses |-> losses, stops |-> stops]
MCSyncConfs == {Setup({d1, d2}, {d1, d2}, 8, 2, 1, 0, 0), Setup({d1, d2}, {d1, d2}, 8, 1, 1, 0, 1),
                Setup({d1, d2}, {d1}, 8, 2, 1, 0, 1), Setup(MCDevices, {d1, d2}, 8, 1, 0, 0, 0),
                Setup(MCDevices, {}, 1, 0, 0, 1, 1)}

(* The mailbox, with a guest: two moves; a host that opens the table, and plays;
   a mailbox that fails and a browser that ends a run; a table that refuses;
   a guest's page and worker at once; a worker without the rules.           *)
MCGuests == {g1}
Apart(moves, own, opens, mails) ==
    [moves |-> moves, own |-> own, opens |-> opens, mails |-> mails, overlap |-> {},
     pinned |-> FALSE, refuses |-> FALSE, fails |-> 0, dies |-> "no"]
MCMailConfs ==
    {Apart(2, 0, 0, 3), Apart(1, 1, 1, 2), Apart(0, 3, 1, 4),
     [Apart(1, 0, 0, 2) EXCEPT !.refuses = TRUE, !.fails = 1, !.dies = "may"],
     [Apart(1, 0, 1, 2) EXCEPT !.fails = 1],
     [Apart(0, 1, 1, 2) EXCEPT !.overlap = {g1}], [Apart(1, 0, 1, 2) EXCEPT !.pinned = TRUE]}

(* A table that is opened again: channels that break and a socket that drops; a
   page that dies; flows that are left and begun again; and all of it at once. *)
MCOwners == {d1, d2}
Visit(actions, opens, leaves, deaths, cuts, breaks) ==
    [actions |-> actions, opens |-> opens, leaves |-> leaves, deaths |-> deaths,
     cuts |-> cuts, breaks |-> breaks]
MCReopenConfs == {Visit(2, 4, 0, 0, 1, 1), Visit(3, 3, 0, 1, 0, 1), Visit(1, 2, 2, 0, 1, 0),
                  Visit(2, 2, 1, 1, 1, 1)}

(* The dealer process, with two tables and two calls at a time: tables.json is
   written by one at a time, or by two.                                     *)
MCTableIds == {t1, t2}
Served(overlap, count, actions, refusals, deaths) ==
    [overlap |-> overlap, calls |-> count, actions |-> actions, refusals |-> refusals,
     deaths |-> deaths]
MCDealerConfs == {Served(FALSE, 3, 0, 0, 1), Served(FALSE, 2, 1, 1, 1)}
OverlapConfs == {Served(TRUE, 2, 2, 0, 1)}

(* Devices that are paired, renewed and signed out: one over its whole life, two
   with two sign-outs or with pairings left unfinished, and two roots.      *)
MCRoots == {r1, r2}
MCPaired == {k1, k2}
Vouching(roots, keys, outs, opens, fails, leaves, days) ==
    [roots |-> roots, hosts |-> {r1}, keys |-> keys, overlap |-> FALSE, outs |-> outs,
     opens |-> opens, fails |-> fails, leaves |-> leaves, days |-> days]
MCGrantConfs ==
    {Vouching({r1}, {k1}, 1, 1, 1, 1, 3), Vouching({r1}, MCPaired, 2, 1, 1, 0, 0),
     Vouching({r1}, MCPaired, 1, 0, 1, 1, 1), Vouching(MCRoots, {k1}, 1, 1, 1, 0, 1),
     Vouching(MCRoots, MCPaired, 2, 0, 0, 0, 1)}

(* The door of a club: an invite that is used, revoked and used up; what admins do
   to members; a founder who restarts it; and welcomes and requests that are paid,
   with other things happening during a signature or not.                   *)
Person(id, key) == [id |-> id, key |-> key]
MCFounder == Person("founder", "key1")
MCVisitors == {MCFounder, Person("player", "key2"), Person("player", "key3"),
               Person("other", "key1")}
PlayerKeys == {v \in MCVisitors : v.id = "player"}
Doorway(count, membership, visitors, kinds, acts, breaks, restarts) ==
    [doors |-> count, visitors |-> visitors, kinds |-> kinds, membership |-> membership,
     welcome |-> FALSE, cap |-> 1, uses |-> 1, auto |-> TRUE, overlap |-> FALSE, acts |-> acts,
     breaks |-> breaks, restarts |-> restarts]
Paying == [Doorway(2, "open", {Person("player", "key2")}, {"mint", "resolve"}, 3, 1, 1)
              EXCEPT !.welcome = TRUE, !.cap = 2]
MCDoorConfs ==
    {Doorway(3, "invite", MCVisitors \ {MCFounder}, {"invite", "revoke"}, 2, 0, 1),
     Doorway(2, "request", {MCFounder, Person("player", "key2")}, {"approve", "ban", "role"},
             4, 0, 1),
     Doorway(3, "open", PlayerKeys, {"ban"}, 1, 1, 0),
     Paying, [Paying EXCEPT !.restarts = 0, !.overlap = TRUE],
     [Doorway(2, "request", PlayerKeys, {"invite", "ban", "mint", "role"}, 3, 0, 0)
        EXCEPT !.cap = 2, !.overlap = TRUE, !.auto = FALSE]}

-----------------------------------------------------------------------------
PartsInit ==
    /\ part \in Parts
    /\ OfcInit /\ BgInit /\ SyncInit /\ MailInit /\ ReopenInit /\ DealerInit
    /\ GrantInit /\ DoorInit
    /\ part # "ofc" => rules = CHOOSE c \in OfcConfs : TRUE
    /\ part # "backgammon" => match = [made |-> 0] @@ (CHOOSE c \in BgConfs : TRUE)
    /\ part # "sync" => setup = CHOOSE c \in SyncConfs : TRUE
    /\ part # "mailbox" => post = CHOOSE c \in MailConfs : TRUE
    /\ part # "reopen" => visit = CHOOSE c \in ReopenConfs : TRUE
    /\ part # "dealers" => serve = CHOOSE c \in DealerConfs : TRUE
    /\ part # "grants" => vouch = CHOOSE c \in GrantConfs : TRUE
    /\ part # "door" => door = CHOOSE c \in DoorConfs : TRUE

PartsNext ==
    /\ UNCHANGED part
    /\ \/ part = "ofc" /\ OfcNext
          /\ UNCHANGED <<bgVars, syncVars, mailVars, reopenVars, dealerVars, grantVars, doorVars>>
       \/ part = "backgammon" /\ BgNext
          /\ UNCHANGED <<ofcVars, syncVars, mailVars, reopenVars, dealerVars, grantVars, doorVars>>
       \/ part = "sync" /\ SyncNext
          /\ UNCHANGED <<ofcVars, bgVars, mailVars, reopenVars, dealerVars, grantVars, doorVars>>
       \/ part = "mailbox" /\ MailNext
          /\ UNCHANGED <<ofcVars, bgVars, syncVars, reopenVars, dealerVars, grantVars, doorVars>>
       \/ part = "reopen" /\ ReopenNext
          /\ UNCHANGED <<ofcVars, bgVars, syncVars, mailVars, dealerVars, grantVars, doorVars>>
       \/ part = "dealers" /\ DealerNext
          /\ UNCHANGED <<ofcVars, bgVars, syncVars, mailVars, reopenVars, grantVars, doorVars>>
       \/ part = "grants" /\ GrantNext
          /\ UNCHANGED <<ofcVars, bgVars, syncVars, mailVars, reopenVars, dealerVars, doorVars>>
       \/ part = "door" /\ DoorNext
          /\ UNCHANGED <<ofcVars, bgVars, syncVars, mailVars, reopenVars, dealerVars, grantVars>>

(* The type invariant of the part that moves.                               *)
PartsTypeOK == CASE part = "ofc"        -> OfcTypeOK
                 [] part = "backgammon" -> BgTypeOK
                 [] part = "sync"       -> SyncTypeOK
                 [] part = "mailbox"    -> MailTypeOK
                 [] part = "reopen"     -> ReopenTypeOK
                 [] part = "dealers"    -> DealerTypeOK
                 [] part = "grants"     -> GrantTypeOK
                 [] part = "door"       -> DoorTypeOK
=============================================================================
