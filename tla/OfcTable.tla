------------------------------ MODULE OfcTable ------------------------------
(***************************************************************************)
(* Open-face Chinese poker between 2 or 3 seats: the reducer, the commands *)
(* and the scoring of packages/ofc-engine, with the game's own numbers.    *)
(*                                                                         *)
(* Cards are counted, not named: who may act, what is dealt and when a     *)
(* hand ends depend on how many cards lie where.  What a finished hand is  *)
(* worth depends on its rows, so the evaluated rows of all the seats are   *)
(* chosen together at the showdown.                                        *)
(***************************************************************************)
EXTENDS Integers, Sequences, FiniteSets, FiniteSetsExt, SequencesExt

CONSTANTS
    OfcConfs,    \* the rules considered, a subset of OfcConf
    Showdowns    \* the rows hands end with: sequences of evaluated hands

(* buyIn: 0 when balances count up from zero; cards, progressive, super: the
   Fantasyland cards; owed: what the seats are owed when the model starts, as
   at a table resumed between hands.  Bounds: hands dealt, entries booked by
   hand, and changes of mind about settling.                                *)
OfcConf == [variant : {"ofc", "pineapple", "pineapple27"}, n : {2, 3},
            buyIn : Nat, cards : 13 .. 17, progressive : BOOLEAN, super : BOOLEAN,
            owed : Seq(Nat), hands : Nat, entries : Nat, asks : Nat]
Largest(c) == (IF c.variant # "ofc" /\ c.progressive THEN 17 ELSE c.cards)
              + (IF c.super THEN 1 ELSE 0)
Owable(c)  == {0} \cup 13 .. Largest(c)
ASSUME OfcConfsAssumption ==
    \A c \in OfcConfs : /\ c \in OfcConf /\ Len(c.owed) = c.n
                        /\ \A k \in 1 .. c.n : c.owed[k] \in Owable(c)

(* A row is evaluated to its category, 1 (high card) to 9 (straight flush), and
   its tiebreak ranks, the first of which decides first.                    *)
Rows == {"top", "middle", "bottom"}
Eval == [cat : 1 .. 9, ranks : Seq(2 .. 14) \ {<< >>}]
ASSUME ShowdownsAssumption == Showdowns \subseteq Seq([Rows -> Eval])

VARIABLES
    rules,     \* the configuration of the table
    status,    \* "lobby", "playing" or "over"
    button,    \* the seat with the button of this hand or the next
    owed,      \* Fantasyland cards each seat is owed next hand, 0 for none
    hand,      \* the hand on the table
    scores,    \* net points of each seat since the table started
    ledger,    \* hands, adjustments and settlements, in order
    asked,     \* who asked to settle
    asks       \* how often anybody changed that

ofcVars == <<rules, status, button, owed, hand, scores, ledger, asked, asks>>

-----------------------------------------------------------------------------
(* The rules. *)

(* What the two or three seats have together.                               *)
OverSeats(Each(_)) == Each(0) + Each(1) + IF rules.n = 3 THEN Each(2) ELSE 0

Seats    == 0 .. rules.n - 1
Capacity == [top |-> 3, middle |-> 5, bottom |-> 5]
DeckSize == 52
HandSize == 13

Pineapple     == rules.variant # "ofc"
MiddleIsLow   == rules.variant = "pineapple27"
CardsPerTurn  == IF Pineapple THEN 3 ELSE 1
PlacedPerTurn == IF Pineapple THEN 2 ELSE 1
Opening(fl)   == IF fl > 0 THEN fl ELSE 5

(* Two rows compare on the ranks they both have.                            *)
Beats(a, b) ==
    \/ a.cat > b.cat
    \/ /\ a.cat = b.cat
       /\ \E i \in DOMAIN a.ranks \cap DOMAIN b.ranks :
             a.ranks[i] > b.ranks[i] /\ \A j \in 1 .. i - 1 : a.ranks[j] = b.ranks[j]

LowQualifier == 10
QualifiedLow(e) == e.cat = 1 /\ e.ranks[1] <= LowQualifier
Wheel27(e)      == e.cat = 1 /\ e.ranks = <<7, 5, 4, 3, 2>>

Fouled(h) == IF MiddleIsLow THEN ~QualifiedLow(h.middle) \/ Beats(h.top, h.bottom)
             ELSE Beats(h.middle, h.bottom) \/ Beats(h.top, h.middle)

(* The default royalties.                                                   *)
TopRoyalty(e)    == IF e.cat = 4 THEN e.ranks[1] + 8
                    ELSE IF e.cat = 2 /\ e.ranks[1] >= 6 THEN e.ranks[1] - 5 ELSE 0
Royal(e)         == e.cat = 9 /\ e.ranks[1] = 14
BottomRoyalty(e) == IF Royal(e) THEN 25 ELSE <<0, 0, 0, 0, 2, 4, 6, 10, 15>>[e.cat]
MiddleRoyalty(e) ==
    IF ~MiddleIsLow THEN IF Royal(e) THEN 50 ELSE <<0, 0, 0, 2, 4, 8, 12, 20, 30>>[e.cat]
    ELSE IF Wheel27(e) THEN 8
    ELSE IF e.cat = 1 /\ e.ranks[1] \in 7 .. 9 THEN <<4, 2, 1>>[e.ranks[1] - 6] ELSE 0
Royalties(h) == IF Fouled(h) THEN 0
                ELSE TopRoyalty(h.top) + MiddleRoyalty(h.middle) + BottomRoyalty(h.bottom)

(* fantasylandQualification: the cards for the next hand.                   *)
EntryRank == IF MiddleIsLow THEN 13 ELSE 12
FantasylandCards(top) ==
    IF rules.variant = "ofc" \/ ~rules.progressive THEN rules.cards
    ELSE IF top.cat = 4 THEN 17
    ELSE IF top.cat = 2 /\ top.ranks[1] >= 12 THEN top.ranks[1] + 2 ELSE rules.cards
Qualifies(h, inside) ==
    LET onTop  == h.top.cat = 4 \/ (~inside /\ h.top.cat = 2 /\ h.top.ranks[1] >= EntryRank)
        inMid  == IF MiddleIsLow THEN ~inside /\ Wheel27(h.middle)
                                 ELSE inside /\ h.middle.cat >= 7
        atFoot == inside /\ h.bottom.cat >= 8
    IN  IF Fouled(h) \/ ~(onTop \/ inMid \/ atFoot) THEN 0
        ELSE FantasylandCards(h.top)
             + IF rules.super /\ ~inside /\ onTop /\ inMid THEN 1 ELSE 0

(* scorePair: what a wins from b.                                           *)
Count(S) == Cardinality(S)
NetOf(a, b) ==
    LET low(r) == r = "middle" /\ MiddleIsLow
        wins   == Count({r \in Rows : IF low(r) THEN Beats(b[r], a[r]) ELSE Beats(a[r], b[r])})
        losses == Count({r \in Rows : IF low(r) THEN Beats(a[r], b[r]) ELSE Beats(b[r], a[r])})
        scoop  == IF wins = 3 THEN 3 ELSE IF losses = 3 THEN -3 ELSE 0
    IN  IF Fouled(a) /\ Fouled(b) THEN 0
        ELSE IF Fouled(a) THEN -(6 + Royalties(b))
        ELSE IF Fouled(b) THEN 6 + Royalties(a)
        ELSE wins - losses + scoop + Royalties(a) - Royalties(b)

(* scoreHand: what a seat wins from another, each pair being scored once.    *)
Won(result, s, t) == IF s < t THEN NetOf(result[s + 1], result[t + 1])
                     ELSE IF t < s THEN -NetOf(result[t + 1], result[s + 1]) ELSE 0

(* Transfers are what the first of two seats pays the second, 0 for none.   *)
NoTransfers == [p \in Seats \X Seats |-> 0]
Transfers(result) == [p \in Seats \X Seats |-> LET points == Won(result, p[2], p[1])
                                              IN  IF points > 0 THEN points ELSE 0]

Zero == [s \in Seats |-> 0]
Pay(balances, transfers) ==
    [s \in Seats |-> balances[s] + OverSeats(LAMBDA t : transfers[t, s] - transfers[s, t])]

-----------------------------------------------------------------------------
(* The ledger. *)

HandEntry(transfers)  == [type |-> "hand", transfers |-> transfers, seat |-> 0, points |-> 0]
AdjustEntry(s, points) ==
    [type |-> "adjust", transfers |-> NoTransfers, seat |-> s, points |-> points]
Settlement(plan)      == [type |-> "settlement", transfers |-> plan, seat |-> 0, points |-> 0]

(* Net points over some entries of the ledger, one after the other.         *)
Book(balances, e) == IF e.type = "hand" THEN Pay(balances, e.transfers)
                     ELSE IF e.type = "adjust" THEN [balances EXCEPT ![e.seat] = @ + e.points]
                     ELSE balances
Booked(entries) ==
    LET after[k \in 0 .. Len(entries)] ==
            IF k = 0 THEN Zero ELSE Book(after[k - 1], entries[k])
    IN  after[Len(entries)]

(* unsettledBalances: of the entries after the last settlement.             *)
SinceSettlement(entries) ==
    LET settled == {i \in DOMAIN entries : entries[i].type = "settlement"}
    IN  SubSeq(entries, 1 + Max(settled \cup {0}), Len(entries))
Unsettled(entries) == Booked(SinceSettlement(entries))

(* isBust, in the buy-in mode.                                              *)
Bust(entries) == rules.buyIn > 0 /\ \E s \in Seats : rules.buyIn + Unsettled(entries)[s] <= 0

(* settlementPlan: the debtors in order pay the creditors in order.         *)
Smaller(a, b) == IF a < b THEN a ELSE b
Pairs == [k \in 1 .. rules.n * rules.n |-> <<(k - 1) \div rules.n, (k - 1) % rules.n>>]
SettleUp(bal, p) ==
    LET points == Smaller(-bal.left[p[1]], bal.left[p[2]])
    IN  IF points <= 0 THEN bal
        ELSE [left |-> [bal.left EXCEPT ![p[1]] = @ + points, ![p[2]] = @ - points],
              plan |-> [bal.plan EXCEPT ![p] = points]]
SettlementPlan(balances) ==
    LET after[k \in 0 .. rules.n * rules.n] ==
            IF k = 0 THEN [left |-> balances, plan |-> NoTransfers]
            ELSE SettleUp(after[k - 1], Pairs[k])
    IN  after[rules.n * rules.n].plan

-----------------------------------------------------------------------------
(* Turns. *)

NoSeat == -1
NoHand == [phase |-> "none", button |-> 0, seats |-> << >>, toAct |-> NoSeat, deck |-> DeckSize]

SetCards(seat) == seat.rows["top"] + seat.rows["middle"] + seat.rows["bottom"]
Done(seat)     == SetCards(seat) = HandSize
Places(seat) ==
    IF SetCards(seat) = 0 THEN Smaller(seat.pending, HandSize)
    ELSE Smaller(PlacedPerTurn, HandSize - SetCards(seat))

(* Mutation: Fantasyland seats wait for their turn. *)
CanPlaceInTurn(s) ==
    /\ hand.phase = "setting"
    /\ ~Done(hand.seats[s]) /\ hand.seats[s].pending > 0 /\ hand.toAct = s

(* canPlace: seats in Fantasyland play out of turn.                         *)
CanPlace(s) ==
    /\ hand.phase = "setting"
    /\ ~Done(hand.seats[s]) /\ hand.seats[s].pending > 0
    /\ hand.seats[s].fl \/ hand.toAct = s

(* In acting order from the seat after one, that one last: the first of a set. *)
FirstAfter(from, fit) ==
    LET turns(s) == (s + rules.n - from - 1) % rules.n
    IN  IF fit = {} THEN NoSeat ELSE CHOOSE s \in fit : \A t \in fit : turns(s) <= turns(t)

(* nextTurnSeat: Fantasyland seats take no turns.                           *)
NextTurn(seats, from, pending) ==
    FirstAfter(from, {s \in Seats : /\ ~seats[s].fl /\ ~Done(seats[s])
                                    /\ pending <=> seats[s].pending > 0})

-----------------------------------------------------------------------------
(* Actions. *)

(* start, and start-hand: everybody is dealt.                               *)
CanStart == status # "over" /\ hand.phase \in {"none", "showdown"}

ToDeal == OverSeats(LAMBDA s : Opening(owed[s]))

Start ==
    /\ CanStart /\ ToDeal <= DeckSize
    /\ Len(SelectSeq(ledger, LAMBDA e : e.type = "hand")) < rules.hands
    /\ status' = "playing"
    /\ hand' = [phase |-> "setting", button |-> button,
                seats |-> [s \in Seats |-> [rows |-> [r \in Rows |-> 0], discards |-> 0,
                                            pending |-> Opening(owed[s]), fl |-> owed[s] > 0]],
                toAct |-> FirstAfter(button, {s \in Seats : owed[s] = 0}),
                deck |-> DeckSize - ToDeal]
    /\ owed' = Zero
    /\ UNCHANGED <<rules, button, scores, ledger, asked, asks>>

(* showdown: every pair of seats is scored.                                 *)
ScoredUp(result) == [s \in Seats |-> scores[s] + OverSeats(LAMBDA t : Won(result, s, t))]

(* Mutation: a transfer is missing for pairs of the last seat. *)
ShowdownUnpaid(next, result) ==
    LET paid == [p \in Seats \X Seats |-> IF {p[1], p[2]} = {1, 2} THEN 0
                                          ELSE Transfers(result)[p]]
        over == Bust(Append(ledger, HandEntry(paid)))
    IN  /\ hand' = [next EXCEPT !.phase = IF over THEN "complete" ELSE "showdown",
                                !.toAct = NoSeat]
        /\ scores' = ScoredUp(result)
        /\ owed' = [s \in Seats |-> Qualifies(result[s + 1], next.seats[s].fl)]
        /\ ledger' = Append(ledger, HandEntry(paid))
        /\ button' = (next.button + 1) % rules.n
        /\ status' = IF over THEN "over" ELSE status

Showdown(next, result) ==
    LET entries == Append(ledger, HandEntry(Transfers(result)))
        over    == Bust(entries)
    IN  /\ hand' = [next EXCEPT !.phase = IF over THEN "complete" ELSE "showdown",
                                !.toAct = NoSeat]
        /\ scores' = ScoredUp(result)
        /\ owed' = [s \in Seats |-> Qualifies(result[s + 1], next.seats[s].fl)]
        /\ ledger' = entries
        /\ button' = (next.button + 1) % rules.n
        /\ status' = IF over THEN "over" ELSE status

(* place: a seat sets cards and discards the rest; then the turn passes to the
   next seat that holds cards, or cards are dealt to the next that holds none,
   or the hand is shown.                                                    *)
Place(s) ==
    /\ CanPlace(s)
    /\ \E put \in [Rows -> 0 .. 5] :
         LET seat  == hand.seats[s]
             set   == [seat EXCEPT !.rows = [r \in Rows |-> @[r] + put[r]], !.pending = 0,
                                   !.discards = @ + seat.pending - Places(seat)]
             seats == [hand.seats EXCEPT ![s] = set]
             turn  == IF hand.toAct = s THEN NextTurn(seats, s, TRUE) ELSE hand.toAct
             next  == [hand EXCEPT !.seats = seats, !.toAct = turn]
             dealt == NextTurn(seats, s, FALSE)
         IN  /\ put["top"] + put["middle"] + put["bottom"] = Places(seat)
             /\ \A r \in Rows : set.rows[r] <= Capacity[r]
             /\ \/ /\ \A t \in Seats : Done(seats[t])
                   /\ \E result \in {r \in Showdowns : Len(r) = rules.n} : Showdown(next, result)
                \/ /\ \E t \in Seats : ~Done(seats[t])
                   /\ turn = NoSeat /\ dealt # NoSeat /\ hand.deck >= CardsPerTurn
                   /\ hand' = [next EXCEPT !.seats[dealt].pending = CardsPerTurn,
                                           !.toAct = dealt, !.deck = @ - CardsPerTurn]
                   /\ UNCHANGED <<status, button, owed, scores, ledger>>
                \/ /\ \E t \in Seats : ~Done(seats[t])
                   /\ turn # NoSeat \/ dealt = NoSeat
                   /\ hand' = next
                   /\ UNCHANGED <<status, button, owed, scores, ledger>>
    /\ UNCHANGED <<rules, asked, asks>>

(* settle, by any seat, a dealer or the autopilot, at any time.             *)
ByHand == Len(SelectSeq(ledger, LAMBDA e : e.type # "hand")) < rules.entries
Settle ==
    /\ ByHand
    /\ ledger' = Append(ledger, Settlement(SettlementPlan(Unsettled(ledger))))
    /\ asked' = [s \in Seats |-> FALSE]
    /\ UNCHANGED <<rules, status, button, owed, hand, scores, asks>>

Adjust(s) ==
    /\ ByHand
    /\ \E points \in {-2, 2} :
         /\ scores' = [scores EXCEPT ![s] = @ + points]
         /\ ledger' = Append(ledger, AdjustEntry(s, points))
    /\ UNCHANGED <<rules, status, button, owed, hand, asked, asks>>

SettleRequest(s) ==
    /\ hand.phase # "setting" /\ asks < rules.asks /\ asks' = asks + 1
    /\ asked' = [asked EXCEPT ![s] = ~@]
    /\ UNCHANGED <<rules, status, button, owed, hand, scores, ledger>>

-----------------------------------------------------------------------------
(* ofcAutopilot: what an unattended table does next, when the room is ready
   (everybody there, and the dealer), and the players are.                  *)
Autopilot(room, ready) ==
    IF status = "over" \/ hand.phase = "setting" THEN "nothing"
    ELSE IF hand.phase = "none" THEN IF room THEN "start" ELSE "nothing"
    ELSE IF \A s \in Seats : asked[s] THEN "settle"
    ELSE IF room /\ ready THEN "start" ELSE "nothing"

OfcInit ==
    /\ rules \in OfcConfs
    /\ status = "lobby" /\ button = 0 /\ hand = NoHand
    /\ owed = [s \in Seats |-> rules.owed[s + 1]]
    /\ scores = Zero /\ ledger = << >> /\ asked = [s \in Seats |-> FALSE] /\ asks = 0

OfcNext == Start \/ Settle \/ \E s \in Seats : Place(s) \/ Adjust(s) \/ SettleRequest(s)

OfcSpec == OfcInit /\ [][OfcNext]_ofcVars

-----------------------------------------------------------------------------
(* Properties. *)

(* The cards a seat in turn still draws, beyond those it holds.              *)
ToCome(seat) ==
    LET held == IF Done(seat) \/ seat.pending = 0 THEN 0 ELSE Places(seat)
        left == HandSize - SetCards(seat) - held
    IN  IF seat.fl THEN 0 ELSE (left \div PlacedPerTurn) * CardsPerTurn

(* Every variable has its type, and every card is somewhere: in the rows of a
   seat, in its hands, among its discards or in the deck.                   *)
OfcTypeOK ==
    /\ rules \in OfcConfs /\ status \in {"lobby", "playing", "over"} /\ button \in Seats
    /\ owed \in [Seats -> 0 .. 18] /\ scores \in [Seats -> Int] /\ asked \in [Seats -> BOOLEAN]
    /\ hand.phase \in {"none", "setting", "showdown", "complete"}
    /\ hand.toAct \in Seats \cup {NoSeat} /\ hand.deck \in 0 .. DeckSize
    /\ hand.phase # "none" =>
         DeckSize = hand.deck + OverSeats(
             LAMBDA s : SetCards(hand.seats[s]) + hand.seats[s].pending + hand.seats[s].discards)

(* A table goes on: whatever mix of seats is in Fantasyland and in whatever
   order they act, while a hand is set some seat may place cards (until all are
   set and the hand is shown in the same step), and between hands a hand the
   autopilot decides to deal is one the game accepts.                       *)
TableGoesOn ==
    /\ hand.phase = "setting" => \E s \in Seats : CanPlace(s)
    /\ \A room, ready \in BOOLEAN :
         Autopilot(room, ready) = "start" => CanStart /\ ToDeal <= DeckSize

(* The ledger tells the scores, and "who pays whom ... to bring every seat back
   to its baseline" (settlementPlan): the scores, kept from the points of the
   hands, are those of the ledger, kept from their transfers; and the plan of a
   settlement leaves nobody owing and, unless points were adjusted, nobody
   owed.                                                                    *)
LedgerTellsAll ==
    /\ scores = Booked(ledger)
    /\ \A i \in DOMAIN ledger : ledger[i].type = "settlement" =>
         LET open == SinceSettlement(SubSeq(ledger, 1, i - 1))
             left == Pay(Booked(open), [p \in Seats \X Seats |-> ledger[i].transfers[p[2], p[1]]])
         IN  \/ left = Zero
             \/ \E k \in DOMAIN open : open[k].type = "adjust"

(* "Every number is range-checked so a rule set exchanged between players cannot
   break the engine" (validateTableConfig): the deck lasts, for every hand that
   may start and every turn of it.                                          *)
DeckLasts ==
    /\ CanStart => ToDeal <= DeckSize
    /\ hand.phase = "setting" => hand.deck >= OverSeats(LAMBDA s : ToCome(hand.seats[s]))
=============================================================================
