----------------------------- MODULE Backgammon -----------------------------
(***************************************************************************)
(* Backgammon matches: the engine of packages/engine (board, legal plays,  *)
(* cube, resignation, Crawford rule, scoring, the free board), with the    *)
(* commands of packages/server.                                            *)
(*                                                                         *)
(* The rules are the engine's; the board's size, the dice and the number   *)
(* of checkers are parameters, for the checks use a small board.  A board  *)
(* is kept as the engine keeps it: signed counts by White's points.        *)
(***************************************************************************)
EXTENDS Integers, Sequences, FiniteSets, FiniteSetsExt, SequencesExt

CONSTANTS
    Points,      \* points of the board (24)
    HomePoints,  \* points of a home board (6)
    DieFaces,    \* faces of a die (6)
    Placing,     \* checkers a player starts with, by point
    MaxCube,     \* the cube's largest value (64)
    BgConfs      \* the matches considered, a subset of BgConf

(* length: 0 for money play.  Bounds: the games of a match, and the doubles and
   resignations offered in it.                                              *)
BgConf == [length : Nat, crawford : BOOLEAN, jacoby : BOOLEAN, free : BOOLEAN,
           games : Nat, offers : Nat]
ASSUME BgConfsAssumption == BgConfs \subseteq BgConf
ASSUME BoardAssumption ==
    /\ Points \in Nat /\ HomePoints \in 1 .. Points /\ DieFaces \in Nat \ {0}
    /\ MaxCube \in Nat /\ Placing \in [1 .. Points -> Nat]

VARIABLES
    match,     \* its configuration and how many offers were made so far
    score,     \* points won by each player
    crawfordDone, \* the Crawford game was started
    games,     \* the games that ended
    winner,    \* of the match
    game       \* the game in progress or just ended

bgVars == <<match, score, crawfordDone, games, winner, game>>

Players == {"white", "black"}
NoPlayer  == "nobody"
Opponent(p) == IF p = "white" THEN "black" ELSE "white"

-----------------------------------------------------------------------------
(* The board.  A player counts the points from its own home: 1 .. Points, the
   bar is above and 0 is off.                                               *)
Bar == Points + 1
Off == 0
Sign(p) == IF p = "white" THEN 1 ELSE -1
AbsPoint(p, rel) == IF p = "white" THEN rel ELSE Points + 1 - rel

Larger(a, b) == IF a > b THEN a ELSE b
CountAt(b, p, rel) ==
    IF rel = Bar THEN b.bar[p] ELSE IF rel = Off THEN b.off[p]
    ELSE Larger(Sign(p) * b.points[AbsPoint(p, rel)], 0)
OpponentAt(b, p, rel) == Larger(-Sign(p) * b.points[AbsPoint(p, rel)], 0)

Start0(i) == Placing[i] - Placing[Points + 1 - i]
StartingBoard == [points |-> [i \in 1 .. Points |-> Start0(i)],
                  bar |-> [p \in Players |-> 0], off |-> [p \in Players |-> 0]]

AllInHome(b, p) == /\ b.bar[p] = 0
                   /\ \A rel \in HomePoints + 1 .. Points : CountAt(b, p, rel) = 0

(* applySubMove: a checker moves, and a lone opposing one is hit.           *)
Lift(b, p, from) ==
    IF from = Bar THEN [b EXCEPT !.bar[p] = @ - 1]
    ELSE IF from = Off THEN [b EXCEPT !.off[p] = @ - 1]
    ELSE [b EXCEPT !.points[AbsPoint(p, from)] = @ - Sign(p)]

(* Mutation: the checker that was hit does not go to the bar. *)
DropHitLost(b, p, to, hit) ==
    IF to = Bar THEN [b EXCEPT !.bar[p] = @ + 1]
    ELSE IF to = Off THEN [b EXCEPT !.off[p] = @ + 1]
    ELSE IF hit THEN [b EXCEPT !.points[AbsPoint(p, to)] = Sign(p)]
    ELSE [b EXCEPT !.points[AbsPoint(p, to)] = @ + Sign(p)]

DropOn(b, p, to, hit) ==
    IF to = Bar THEN [b EXCEPT !.bar[p] = @ + 1]
    ELSE IF to = Off THEN [b EXCEPT !.off[p] = @ + 1]
    ELSE IF hit THEN [b EXCEPT !.points[AbsPoint(p, to)] = Sign(p), !.bar[Opponent(p)] = @ + 1]
    ELSE [b EXCEPT !.points[AbsPoint(p, to)] = @ + Sign(p)]
SubMove(b, p, m) == DropOn(Lift(b, p, m.from), p, m.to, m.hit)

-----------------------------------------------------------------------------
(* Legal plays. *)

CanLand(b, p, to) == to \in 1 .. Points /\ OpponentAt(b, p, to) <= 1
Move(b, p, from, to, die) ==
    [from |-> from, to |-> to, die |-> die,
     hit |-> to \in 1 .. Points /\ OpponentAt(b, p, to) = 1]

(* singleDieMoves: checkers enter from the bar first; bearing off takes all
   checkers home, and the exact point or the highest one.                   *)
SingleDieMoves(b, p, die) ==
    IF b.bar[p] > 0
    THEN IF CanLand(b, p, Bar - die) THEN {Move(b, p, Bar, Bar - die, die)} ELSE {}
    ELSE LET held    == {rel \in 1 .. Points : CountAt(b, p, rel) > 0}
             land    == {rel \in held : rel - die >= 1 /\ CanLand(b, p, rel - die)}
             bearing == {rel \in held : /\ rel <= die /\ AllInHome(b, p)
                                        /\ rel = die \/ rel = Max(held)}
         IN  {Move(b, p, rel, rel - die, die) : rel \in land}
             \cup {Move(b, p, rel, Off, die) : rel \in bearing}

(* enumerate: the dice in order, stopping at the first that cannot be moved. *)
Lines(b, p, dice) ==
    LET step(line, die) ==
            LET moves == IF line.stuck THEN {} ELSE SingleDieMoves(line.board, p, die)
            IN  IF moves = {} THEN {[line EXCEPT !.stuck = TRUE]}
                ELSE {[line EXCEPT !.play = Append(@, m), !.board = SubMove(@, p, m)] :
                        m \in moves}
    IN  FoldLeft(LAMBDA lines, die : UNION {step(line, die) : line \in lines},
                 {[play |-> << >>, board |-> b, stuck |-> FALSE]}, dice)

Orders(dice) == IF dice[1] = dice[2] THEN {[i \in 1 .. 4 |-> dice[1]]}
                ELSE {dice, <<dice[2], dice[1]>>}

(* Mutation: either die will do where only one can be used. *)
LegalPlaysEitherDie(b, p, dice) ==
    LET plays == {line.play : line \in UNION {Lines(b, p, order) : order \in Orders(dice)}}
        most  == Max({Len(play) : play \in plays})
    IN  IF most = 0 THEN {} ELSE {play \in plays : Len(play) = most}

(* legalPlays: as many dice as possible, and the higher one if only one can be
   used.                                                                    *)
LegalPlays(b, p, dice) ==
    LET plays   == {line.play : line \in UNION {Lines(b, p, order) : order \in Orders(dice)}}
        most    == Max({Len(play) : play \in plays})
        longest == {play \in plays : Len(play) = most}
        higher  == {play \in longest : play[1].die = Larger(dice[1], dice[2])}
    IN  IF most = 0 THEN {}
        ELSE IF most = 1 /\ dice[1] # dice[2] /\ higher # {} THEN higher
        ELSE longest

-----------------------------------------------------------------------------
(* A game. *)

Kinds == {"single", "gammon", "backgammon"}
Dice  == (1 .. DieFaces) \X (1 .. DieFaces)
NoDice == <<0, 0>>

(* by: who must roll, move or answered to; dice: the roll, or the two opening
   dice; prior: the phase a declined resignation goes back to.              *)
Phase(kind, by) == [kind |-> kind, by |-> by, dice |-> NoDice, stakes |-> "single",
                    prior |-> <<>>]
NoResult == [winner |-> NoPlayer, kind |-> "single", cube |-> 0, points |-> 0]
NoGame == [board |-> StartingBoard, cube |-> 1, owner |-> NoPlayer, crawford |-> FALSE,
           phase |-> Phase("none", NoPlayer), result |-> NoResult]

Blocked(g) == /\ g.phase.kind = "moving"
              /\ LegalPlays(g.board, g.phase.by, g.phase.dice) = {}
To(g, kind, by) == [g EXCEPT !.phase = Phase(kind, by)]
Over(g, by, kind) ==
    [To(g, "over", NoPlayer) EXCEPT !.result = [winner |-> by, kind |-> kind, cube |-> g.cube,
                                              points |-> 0]]

(* passImplicitly: an action of the opponent ends a turn with no legal move. *)
Seen(p) == IF Blocked(game) /\ game.phase.by # p THEN To(game, "to-roll", p) ELSE game

(* resultKind: has the loser borne off, and is a checker of it behind?      *)
ResultKind(b, by) ==
    LET loser == Opponent(by)
    IN  IF b.off[loser] > 0 THEN "single"
        ELSE IF b.bar[loser] > 0
                \/ \E rel \in Points - HomePoints + 1 .. Points : CountAt(b, loser, rel) > 0
        THEN "backgammon" ELSE "gammon"

Checkers == MapThenSumSet(LAMBDA i : Placing[i], 1 .. Points)

-----------------------------------------------------------------------------
(* The match. *)

Money   == match.length = 0
OneAway == ~Money /\ \E p \in Players : score[p] = match.length - 1

(* scoreResult, with the Jacoby rule in money play.                         *)
Worth(g) ==
    LET kind == IF Money /\ match.jacoby /\ g.owner = NoPlayer THEN "single" ELSE g.result.kind
    IN  g.result.cube * (IF kind = "single" THEN 1 ELSE IF kind = "gammon" THEN 2 ELSE 3)

(* settle: a game that just ended is folded into the match, once.           *)
Settled(g) ==
    IF g.phase.kind # "over" THEN game' = g /\ UNCHANGED <<score, games, winner>>
    ELSE LET points == Worth(g)
             by     == g.result.winner
             total  == [score EXCEPT ![by] = @ + points]
         IN  /\ game' = [g EXCEPT !.result.points = points]
             /\ score' = total
             /\ games' = Append(games, [crawford |-> g.crawford, cube |-> g.cube,
                                        scoreAfter |-> total])
             /\ winner' = IF ~Money /\ total[by] >= match.length THEN by ELSE NoPlayer

(* nextGameIsCrawford.                                                      *)
CrawfordNow == match.crawford /\ OneAway /\ ~crawfordDone

(* start-game, by a player, a dealer or the autopilot.                      *)
CanStartGame == winner = NoPlayer /\ game.phase.kind \in {"none", "over"}
StartGame ==
    /\ CanStartGame /\ Len(games) < match.games
    /\ crawfordDone' = (crawfordDone \/ CrawfordNow)
    /\ game' = [NoGame EXCEPT !.crawford = CrawfordNow,
                              !.phase = Phase(IF match.free THEN "free" ELSE "opening", NoPlayer)]
    /\ UNCHANGED <<match, score, games, winner>>

Acts(g) == Settled(g) /\ UNCHANGED <<match, crawfordDone>>
Side(p) == IF p = "white" THEN 1 ELSE 2

(* opening-roll: one die each, again on a tie; the higher one moves first,
   with both dice.                                                          *)
OpeningRoll(p) ==
    /\ game.phase.kind = "opening" /\ game.phase.dice[Side(p)] = 0
    /\ \E die \in 1 .. DieFaces :
         LET dice  == [game.phase.dice EXCEPT ![Side(p)] = die]
             first == IF dice[1] > dice[2] THEN "white" ELSE "black"
         IN  Acts(IF 0 \in {dice[1], dice[2]} THEN [game EXCEPT !.phase.dice = dice]
                  ELSE IF dice[1] = dice[2] THEN [game EXCEPT !.phase.dice = NoDice]
                  ELSE [To(game, "moving", first) EXCEPT !.phase.dice =
                           IF first = "white" THEN dice ELSE <<dice[2], dice[1]>>])

Roll(p) ==
    /\ game.phase.kind = "to-roll" /\ game.phase.by = p
    /\ \E dice \in Dice : Acts([To(game, "moving", p) EXCEPT !.phase.dice = dice])

(* play: one of the legal plays, or nothing if there is none.               *)
PlaysOf(g) == LET plays == LegalPlays(g.board, g.phase.by, g.phase.dice)
              IN  IF plays = {} THEN {<< >>} ELSE plays
Play(p) ==
    /\ game.phase.kind = "moving" /\ game.phase.by = p
    /\ \E play \in PlaysOf(game) :
         LET board == FoldLeft(LAMBDA b, m : SubMove(b, p, m), game.board, play)
             moved == [game EXCEPT !.board = board]
         IN  Acts(IF board.off[p] = Checkers THEN Over(moved, p, ResultKind(board, p))
                  ELSE To(moved, "to-roll", Opponent(p)))

(* double, take and drop; a double may come while the opponent is blocked.  *)
CanDouble(g, p) == /\ g.phase.kind = "to-roll" /\ g.phase.by = p
                   /\ ~g.crawford /\ g.cube < MaxCube /\ g.owner \in {NoPlayer, p}
Offers == match.made < match.offers /\ match' = [match EXCEPT !.made = @ + 1]
Double(p) ==
    /\ CanDouble(Seen(p), p) /\ Offers
    /\ Settled(To(Seen(p), "double-offered", p)) /\ UNCHANGED crawfordDone
Take(p) ==
    /\ game.phase.kind = "double-offered" /\ game.phase.by # p
    /\ Acts([To(game, "to-roll", Opponent(p)) EXCEPT !.cube = @ * 2, !.owner = p])
Refuse(p) ==
    /\ game.phase.kind = "double-offered" /\ game.phase.by # p
    /\ Acts(Over(game, Opponent(p), "single"))

(* offer-resign, in anybody's turn; declined, the game is where it was.     *)
OfferResign(p) ==
    /\ game.phase.kind \notin {"none", "opening", "resign-offered", "over"} /\ Offers
    /\ \E stakes \in Kinds :
         Settled([Seen(p) EXCEPT !.phase = [Phase("resign-offered", p) EXCEPT
                                              !.stakes = stakes, !.prior = <<Seen(p).phase>>]])
    /\ UNCHANGED crawfordDone
AcceptResign(p) ==
    /\ game.phase.kind = "resign-offered" /\ game.phase.by # p
    /\ Acts(Over(game, p, game.phase.stakes))
DeclineResign(p) ==
    /\ game.phase.kind = "resign-offered" /\ game.phase.by # p
    /\ Acts([game EXCEPT !.phase = @.prior[1]])

(* The free board: any roll, any move of any checker but onto a held point, the
   cube and the result by hand.                                             *)
FreeBoard == game.phase.kind = "free"
FreeRoll == FreeBoard /\ \E dice \in Dice : Acts([game EXCEPT !.phase.dice = dice])
FreeMove ==
    /\ FreeBoard
    /\ \E p \in Players, from, to \in Off .. Bar :
         /\ from # to /\ CountAt(game.board, p, from) > 0
         /\ to \in 1 .. Points => OpponentAt(game.board, p, to) <= 1
         /\ LET hit == to \in 1 .. Points /\ OpponentAt(game.board, p, to) = 1
            IN  Acts([game EXCEPT !.board = DropOn(Lift(@, p, from), p, to, hit)])
FreeCube ==
    /\ FreeBoard
    /\ \E k \in 0 .. 6, owner \in Players \cup {NoPlayer} :
         /\ 2 ^ k <= MaxCube /\ (k = 0 => owner = NoPlayer)
         /\ Acts([game EXCEPT !.cube = 2 ^ k, !.owner = owner])
FreeReset == FreeBoard /\ Acts([game EXCEPT !.board = StartingBoard, !.phase.dice = NoDice])
FreeResult == FreeBoard /\ \E p \in Players, kind \in Kinds : Acts(Over(game, p, kind))

BgInit ==
    /\ \E conf \in BgConfs : match = [made |-> 0] @@ conf
    /\ score = [p \in Players |-> 0] /\ crawfordDone = FALSE
    /\ games = << >> /\ winner = NoPlayer /\ game = NoGame

Turn(p) == OpeningRoll(p) \/ Roll(p) \/ Play(p) \/ Double(p) \/ Take(p) \/ Refuse(p)
           \/ OfferResign(p) \/ AcceptResign(p) \/ DeclineResign(p)
BgNext == StartGame \/ FreeRoll \/ FreeMove \/ FreeCube \/ FreeReset \/ FreeResult
          \/ \E p \in Players : Turn(p)

-----------------------------------------------------------------------------
(* Properties. *)

(* Every variable has its type, and after any play, hit, entry, bear-off or free
   move every checker is on one point, the bar or off ("the engine only keeps the
   position consistent").                                                   *)
BgTypeOK ==
    /\ \E conf \in BgConfs : match = [made |-> match.made] @@ conf
    /\ score \in [Players -> Nat] /\ crawfordDone \in BOOLEAN
    /\ winner \in Players \cup {NoPlayer} /\ game.owner \in Players \cup {NoPlayer}
    /\ game.board.points \in [1 .. Points -> -Checkers .. Checkers]
    /\ game.cube \in 1 .. MaxCube
    /\ game.phase.kind \in {"none", "opening", "to-roll", "moving", "double-offered",
                            "resign-offered", "free", "over"}
    /\ \A p \in Players :
          Checkers = MapThenSumSet(LAMBDA rel : CountAt(game.board, p, rel), Off .. Bar)

(* "Use as many dice as possible; if only one die can be used, prefer the higher
   one" (legalPlays), seen from the positions: whatever legal play is chosen, or
   if there is none and the turn passes, no die left unused could still be moved
   from where it leads to; and where it uses one of two dice, no move with either
   of them would have left the other one playable, and it is the higher one,
   unless that one could not be moved at all.                               *)
DiceUsed ==
    game.phase.kind = "moving" =>
        LET by       == game.phase.by
            dice     == game.phase.dice
            larger   == Larger(dice[1], dice[2])
            moves(d) == SingleDieMoves(game.board, by, d)
            other(d) == IF d = dice[1] THEN dice[2] ELSE dice[1]
            had(d)   == IF dice[1] = dice[2] THEN 4 ELSE 1
        IN  \A play \in PlaysOf(game) :
              LET board   == FoldLeft(LAMBDA b, m : SubMove(b, by, m), game.board, play)
                  used(d) == Cardinality({i \in DOMAIN play : play[i].die = d})
              IN  /\ \A d \in {dice[1], dice[2]} :
                        used(d) < had(d) => SingleDieMoves(board, by, d) = {}
                  /\ dice[1] # dice[2] /\ Len(play) = 1 =>
                        /\ \A m \in moves(dice[1]) \cup moves(dice[2]) :
                              SingleDieMoves(SubMove(game.board, by, m), by, other(m.die)) = {}
                        /\ play[1].die = larger \/ moves(larger) = {}
=============================================================================
