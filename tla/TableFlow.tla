----------------------------- MODULE TableFlow -----------------------------
(***************************************************************************)
(* The command pipeline of a table: packages/table/src/TableServer.ts.     *)
(*                                                                         *)
(* A table turns commands into entries of an action log.  A command that   *)
(* draws randomness from an asynchronous source is in flight while the     *)
(* source answers; everything that arrives meanwhile queues behind it.     *)
(* The autopilot issues the commands that start hands.  A host may die and *)
(* restore an older persisted snapshot; a peer may then bring a longer one.*)
(*                                                                         *)
(* JavaScript runs a task to completion: between two awaits nothing else   *)
(* happens.  A task here is a chain of steps during which "calls" (the     *)
(* stack of pending continuations) is not empty, and the environment only  *)
(* moves when it is empty.                                                 *)
(*                                                                         *)
(* The game is abstracted to what the pipeline asks of it: when a command  *)
(* is legal, whether it draws, whether it begins or ends a segment, and    *)
(* what the autopilot would do.                                            *)
(***************************************************************************)
EXTENDS Integers, Sequences

CONSTANTS
    Seats,        \* the seats of the table, all taken
    Confs,        \* the table configurations considered, a subset of Conf
    MaxCmds,      \* bound: commands that arrive
    MaxHands,     \* the hand (game) after which the match is over
    MaxRestarts,  \* bound: times the host process dies
    MaxLost       \* bound: no beacon round is lost once this many were bound

Modes == {"plain", "per-draw", "seeded", "beacon"}

(* game: "ofc" hides information and draws when a hand starts; "backgammon"
   hides nothing and start-game draws nothing.  flow: what the autopilot
   waits for between hands.  apart: nobody needs to be connected (played by
   mail, or pauseWhenAbsent off).  resume: peers hold full copies and may
   bring one back.                                                         *)
Conf == [game : {"ofc", "backgammon"}, mode : Modes,
         flow : {"off", "ready", "countdown"}, apart : BOOLEAN, resume : BOOLEAN]

ASSUME SeatsAssumption == Seats # {}
ASSUME ConfsAssumption == Confs \subseteq Conf
ASSUME BoundsAssumption ==
    MaxCmds \in Nat /\ MaxHands \in Nat \ {0} /\ MaxRestarts \in Nat /\ MaxLost \in Nat

VARIABLES
    conf,      \* the configuration of this table
    up,        \* the host process runs and the table is not closed
    snap,      \* the authoritative snapshot: log, segs, pend, ready
    secrets,   \* private segments: seeds not necessarily revealed
    counter,   \* beaconCounter
    flight,    \* the draw in flight, or NoFlight ("busy")
    queue,     \* commands that arrived while busy
    calls,     \* continuations of the running task, innermost first
    timer,     \* a delayed autopilot decision is scheduled
    present,   \* seats with a connected device
    stored,    \* the snapshot on the host's disk
    copy,      \* the newest full snapshot a peer received
    seeds,     \* seeds drawn so far: makes every seed new
    arrived,   \* commands arrived so far: their ids are 1..arrived
    since,     \* arrived at the last restart
    refused,   \* ids of the commands answered with an error
    restarts

vars == <<conf, up, snap, secrets, counter, flight, queue, calls, timer, present,
          stored, copy, seeds, arrived, since, refused, restarts>>

-----------------------------------------------------------------------------
(* Data. *)

Kinds == {"start", "roll", "move", "finish"}
Cmd   == [kind : Kinds, id : Nat]          \* id 0: the autopilot

(* Where the randomness of an entry came from: nowhere, bytes fetched for it,
   draw n of a seeded segment, or the beacon binding with that counter.     *)
Draw    == [from : {"none", "fetched", "segment", "beacon"},
            key : Nat, seed : Nat, n : Nat]
NoDraw  == [from |-> "none", key |-> 0, seed |-> 0, n |-> 0]
Fetched == [NoDraw EXCEPT !.from = "fetched"]

(* base: the length of the log the command was evaluated against.           *)
Entry == [kind : Kinds, id : Nat, base : Nat, draw : Draw]

(* A public segment record; to = -1 while open, seed = 0 while secret, and
   commit stands for the hash of the seed.                                  *)
Segment == [index : Nat, commit : Nat, start : Nat, to : Int, seed : Nat]
Secret  == [index : Nat, seed : Nat, draws : Nat, revealed : BOOLEAN]

Snapshot == [log : Seq(Entry), segs : Seq(Segment), pend : SUBSET Nat,
             ready : SUBSET Seats]

Stages   == {"idle", "fetch", "seed", "seeded", "schedule", "round", "done"}
Flight   == [stage : Stages, kind : Kinds, id : Nat, base : Nat, counter : Nat]
NoFlight == [stage |-> "idle", kind |-> "start", id |-> 0, base |-> 0, counter |-> 0]

(* Mutation: a fetch does not hold up what arrives. *)
BusyNotFetching == flight.stage \notin {"idle", "fetch"}

Busy     == flight.stage # "idle"

Last(s) == s[Len(s)]

-----------------------------------------------------------------------------
(* The game, as far as the pipeline depends on it. *)

Phase(log) ==
    CASE log = << >>                                  -> "lobby"
      [] log # << >> /\ Last(log).kind = "finish"     -> "over"
      [] OTHER                                        -> "hand"

Hands(log) == Len(SelectSeq(log, LAMBDA e : e.kind = "start"))

MatchOver(log) == Phase(log) = "over" /\ Hands(log) >= MaxHands

Legal(kind, log) ==
    IF kind = "start" THEN Phase(log) # "hand" /\ ~MatchOver(log)
                      ELSE Phase(log) = "hand"

Draws(kind) == kind = "roll" \/ (kind = "start" /\ conf.game = "ofc")

(* needsEntropy: a rule error in the probe counts as "does not draw".       *)
NeedsEntropy(kind) == Draws(kind) /\ Legal(kind, snap.log)

(* segmentBoundary looks at the command only, never at the state.           *)
Boundary(kind) == kind = "start"

Room == present = Seats \/ conf.apart

(* What the definition's autopilot answers: nothing, start at once, or start
   after a delay.                                                           *)
Decision ==
    CASE Phase(snap.log) = "hand" \/ MatchOver(snap.log) \/ ~Room -> "nothing"
      [] Phase(snap.log) = "lobby" /\ Room                        -> "now"
      [] Phase(snap.log) = "over" /\ ~MatchOver(snap.log) /\ Room
           /\ conf.flow = "countdown"                             -> "later"
      [] OTHER -> IF snap.ready = Seats THEN "now" ELSE "nothing"

-----------------------------------------------------------------------------
(* Seeded segments. *)

(* Mutation: a revealed segment still serves. *)
HasSecrets == secrets # << >>

HasActive == secrets # << >> /\ ~Last(secrets).revealed

(* Mutation: the range stops one action short. *)
RevealInShort(segs, index, seed, len) ==
    [i \in DOMAIN segs |->
        IF segs[i].index = index
        THEN [segs[i] EXCEPT !.seed = seed,
                             !.to = IF @ > len - 2 THEN @ ELSE len - 2]
        ELSE segs[i]]

(* revealActive, on the public records: the seed and the range it covers.   *)
RevealIn(segs, index, seed, len) ==
    [i \in DOMAIN segs |->
        IF segs[i].index = index
        THEN [segs[i] EXCEPT !.seed = seed,
                             !.to = IF segs[i].start > len - 1 THEN segs[i].start
                                                              ELSE len - 1]
        ELSE segs[i]]

Revealed(segs, len) ==
    IF HasActive THEN RevealIn(segs, Last(secrets).index, Last(secrets).seed, len)
                 ELSE segs

RevealSecret == [i \in DOMAIN secrets |->
                    IF i = Len(secrets) THEN [secrets[i] EXCEPT !.revealed = TRUE]
                                        ELSE secrets[i]]

(* withAudit finds the public record of every private segment, or throws.   *)
AuditComplete(segs) ==
    conf.mode = "seeded" =>
        \A i \in DOMAIN secrets : \E j \in DOMAIN segs : segs[j].index = secrets[i].index

-----------------------------------------------------------------------------
(* Applying one command. *)

Refuse(id) == refused' = IF id = 0 THEN refused ELSE refused \cup {id}

(* commit: reduce on the snapshot as it is now, append, reset readiness when
   a hand starts, and reveal a completed segment.  "fresh" is the segment
   secrets after the draw itself.                                           *)
CommitOk(cmd, base, draw, fresh) ==
    LET log  == Append(snap.log, [kind |-> cmd.kind, id |-> cmd.id,
                                  base |-> base, draw |-> draw])
        ends == conf.mode = "seeded" /\ cmd.kind = "finish"
    IN  /\ Legal(cmd.kind, snap.log)
        /\ AuditComplete(snap.segs)
        /\ snap' = [snap EXCEPT !.log   = log,
                                !.ready = IF cmd.kind = "start" THEN {} ELSE @,
                                !.segs  = IF ends THEN Revealed(@, Len(log)) ELSE @]
        /\ secrets' = IF ends THEN RevealSecret ELSE fresh
        /\ UNCHANGED refused

(* The same, when withAudit throws: the entry is in the snapshot already,
   nothing after it happens.                                                *)
CommitThrows(cmd, base, draw, fresh) ==
    /\ Legal(cmd.kind, snap.log)
    /\ ~AuditComplete(snap.segs)
    /\ snap' = [snap EXCEPT !.log = Append(@, [kind |-> cmd.kind, id |-> cmd.id,
                                               base |-> base, draw |-> draw]),
                            !.ready = IF cmd.kind = "start" THEN {} ELSE @]
    /\ secrets' = fresh
    /\ UNCHANGED refused

CommitRefused(cmd) ==
    /\ ~Legal(cmd.kind, snap.log)
    /\ Refuse(cmd.id)
    /\ UNCHANGED <<snap, secrets>>

(* segmentDraw: the next draw of the active segment.                        *)
SegmentDraw == [from |-> "segment", key |-> Last(secrets).index,
                seed |-> Last(secrets).seed, n |-> Last(secrets).draws]
(* Mutation: the draw is not counted. *)
SegmentKept == secrets

SegmentDrawn == [i \in DOMAIN secrets |->
                    IF i = Len(secrets) THEN [secrets[i] EXCEPT !.draws = @ + 1]
                                        ELSE secrets[i]]

(* apply's choice of path.  "stage" is the first await of an asynchronous
   one.                                                                     *)
AsyncStage(kind) ==
    CASE conf.mode = "seeded"
           /\ (Boundary(kind) \/ (NeedsEntropy(kind) /\ ~HasActive)) -> "seed"
      [] conf.mode = "beacon" /\ NeedsEntropy(kind)                  -> "schedule"
      [] conf.mode = "per-draw" /\ NeedsEntropy(kind)                -> "fetch"
      [] OTHER                                                       -> "idle"

BeginFlight(cmd) ==
    /\ AsyncStage(cmd.kind) # "idle"
    /\ flight' = [stage |-> AsyncStage(cmd.kind), kind |-> cmd.kind, id |-> cmd.id,
                  base |-> Len(snap.log), counter |-> 0]
    /\ UNCHANGED <<snap, secrets, refused>>

(* The draw of a synchronous command, and the secrets after it.             *)
SyncDraw(kind) ==
    IF ~Draws(kind) THEN NoDraw
    ELSE IF conf.mode = "seeded" THEN SegmentDraw
    ELSE Fetched
SyncSecrets(kind) ==
    IF Draws(kind) /\ conf.mode = "seeded" THEN SegmentDrawn ELSE secrets

(* apply, when no draw is in flight; "rest" is what the caller still does.
   A commit asks the autopilot (evaluateAutopilot) unless it is already
   being asked; a throw unwinds the whole task.                             *)
ApplyNow(cmd, rest) ==
    \/ BeginFlight(cmd) /\ calls' = rest
    \/ /\ AsyncStage(cmd.kind) = "idle"
       /\ UNCHANGED flight
       /\ LET draw  == SyncDraw(cmd.kind)
              fresh == SyncSecrets(cmd.kind)
              base  == Len(snap.log)
          IN \/ /\ CommitOk(cmd, base, draw, fresh)
                /\ calls' = IF rest # << >> /\ Head(rest) = "evaluate"
                            THEN rest ELSE <<"evaluate">> \o rest
             \/ CommitThrows(cmd, base, draw, fresh) /\ calls' = << >>
             \/ CommitRefused(cmd) /\ calls' = rest

-----------------------------------------------------------------------------
(* The task in progress: draining the queue, asking the autopilot. *)

Running(what) == up /\ calls # << >> /\ Head(calls) = what

(* Mutation: the newest queued command first. *)
DrainNewest ==
    /\ Running("drain") /\ ~Busy /\ queue # << >>
    /\ queue' = SubSeq(queue, 1, Len(queue) - 1)
    /\ ApplyNow(Last(queue), calls)
    /\ UNCHANGED <<conf, up, counter, timer, present, stored, copy, seeds, arrived,
                   since, restarts>>

(* drain's loop: the oldest queued command.                                 *)
DrainStep ==
    /\ Running("drain") /\ ~Busy /\ queue # << >>
    /\ queue' = Tail(queue)
    /\ ApplyNow(Head(queue), calls)
    /\ UNCHANGED <<conf, up, counter, timer, present, stored, copy, seeds, arrived,
                   since, restarts>>

(* Mutation: the drain leaves the autopilot alone. *)
DrainEndSilent ==
    /\ Running("drain") /\ (Busy \/ queue = << >>)
    /\ calls' = Tail(calls)
    /\ UNCHANGED <<conf, up, snap, secrets, counter, flight, queue, timer, present,
                   stored, copy, seeds, arrived, since, refused, restarts>>

(* The loop ends: with the autopilot, unless a draw went in flight.         *)
DrainEnd ==
    /\ Running("drain") /\ (Busy \/ queue = << >>)
    /\ calls' = IF Busy THEN Tail(calls) ELSE <<"evaluate">> \o Tail(calls)
    /\ UNCHANGED <<conf, up, snap, secrets, counter, flight, queue, timer, present,
                   stored, copy, seeds, arrived, since, refused, restarts>>

(* evaluateAutopilot, one round of its loop: nothing to do, a delay to
   schedule (or to leave running), or a command to apply now.               *)
Evaluate ==
    /\ Running("evaluate")
    /\ \/ /\ Busy \/ conf.flow = "off"
          /\ calls' = Tail(calls)
          /\ UNCHANGED <<snap, secrets, flight, refused, timer>>
       \/ /\ ~Busy /\ conf.flow # "off" /\ Decision = "nothing"
          /\ timer' = FALSE
          /\ calls' = Tail(calls)
          /\ UNCHANGED <<snap, secrets, flight, refused>>
       \/ /\ ~Busy /\ conf.flow # "off" /\ Decision = "later"
          /\ timer' = TRUE
          /\ calls' = Tail(calls)
          /\ UNCHANGED <<snap, secrets, flight, refused>>
       \/ /\ ~Busy /\ conf.flow # "off" /\ Decision = "now"
          /\ timer' = FALSE
          /\ ApplyNow([kind |-> "start", id |-> 0], calls)
    /\ UNCHANGED <<conf, up, counter, queue, present, stored, copy, seeds, arrived,
                   since, restarts>>

-----------------------------------------------------------------------------
(* Events: each begins a task, so none happens while one runs. *)

Idle == up /\ calls = << >>

(* A command from a seat, live or by mail.                                  *)
Arrive ==
    /\ Idle /\ arrived < MaxCmds
    /\ arrived' = arrived + 1
    /\ \E kind \in Kinds :
         LET cmd == [kind |-> kind, id |-> arrived + 1] IN
         \/ /\ Busy
            /\ queue' = Append(queue, cmd)
            /\ UNCHANGED <<snap, secrets, refused, flight, calls>>
         \/ /\ ~Busy
            /\ ApplyNow(cmd, << >>)
            /\ UNCHANGED queue
    /\ UNCHANGED <<conf, up, counter, timer, present, stored, copy, seeds, since, restarts>>

(* firePendingAutopilot: the game is asked again; while a draw is in flight
   the decision is dropped, and drain asks anew.                            *)
Fire ==
    /\ Idle /\ timer
    /\ timer' = FALSE
    /\ \/ /\ Decision # "later"
          /\ calls' = <<"evaluate">>
          /\ UNCHANGED <<snap, secrets, flight, refused>>
       \/ /\ Decision = "later" /\ Busy
          /\ UNCHANGED <<snap, secrets, flight, refused, calls>>
       \/ /\ Decision = "later" /\ ~Busy
          /\ ApplyNow([kind |-> "start", id |-> 0], <<"evaluate">>)
    /\ UNCHANGED <<conf, up, counter, queue, present, stored, copy, seeds, arrived,
                   since, restarts>>

(* Mutation: the autopilot is not asked. *)
PresenceUnasked(seat) ==
    /\ Idle
    /\ present' = IF seat \in present THEN present \ {seat} ELSE present \cup {seat}
    /\ UNCHANGED <<conf, up, snap, secrets, counter, flight, queue, calls, timer, stored,
                   copy, seeds, arrived, since, refused, restarts>>

(* A seat's first device is admitted, or its last one is gone.              *)
Presence(seat) ==
    /\ Idle
    /\ present' = IF seat \in present THEN present \ {seat} ELSE present \cup {seat}
    /\ calls' = <<"evaluate">>
    /\ UNCHANGED <<conf, up, snap, secrets, counter, flight, queue, timer, stored, copy,
                   seeds, arrived, since, refused, restarts>>

(* Readiness is not a command: it never waits behind a draw.                *)
SetReady(seat) ==
    /\ Idle /\ seat \in present
    /\ snap' = [snap EXCEPT !.ready = IF seat \in @ THEN @ \ {seat} ELSE @ \cup {seat}]
    /\ calls' = <<"evaluate">>
    /\ UNCHANGED <<conf, up, secrets, counter, flight, queue, timer, present, stored, copy,
                   seeds, arrived, since, refused, restarts>>

-----------------------------------------------------------------------------
(* Completions of a draw in flight.  Each leaves flight "done": the finally
   handler that drains the queue is a later microtask.                      *)

AtStage(stage) == Idle /\ flight.stage = stage
FlightCmd      == [kind |-> flight.kind, id |-> flight.id]
Done           == flight' = [flight EXCEPT !.stage = "done"]

(* commit at the end of an asynchronous path: still busy, so the autopilot
   is not asked and a throw has nothing to unwind.                          *)
CommitLate(base, draw, fresh) ==
    \/ CommitOk(FlightCmd, base, draw, fresh)
    \/ CommitThrows(FlightCmd, base, draw, fresh)
    \/ CommitRefused(FlightCmd)

completionFrame == <<conf, up, queue, calls, timer, present, stored, copy, arrived,
                     since, restarts>>

(* applyJustInTime: the actions were computed from the state captured before
   the await (flight.base); they are reduced on the state of now.           *)
FetchOk ==
    /\ AtStage("fetch") /\ Done
    /\ CommitLate(flight.base, Fetched, secrets)
    /\ UNCHANGED <<counter, seeds>>
    /\ UNCHANGED completionFrame

(* The source failed with no fallback, the schedule could not be had, or the
   seed fetch failed: the sender gets an error.                             *)
SourceFails ==
    /\ Idle /\ flight.stage \in {"fetch", "seed", "schedule"} /\ Done
    /\ Refuse(flight.id)
    /\ UNCHANGED <<snap, secrets, counter, seeds>>
    /\ UNCHANGED completionFrame

(* beginSegment after its await: reveal the open segment, publish the next
   commitment.                                                              *)
SeedOk ==
    /\ AtStage("seed")
    /\ flight' = [flight EXCEPT !.stage = "seeded"]
    /\ seeds' = seeds + 1
    /\ secrets' = Append(IF HasActive THEN RevealSecret ELSE secrets,
                         [index |-> Len(secrets), seed |-> seeds + 1,
                          draws |-> 0, revealed |-> FALSE])
    /\ snap' = [snap EXCEPT !.segs =
                  Append(Revealed(@, Len(snap.log)),
                         [index |-> Len(secrets), commit |-> seeds + 1,
                          start |-> Len(snap.log), to |-> -1, seed |-> 0])]
    /\ UNCHANGED <<counter, refused>>
    /\ UNCHANGED completionFrame

(* applySeededSegmentStart after beginSegment: the command runs on the state
   of now, drawing from the new segment if it draws.                        *)
SeededRun ==
    /\ AtStage("seeded") /\ Done
    /\ LET draws == NeedsEntropy(flight.kind)
       IN CommitLate(Len(snap.log), IF draws THEN SegmentDraw ELSE NoDraw,
                     IF draws THEN SegmentDrawn ELSE secrets)
    /\ UNCHANGED <<counter, seeds>>
    /\ UNCHANGED completionFrame

(* beaconDraw after the schedule: bind to the next round and publish.       *)
Bind ==
    /\ AtStage("schedule")
    /\ flight' = [flight EXCEPT !.stage = "round", !.counter = counter]
    /\ counter' = counter + 1
    /\ snap' = [snap EXCEPT !.pend = @ \cup {counter}]
    /\ UNCHANGED <<secrets, refused, seeds>>
    /\ UNCHANGED completionFrame

(* The round came: the binding is withdrawn, the actions computed from the
   captured state are committed.                                            *)
RoundOk ==
    /\ AtStage("round") /\ Done
    /\ LET draw == [NoDraw EXCEPT !.from = "beacon", !.key = flight.counter]
           cmd  == FlightCmd
       IN \/ /\ Legal(cmd.kind, snap.log)
             /\ snap' = [snap EXCEPT
                  !.pend  = @ \ {flight.counter},
                  !.ready = IF cmd.kind = "start" THEN {} ELSE @,
                  !.log   = Append(@, [kind |-> cmd.kind, id |-> cmd.id,
                                       base |-> flight.base, draw |-> draw])]
             /\ UNCHANGED refused
          \/ /\ ~Legal(cmd.kind, snap.log)
             /\ snap' = [snap EXCEPT !.pend = @ \ {flight.counter}]
             /\ Refuse(cmd.id)
    /\ UNCHANGED <<secrets, counter, seeds>>
    /\ UNCHANGED completionFrame

(* Mutation: the binding of a lost round stays published. *)
RoundFailsBound ==
    /\ AtStage("round") /\ Done /\ counter <= MaxLost
    /\ Refuse(flight.id)
    /\ UNCHANGED <<snap, secrets, counter, seeds>>
    /\ UNCHANGED completionFrame

RoundFails ==
    /\ AtStage("round") /\ Done /\ counter <= MaxLost
    /\ snap' = [snap EXCEPT !.pend = @ \ {flight.counter}]
    /\ Refuse(flight.id)
    /\ UNCHANGED <<secrets, counter, seeds>>
    /\ UNCHANGED completionFrame

(* Mutation: nothing drains. *)
FinallyIdle ==
    /\ AtStage("done")
    /\ flight' = NoFlight
    /\ UNCHANGED <<conf, up, snap, secrets, counter, queue, calls, timer, present, stored,
                   copy, seeds, arrived, since, refused, restarts>>

(* .finally(() => this.drain())                                             *)
Finally ==
    /\ AtStage("done")
    /\ flight' = NoFlight
    /\ calls' = <<"drain">>
    /\ UNCHANGED <<conf, up, snap, secrets, counter, queue, timer, present, stored, copy,
                   seeds, arrived, since, refused, restarts>>

-----------------------------------------------------------------------------
(* Persistence, peers' copies, adoption, and the host's process. *)

(* The host's listener writes the snapshot it was last given.  After the last
   restart nothing reads it any more.                                        *)
Persist ==
    /\ up /\ stored # snap /\ restarts < MaxRestarts
    /\ stored' = snap
    /\ UNCHANGED <<conf, up, snap, secrets, counter, flight, queue, calls, timer, present,
                   copy, seeds, arrived, since, refused, restarts>>

(* A peer of a game without hidden information holds what it was last sent. *)
Deliver ==
    /\ up /\ conf.resume /\ conf.game = "backgammon" /\ copy # snap
    /\ copy' = snap
    /\ UNCHANGED <<conf, up, snap, secrets, counter, flight, queue, calls, timer, present,
                   stored, seeds, arrived, since, refused, restarts>>

(* maybeAdopt, in the admission of a peer: a strictly longer copy replaces
   the snapshot, with its audit, draws and readiness.  It does not look at
   the draw in flight.                                                      *)
Adopt ==
    /\ Idle /\ conf.resume /\ conf.game = "backgammon"
    /\ Len(copy.log) > Len(snap.log)
    /\ snap' = copy
    /\ calls' = <<"evaluate">>
    /\ UNCHANGED <<conf, up, secrets, counter, flight, queue, timer, present, stored, copy,
                   seeds, arrived, since, refused, restarts>>

(* What dies with the process, or with a closed table.                      *)
Gone ==
    /\ up' = FALSE
    /\ secrets' = << >> /\ counter' = 0
    /\ flight' = NoFlight /\ queue' = << >> /\ calls' = << >>
    /\ timer' = FALSE /\ present' = {}

(* The process is killed, or the table is put away (close with suspend).    *)
Crash ==
    /\ up /\ restarts < MaxRestarts
    /\ Gone
    /\ restarts' = restarts + 1
    /\ UNCHANGED <<conf, snap, stored, copy, seeds, arrived, since, refused>>

(* close: an open seeded segment is revealed, and the listener told.        *)
Close ==
    /\ Idle /\ restarts < MaxRestarts
    /\ conf.mode = "seeded" /\ HasActive /\ AuditComplete(snap.segs)
    /\ snap' = [snap EXCEPT !.segs = Revealed(@, Len(snap.log))]
    /\ stored' \in {stored, snap'}
    /\ Gone
    /\ restarts' = restarts + 1
    /\ UNCHANGED <<conf, copy, seeds, arrived, since, refused>>

(* restoreSegments: an open segment's seed is lost with the process.        *)
Restored(segs, len) ==
    [i \in DOMAIN segs |->
        IF segs[i].seed = 0 /\ segs[i].to = -1 THEN [segs[i] EXCEPT !.to = len - 1]
                                               ELSE segs[i]]

(* The greatest element, as a set of one.                                   *)
Greatest(S) == {c \in S : \A d \in S : d <= c}

BeaconKeys(log) == {log[i].draw.key : i \in {j \in DOMAIN log : log[j].draw.from = "beacon"}}

(* Mutation: the largest counter seen, without the step past it. *)
LastCounter(log) == Greatest({-1} \cup BeaconKeys(log))

(* restoreBeacon: past every counter of the log; bindings that failed are
   forgotten with the process.                                              *)
NextCounter(log) == Greatest({0} \cup {key + 1 : key \in BeaconKeys(log)})

(* The constructor given a snapshot.                                        *)
Restart ==
    /\ ~up
    /\ up' = TRUE
    /\ snap' = [stored EXCEPT !.segs = Restored(@, Len(stored.log)),
                              !.pend = {}]
    /\ secrets' = [i \in DOMAIN stored.segs |->
                     [index |-> stored.segs[i].index, seed |-> stored.segs[i].seed,
                      draws |-> 0, revealed |-> TRUE]]
    /\ counter' \in IF conf.mode = "beacon" THEN NextCounter(stored.log) ELSE {0}
    /\ since' = arrived
    /\ UNCHANGED <<conf, flight, queue, calls, timer, present, stored, copy, seeds, arrived,
                   refused, restarts>>

-----------------------------------------------------------------------------
(* The specification. *)

(* create and createSeeded: a seeded table opens segment 0 before anything.  *)
Init ==
    /\ conf \in Confs
    /\ up = TRUE
    /\ LET seeded == conf.mode = "seeded"
       IN /\ snap = [log |-> << >>, pend |-> {}, ready |-> {},
                     segs |-> IF seeded THEN <<[index |-> 0, commit |-> 1, start |-> 0,
                                                to |-> -1, seed |-> 0]>>
                                        ELSE << >>]
          /\ secrets = IF seeded THEN <<[index |-> 0, seed |-> 1, draws |-> 0,
                                         revealed |-> FALSE]>>
                                 ELSE << >>
          /\ seeds = IF seeded THEN 1 ELSE 0
    /\ counter = 0 /\ flight = NoFlight /\ queue = << >> /\ calls = << >>
    /\ timer = FALSE /\ present = {}
    /\ stored = snap /\ copy = snap
    /\ arrived = 0 /\ since = 0 /\ refused = {} /\ restarts = 0

Task       == DrainStep \/ DrainEnd \/ Evaluate
Completion == FetchOk \/ SourceFails \/ SeedOk \/ SeededRun \/ Bind \/ RoundOk
              \/ RoundFails \/ Finally
Next ==
    \/ Task \/ Completion \/ Arrive \/ Fire
    \/ \E seat \in Seats : Presence(seat) \/ SetReady(seat)
    \/ Persist \/ Deliver \/ Adopt \/ Crash \/ Close \/ Restart

Spec == Init /\ [][Next]_vars

(* A task runs to its end; the event loop serves a settled await and a due
   timer however many other events arrive (strong fairness: they wait while a
   task runs); a source asked again and again answers in the end.            *)
Fairness == /\ WF_vars(Task) /\ SF_vars(Completion) /\ SF_vars(Fire)
            /\ SF_vars(FetchOk) /\ SF_vars(SeedOk) /\ SF_vars(Bind) /\ SF_vars(RoundOk)
LiveSpec == Spec /\ Fairness

-----------------------------------------------------------------------------
(* Properties. *)

(* Every variable has its type.                                             *)
TypeOK ==
    /\ conf \in Confs /\ up \in BOOLEAN
    /\ snap \in Snapshot /\ stored \in Snapshot /\ copy \in Snapshot
    /\ secrets \in Seq(Secret) /\ counter \in Nat
    /\ flight \in Flight /\ queue \in Seq(Cmd)
    /\ calls \in Seq({"drain", "evaluate"})
    /\ timer \in BOOLEAN /\ present \subseteq Seats
    /\ seeds \in Nat /\ arrived \in Nat /\ since \in Nat /\ restarts \in Nat
    /\ refused \subseteq Nat \ {0}

InFlight == Busy /\ flight.stage # "done"

(* What the players see of the pipeline, as CommandService has it.           *)
Ids(commands) == [i \in DOMAIN commands |-> commands[i].id]
Service == INSTANCE CommandService WITH
    resumes <- conf.resume,
    waiting <- Ids(IF InFlight /\ flight.id # 0 THEN <<FlightCmd>> \o queue ELSE queue),
    applied <- Ids(snap.log)

(* "Commands are applied in arrival order" (apply): behind draws, drains, the
   autopilot and restarts the table serves as CommandService does, each
   command answered once and none before an earlier one that waits.          *)
ServesInOrder == Service!Spec

(* "The state cannot have moved" (applyJustInTime): every entry was computed
   from the very state it is applied to.                                     *)
FreshState ==
    \A i \in DOMAIN snap.log : snap.log[i].base = i - 1

SegDraw(e) == e.draw.from = "segment"

(* What a verifier of a seeded table needs (verifySegment): every draw lies
   in the published range of one segment, whose commitment is to the seed it
   used, and a revealed seed is the committed one.                           *)
DrawsVerifiable ==
    \A i \in DOMAIN snap.log : SegDraw(snap.log[i]) =>
        LET draw == snap.log[i].draw
            mine == {j \in DOMAIN snap.segs : snap.segs[j].index = draw.key}
        IN  \E j \in mine :
              LET seg == snap.segs[j]
              IN  /\ mine = {j}
                  /\ seg.commit = draw.seed
                  /\ seg.start <= i - 1 /\ (seg.to # -1 => i - 1 <= seg.to)
                  /\ seg.seed \in {0, seg.commit}

(* The same random bytes never serve two entries: not two draws of a segment,
   and not two uses of a beacon counter, restarts included.                  *)
NoDrawReuse ==
    \A i, j \in DOMAIN snap.log :
        (/\ snap.log[i].draw = snap.log[j].draw
         /\ snap.log[i].draw.from \in {"segment", "beacon"}) => i = j

(* A seed is public only once nothing more is drawn from it: an entry never
   draws from a segment whose seed was already revealed when it was made.    *)
SecretWhileDrawn ==
    [][\A i \in DOMAIN snap'.log \ DOMAIN snap.log :
          SegDraw(snap'.log[i]) =>
              \A j \in DOMAIN snap.segs :
                  snap.segs[j].index = snap'.log[i].draw.key => snap.segs[j].seed = 0]_vars

(* The published bindings of a beacon table are exactly the draw that waits
   for its round, also after a failure or a restart.                         *)
NoOrphanBinding ==
    (up /\ ~conf.resume) =>
        snap.pend = IF flight.stage = "round" THEN {flight.counter} ELSE {}

(* The autopilot misses nothing: between tasks, with no draw in flight, an
   immediate decision has been taken and the timer runs exactly when a delayed
   one stands (evaluateAutopilot is called after every action, readiness and
   presence change, and by drain).                                           *)
AutopilotKeepsUp ==
    (Idle /\ ~Busy /\ conf.flow # "off" /\ (conf.apart => present # {})) =>
        /\ Decision # "now"
        /\ timer <=> Decision = "later"

(* Every command that waits, in the queue or on a source, is answered.      *)
EveryCommandAnswered == Service!Answers(MaxCmds)

(* A decision the autopilot should take does not stand forever: the hand is
   dealt, or the room is no longer ready for it.                             *)
Due == up /\ conf.flow # "off" /\ Decision # "nothing" /\ (conf.apart => present # {})
AutopilotDeals == Due ~> ~Due

(* "Revealed when it ends" (segmentBoundary): while a hand is being played the
   seed of the segment it draws from is not public.                          *)
SeedHiddenDuringHand ==
    (up /\ Phase(snap.log) = "hand") =>
        \A i \in DOMAIN snap.log :
            (SegDraw(snap.log[i]) /\ \A k \in i + 1 .. Len(snap.log) :
                                          snap.log[k].kind # "start")
            => \A j \in DOMAIN snap.segs :
                   (snap.segs[j].index = snap.log[i].draw.key) => snap.segs[j].seed = 0
=============================================================================
