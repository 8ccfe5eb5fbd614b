-------------------------- MODULE TableFlow_proofs --------------------------
(***************************************************************************)
(* Theorems about TableFlow, for every set of seats, every set of          *)
(* configurations and every bound: its types, the published beacon         *)
(* bindings, and the state a draw was computed from.  Then its randomness: *)
(* no draw serves two entries, a seed stays secret while it is drawn from, *)
(* and every draw can be verified, as long as a peer brings a copy back    *)
(* only to a table that draws nothing asynchronously (ResumeWithoutDraws). *)
(* At last the commands: TableFlow implements CommandService, that is,     *)
(* behind draws in flight, drains, the autopilot, crashes and restarts the *)
(* table answers every command once and in the order of arrival; and the   *)
(* autopilot misses nothing.                                               *)
(***************************************************************************)
EXTENDS TableFlow, ProofLemmas

(* Revealing a seed leaves a sequence of public segment records.            *)
LEMMA RevealInType ==
    ASSUME NEW segs \in Seq(Segment), NEW index \in Nat, NEW seed \in Nat, NEW len \in Nat
    PROVE  RevealIn(segs, index, seed, len) \in Seq(Segment)
<1> DEFINE f == RevealIn(segs, index, seed, len)
<1>1. ASSUME NEW i \in DOMAIN segs PROVE f[i] \in Segment
  <2>1. PICK s \in Segment : s = segs[i]
    BY SeqEntries
  <2>2. f[i] = IF s.index = index
               THEN [s EXCEPT !.seed = seed,
                              !.to = IF s.start > len - 1 THEN s.start ELSE len - 1]
               ELSE s
    BY <2>1 DEF RevealIn
  <2>3. s.start \in Int /\ len - 1 \in Int
    BY DEF Segment
  <2> QED BY <2>1, <2>2, <2>3 DEF Segment
<1>2. f = [i \in DOMAIN segs |-> f[i]]
  BY DEF RevealIn
<1>3. f \in Seq(Segment)
  <2> HIDE DEF f
  <2> QED BY <1>1, <1>2, MappedSeq
<1> QED BY <1>3

(* So does closing the open segment of a restored snapshot.                 *)
LEMMA RestoredType ==
    ASSUME NEW segs \in Seq(Segment), NEW len \in Nat
    PROVE  Restored(segs, len) \in Seq(Segment)
<1> DEFINE f == Restored(segs, len)
<1>1. ASSUME NEW i \in DOMAIN segs PROVE f[i] \in Segment
  <2>1. PICK s \in Segment : s = segs[i]
    BY SeqEntries
  <2>2. f[i] = IF s.seed = 0 /\ s.to = -1 THEN [s EXCEPT !.to = len - 1] ELSE s
    BY <2>1 DEF Restored
  <2>3. len - 1 \in Int
    OBVIOUS
  <2>4. [s EXCEPT !.to = len - 1] \in Segment
    BY <2>1, <2>3 DEF Segment
  <2> QED BY <2>1, <2>2, <2>4
<1>2. f = [i \in DOMAIN segs |-> f[i]]
  BY DEF Restored
<1>3. f \in Seq(Segment)
  <2> HIDE DEF f
  <2> QED BY <1>1, <1>2, MappedSeq
<1> QED BY <1>3

(* The newest private segment, when there is one.                           *)
LEMMA LastSecret ==
    ASSUME secrets \in Seq(Secret), secrets # << >>
    PROVE  Last(secrets) \in Secret
BY LenProperties, ElementOfSeq, EmptySeq DEF Last

(* Marking the newest private segment revealed keeps their number and types. *)
LEMMA RevealSecretType ==
    ASSUME secrets \in Seq(Secret)
    PROVE  RevealSecret \in Seq(Secret) /\ Len(RevealSecret) = Len(secrets)
<1> DEFINE f == RevealSecret
<1>1. ASSUME NEW i \in DOMAIN secrets PROVE f[i] \in Secret
  <2>1. PICK s \in Secret : s = secrets[i]
    BY SeqEntries
  <2>2. f[i] = IF i = Len(secrets) THEN [s EXCEPT !.revealed = TRUE] ELSE s
    BY <2>1 DEF RevealSecret
  <2> QED BY <2>1, <2>2 DEF Secret
<1>2. f = [i \in DOMAIN secrets |-> f[i]]
  BY DEF RevealSecret
<1>3. f \in Seq(Secret) /\ Len(f) = Len(secrets)
  <2> HIDE DEF f
  <2> QED BY <1>1, <1>2, MappedSeq
<1> QED BY <1>3

(* So does counting a draw from it.                                         *)
LEMMA SegmentDrawnType ==
    ASSUME secrets \in Seq(Secret)
    PROVE  SegmentDrawn \in Seq(Secret) /\ Len(SegmentDrawn) = Len(secrets)
<1> DEFINE f == SegmentDrawn
<1>1. ASSUME NEW i \in DOMAIN secrets PROVE f[i] \in Secret
  <2>1. PICK s \in Secret : s = secrets[i]
    BY SeqEntries
  <2>2. f[i] = IF i = Len(secrets) THEN [s EXCEPT !.draws = s.draws + 1] ELSE s
    BY <2>1 DEF SegmentDrawn
  <2> QED BY <2>1, <2>2 DEF Secret
<1>2. f = [i \in DOMAIN secrets |-> f[i]]
  BY DEF SegmentDrawn
<1>3. f \in Seq(Secret) /\ Len(f) = Len(secrets)
  <2> HIDE DEF f
  <2> QED BY <1>1, <1>2, MappedSeq
<1> QED BY <1>3

(* What the reveal of the active segment publishes is well typed.           *)
LEMMA RevealedType ==
    ASSUME secrets \in Seq(Secret), NEW segs \in Seq(Segment), NEW len \in Nat
    PROVE  Revealed(segs, len) \in Seq(Segment)
<1>1. CASE HasActive
  <2>1. Last(secrets) \in Secret
    BY <1>1, LastSecret DEF HasActive
  <2>2. Last(secrets).index \in Nat /\ Last(secrets).seed \in Nat
    BY <2>1 DEF Secret
  <2> QED BY <1>1, <2>2, RevealInType DEF Revealed
<1> QED BY <1>1 DEF Revealed

(* A draw from the newest private segment is a draw.                        *)
LEMMA SegmentDrawType ==
    ASSUME secrets \in Seq(Secret), secrets # << >>
    PROVE  SegmentDraw \in Draw
BY LastSecret DEF SegmentDraw, Secret, Draw


-----------------------------------------------------------------------------
(* Every action keeps the types. *)

(* TypeOK alone is not inductive: SeededRun draws from the newest secret,
   which the seed that just arrived put there.                              *)
SeedThere == flight.stage = "seeded" => secrets # << >>
TypeInv   == TypeOK /\ SeedThere

(* A process that is down has no draw in flight.                            *)
DownAtRest == ~up => flight = NoFlight

(* No step leaves a draw in flight in a process that is down.               *)
LEMMA DownRests ==
    DownAtRest /\ [Next]_vars => DownAtRest'
<1> SUFFICES ASSUME DownAtRest, [Next]_vars PROVE DownAtRest'
  OBVIOUS
<1> USE DEF DownAtRest
<1>1. CASE UNCHANGED vars
  BY <1>1 DEF vars
<1>2. CASE Task
  BY <1>2 DEF Task, DrainStep, DrainEnd, Evaluate, Running
<1>3. CASE Completion
  BY <1>3 DEF Completion, FetchOk, SourceFails, SeedOk, SeededRun, Bind, RoundOk,
              RoundFails, Finally, AtStage, Idle, completionFrame
<1>4. CASE Arrive \/ Fire \/ Adopt
  BY <1>4 DEF Arrive, Fire, Adopt, Idle
<1>5. ASSUME NEW seat \in Seats, Presence(seat) \/ SetReady(seat) PROVE DownAtRest'
  BY <1>5 DEF Presence, SetReady
<1>6. CASE Persist \/ Deliver \/ Restart
  BY <1>6 DEF Persist, Deliver, Restart
<1>7. CASE Crash \/ Close
  BY <1>7 DEF Crash, Close, Gone
<1> QED BY <1>1, <1>2, <1>3, <1>4, <1>5, <1>6, <1>7 DEF Next

(* commit, applied, thrown or refused, keeps the types.                     *)
LEMMA CommitTyped ==
    ASSUME TypeOK, NEW cmd \in Cmd, NEW base \in Nat, NEW draw, NEW fresh \in Seq(Secret),
           Legal(cmd.kind, snap.log) => draw \in Draw,
           \/ CommitOk(cmd, base, draw, fresh)
           \/ CommitThrows(cmd, base, draw, fresh)
           \/ CommitRefused(cmd)
    PROVE  /\ snap' \in Snapshot /\ secrets' \in Seq(Secret)
           /\ refused' \subseteq Nat \ {0}
<1> DEFINE entry == [kind |-> cmd.kind, id |-> cmd.id, base |-> base, draw |-> draw]
           log   == Append(snap.log, entry)
<1>1. /\ snap \in Snapshot /\ secrets \in Seq(Secret) /\ refused \subseteq Nat \ {0}
      /\ snap.log \in Seq(Entry) /\ snap.segs \in Seq(Segment)
  BY DEF TypeOK, Snapshot
<1>2. ASSUME Legal(cmd.kind, snap.log)
      PROVE  log \in Seq(Entry) /\ Len(log) \in Nat
  <2>1. entry \in Entry
    BY <1>2 DEF Entry, Cmd
  <2> QED BY <1>1, <2>1, AppendProperties, LenProperties
<1>3. CASE CommitOk(cmd, base, draw, fresh)
  <2>1. log \in Seq(Entry) /\ Len(log) \in Nat
    BY <1>2, <1>3 DEF CommitOk
  <2>2. Revealed(snap.segs, Len(log)) \in Seq(Segment)
    BY <1>1, <2>1, RevealedType
  <2>3. PICK segs \in Seq(Segment), ready \in SUBSET Seats :
          snap' = [snap EXCEPT !.log = log, !.ready = ready, !.segs = segs]
    <3> DEFINE segs == IF conf.mode = "seeded" /\ cmd.kind = "finish"
                       THEN Revealed(snap.segs, Len(log)) ELSE snap.segs
               ready == IF cmd.kind = "start" THEN {} ELSE snap.ready
    <3>1. segs \in Seq(Segment) /\ ready \in SUBSET Seats
      BY <1>1, <2>2 DEF Snapshot
    <3>2. snap' = [snap EXCEPT !.log = log, !.ready = ready, !.segs = segs]
      BY <1>3 DEF CommitOk
    <3> HIDE DEF segs, ready, log
    <3> QED BY <3>1, <3>2
  <2>4. snap' \in Snapshot
    <3> HIDE DEF log
    <3> QED BY <1>1, <2>1, <2>3 DEF Snapshot
  <2>5. secrets' \in Seq(Secret)
    BY <1>1, <1>3, RevealSecretType DEF CommitOk
  <2> QED BY <1>1, <1>3, <2>4, <2>5 DEF CommitOk
<1>4. CASE CommitThrows(cmd, base, draw, fresh)
  <2>1. log \in Seq(Entry)
    BY <1>2, <1>4 DEF CommitThrows
  <2>2. PICK ready \in SUBSET Seats : snap' = [snap EXCEPT !.log = log, !.ready = ready]
    <3> DEFINE ready == IF cmd.kind = "start" THEN {} ELSE snap.ready
    <3>1. ready \in SUBSET Seats
      BY <1>1 DEF Snapshot
    <3>2. snap' = [snap EXCEPT !.log = log, !.ready = ready]
      BY <1>4 DEF CommitThrows
    <3> HIDE DEF ready, log
    <3> QED BY <3>1, <3>2
  <2>3. snap' \in Snapshot
    <3> HIDE DEF log
    <3> QED BY <1>1, <2>1, <2>2 DEF Snapshot
  <2> QED BY <1>1, <1>4, <2>3 DEF CommitThrows
<1>5. CASE CommitRefused(cmd)
  BY <1>1, <1>5 DEF CommitRefused, Refuse, Cmd
<1> QED BY <1>3, <1>4, <1>5

(* A legal synchronous command has its draw: apply sends it down the
   asynchronous path when its segment is not active.                         *)
LEMMA NeedsActive ==
    ASSUME NEW cmd \in Cmd, AsyncStage(cmd.kind) = "idle", Legal(cmd.kind, snap.log),
           TypeOK
    PROVE  SyncDraw(cmd.kind) \in Draw
<1>1. secrets \in Seq(Secret)
  BY DEF TypeOK
<1>2. CASE Draws(cmd.kind) /\ conf.mode = "seeded"
  <2>1. HasActive
    BY <1>2 DEF AsyncStage, NeedsEntropy
  <2> QED BY <1>1, <1>2, <2>1, SegmentDrawType DEF HasActive, SyncDraw
<1>3. CASE ~(Draws(cmd.kind) /\ conf.mode = "seeded")
  BY <1>3 DEF SyncDraw, Draw, NoDraw, Fetched
<1> QED BY <1>2, <1>3

(* apply keeps the types, and never starts in the middle of a segment start. *)
LEMMA ApplyNowTyped ==
    ASSUME TypeOK, ~Busy, NEW cmd \in Cmd, NEW rest \in Seq({"drain", "evaluate"}),
           ApplyNow(cmd, rest)
    PROVE  /\ snap' \in Snapshot /\ secrets' \in Seq(Secret)
           /\ refused' \subseteq Nat \ {0}
           /\ flight' \in Flight /\ flight'.stage # "seeded"
           /\ calls' \in Seq({"drain", "evaluate"})
<1>1. /\ snap \in Snapshot /\ secrets \in Seq(Secret) /\ flight \in Flight
      /\ Len(snap.log) \in Nat /\ refused \subseteq Nat \ {0}
  BY LenProperties DEF TypeOK, Snapshot
<1>2. CASE BeginFlight(cmd) /\ calls' = rest
  <2>1. AsyncStage(cmd.kind) \in Stages /\ AsyncStage(cmd.kind) # "seeded"
    BY DEF AsyncStage, Stages
  <2>2. flight' \in Flight /\ flight'.stage # "seeded"
    BY <1>1, <1>2, <2>1 DEF BeginFlight, Flight, Cmd
  <2> QED BY <1>1, <1>2, <2>2 DEF BeginFlight
<1>3. CASE ~(BeginFlight(cmd) /\ calls' = rest)
  <2> DEFINE draw  == SyncDraw(cmd.kind)
             fresh == SyncSecrets(cmd.kind)
             base  == Len(snap.log)
  <2>1. /\ AsyncStage(cmd.kind) = "idle" /\ flight' = flight
        /\ \/ /\ CommitOk(cmd, base, draw, fresh)
              /\ calls' = IF rest # << >> /\ Head(rest) = "evaluate"
                          THEN rest ELSE <<"evaluate">> \o rest
           \/ CommitThrows(cmd, base, draw, fresh) /\ calls' = << >>
           \/ CommitRefused(cmd) /\ calls' = rest
    BY <1>3 DEF ApplyNow
  <2>2. Legal(cmd.kind, snap.log) => draw \in Draw
    BY <2>1, NeedsActive
  <2>3. fresh \in Seq(Secret)
    BY <1>1, SegmentDrawnType DEF SyncSecrets
  <2>4. /\ snap' \in Snapshot /\ secrets' \in Seq(Secret)
        /\ refused' \subseteq Nat \ {0}
    <3> HIDE DEF draw, fresh, base
    <3>1. base \in Nat
      BY <1>1 DEF base
    <3> QED BY <2>1, <2>2, <2>3, <3>1, CommitTyped
  <2>5. calls' \in Seq({"drain", "evaluate"})
    <3>1. <<"evaluate">> \o rest \in Seq({"drain", "evaluate"})
      BY ConcatProperties
    <3>2. << >> \in Seq({"drain", "evaluate"})
      BY EmptySeq
    <3> QED BY <2>1, <3>1, <3>2
  <2>6. flight' \in Flight /\ flight'.stage # "seeded"
    BY <1>1, <2>1 DEF Busy
  <2> QED BY <2>4, <2>5, <2>6
<1> QED BY <1>2, <1>3

(* Every step keeps the types.                                              *)
LEMMA Typed ==
    TypeInv /\ DownAtRest /\ [Next]_vars => TypeInv'
<1> SUFFICES ASSUME TypeInv, DownAtRest, [Next]_vars PROVE TypeInv'
  OBVIOUS
<1> USE DEF TypeInv
<1>0. /\ snap \in Snapshot /\ stored \in Snapshot /\ copy \in Snapshot
      /\ secrets \in Seq(Secret) /\ flight \in Flight
      /\ snap.log \in Seq(Entry) /\ snap.segs \in Seq(Segment)
      /\ Len(snap.log) \in Nat
      /\ queue \in Seq(Cmd) /\ calls \in Seq({"drain", "evaluate"})
  BY LenProperties DEF TypeOK, Snapshot
<1>1. CASE UNCHANGED vars
  BY <1>1 DEF vars, TypeOK, SeedThere
<1>2. CASE DrainStep
  <2>1. Head(queue) \in Cmd /\ Tail(queue) \in Seq(Cmd)
    BY <1>0, <1>2, HeadTailProperties DEF DrainStep
  <2>2. ~Busy /\ ApplyNow(Head(queue), calls)
    BY <1>2 DEF DrainStep
  <2>3. /\ snap' \in Snapshot /\ secrets' \in Seq(Secret)
        /\ refused' \subseteq Nat \ {0}
        /\ flight' \in Flight /\ flight'.stage # "seeded"
        /\ calls' \in Seq({"drain", "evaluate"})
    BY <1>0, <2>1, <2>2, ApplyNowTyped
  <2> QED BY <1>2, <2>1, <2>3 DEF DrainStep, TypeOK, SeedThere
<1>3. CASE DrainEnd
  <2>1. Tail(calls) \in Seq({"drain", "evaluate"})
    BY <1>0, <1>3, HeadTailProperties DEF DrainEnd, Running
  <2>2. <<"evaluate">> \o Tail(calls) \in Seq({"drain", "evaluate"})
    BY <2>1, ConcatProperties
  <2> QED BY <1>3, <2>1, <2>2 DEF DrainEnd, TypeOK, SeedThere
<1>4. CASE Evaluate
  <2>1. Tail(calls) \in Seq({"drain", "evaluate"})
    BY <1>0, <1>4, HeadTailProperties DEF Evaluate, Running
  <2>2. CASE ~Busy /\ ApplyNow([kind |-> "start", id |-> 0], calls)
    <3>1. [kind |-> "start", id |-> 0] \in Cmd
      BY DEF Cmd, Kinds
    <3>2. /\ snap' \in Snapshot /\ secrets' \in Seq(Secret)
          /\ refused' \subseteq Nat \ {0}
          /\ flight' \in Flight /\ flight'.stage # "seeded"
          /\ calls' \in Seq({"drain", "evaluate"})
      BY <1>0, <2>2, <3>1, ApplyNowTyped
    <3> QED BY <1>4, <3>2 DEF Evaluate, TypeOK, SeedThere
  <2>3. CASE calls' = Tail(calls) /\ UNCHANGED <<snap, secrets, flight, refused>>
    BY <1>4, <2>1, <2>3 DEF Evaluate, TypeOK, SeedThere
  <2> QED BY <1>4, <2>2, <2>3 DEF Evaluate
<1>5. CASE Arrive
  <2>1. PICK kind \in Kinds :
          LET cmd == [kind |-> kind, id |-> arrived + 1] IN
          \/ /\ queue' = Append(queue, cmd)
             /\ UNCHANGED <<snap, secrets, refused, flight, calls>>
          \/ ~Busy /\ ApplyNow(cmd, << >>) /\ UNCHANGED queue
    BY <1>5 DEF Arrive
  <2> DEFINE cmd == [kind |-> kind, id |-> arrived + 1]
  <2>4. cmd \in Cmd
    BY DEF Cmd, TypeOK
  <2>2. Append(queue, cmd) \in Seq(Cmd)
    BY <1>0, <2>4, AppendProperties
  <2> HIDE DEF cmd
  <2>3. CASE ~Busy /\ ApplyNow(cmd, << >>) /\ UNCHANGED queue
    <3>1. << >> \in Seq({"drain", "evaluate"})
      BY EmptySeq
    <3>2. /\ snap' \in Snapshot /\ secrets' \in Seq(Secret)
          /\ refused' \subseteq Nat \ {0}
          /\ flight' \in Flight /\ flight'.stage # "seeded"
          /\ calls' \in Seq({"drain", "evaluate"})
      BY <2>3, <2>4, <3>1, ApplyNowTyped
    <3> QED BY <1>5, <2>3, <3>2 DEF Arrive, TypeOK, SeedThere
  <2>5. CASE /\ queue' = Append(queue, cmd)
             /\ UNCHANGED <<snap, secrets, refused, flight, calls>>
    BY <1>5, <2>2, <2>5 DEF Arrive, TypeOK, SeedThere
  <2> QED BY <2>1, <2>3, <2>5 DEF cmd
<1>6. CASE Fire
  <2>1. <<"evaluate">> \in Seq({"drain", "evaluate"})
    OBVIOUS
  <2>2. CASE ~Busy /\ ApplyNow([kind |-> "start", id |-> 0], <<"evaluate">>)
    <3>1. [kind |-> "start", id |-> 0] \in Cmd
      BY DEF Cmd, Kinds
    <3>2. /\ snap' \in Snapshot /\ secrets' \in Seq(Secret)
          /\ refused' \subseteq Nat \ {0}
          /\ flight' \in Flight /\ flight'.stage # "seeded"
          /\ calls' \in Seq({"drain", "evaluate"})
      BY <2>1, <2>2, <3>1, ApplyNowTyped
    <3> QED BY <1>6, <3>2 DEF Fire, TypeOK, SeedThere
  <2>3. CASE calls' \in {calls, <<"evaluate">>} /\ UNCHANGED <<snap, secrets, flight, refused>>
    BY <1>6, <2>1, <2>3 DEF Fire, TypeOK, SeedThere
  <2> QED BY <1>6, <2>2, <2>3 DEF Fire
<1>7. ASSUME NEW seat \in Seats, Presence(seat) PROVE TypeInv'
  BY <1>7 DEF Presence, TypeOK, SeedThere
<1>8. ASSUME NEW seat \in Seats, SetReady(seat) PROVE TypeInv'
  <2>1. PICK ready \in SUBSET Seats : snap' = [snap EXCEPT !.ready = ready]
    <3>1. snap.ready \in SUBSET Seats
      BY <1>0 DEF Snapshot
    <3> DEFINE r == IF seat \in snap.ready THEN snap.ready \ {seat} ELSE snap.ready \cup {seat}
    <3>2. r \in SUBSET Seats /\ snap' = [snap EXCEPT !.ready = r]
      BY <1>8, <3>1 DEF SetReady
    <3> HIDE DEF r
    <3> QED BY <3>2
  <2>2. snap' \in Snapshot
    BY <1>0, <2>1 DEF Snapshot
  <2> QED BY <1>8, <2>2 DEF SetReady, TypeOK, SeedThere
<1>9. CASE FetchOk \/ SeededRun
  <2>1. FlightCmd \in Cmd /\ flight.base \in Nat
    BY <1>0 DEF FlightCmd, Flight, Cmd
  <2>2. flight' \in Flight /\ flight'.stage = "done"
    BY <1>0, <1>9 DEF FetchOk, SeededRun, Done, Flight, Stages
  <2>3. /\ snap' \in Snapshot /\ secrets' \in Seq(Secret)
        /\ refused' \subseteq Nat \ {0}
    <3>1. CASE FetchOk
      <4>1. Fetched \in Draw
        BY DEF Fetched, NoDraw, Draw
      <4>2. CommitLate(flight.base, Fetched, secrets)
        BY <3>1 DEF FetchOk
      <4> QED BY <1>0, <2>1, <4>1, <4>2, CommitTyped DEF CommitLate
    <3>2. CASE SeededRun
      <4> DEFINE d == IF NeedsEntropy(flight.kind) THEN SegmentDraw ELSE NoDraw
                 f == IF NeedsEntropy(flight.kind) THEN SegmentDrawn ELSE secrets
      <4>1. d \in Draw
        BY <1>0, <3>2, SegmentDrawType DEF SeededRun, AtStage, SeedThere, NoDraw, Draw
      <4>2. f \in Seq(Secret)
        BY <1>0, SegmentDrawnType
      <4>3. CommitLate(Len(snap.log), d, f)
        BY <3>2 DEF SeededRun
      <4> HIDE DEF d, f
      <4> QED BY <1>0, <2>1, <4>1, <4>2, <4>3, CommitTyped DEF CommitLate
    <3> QED BY <1>9, <3>1, <3>2
  <2> QED BY <1>9, <2>2, <2>3 DEF FetchOk, SeededRun, completionFrame, TypeOK, SeedThere
<1>10. CASE SourceFails
  <2>1. flight' \in Flight /\ flight'.stage = "done"
    BY <1>0, <1>10 DEF SourceFails, Done, Flight, Stages
  <2>2. refused' \subseteq Nat \ {0}
    BY <1>0, <1>10 DEF SourceFails, Refuse, TypeOK, Flight
  <2> QED BY <1>10, <2>1, <2>2 DEF SourceFails, completionFrame, TypeOK, SeedThere
<1>11. CASE SeedOk
  <2> DEFINE base   == IF HasActive THEN RevealSecret ELSE secrets
             secret == [index |-> Len(secrets), seed |-> seeds + 1,
                        draws |-> 0, revealed |-> FALSE]
             public == [index |-> Len(secrets), commit |-> seeds + 1,
                        start |-> Len(snap.log), to |-> -1, seed |-> 0]
             segs   == Revealed(snap.segs, Len(snap.log))
  <2>1. seeds' \in Nat /\ seeds + 1 \in Nat /\ Len(secrets) \in Nat
    BY <1>0, <1>11, LenProperties DEF SeedOk, TypeOK
  <2>2. secret \in Secret /\ public \in Segment
    BY <1>0, <2>1 DEF Secret, Segment
  <2>3. base \in Seq(Secret) /\ segs \in Seq(Segment)
    BY <1>0, RevealSecretType, RevealedType
  <2>4. secrets' = Append(base, secret) /\ snap' = [snap EXCEPT !.segs = Append(segs, public)]
    BY <1>11 DEF SeedOk
  <2>5. flight' \in Flight
    BY <1>0, <1>11 DEF SeedOk, Flight, Stages
  <2> HIDE DEF base, secret, public, segs
  <2>6. secrets' \in Seq(Secret) /\ Len(secrets') > 0
    BY <2>2, <2>3, <2>4, AppendProperties, LenProperties
  <2>7. secrets' # << >>
    BY <2>6, EmptySeq
  <2>8. Append(segs, public) \in Seq(Segment)
    BY <2>2, <2>3, AppendProperties
  <2>9. snap' \in Snapshot
    BY <1>0, <2>4, <2>8 DEF Snapshot
  <2> QED BY <1>11, <2>1, <2>5, <2>6, <2>7, <2>9
          DEF SeedOk, completionFrame, TypeOK, SeedThere
<1>12. CASE Bind
  <2>1. counter \in Nat /\ counter' \in Nat
    BY <1>12 DEF Bind, TypeOK
  <2>2. flight' \in Flight /\ flight'.stage = "round"
    BY <1>0, <1>12, <2>1 DEF Bind, Flight, Stages
  <2>3. snap.pend \cup {counter} \in SUBSET Nat
    BY <1>0, <2>1 DEF Snapshot
  <2>4. snap' \in Snapshot
    BY <1>0, <1>12, <2>3 DEF Bind, Snapshot
  <2> QED BY <1>12, <2>1, <2>2, <2>4 DEF Bind, completionFrame, TypeOK, SeedThere
<1>13. CASE RoundOk
  <2> DEFINE draw  == [NoDraw EXCEPT !.from = "beacon", !.key = flight.counter]
             entry == [kind |-> flight.kind, id |-> flight.id,
                       base |-> flight.base, draw |-> draw]
             log   == Append(snap.log, entry)
             pend  == snap.pend \ {flight.counter}
  <2>1. flight' \in Flight /\ flight'.stage = "done"
    BY <1>0, <1>13 DEF RoundOk, Done, Flight, Stages
  <2>2. draw \in Draw
    BY <1>0 DEF NoDraw, Draw, Flight
  <2>3. entry \in Entry
    <3> HIDE DEF draw
    <3> QED BY <1>0, <2>2 DEF Entry, Flight
  <2>4. log \in Seq(Entry) /\ pend \in SUBSET Nat
    <3> HIDE DEF entry
    <3> QED BY <1>0, <2>3, AppendProperties DEF Snapshot
  <2>5. CASE /\ snap' = [snap EXCEPT !.pend  = pend, !.log = log,
                                     !.ready = IF flight.kind = "start" THEN {} ELSE snap.ready]
             /\ UNCHANGED refused
    <3>1. snap' \in Snapshot
      <4> HIDE DEF log, pend
      <4>1. (IF flight.kind = "start" THEN {} ELSE snap.ready) \in SUBSET Seats
        BY <1>0 DEF Snapshot
      <4> QED BY <1>0, <2>4, <2>5, <4>1 DEF Snapshot
    <3> QED BY <1>13, <2>1, <2>5, <3>1 DEF RoundOk, completionFrame, TypeOK, SeedThere
  <2>6. CASE snap' = [snap EXCEPT !.pend = pend] /\ Refuse(flight.id)
    <3>1. snap' \in Snapshot
      BY <1>0, <2>4, <2>6 DEF Snapshot
    <3>2. refused' \subseteq Nat \ {0}
      BY <1>0, <2>6 DEF Refuse, TypeOK, Flight
    <3> QED BY <1>13, <2>1, <3>1, <3>2 DEF RoundOk, completionFrame, TypeOK, SeedThere
  <2> QED BY <1>13, <2>5, <2>6 DEF RoundOk, FlightCmd
<1>14. CASE RoundFails
  <2>1. flight' \in Flight /\ flight'.stage = "done"
    BY <1>0, <1>14 DEF RoundFails, Done, Flight, Stages
  <2>2. refused' \subseteq Nat \ {0}
    BY <1>0, <1>14 DEF RoundFails, Refuse, TypeOK, Flight
  <2>3. snap' \in Snapshot
    BY <1>0, <1>14 DEF RoundFails, Snapshot
  <2> QED BY <1>14, <2>1, <2>2, <2>3 DEF RoundFails, completionFrame, TypeOK, SeedThere
<1>15. CASE Finally
  <2>1. NoFlight \in Flight /\ NoFlight.stage # "seeded"
    BY DEF NoFlight, Flight, Stages, Kinds
  <2>2. <<"drain">> \in Seq({"drain", "evaluate"})
    OBVIOUS
  <2> QED BY <1>15, <2>1, <2>2 DEF Finally, TypeOK, SeedThere
<1>16. CASE Persist \/ Deliver \/ Adopt
  <2>1. <<"evaluate">> \in Seq({"drain", "evaluate"})
    OBVIOUS
  <2> QED BY <1>16, <2>1 DEF Persist, Deliver, Adopt, TypeOK, SeedThere
<1>17. CASE Crash \/ Close
  <2>1. NoFlight \in Flight /\ NoFlight.stage # "seeded"
    BY DEF NoFlight, Flight, Stages, Kinds
  <2>2. /\ << >> \in Seq(Secret) /\ << >> \in Seq(Cmd)
        /\ << >> \in Seq({"drain", "evaluate"})
    BY EmptySeq
  <2>3. Gone /\ UNCHANGED <<conf, copy, seeds, arrived, since, refused>>
        /\ restarts' = restarts + 1
    BY <1>17 DEF Crash, Close
  <2>4. snap' \in Snapshot /\ stored' \in Snapshot
    <3>1. CASE Crash
      BY <1>0, <3>1 DEF Crash
    <3>2. CASE Close
      <4>1. Revealed(snap.segs, Len(snap.log)) \in Seq(Segment)
        BY <1>0, RevealedType
      <4>2. snap' \in Snapshot
        BY <1>0, <3>2, <4>1 DEF Close, Snapshot
      <4> QED BY <1>0, <3>2, <4>2 DEF Close
    <3> QED BY <1>17, <3>1, <3>2
  <2>5. /\ flight' \in Flight /\ flight'.stage # "seeded" /\ secrets' \in Seq(Secret)
        /\ queue' \in Seq(Cmd) /\ calls' \in Seq({"drain", "evaluate"})
    BY <2>1, <2>2, <2>3 DEF Gone
  <2>6. /\ up' \in BOOLEAN /\ timer' \in BOOLEAN /\ present' \subseteq Seats
        /\ counter' \in Nat /\ restarts' \in Nat
    <3>1. restarts \in Nat
      BY DEF TypeOK
    <3>2. /\ restarts' = restarts + 1 /\ counter' = 0
          /\ up' = FALSE /\ timer' = FALSE /\ present' = {}
      BY <2>3 DEF Gone
    <3>3. restarts' \in Nat /\ counter' \in Nat
      BY <3>1, <3>2, SMT
    <3>4. up' \in BOOLEAN /\ timer' \in BOOLEAN /\ present' \subseteq Seats
      BY <3>2, Zenon
    <3> QED BY <3>3, <3>4
  <2>7. /\ conf' \in Confs /\ copy' \in Snapshot /\ seeds' \in Nat /\ arrived' \in Nat
        /\ since' \in Nat /\ refused' \subseteq Nat \ {0}
    BY <2>3 DEF TypeOK
  <2> QED BY <2>4, <2>5, <2>6, <2>7 DEF TypeOK, SeedThere
<1>18. CASE Restart
  <2> DEFINE f == [i \in DOMAIN stored.segs |->
                     [index |-> stored.segs[i].index, seed |-> stored.segs[i].seed,
                      draws |-> 0, revealed |-> TRUE]]
  <2>1. stored.segs \in Seq(Segment) /\ stored.log \in Seq(Entry) /\ Len(stored.log) \in Nat
    BY <1>0, LenProperties DEF Snapshot
  <2>2. f \in Seq(Secret)
    <3>1. \A i \in DOMAIN stored.segs : f[i] \in Secret
      <4> TAKE i \in DOMAIN stored.segs
      <4>1. PICK s \in Segment : s = stored.segs[i]
        BY <2>1, SeqEntries
      <4> QED BY <4>1 DEF Segment, Secret
    <3>2. f = [i \in DOMAIN stored.segs |-> f[i]]
      OBVIOUS
    <3> HIDE DEF f
    <3> QED BY <2>1, <3>1, <3>2, MappedSeq
  <2>3. secrets' = f
    BY <1>18 DEF Restart
  <2>4. Restored(stored.segs, Len(stored.log)) \in Seq(Segment)
    BY <2>1, RestoredType
  <2>5. snap' \in Snapshot
    BY <1>0, <1>18, <2>4 DEF Restart, Snapshot
  <2>6. counter' \in Nat
    <3>1. \A c \in NextCounter(stored.log) : c \in Nat
      <4>1. \A key \in BeaconKeys(stored.log) : key \in Nat
        <5> TAKE key \in BeaconKeys(stored.log)
        <5>1. PICK i \in DOMAIN stored.log : key = stored.log[i].draw.key
          BY DEF BeaconKeys
        <5>2. stored.log[i] \in Entry
          BY <2>1, SeqEntries
        <5>3. stored.log[i].draw \in Draw
          BY <5>2 DEF Entry
        <5> QED BY <5>1, <5>3 DEF Draw
      <4> QED BY <4>1 DEF NextCounter, Greatest
    <3> QED BY <1>18, <3>1 DEF Restart
  <2>7. flight.stage # "seeded"
    BY <1>18 DEF Restart, DownAtRest, NoFlight
  <2> HIDE DEF f
  <2> QED BY <1>18, <2>2, <2>3, <2>5, <2>6, <2>7 DEF Restart, TypeOK, SeedThere
<1> QED BY <1>1, <1>2, <1>3, <1>4, <1>5, <1>6, <1>7, <1>8, <1>9, <1>10, <1>11, <1>12,
           <1>13, <1>14, <1>15, <1>16, <1>17, <1>18
        DEF Next, Task, Completion

(* The initial states are well typed.                                       *)
LEMMA InitTyped ==
    Init => TypeInv /\ DownAtRest
<1> SUFFICES ASSUME Init PROVE TypeInv /\ DownAtRest
  OBVIOUS
<1> DEFINE seg    == [index |-> 0, commit |-> 1, start |-> 0, to |-> -1, seed |-> 0]
           secret == [index |-> 0, seed |-> 1, draws |-> 0, revealed |-> FALSE]
<1>1. seg \in Segment /\ secret \in Secret
  BY DEF Segment, Secret
<1>2. << >> \in Seq(Segment) /\ << >> \in Seq(Secret) /\ << >> \in Seq(Entry)
  BY EmptySeq
<1>3. << >> \in Seq(Cmd) /\ << >> \in Seq({"drain", "evaluate"})
  BY EmptySeq
<1> DEFINE segs == IF conf.mode = "seeded" THEN <<seg>> ELSE << >>
           hide == IF conf.mode = "seeded" THEN <<secret>> ELSE << >>
<1>4. segs \in Seq(Segment) /\ hide \in Seq(Secret)
  <2> HIDE DEF seg, secret
  <2> QED BY <1>1, <1>2
<1>5. snap = [log |-> << >>, pend |-> {}, ready |-> {}, segs |-> segs] /\ secrets = hide
  BY DEF Init
<1>6. snap \in Snapshot /\ secrets \in Seq(Secret)
  <2> HIDE DEF segs, hide
  <2> QED BY <1>2, <1>4, <1>5 DEF Snapshot
<1>7. NoFlight \in Flight /\ NoFlight.stage # "seeded"
  BY DEF NoFlight, Flight, Stages, Kinds
<1>8. seeds \in Nat
  BY DEF Init
<1> HIDE DEF segs, hide
<1> QED BY <1>3, <1>6, <1>7, <1>8 DEF Init, TypeInv, TypeOK, SeedThere, DownAtRest

(* The strengthened type invariant holds always.                            *)
LEMMA InvTyped == Spec => [](TypeInv /\ DownAtRest)
<1>1. TypeInv /\ DownAtRest /\ [Next]_vars => TypeInv' /\ DownAtRest'
  BY Typed, DownRests
<1> QED BY InitTyped, <1>1, PTL DEF Spec

(* Every variable keeps its type: whatever the game, the mode and the order of
   commands, completions, crashes and restarts, the snapshot stays a snapshot
   and the draw in flight one of the stages of TableServer's four paths.     *)
THEOREM TypeCorrect == Spec => []TypeOK
<1>1. TypeInv /\ DownAtRest => TypeOK
  BY DEF TypeInv
<1> QED BY InvTyped, <1>1, PTL

-----------------------------------------------------------------------------
(* The published bindings. *)

(* NoOrphanBinding, which is inductive given the types and DownAtRest.      *)
BindingInv == (up /\ ~conf.resume) =>
                 snap.pend = IF flight.stage = "round" THEN {flight.counter} ELSE {}

(* apply publishes and withdraws no binding.                                *)
LEMMA ApplyNowPend ==
    ASSUME TypeOK, ~Busy, NEW cmd, NEW rest, ApplyNow(cmd, rest)
    PROVE  snap'.pend = snap.pend /\ flight'.stage # "round"
<1>1. snap \in Snapshot /\ flight \in Flight
  BY DEF TypeOK
<1>2. CASE BeginFlight(cmd)
  BY <1>1, <1>2 DEF BeginFlight, AsyncStage
<1>3. CASE /\ UNCHANGED flight
           /\ \/ \E draw, fresh : CommitOk(cmd, Len(snap.log), draw, fresh)
              \/ \E draw, fresh : CommitThrows(cmd, Len(snap.log), draw, fresh)
              \/ CommitRefused(cmd)
  BY <1>1, <1>3 DEF CommitOk, CommitThrows, CommitRefused, Snapshot, Busy
<1> QED BY <1>2, <1>3 DEF ApplyNow

(* Every step keeps the published bindings exact.                           *)
LEMMA BindingsKept ==
    TypeOK /\ DownAtRest /\ BindingInv /\ [Next]_vars => BindingInv'
<1> SUFFICES ASSUME TypeOK, DownAtRest, BindingInv, [Next]_vars,
                    up', ~conf'.resume
             PROVE  snap'.pend = IF flight'.stage = "round" THEN {flight'.counter} ELSE {}
  BY DEF BindingInv
<1>0. snap \in Snapshot /\ stored \in Snapshot /\ flight \in Flight
  BY DEF TypeOK
<1>1. CASE UNCHANGED vars
  BY <1>1 DEF vars, BindingInv
<1>2. CASE DrainStep \/ Arrive \/ Fire \/ Evaluate
  <2>1. up /\ ~conf.resume
    BY <1>2 DEF DrainStep, Arrive, Fire, Evaluate, Running, Idle
  <2>2. \/ ~Busy /\ \E cmd, rest : ApplyNow(cmd, rest)
        \/ UNCHANGED <<snap, flight>>
    BY <1>2 DEF DrainStep, Arrive, Fire, Evaluate
  <2>3. CASE ~Busy /\ \E cmd, rest : ApplyNow(cmd, rest)
    BY <2>1, <2>3, ApplyNowPend DEF BindingInv, Busy
  <2> QED BY <2>1, <2>2, <2>3 DEF BindingInv
<1>3. CASE DrainEnd \/ Persist \/ Deliver
  BY <1>3 DEF DrainEnd, Persist, Deliver, BindingInv, Running
<1>4. CASE FetchOk \/ SeededRun
  <2>1. up /\ ~conf.resume /\ flight.stage # "round" /\ flight'.stage # "round"
    BY <1>0, <1>4 DEF FetchOk, SeededRun, AtStage, Idle, Done, completionFrame, Flight
  <2>2. snap'.pend = snap.pend
    BY <1>0, <1>4 DEF FetchOk, SeededRun, CommitLate, CommitOk, CommitThrows, CommitRefused,
                      Snapshot
  <2> QED BY <2>1, <2>2 DEF BindingInv
<1>5. CASE SourceFails \/ Finally
  <2>1. CASE SourceFails
    BY <1>0, <2>1 DEF SourceFails, Idle, Done, completionFrame, Flight, BindingInv
  <2>2. CASE Finally
    BY <2>2 DEF Finally, AtStage, Idle, NoFlight, BindingInv
  <2> QED BY <1>5, <2>1, <2>2
<1>6. CASE SeedOk \/ Bind
  BY <1>0, <1>6 DEF SeedOk, Bind, AtStage, Idle, completionFrame, Flight, Snapshot, BindingInv
<1>7. CASE RoundOk
  BY <1>0, <1>7 DEF RoundOk, AtStage, Idle, Done, completionFrame, Flight, Snapshot, BindingInv
<1>8. CASE RoundFails
  BY <1>0, <1>8 DEF RoundFails, AtStage, Idle, Done, completionFrame, Flight, Snapshot,
                    BindingInv
<1>9. ASSUME NEW seat \in Seats, Presence(seat) \/ SetReady(seat)
      PROVE  snap'.pend = IF flight'.stage = "round" THEN {flight'.counter} ELSE {}
  BY <1>0, <1>9 DEF Presence, SetReady, Idle, Snapshot, BindingInv
<1>10. CASE Adopt
  BY <1>10 DEF Adopt
<1>11. CASE Crash \/ Close
  BY <1>11 DEF Crash, Close, Gone
<1>12. CASE Restart
  BY <1>0, <1>12 DEF Restart, DownAtRest, NoFlight, Snapshot
<1> QED BY <1>1, <1>2, <1>3, <1>4, <1>5, <1>6, <1>7, <1>8, <1>9, <1>10, <1>11, <1>12
        DEF Next, Task, Completion

(* A beacon table publishes the round a draw is bound to exactly while that
   draw waits for it: setPendingBeacon adds and removes it on every path, a lost
   round and a restart included.                                             *)
THEOREM BindingsPublished == Spec => []NoOrphanBinding
<1>1. Init => BindingInv
  BY DEF Init, BindingInv, NoFlight
<1>2. BindingInv => NoOrphanBinding
  BY DEF BindingInv, NoOrphanBinding
<1> QED BY TypeCorrect, InvTyped, BindingsKept, <1>1, <1>2, PTL DEF Spec

-----------------------------------------------------------------------------
(* The state a draw was computed from. *)

(* Peers bring a copy back only to a table that never waits for a draw.      *)
ResumeWithoutDraws == \A c \in Confs : c.resume => c.mode = "plain"

FreshLog(log) == \A i \in DOMAIN log : log[i].base = i - 1

(* While a draw is awaited the log keeps the length it was computed for, and a
   plain table awaits nothing.                                               *)
FreshInv ==
    /\ FreshLog(snap.log) /\ FreshLog(stored.log) /\ FreshLog(copy.log)
    /\ flight.stage \in {"fetch", "schedule", "round"} => flight.base = Len(snap.log)
    /\ conf.mode = "plain" => ~Busy

(* An entry computed from the whole log may follow it.                      *)
LEMMA FreshAppend ==
    ASSUME NEW log \in Seq(Entry), FreshLog(log), NEW entry \in Entry, entry.base = Len(log)
    PROVE  FreshLog(Append(log, entry))
<1>1. /\ Len(log) \in Nat /\ DOMAIN log = 1 .. Len(log)
      /\ DOMAIN Append(log, entry) = 1 .. Len(log) + 1
      /\ \A i \in 1 .. Len(log) : Append(log, entry)[i] = log[i]
      /\ Append(log, entry)[Len(log) + 1] = entry
  BY AppendProperties, LenProperties
<1> SUFFICES ASSUME NEW i \in 1 .. Len(log) + 1 PROVE Append(log, entry)[i].base = i - 1
  BY <1>1 DEF FreshLog
<1>2. CASE i \in 1 .. Len(log)
  BY <1>1, <1>2 DEF FreshLog
<1>3. CASE i = Len(log) + 1
  BY <1>1, <1>3
<1> QED BY <1>1, <1>2, <1>3

(* commit appends an entry computed from the log it is appended to.         *)
LEMMA CommitFresh ==
    ASSUME TypeOK, FreshLog(snap.log), NEW cmd \in Cmd, NEW draw, NEW fresh,
           Legal(cmd.kind, snap.log) => draw \in Draw,
           \/ CommitOk(cmd, Len(snap.log), draw, fresh)
           \/ CommitThrows(cmd, Len(snap.log), draw, fresh)
           \/ CommitRefused(cmd)
    PROVE  FreshLog(snap'.log)
<1> DEFINE entry == [kind |-> cmd.kind, id |-> cmd.id, base |-> Len(snap.log), draw |-> draw]
<1>1. snap \in Snapshot /\ snap.log \in Seq(Entry) /\ Len(snap.log) \in Nat
  BY LenProperties DEF TypeOK, Snapshot
<1>2. CASE Legal(cmd.kind, snap.log)
  <2>1. entry \in Entry /\ entry.base = Len(snap.log)
    BY <1>1, <1>2 DEF Entry, Cmd
  <2>2. FreshLog(Append(snap.log, entry))
    <3> HIDE DEF entry
    <3> QED BY <1>1, <2>1, FreshAppend
  <2>3. snap'.log = Append(snap.log, entry)
    BY <1>1, <1>2 DEF CommitOk, CommitThrows, CommitRefused, Snapshot
  <2> QED BY <2>2, <2>3
<1>3. CASE ~Legal(cmd.kind, snap.log)
  BY <1>3 DEF CommitOk, CommitThrows, CommitRefused
<1> QED BY <1>2, <1>3

(* apply keeps the log fresh, starts its draws on the log as it is, and starts
   none on a plain table.                                                    *)
LEMMA ApplyNowFresh ==
    ASSUME TypeOK, ~Busy, FreshLog(snap.log), NEW cmd \in Cmd, NEW rest, ApplyNow(cmd, rest)
    PROVE  /\ FreshLog(snap'.log)
           /\ flight'.stage \in {"fetch", "schedule", "round"} => flight'.base = Len(snap'.log)
           /\ conf.mode = "plain" => flight'.stage = "idle"
<1>1. flight.stage = "idle"
  BY DEF Busy
<1>2. CASE BeginFlight(cmd)
  BY <1>2 DEF BeginFlight, AsyncStage
<1>3. CASE ~BeginFlight(cmd)
  <2> DEFINE draw == SyncDraw(cmd.kind)
             fresh == SyncSecrets(cmd.kind)
  <2>1. /\ AsyncStage(cmd.kind) = "idle" /\ flight' = flight
        /\ \/ CommitOk(cmd, Len(snap.log), draw, fresh)
           \/ CommitThrows(cmd, Len(snap.log), draw, fresh)
           \/ CommitRefused(cmd)
    BY <1>3 DEF ApplyNow
  <2>2. Legal(cmd.kind, snap.log) => draw \in Draw
    BY <2>1, NeedsActive
  <2> HIDE DEF draw, fresh
  <2>3. FreshLog(snap'.log)
    BY <2>1, <2>2, CommitFresh
  <2> QED BY <1>1, <2>1, <2>3
<1> QED BY <1>2, <1>3

(* Every step keeps the logs fresh, if a copy only comes back to a table that
   awaits no draw.                                                           *)
LEMMA FreshKept ==
    ASSUME ResumeWithoutDraws
    PROVE  TypeInv /\ DownAtRest /\ FreshInv /\ [Next]_vars => FreshInv'
<1> SUFFICES ASSUME TypeOK, SeedThere, DownAtRest, FreshInv, [Next]_vars PROVE FreshInv'
  BY DEF TypeInv
<1>0. /\ snap \in Snapshot /\ stored \in Snapshot /\ copy \in Snapshot /\ flight \in Flight
      /\ conf.resume => conf.mode = "plain"
      /\ FreshLog(snap.log) /\ FreshLog(stored.log) /\ FreshLog(copy.log)
      /\ snap.log \in Seq(Entry) /\ Len(snap.log) \in Nat
  BY LenProperties DEF TypeOK, ResumeWithoutDraws, FreshInv, Snapshot
<1>1. CASE UNCHANGED vars
  BY <1>1 DEF vars, FreshInv, Busy
<1>2. CASE DrainStep \/ Arrive \/ Fire \/ Evaluate
  <2>1. /\ UNCHANGED <<conf, stored, copy>>
        /\ \/ ~Busy /\ \E cmd \in Cmd : \E rest : ApplyNow(cmd, rest)
           \/ UNCHANGED <<snap, flight>>
    <3>1. CASE DrainStep
      <4>1. Head(queue) \in Cmd
        BY <3>1, HeadTailProperties DEF DrainStep, TypeOK
      <4> QED BY <3>1, <4>1 DEF DrainStep
    <3>2. CASE Arrive
      <4>1. \A kind \in Kinds : [kind |-> kind, id |-> arrived + 1] \in Cmd
        BY DEF Cmd, TypeOK
      <4> QED BY <3>2, <4>1 DEF Arrive
    <3>3. CASE Fire \/ Evaluate
      <4>1. [kind |-> "start", id |-> 0] \in Cmd
        BY DEF Cmd, Kinds
      <4> QED BY <3>3, <4>1 DEF Fire, Evaluate
    <3> QED BY <1>2, <3>1, <3>2, <3>3
  <2>2. CASE ~Busy /\ \E cmd \in Cmd : \E rest : ApplyNow(cmd, rest)
    BY <1>0, <2>1, <2>2, ApplyNowFresh DEF FreshInv, Busy
  <2> QED BY <2>1, <2>2 DEF FreshInv, Busy
<1>3. CASE DrainEnd \/ Persist \/ Deliver
  BY <1>3 DEF DrainEnd, Persist, Deliver, FreshInv, Busy
<1>4. CASE FetchOk \/ SeededRun
  <2>1. FlightCmd \in Cmd
    BY <1>0 DEF FlightCmd, Flight, Cmd
  <2>2. /\ UNCHANGED <<conf, stored, copy>> /\ flight'.stage = "done"
        /\ conf.mode # "plain"
    BY <1>0, <1>4 DEF FetchOk, SeededRun, AtStage, Done, completionFrame, Flight, FreshInv, Busy
  <2>3. FreshLog(snap'.log)
    <3>1. CASE FetchOk
      <4>1. Fetched \in Draw
        BY DEF Fetched, NoDraw, Draw
      <4>2. CommitLate(Len(snap.log), Fetched, secrets)
        BY <3>1 DEF FetchOk, AtStage, FreshInv
      <4> QED BY <1>0, <2>1, <4>1, <4>2, CommitFresh DEF CommitLate
    <3>2. CASE SeededRun
      <4> DEFINE d == IF NeedsEntropy(flight.kind) THEN SegmentDraw ELSE NoDraw
                 f == IF NeedsEntropy(flight.kind) THEN SegmentDrawn ELSE secrets
      <4>1. CommitLate(Len(snap.log), d, f)
        BY <3>2 DEF SeededRun
      <4>2. d \in Draw
        BY <3>2, SegmentDrawType DEF SeededRun, AtStage, SeedThere, TypeOK, NoDraw, Draw
      <4> HIDE DEF d, f
      <4> QED BY <1>0, <2>1, <4>1, <4>2, CommitFresh DEF CommitLate
    <3> QED BY <1>4, <3>1, <3>2
  <2> QED BY <1>0, <2>2, <2>3 DEF FreshInv
<1>5. CASE SourceFails \/ SeedOk
  BY <1>0, <1>5 DEF SourceFails, SeedOk, AtStage, Done, completionFrame, Flight, Snapshot,
                    FreshInv, Busy
<1>6. CASE Bind
  BY <1>0, <1>6 DEF Bind, AtStage, completionFrame, Flight, Snapshot, FreshInv, Busy
<1>7. CASE RoundOk
  <2> DEFINE draw  == [NoDraw EXCEPT !.from = "beacon", !.key = flight.counter]
             entry == [kind |-> flight.kind, id |-> flight.id,
                       base |-> flight.base, draw |-> draw]
  <2>1. /\ UNCHANGED <<conf, stored, copy>> /\ flight'.stage = "done"
        /\ conf.mode # "plain" /\ flight.base = Len(snap.log)
    BY <1>0, <1>7 DEF RoundOk, AtStage, Done, completionFrame, Flight, FreshInv, Busy
  <2>2. draw \in Draw
    BY <1>0 DEF NoDraw, Draw, Flight
  <2>3. entry \in Entry /\ entry.base = Len(snap.log)
    <3> HIDE DEF draw
    <3> QED BY <1>0, <2>1, <2>2 DEF Entry, Flight
  <2>4. snap'.log \in {snap.log, Append(snap.log, entry)}
    BY <1>0, <1>7 DEF RoundOk, FlightCmd, Snapshot
  <2>5. FreshLog(Append(snap.log, entry))
    <3> HIDE DEF entry
    <3> QED BY <1>0, <2>3, FreshAppend
  <2> QED BY <1>0, <2>1, <2>4, <2>5 DEF FreshInv
<1>8. CASE RoundFails
  BY <1>0, <1>8 DEF RoundFails, AtStage, Done, completionFrame, Flight, Snapshot, FreshInv, Busy
<1>9. CASE Finally
  BY <1>9 DEF Finally, NoFlight, FreshInv, Busy
<1>10. ASSUME NEW seat \in Seats, Presence(seat) \/ SetReady(seat) PROVE FreshInv'
  BY <1>0, <1>10 DEF Presence, SetReady, Snapshot, FreshInv, Busy
<1>11. CASE Adopt
  BY <1>0, <1>11 DEF Adopt, FreshInv, Busy
<1>12. CASE Crash
  BY <1>12 DEF Crash, Gone, NoFlight, FreshInv, Busy
<1>13. CASE Close
  <2>1. snap'.log = snap.log /\ stored' \in {stored, snap'}
    BY <1>0, <1>13 DEF Close, Snapshot
  <2> QED BY <1>0, <1>13, <2>1 DEF Close, Gone, NoFlight, FreshInv, Busy
<1>14. CASE Restart
  <2>1. snap'.log = stored.log
    BY <1>0, <1>14 DEF Restart, Snapshot
  <2> QED BY <1>0, <1>14, <2>1 DEF Restart, DownAtRest, NoFlight, FreshInv, Busy
<1> QED BY <1>1, <1>2, <1>3, <1>4, <1>5, <1>6, <1>7, <1>8, <1>9, <1>10, <1>11, <1>12,
           <1>13, <1>14
        DEF Next, Task, Completion

(* The state cannot have moved under a draw in flight (applyJustInTime), as
   long as no peer brings a copy back to a table whose draws are asynchronous.
   Without that assumption it is false: see the run that finds it.           *)
THEOREM Freshness == ResumeWithoutDraws => (Spec => []FreshState)
<1> SUFFICES ASSUME ResumeWithoutDraws PROVE Spec => []FreshState
  OBVIOUS
<1>1. Init => FreshInv
  BY DEF Init, FreshInv, FreshLog, NoFlight, Busy
<1>2. FreshInv => FreshState
  BY DEF FreshInv, FreshLog, FreshState
<1>3. TypeInv /\ DownAtRest /\ FreshInv /\ [Next]_vars => FreshInv'
  BY FreshKept
<1> QED BY TypeCorrect, InvTyped, <1>1, <1>2, <1>3, PTL DEF Spec

-----------------------------------------------------------------------------
(* Randomness: what a log has used, and the seeds it may still use.         *)

BeaconDraw(e) == e.draw.from = "beacon"

(* Segments are numbered as they come, and reveal nothing but the seed they
   are committed to.                                                         *)
IndexedSegs(segs) ==
    \A i \in DOMAIN segs : segs[i].index = i - 1 /\ segs[i].seed \in {0, segs[i].commit}

(* An entry at position i may have drawn from this segment.                 *)
Covers(seg, draw, i) ==
    seg.commit = draw.seed /\ seg.start <= i - 1 /\ (seg.to # -1 => i - 1 <= seg.to)

CoveredDraws(log, segs) ==
    \A i \in DOMAIN log : SegDraw(log[i]) =>
        /\ log[i].draw.key + 1 \in DOMAIN segs
        /\ Covers(segs[log[i].draw.key + 1], log[i].draw, i)

DistinctDraws(log) ==
    \A i, j \in DOMAIN log :
        /\ (/\ SegDraw(log[i]) /\ SegDraw(log[j])
            /\ log[i].draw.key = log[j].draw.key /\ log[i].draw.n = log[j].draw.n) => i = j
        /\ (/\ BeaconDraw(log[i]) /\ BeaconDraw(log[j])
            /\ log[i].draw.key = log[j].draw.key) => i = j

(* Only a seeded table draws from segments, only a beacon table from rounds. *)
FromMode(log) ==
    \A i \in DOMAIN log : /\ SegDraw(log[i]) => conf.mode = "seeded"
                          /\ BeaconDraw(log[i]) => conf.mode = "beacon"

SoundLog(log, segs) ==
    IndexedSegs(segs) /\ CoveredDraws(log, segs) /\ DistinctDraws(log) /\ FromMode(log)

StageInv ==
    /\ flight.stage \in {"seed", "seeded"} => conf.mode = "seeded"
    /\ flight.stage \in {"schedule", "round"} => conf.mode = "beacon"
    /\ flight.stage = "seeded" => HasActive

(* The newest public segment is the open one of this secret, and the next draw
   from it is one no entry has.                                              *)
OpenFor(sec, segs, log) ==
    LET seg == segs[Len(segs)]
    IN  /\ seg.seed = 0 /\ seg.to = -1 /\ seg.commit = sec.seed /\ seg.start <= Len(log)
        /\ \A i \in DOMAIN log : SegDraw(log[i]) /\ log[i].draw.key = sec.index
                                 => log[i].draw.n < sec.draws

Aligned(priv, segs) ==
    Len(priv) = Len(segs) /\ \A i \in DOMAIN priv : priv[i].index = i - 1

ActiveInv ==
    up /\ conf.mode = "seeded" =>
        /\ Aligned(secrets, snap.segs)
        /\ HasActive => OpenFor(Last(secrets), snap.segs, snap.log)

CounterInv ==
    up => /\ \A i \in DOMAIN snap.log : BeaconDraw(snap.log[i]) =>
                /\ snap.log[i].draw.key < counter
                /\ flight.stage = "round" => snap.log[i].draw.key # flight.counter
          /\ flight.stage = "round" => flight.counter < counter

(* The log on disk is an initial part of the log.                           *)
Prefix(s, t) == Len(s) <= Len(t) /\ \A i \in DOMAIN s : s[i] = t[i]
StoredInv == ~conf.resume => Prefix(stored.log, snap.log)

DrawInv ==
    /\ SoundLog(snap.log, snap.segs)
    /\ SoundLog(stored.log, stored.segs)
    /\ SoundLog(copy.log, copy.segs)
    /\ StageInv /\ ActiveInv /\ CounterInv /\ StoredInv

-----------------------------------------------------------------------------
(* Segments. *)

(* What revealing a seed changes in the public records.                     *)
LEMMA RevealInFacts ==
    ASSUME NEW segs \in Seq(Segment), NEW index \in Nat, NEW seed \in Nat, NEW len \in Nat,
           NEW f, f = RevealIn(segs, index, seed, len)
    PROVE  /\ f \in Seq(Segment) /\ DOMAIN f = DOMAIN segs /\ Len(f) = Len(segs)
           /\ \A i \in DOMAIN segs :
                /\ f[i].index = segs[i].index /\ f[i].commit = segs[i].commit
                /\ f[i].start = segs[i].start
                /\ segs[i].index # index => f[i] = segs[i]
                /\ segs[i].index = index =>
                     /\ f[i].seed = seed
                     /\ f[i].to = IF segs[i].start > len - 1 THEN segs[i].start ELSE len - 1
<1>1. f \in Seq(Segment)
  BY RevealInType
<1>2. DOMAIN f = DOMAIN segs
  BY DEF RevealIn
<1>3. Len(f) = Len(segs)
  BY <1>1, <1>2, LenProperties
<1>4. ASSUME NEW i \in DOMAIN segs
      PROVE  /\ f[i].index = segs[i].index /\ f[i].commit = segs[i].commit
             /\ f[i].start = segs[i].start
             /\ segs[i].index # index => f[i] = segs[i]
             /\ segs[i].index = index =>
                  /\ f[i].seed = seed
                  /\ f[i].to = IF segs[i].start > len - 1 THEN segs[i].start ELSE len - 1
  <2>1. PICK s \in Segment : s = segs[i]
    BY SeqEntries
  <2>2. f[i] = IF s.index = index
               THEN [s EXCEPT !.seed = seed,
                              !.to = IF s.start > len - 1 THEN s.start ELSE len - 1]
               ELSE s
    BY <2>1 DEF RevealIn
  <2> QED BY <2>1, <2>2 DEF Segment
<1> QED BY <1>1, <1>2, <1>3, <1>4

(* Covered draws stay covered when segments only close behind the log.      *)
LEMMA StillCovered ==
    ASSUME NEW log \in Seq(Entry), NEW segs \in Seq(Segment), NEW f \in Seq(Segment),
           CoveredDraws(log, segs), Len(segs) <= Len(f),
           \A i \in DOMAIN segs :
               /\ f[i].commit = segs[i].commit /\ f[i].start = segs[i].start
               /\ f[i].to = segs[i].to \/ f[i].to >= Len(log) - 1
    PROVE  CoveredDraws(log, f)
<1> SUFFICES ASSUME NEW i \in DOMAIN log, SegDraw(log[i])
             PROVE  /\ log[i].draw.key + 1 \in DOMAIN f
                    /\ Covers(f[log[i].draw.key + 1], log[i].draw, i)
  BY DEF CoveredDraws
<1> DEFINE k == log[i].draw.key + 1
<1>1. k \in DOMAIN segs /\ Covers(segs[k], log[i].draw, i)
  BY DEF CoveredDraws
<1>2. i \in 1 .. Len(log) /\ Len(log) \in Nat /\ k \in 1 .. Len(segs) /\ Len(segs) \in Nat
      /\ DOMAIN f = 1 .. Len(f) /\ Len(f) \in Nat
  BY <1>1, LenProperties
<1>3. k \in DOMAIN f
  BY <1>2
<1>4. segs[k] \in Segment /\ f[k] \in Segment
  BY <1>1, <1>3, SeqEntries
<1> HIDE DEF k
<1>5. Covers(f[k], log[i].draw, i)
  <2>1. /\ f[k].commit = segs[k].commit /\ f[k].start = segs[k].start
        /\ f[k].to = segs[k].to \/ f[k].to >= Len(log) - 1
    BY <1>1
  <2>2. f[k].to \in Int /\ segs[k].to \in Int
    BY <1>4 DEF Segment
  <2>3. f[k].to # -1 => i - 1 <= f[k].to
    BY <1>1, <1>2, <2>1, <2>2 DEF Covers
  <2> QED BY <1>1, <2>1, <2>3 DEF Covers
<1> QED BY <1>3, <1>5 DEF k

(* revealActive on a sound snapshot leaves it sound.                        *)
LEMMA RevealSound ==
    ASSUME secrets \in Seq(Secret), NEW segs \in Seq(Segment), NEW log \in Seq(Entry),
           IndexedSegs(segs), CoveredDraws(log, segs), Aligned(secrets, segs),
           HasActive => segs[Len(segs)].commit = Last(secrets).seed,
           NEW f, f = Revealed(segs, Len(log))
    PROVE  /\ f \in Seq(Segment) /\ Len(f) = Len(segs)
           /\ IndexedSegs(f) /\ CoveredDraws(log, f)
<1>1. CASE ~HasActive
  <2>1. f = segs
    BY <1>1 DEF Revealed
  <2> QED BY <2>1
<1>2. CASE HasActive
  <2> DEFINE sec == Last(secrets)
  <2>1. /\ sec \in Secret /\ Len(secrets) \in Nat \ {0} /\ sec = secrets[Len(secrets)]
        /\ Len(secrets) \in DOMAIN secrets /\ Len(log) \in Nat
    BY <1>2, LastSecret, LenProperties, EmptySeq DEF HasActive, Last
  <2>2. sec.index = Len(segs) - 1 /\ sec.index \in Nat /\ sec.seed \in Nat
    BY <2>1 DEF Aligned, Secret
  <2>3. f = RevealIn(segs, sec.index, sec.seed, Len(log))
    BY <1>2 DEF Revealed
  <2> HIDE DEF sec
  <2>4. /\ f \in Seq(Segment) /\ DOMAIN f = DOMAIN segs /\ Len(f) = Len(segs)
        /\ \A i \in DOMAIN segs :
             /\ f[i].index = segs[i].index /\ f[i].commit = segs[i].commit
             /\ f[i].start = segs[i].start
             /\ segs[i].index # sec.index => f[i] = segs[i]
             /\ segs[i].index = sec.index =>
                  /\ f[i].seed = sec.seed
                  /\ f[i].to = IF segs[i].start > Len(log) - 1 THEN segs[i].start
                                                               ELSE Len(log) - 1
    BY <2>1, <2>2, <2>3, RevealInFacts
  <2>5. \A i \in DOMAIN segs : segs[i].index = sec.index => i = Len(segs)
    BY <2>2, LenProperties DEF IndexedSegs
  <2>6. IndexedSegs(f)
    BY <1>2, <2>4, <2>5 DEF IndexedSegs, sec
  <2>7. \A i \in DOMAIN segs : f[i].to = segs[i].to \/ f[i].to >= Len(log) - 1
    <3> TAKE i \in DOMAIN segs
    <3>0. segs[i] \in Segment
      BY SeqEntries
    <3>1. segs[i].start \in Nat
      BY <3>0 DEF Segment
    <3>2. CASE segs[i].index = sec.index
      <4>1. f[i].to = IF segs[i].start > Len(log) - 1 THEN segs[i].start ELSE Len(log) - 1
        BY <2>4, <3>2
      <4> QED BY <2>1, <3>1, <4>1
    <3>3. CASE segs[i].index # sec.index
      BY <2>4, <3>3
    <3> QED BY <3>2, <3>3
  <2>8. Len(segs) <= Len(f)
    BY <2>4, LenProperties
  <2>9. CoveredDraws(log, f)
    BY <2>4, <2>7, <2>8, StillCovered
  <2> QED BY <2>4, <2>6, <2>9
<1> QED BY <1>1, <1>2

(* restoreSegments on a sound snapshot leaves it sound.                     *)
LEMMA RestoredSound ==
    ASSUME NEW segs \in Seq(Segment), NEW log \in Seq(Entry),
           IndexedSegs(segs), CoveredDraws(log, segs),
           NEW f, f = Restored(segs, Len(log))
    PROVE  /\ f \in Seq(Segment) /\ DOMAIN f = DOMAIN segs /\ Len(f) = Len(segs)
           /\ IndexedSegs(f) /\ CoveredDraws(log, f)
<1>1. Len(log) \in Nat
  BY LenProperties
<1>2. f \in Seq(Segment)
  BY <1>1, RestoredType
<1>3. DOMAIN f = DOMAIN segs
  BY DEF Restored
<1>4. Len(f) = Len(segs) /\ Len(segs) <= Len(f)
  BY <1>2, <1>3, LenProperties
<1>5. ASSUME NEW i \in DOMAIN segs
      PROVE  /\ f[i].index = segs[i].index /\ f[i].commit = segs[i].commit
             /\ f[i].start = segs[i].start /\ f[i].seed = segs[i].seed
             /\ f[i].to = segs[i].to \/ f[i].to >= Len(log) - 1
  <2>1. PICK s \in Segment : s = segs[i]
    BY SeqEntries
  <2>2. f[i] = IF s.seed = 0 /\ s.to = -1 THEN [s EXCEPT !.to = Len(log) - 1] ELSE s
    BY <2>1 DEF Restored
  <2> QED BY <1>1, <2>1, <2>2 DEF Segment
<1>6. IndexedSegs(f)
  BY <1>3, <1>5 DEF IndexedSegs
<1>7. CoveredDraws(log, f)
  BY <1>2, <1>4, <1>5, StillCovered
<1> QED BY <1>2, <1>3, <1>4, <1>6, <1>7

-----------------------------------------------------------------------------
(* Entries. *)

(* An entry whose draw is new, covered and of the table's mode may follow a
   sound log.                                                                *)
LEMMA AppendSound ==
    ASSUME NEW log \in Seq(Entry), NEW segs \in Seq(Segment), SoundLog(log, segs),
           NEW e \in Entry, NEW t, t = Append(log, e),
           SegDraw(e) => /\ conf.mode = "seeded"
                         /\ e.draw.key + 1 \in DOMAIN segs
                         /\ Covers(segs[e.draw.key + 1], e.draw, Len(log) + 1)
                         /\ \A i \in DOMAIN log : SegDraw(log[i]) /\ log[i].draw.key = e.draw.key
                                                  => log[i].draw.n # e.draw.n,
           BeaconDraw(e) => /\ conf.mode = "beacon"
                            /\ \A i \in DOMAIN log : BeaconDraw(log[i])
                                                     => log[i].draw.key # e.draw.key
    PROVE  SoundLog(t, segs)
<1>1. /\ Len(log) \in Nat
      /\ \A i \in DOMAIN log : i \in DOMAIN t /\ t[i] = log[i]
      /\ Len(log) + 1 \in DOMAIN t /\ t[Len(log) + 1] = e
      /\ \A i \in DOMAIN t : i \in DOMAIN log \/ i = Len(log) + 1
  BY AppendFacts
<1>2. CoveredDraws(t, segs)
  BY <1>1 DEF CoveredDraws, SoundLog
<1>3. DistinctDraws(t)
  <2> SUFFICES ASSUME NEW i \in DOMAIN t, NEW j \in DOMAIN t
               PROVE  /\ (/\ SegDraw(t[i]) /\ SegDraw(t[j])
                          /\ t[i].draw.key = t[j].draw.key /\ t[i].draw.n = t[j].draw.n)
                         => i = j
                      /\ (/\ BeaconDraw(t[i]) /\ BeaconDraw(t[j])
                          /\ t[i].draw.key = t[j].draw.key) => i = j
    BY DEF DistinctDraws
  <2>1. CASE i \in DOMAIN log /\ j \in DOMAIN log
    <3>1. t[i] = log[i] /\ t[j] = log[j]
      BY <1>1, <2>1
    <3> QED BY <2>1, <3>1 DEF DistinctDraws, SoundLog
  <2>2. CASE i \in DOMAIN log /\ j = Len(log) + 1
    BY <1>1, <2>2
  <2>3. CASE i = Len(log) + 1 /\ j \in DOMAIN log
    BY <1>1, <2>3
  <2> QED BY <1>1, <2>1, <2>2, <2>3
<1>4. FromMode(t)
  BY <1>1 DEF FromMode, SoundLog
<1> QED BY <1>2, <1>3, <1>4 DEF SoundLog

-----------------------------------------------------------------------------
(* Private segments. *)

(* The newest private segment is the last.                                  *)
LEMMA NewestSecret ==
    ASSUME secrets \in Seq(Secret), secrets # << >>
    PROVE  /\ Len(secrets) \in Nat \ {0} /\ Len(secrets) \in DOMAIN secrets
           /\ DOMAIN secrets = 1 .. Len(secrets)
           /\ Last(secrets) = secrets[Len(secrets)] /\ Last(secrets) \in Secret
BY LastSecret, LenProperties, EmptySeq DEF Last

(* Once it is revealed no segment serves.                                   *)
LEMMA RevealSecretFacts ==
    ASSUME secrets \in Seq(Secret), NEW r, r = RevealSecret
    PROVE  /\ r \in Seq(Secret) /\ Len(r) = Len(secrets) /\ DOMAIN r = DOMAIN secrets
           /\ \A i \in DOMAIN secrets : r[i].index = secrets[i].index
           /\ r # << >> => Last(r).revealed
<1>1. r \in Seq(Secret) /\ Len(r) = Len(secrets)
  BY RevealSecretType
<1>2. DOMAIN r = DOMAIN secrets
  BY DEF RevealSecret
<1>3. ASSUME NEW i \in DOMAIN secrets
      PROVE  r[i].index = secrets[i].index /\ (i = Len(secrets) => r[i].revealed)
  <2>1. PICK s \in Secret : s = secrets[i]
    BY SeqEntries
  <2>2. r[i] = IF i = Len(secrets) THEN [s EXCEPT !.revealed = TRUE] ELSE s
    BY <2>1 DEF RevealSecret
  <2> QED BY <2>1, <2>2 DEF Secret
<1>4. ASSUME r # << >> PROVE Last(r).revealed
  <2>1. Len(secrets) \in DOMAIN secrets
    BY <1>1, <1>4, LenProperties, EmptySeq
  <2> QED BY <1>1, <1>3, <2>1 DEF Last
<1> QED BY <1>1, <1>2, <1>3, <1>4

(* A draw from it counts, and changes nothing else.                         *)
LEMMA SegmentDrawnFacts ==
    ASSUME secrets \in Seq(Secret), secrets # << >>, NEW r, r = SegmentDrawn
    PROVE  /\ r \in Seq(Secret) /\ Len(r) = Len(secrets) /\ DOMAIN r = DOMAIN secrets
           /\ \A i \in DOMAIN secrets : r[i].index = secrets[i].index
           /\ Last(r) = [Last(secrets) EXCEPT !.draws = Last(secrets).draws + 1]
<1>1. r \in Seq(Secret) /\ Len(r) = Len(secrets)
  BY SegmentDrawnType
<1>2. DOMAIN r = DOMAIN secrets
  BY DEF SegmentDrawn
<1>3. ASSUME NEW i \in DOMAIN secrets
      PROVE  /\ r[i].index = secrets[i].index
             /\ i = Len(secrets) => r[i] = [secrets[i] EXCEPT !.draws = secrets[i].draws + 1]
  <2>1. PICK s \in Secret : s = secrets[i]
    BY SeqEntries
  <2>2. r[i] = IF i = Len(secrets) THEN [s EXCEPT !.draws = s.draws + 1] ELSE s
    BY <2>1 DEF SegmentDrawn
  <2> QED BY <2>1, <2>2 DEF Secret
<1>4. Len(secrets) \in DOMAIN secrets /\ Last(secrets) = secrets[Len(secrets)]
  BY NewestSecret
<1>5. Last(r) = r[Len(secrets)]
  BY <1>1 DEF Last
<1> QED BY <1>1, <1>2, <1>3, <1>4, <1>5

(* withAudit never throws on a table no peer brings a copy back to.         *)
LEMMA AuditHolds ==
    ASSUME TypeOK, up, ActiveInv, IndexedSegs(snap.segs)
    PROVE  AuditComplete(snap.segs)
<1> SUFFICES ASSUME conf.mode = "seeded", NEW i \in DOMAIN secrets
             PROVE  \E j \in DOMAIN snap.segs : snap.segs[j].index = secrets[i].index
  BY DEF AuditComplete
<1>1. snap.segs \in Seq(Segment) /\ secrets \in Seq(Secret)
  BY DEF TypeOK, Snapshot
<1>2. Len(secrets) = Len(snap.segs) /\ secrets[i].index = i - 1
  BY DEF ActiveInv, Aligned
<1>3. i \in DOMAIN snap.segs
  BY <1>1, <1>2, LenProperties
<1>4. snap.segs[i].index = i - 1
  BY <1>3 DEF IndexedSegs
<1> QED BY <1>2, <1>3, <1>4

(* The draws a command brings to commit: bytes of its own or none, or the next
   one of the active segment, which is then counted.                         *)
DrawFits(draw, fresh) ==
    \/ draw \in {NoDraw, Fetched} /\ fresh = secrets
    \/ conf.mode = "seeded" /\ HasActive /\ draw = SegmentDraw /\ fresh = SegmentDrawn

(* A new entry draws only from a segment whose seed is not public.          *)
SecretStep ==
    \A i \in DOMAIN snap'.log \ DOMAIN snap.log :
        SegDraw(snap'.log[i]) =>
            \A j \in DOMAIN snap.segs :
                snap.segs[j].index = snap'.log[i].draw.key => snap.segs[j].seed = 0

(* What commit does to a sound table.                                       *)
LEMMA CommitSound ==
    ASSUME TypeOK, up, ActiveInv, SoundLog(snap.log, snap.segs),
           NEW cmd \in Cmd, NEW base \in Nat, NEW draw, NEW fresh,
           Legal(cmd.kind, snap.log) => DrawFits(draw, fresh),
           \/ CommitOk(cmd, base, draw, fresh)
           \/ CommitThrows(cmd, base, draw, fresh)
           \/ CommitRefused(cmd),
           conf' = conf
    PROVE  /\ SoundLog(snap.log, snap.segs)' /\ ActiveInv' /\ SecretStep
           /\ Prefix(snap.log, snap'.log)
           /\ \A i \in DOMAIN snap'.log : BeaconDraw(snap'.log[i])
                  => i \in DOMAIN snap.log /\ snap'.log[i] = snap.log[i]
<1>0. /\ snap \in Snapshot /\ secrets \in Seq(Secret)
      /\ snap.log \in Seq(Entry) /\ snap.segs \in Seq(Segment) /\ Len(snap.log) \in Nat
  BY LenProperties DEF TypeOK, Snapshot
<1>1. CASE CommitRefused(cmd)
  <2>1. snap' = snap /\ secrets' = secrets
    BY <1>1 DEF CommitRefused
  <2>2. SoundLog(snap.log, snap.segs)' /\ (HasActive' <=> HasActive)
    BY <2>1 DEF SoundLog, FromMode, HasActive
  <2>3. ActiveInv'
    BY <2>1, <2>2 DEF ActiveInv
  <2> QED BY <1>0, <2>1, <2>2, <2>3 DEF SecretStep, Prefix
<1>2. CASE CommitThrows(cmd, base, draw, fresh)
  BY <1>2, AuditHolds DEF CommitThrows, SoundLog
<1>3. CASE CommitOk(cmd, base, draw, fresh)
  <2> DEFINE e    == [kind |-> cmd.kind, id |-> cmd.id, base |-> base, draw |-> draw]
             t    == Append(snap.log, e)
             ends == conf.mode = "seeded" /\ cmd.kind = "finish"
             segs == IF ends THEN Revealed(snap.segs, Len(t)) ELSE snap.segs
             priv == IF ends THEN RevealSecret ELSE fresh
             sec  == Last(secrets)
  <2>0. DrawFits(draw, fresh)
    BY <1>3 DEF CommitOk
  <2>1. draw \in Draw
    BY <1>0, <2>0, SegmentDrawType DEF DrawFits, HasActive, NoDraw, Fetched, Draw
  <2>2. e \in Entry /\ e.draw = draw
    BY <2>1 DEF Entry, Cmd
  <2>3. snap'.log = t /\ snap'.segs = segs /\ secrets' = priv
    BY <1>0, <1>3 DEF CommitOk, Snapshot
  <2>4. /\ SegDraw(e) => /\ conf.mode = "seeded" /\ HasActive /\ draw = SegmentDraw
                         /\ fresh = SegmentDrawn
        /\ ~SegDraw(e) => fresh = secrets
        /\ ~BeaconDraw(e)
    BY <2>0, <2>2 DEF DrawFits, SegDraw, BeaconDraw, NoDraw, Fetched, SegmentDraw
  <2>5. ASSUME HasActive, conf.mode = "seeded"
        PROVE  /\ sec \in Secret /\ sec.index = Len(snap.segs) - 1
               /\ Len(snap.segs) \in Nat \ {0} /\ Len(snap.segs) \in DOMAIN snap.segs
               /\ OpenFor(sec, snap.segs, snap.log) /\ Aligned(secrets, snap.segs)
               /\ DOMAIN snap.segs = 1 .. Len(snap.segs)
    <3>1. OpenFor(sec, snap.segs, snap.log) /\ Aligned(secrets, snap.segs)
      BY <2>5 DEF ActiveInv
    <3> QED BY <1>0, <2>5, <3>1, NewestSecret, LenProperties DEF HasActive, Aligned
  <2>6. ASSUME SegDraw(e)
        PROVE  /\ e.draw.key + 1 = Len(snap.segs) /\ e.draw.key = sec.index
               /\ e.draw.seed = sec.seed /\ e.draw.n = sec.draws
    BY <2>2, <2>4, <2>5, <2>6 DEF SegmentDraw, Secret
  <2> HIDE DEF e
  <2>7. /\ t \in Seq(Entry) /\ Len(t) = Len(snap.log) + 1
        /\ \A i \in DOMAIN snap.log : i \in DOMAIN t /\ t[i] = snap.log[i]
        /\ t[Len(snap.log) + 1] = e
        /\ \A i \in DOMAIN t : i \in DOMAIN snap.log \/ i = Len(snap.log) + 1
    BY <1>0, <2>2, AppendFacts
  <2>8. SoundLog(t, snap.segs)
    <3>1. ASSUME SegDraw(e)
          PROVE  /\ conf.mode = "seeded"
                 /\ e.draw.key + 1 \in DOMAIN snap.segs
                 /\ Covers(snap.segs[e.draw.key + 1], e.draw, Len(snap.log) + 1)
                 /\ \A i \in DOMAIN snap.log :
                       SegDraw(snap.log[i]) /\ snap.log[i].draw.key = e.draw.key
                       => snap.log[i].draw.n # e.draw.n
      <4>1. conf.mode = "seeded" /\ e.draw.key + 1 = Len(snap.segs)
            /\ OpenFor(sec, snap.segs, snap.log) /\ Len(snap.segs) \in DOMAIN snap.segs
            /\ sec \in Secret
        BY <2>4, <2>5, <2>6, <3>1
      <4>2. Covers(snap.segs[e.draw.key + 1], e.draw, Len(snap.log) + 1)
        BY <1>0, <2>6, <3>1, <4>1 DEF OpenFor, Covers
      <4>3. ASSUME NEW i \in DOMAIN snap.log, SegDraw(snap.log[i]),
                   snap.log[i].draw.key = e.draw.key
            PROVE  snap.log[i].draw.n # e.draw.n
        <5>1. snap.log[i] \in Entry
          BY <1>0, SeqEntries
        <5>2. snap.log[i].draw.n \in Nat /\ sec.draws \in Nat
          BY <4>1, <5>1 DEF Entry, Draw, Secret
        <5>3. snap.log[i].draw.n < sec.draws
          BY <2>6, <3>1, <4>1, <4>3 DEF OpenFor
        <5> QED BY <2>6, <3>1, <5>2, <5>3
      <4> QED BY <4>1, <4>2, <4>3
    <3> HIDE DEF sec
    <3> QED BY <1>0, <2>2, <2>4, <3>1, AppendSound
  <2> HIDE DEF t
  <2>9. /\ SoundLog(t, segs) /\ segs \in Seq(Segment) /\ Len(segs) = Len(snap.segs)
    <3>1. CASE ends
      <4>1. /\ Aligned(secrets, snap.segs)
            /\ HasActive => snap.segs[Len(snap.segs)].commit = Last(secrets).seed
        BY <3>1 DEF ActiveInv, OpenFor
      <4>2. IndexedSegs(snap.segs) /\ CoveredDraws(t, snap.segs)
        BY <2>8 DEF SoundLog
      <4>3. segs = Revealed(snap.segs, Len(t))
        BY <3>1
      <4>4. /\ segs \in Seq(Segment) /\ Len(segs) = Len(snap.segs)
            /\ IndexedSegs(segs) /\ CoveredDraws(t, segs)
        <5> HIDE DEF segs, ends
        <5> QED BY <1>0, <2>7, <4>1, <4>2, <4>3, RevealSound
      <4> QED BY <2>8, <4>4 DEF SoundLog
    <3>2. CASE ~ends
      BY <1>0, <2>8, <3>2
    <3> QED BY <3>1, <3>2
  <2>10. SoundLog(snap.log, snap.segs)'
    <3> HIDE DEF segs
    <3> QED BY <2>3, <2>9 DEF SoundLog, FromMode
  <2>11. SecretStep
    <3> SUFFICES ASSUME NEW i \in DOMAIN t \ DOMAIN snap.log, SegDraw(t[i]),
                        NEW j \in DOMAIN snap.segs, snap.segs[j].index = t[i].draw.key
                 PROVE  snap.segs[j].seed = 0
      BY <2>3 DEF SecretStep
    <3>1. SegDraw(e) /\ t[i] = e
      BY <2>7
    <3>2. j = Len(snap.segs)
      <4>1. snap.segs[j].index = j - 1
        BY DEF SoundLog, IndexedSegs
      <4> QED BY <1>0, <2>6, <3>1, <4>1, LenProperties
    <3>3. OpenFor(sec, snap.segs, snap.log)
      BY <2>4, <2>5, <3>1
    <3> QED BY <3>2, <3>3 DEF OpenFor
  <2>12. ASSUME up', conf.mode = "seeded"
         PROVE  /\ Aligned(priv, segs)
                /\ priv # << >> /\ ~Last(priv).revealed => OpenFor(Last(priv), segs, t)
    <3>1. Aligned(secrets, snap.segs)
      BY <2>12 DEF ActiveInv
    <3>2. CASE ends
      <4>1. priv = RevealSecret
        BY <3>2
      <4> HIDE DEF priv, segs
      <4>2. /\ priv \in Seq(Secret) /\ Len(priv) = Len(secrets)
            /\ DOMAIN priv = DOMAIN secrets
            /\ \A i \in DOMAIN secrets : priv[i].index = secrets[i].index
            /\ priv # << >> => Last(priv).revealed
        BY <1>0, <4>1, RevealSecretFacts
      <4> QED BY <2>9, <3>1, <4>2 DEF Aligned
    <3>3. CASE ~ends /\ ~SegDraw(e)
      <4>1. priv = secrets /\ segs = snap.segs
        BY <2>4, <3>3
      <4>2. ASSUME HasActive PROVE OpenFor(sec, snap.segs, t)
        <5>1. OpenFor(sec, snap.segs, snap.log) /\ snap.segs[Len(snap.segs)] \in Segment
          BY <1>0, <2>5, <2>12, <4>2, SeqEntries
        <5>2. snap.segs[Len(snap.segs)].start \in Nat
          BY <5>1 DEF Segment
        <5>3. \A i \in DOMAIN t : SegDraw(t[i]) => i \in DOMAIN snap.log /\ t[i] = snap.log[i]
          BY <2>7, <3>3
        <5> HIDE DEF sec
        <5>4. \A i \in DOMAIN t : SegDraw(t[i]) /\ t[i].draw.key = sec.index
                                   => t[i].draw.n < sec.draws
          BY <5>1, <5>3 DEF OpenFor
        <5> QED BY <1>0, <2>7, <5>1, <5>2, <5>4 DEF OpenFor
      <4> QED BY <3>1, <4>1, <4>2 DEF HasActive
    <3>4. CASE ~ends /\ SegDraw(e)
      <4>1. priv = SegmentDrawn /\ segs = snap.segs /\ HasActive
        BY <2>4, <3>4
      <4>2. /\ Len(priv) = Len(secrets) /\ DOMAIN priv = DOMAIN secrets
            /\ \A i \in DOMAIN secrets : priv[i].index = secrets[i].index
            /\ Last(priv) = [sec EXCEPT !.draws = sec.draws + 1]
        <5> HIDE DEF priv
        <5> QED BY <1>0, <4>1, SegmentDrawnFacts DEF HasActive
      <4>3. OpenFor(sec, snap.segs, snap.log) /\ snap.segs[Len(snap.segs)] \in Segment
            /\ sec \in Secret
        BY <1>0, <2>5, <2>12, <4>1, SeqEntries
      <4>4. /\ snap.segs[Len(snap.segs)].start \in Nat /\ sec.draws \in Nat
            /\ Last(priv).draws = sec.draws + 1 /\ Last(priv).seed = sec.seed
            /\ Last(priv).index = sec.index
        BY <4>2, <4>3 DEF Segment, Secret
      <4>5. \A i \in DOMAIN t : SegDraw(t[i]) /\ t[i].draw.key = sec.index
                                 => t[i].draw.n < sec.draws + 1
        <5> TAKE i \in DOMAIN t
        <5> HAVE SegDraw(t[i]) /\ t[i].draw.key = sec.index
        <5>1. CASE i \in DOMAIN snap.log
          <6>1. snap.log[i] \in Entry
            BY <1>0, <5>1, SeqEntries
          <6>2. snap.log[i].draw.n \in Nat
            BY <6>1 DEF Entry, Draw
          <6>3. t[i] = snap.log[i]
            BY <2>7, <5>1
          <6>4. snap.log[i].draw.n < sec.draws
            BY <4>3, <5>1, <6>3 DEF OpenFor
          <6> HIDE DEF sec
          <6> QED BY <4>4, <6>2, <6>3, <6>4
        <5>2. CASE i = Len(snap.log) + 1
          <6>1. t[i].draw.n = sec.draws
            BY <2>6, <2>7, <3>4, <5>2
          <6> HIDE DEF sec
          <6> QED BY <4>4, <6>1
        <5> QED BY <2>7, <5>1, <5>2
      <4>6. OpenFor(Last(priv), snap.segs, t)
        <5> HIDE DEF sec, priv
        <5> QED BY <1>0, <2>7, <4>3, <4>4, <4>5 DEF OpenFor
      <4> HIDE DEF priv, sec
      <4> QED BY <3>1, <4>1, <4>2, <4>6 DEF Aligned
    <3> QED BY <3>2, <3>3, <3>4
  <2>13. ActiveInv'
    <3> HIDE DEF priv, segs
    <3> QED BY <2>3, <2>12 DEF ActiveInv, HasActive
  <2>14. Prefix(snap.log, snap'.log)
    BY <1>0, <2>3, <2>7 DEF Prefix
  <2>15. \A i \in DOMAIN snap'.log : BeaconDraw(snap'.log[i])
            => i \in DOMAIN snap.log /\ snap'.log[i] = snap.log[i]
    BY <2>3, <2>4, <2>7
  <2> QED BY <2>10, <2>11, <2>13, <2>14, <2>15
<1> QED BY <1>1, <1>2, <1>3

(* apply keeps a sound table sound, and enters no stage it may not.         *)
LEMMA ApplyNowSound ==
    ASSUME TypeOK, up, ActiveInv, SoundLog(snap.log, snap.segs), ~Busy,
           NEW cmd \in Cmd, NEW rest, ApplyNow(cmd, rest), conf' = conf, up' = up
    PROVE  /\ SoundLog(snap.log, snap.segs)' /\ ActiveInv' /\ SecretStep
           /\ Prefix(snap.log, snap'.log)
           /\ \A i \in DOMAIN snap'.log : BeaconDraw(snap'.log[i])
                  => i \in DOMAIN snap.log /\ snap'.log[i] = snap.log[i]
           /\ flight'.stage \notin {"round", "seeded"}
           /\ flight'.stage = "seed" => conf.mode = "seeded"
           /\ flight'.stage = "schedule" => conf.mode = "beacon"
<1>0. snap \in Snapshot /\ snap.log \in Seq(Entry) /\ Len(snap.log) \in Nat
  BY LenProperties DEF TypeOK, Snapshot
<1>1. CASE BeginFlight(cmd)
  <2>1. snap' = snap /\ secrets' = secrets /\ flight'.stage = AsyncStage(cmd.kind)
    BY <1>1 DEF BeginFlight
  <2>2. SoundLog(snap.log, snap.segs)' /\ (HasActive' <=> HasActive)
    BY <2>1 DEF SoundLog, FromMode, HasActive
  <2>3. ActiveInv'
    BY <2>1, <2>2 DEF ActiveInv
  <2>4. /\ flight'.stage \notin {"round", "seeded"}
        /\ flight'.stage = "seed" => conf.mode = "seeded"
        /\ flight'.stage = "schedule" => conf.mode = "beacon"
    BY <2>1 DEF AsyncStage
  <2> QED BY <1>0, <2>1, <2>2, <2>3, <2>4 DEF SecretStep, Prefix
<1>2. CASE ~BeginFlight(cmd)
  <2> DEFINE draw  == SyncDraw(cmd.kind)
             fresh == SyncSecrets(cmd.kind)
             base  == Len(snap.log)
  <2>1. /\ AsyncStage(cmd.kind) = "idle" /\ flight' = flight
        /\ \/ CommitOk(cmd, base, draw, fresh)
           \/ CommitThrows(cmd, base, draw, fresh)
           \/ CommitRefused(cmd)
    BY <1>2 DEF ApplyNow
  <2>2. Legal(cmd.kind, snap.log) => DrawFits(draw, fresh)
    BY <2>1 DEF AsyncStage, NeedsEntropy, DrawFits, SyncDraw, SyncSecrets
  <2>3. flight'.stage = "idle"
    BY <2>1 DEF Busy
  <2> HIDE DEF draw, fresh
  <2>4. /\ SoundLog(snap.log, snap.segs)' /\ ActiveInv' /\ SecretStep
        /\ Prefix(snap.log, snap'.log)
        /\ \A i \in DOMAIN snap'.log : BeaconDraw(snap'.log[i])
               => i \in DOMAIN snap.log /\ snap'.log[i] = snap.log[i]
    BY <1>0, <2>1, <2>2, CommitSound
  <2> QED BY <2>3, <2>4
<1> QED BY <1>1, <1>2

-----------------------------------------------------------------------------
(* Every step keeps the invariant. *)

(* An initial part of an initial part is one.                               *)
LEMMA PrefixTrans ==
    ASSUME NEW S, NEW r \in Seq(S), NEW s \in Seq(S), NEW t \in Seq(S),
           Prefix(r, s), Prefix(s, t)
    PROVE  Prefix(r, t)
BY LenProperties DEF Prefix

(* Nothing changes that the draws depend on, unless a draw in flight is over. *)
Quiet ==
    /\ UNCHANGED <<conf, secrets, counter, stored, copy>>
    /\ snap'.log = snap.log /\ snap'.segs = snap.segs /\ up' = up
    /\ flight' = flight \/ flight'.stage \in {"idle", "done"}

LEMMA QuietKept ==
    ASSUME DrawInv, Quiet PROVE DrawInv' /\ SecretStep
<1>1. SoundLog(snap.log, snap.segs)' /\ SoundLog(stored.log, stored.segs)'
      /\ SoundLog(copy.log, copy.segs)' /\ StoredInv'
  BY DEF Quiet, DrawInv, SoundLog, FromMode, StoredInv
<1>2. HasActive' <=> HasActive
  BY DEF Quiet, HasActive
<1>3. StageInv' /\ ActiveInv' /\ CounterInv'
  BY <1>2 DEF Quiet, DrawInv, StageInv, ActiveInv, CounterInv
<1> QED BY <1>1, <1>3 DEF DrawInv, SecretStep, Quiet

(* A commit by the draw in flight, or on the spot.                          *)
LEMMA SoundStep ==
    ASSUME TypeOK, snap' \in Snapshot, DrawInv, up,
           UNCHANGED <<conf, up, counter, stored, copy>>,
           SoundLog(snap.log, snap.segs)', ActiveInv', Prefix(snap.log, snap'.log),
           \A i \in DOMAIN snap'.log : BeaconDraw(snap'.log[i])
                  => i \in DOMAIN snap.log /\ snap'.log[i] = snap.log[i],
           flight'.stage \notin {"round", "seeded"},
           flight'.stage = "seed" => conf.mode = "seeded",
           flight'.stage = "schedule" => conf.mode = "beacon"
    PROVE  DrawInv'
<1>1. snap.log \in Seq(Entry) /\ snap'.log \in Seq(Entry) /\ stored.log \in Seq(Entry)
  BY DEF TypeOK, Snapshot
<1>2. SoundLog(stored.log, stored.segs)' /\ SoundLog(copy.log, copy.segs)'
  BY DEF DrawInv, SoundLog, FromMode
<1>3. StageInv'
  BY DEF StageInv
<1>4. CounterInv'
  BY DEF CounterInv, DrawInv
<1>5. StoredInv'
  BY <1>1, PrefixTrans DEF StoredInv, DrawInv
<1> QED BY <1>2, <1>3, <1>4, <1>5 DEF DrawInv

(* Every step keeps the invariant, and draws from secret segments only.     *)
LEMMA DrawKept ==
    ASSUME ResumeWithoutDraws
    PROVE  TypeInv /\ TypeInv' /\ DownAtRest /\ DrawInv /\ [Next]_vars => DrawInv' /\ SecretStep
<1> SUFFICES ASSUME TypeOK, TypeOK', SeedThere, DownAtRest, DrawInv, [Next]_vars
             PROVE  DrawInv' /\ SecretStep
  BY DEF TypeInv
<1>0. /\ snap \in Snapshot /\ stored \in Snapshot /\ copy \in Snapshot /\ flight \in Flight
      /\ snap' \in Snapshot /\ secrets \in Seq(Secret) /\ counter \in Nat /\ seeds \in Nat
      /\ conf.resume => conf.mode = "plain"
      /\ snap.log \in Seq(Entry) /\ Len(snap.log) \in Nat /\ snap.segs \in Seq(Segment)
      /\ stored.log \in Seq(Entry) /\ Len(stored.log) \in Nat /\ stored.segs \in Seq(Segment)
  BY LenProperties DEF TypeOK, ResumeWithoutDraws, Snapshot
<1>00. SoundLog(snap.log, snap.segs) /\ ActiveInv /\ StageInv /\ CounterInv /\ StoredInv
       /\ SoundLog(stored.log, stored.segs) /\ SoundLog(copy.log, copy.segs)
  BY DEF DrawInv
<1>1. CASE UNCHANGED vars
  <2>1. Quiet
    BY <1>1 DEF vars, Quiet
  <2> QED BY <2>1, QuietKept
<1>2. CASE DrainStep \/ Arrive \/ Fire \/ Evaluate
  <2>1. /\ up /\ UNCHANGED <<conf, up, counter, stored, copy>>
        /\ \/ ~Busy /\ \E cmd \in Cmd : \E rest : ApplyNow(cmd, rest)
           \/ UNCHANGED <<snap, flight, secrets>>
    <3>1. CASE DrainStep
      <4>1. Head(queue) \in Cmd
        BY <3>1, HeadTailProperties DEF DrainStep, TypeOK
      <4> QED BY <3>1, <4>1 DEF DrainStep, Running
    <3>2. CASE Arrive
      <4>1. \A kind \in Kinds : [kind |-> kind, id |-> arrived + 1] \in Cmd
        BY DEF Cmd, TypeOK
      <4> QED BY <3>2, <4>1 DEF Arrive, Idle
    <3>3. CASE Fire \/ Evaluate
      <4>1. [kind |-> "start", id |-> 0] \in Cmd
        BY DEF Cmd, Kinds
      <4> QED BY <3>3, <4>1 DEF Fire, Evaluate, Running, Idle
    <3> QED BY <1>2, <3>1, <3>2, <3>3
  <2>2. CASE ~Busy /\ \E cmd \in Cmd : \E rest : ApplyNow(cmd, rest)
    <3>1. PICK cmd \in Cmd : \E rest : ApplyNow(cmd, rest)
      BY <2>2
    <3>2. PICK rest : ApplyNow(cmd, rest)
      BY <3>1
    <3>3. /\ SoundLog(snap.log, snap.segs)' /\ ActiveInv' /\ SecretStep
          /\ Prefix(snap.log, snap'.log)
          /\ \A i \in DOMAIN snap'.log : BeaconDraw(snap'.log[i])
                 => i \in DOMAIN snap.log /\ snap'.log[i] = snap.log[i]
          /\ flight'.stage \notin {"round", "seeded"}
          /\ flight'.stage = "seed" => conf.mode = "seeded"
          /\ flight'.stage = "schedule" => conf.mode = "beacon"
      BY <1>00, <2>1, <2>2, <3>2, ApplyNowSound
    <3> QED BY <1>0, <2>1, <3>3, SoundStep
  <2>3. CASE UNCHANGED <<snap, flight, secrets>>
    <3>1. Quiet
      BY <2>1, <2>3 DEF Quiet
    <3> QED BY <3>1, QuietKept
  <2> QED BY <2>1, <2>2, <2>3
<1>3. CASE FetchOk \/ SeededRun
  <2>1. FlightCmd \in Cmd /\ flight.base \in Nat
    BY <1>0 DEF FlightCmd, Flight, Cmd
  <2>2. /\ up /\ UNCHANGED <<conf, up, counter, stored, copy>> /\ flight'.stage = "done"
    BY <1>0, <1>3 DEF FetchOk, SeededRun, AtStage, Idle, Done, completionFrame, Flight
  <2>3. PICK base, draw, fresh :
           base \in Nat /\ CommitLate(base, draw, fresh) /\ DrawFits(draw, fresh)
    <3>1. CASE FetchOk
      <4>1. CommitLate(flight.base, Fetched, secrets) /\ DrawFits(Fetched, secrets)
        BY <3>1 DEF FetchOk, DrawFits
      <4> QED BY <2>1, <4>1
    <3>2. CASE SeededRun
      <4> DEFINE d == IF NeedsEntropy(flight.kind) THEN SegmentDraw ELSE NoDraw
                 f == IF NeedsEntropy(flight.kind) THEN SegmentDrawn ELSE secrets
      <4>1. CommitLate(Len(snap.log), d, f)
        BY <3>2 DEF SeededRun
      <4>2. DrawFits(d, f)
        BY <1>00, <3>2 DEF SeededRun, AtStage, StageInv, DrawFits
      <4> HIDE DEF d, f
      <4> QED BY <1>0, <4>1, <4>2
    <3> QED BY <1>3, <3>1, <3>2
  <2>4. /\ SoundLog(snap.log, snap.segs)' /\ ActiveInv' /\ SecretStep
        /\ Prefix(snap.log, snap'.log)
        /\ \A i \in DOMAIN snap'.log : BeaconDraw(snap'.log[i])
               => i \in DOMAIN snap.log /\ snap'.log[i] = snap.log[i]
    BY <1>00, <2>1, <2>2, <2>3, CommitSound DEF CommitLate
  <2> QED BY <1>0, <2>2, <2>4, SoundStep
<1>4. CASE SourceFails \/ RoundFails
  <2>1. Quiet
    BY <1>0, <1>4 DEF SourceFails, RoundFails, Done, completionFrame, Flight, Snapshot, Quiet
  <2> QED BY <2>1, QuietKept
<1>5. CASE Finally \/ DrainEnd
  <2>1. Quiet
    BY <1>5 DEF Finally, DrainEnd, NoFlight, Quiet
  <2> QED BY <2>1, QuietKept
<1>6. ASSUME NEW seat \in Seats, Presence(seat) \/ SetReady(seat) PROVE DrawInv' /\ SecretStep
  <2>1. Quiet
    BY <1>0, <1>6 DEF Presence, SetReady, Snapshot, Quiet
  <2> QED BY <2>1, QuietKept
<1>7. CASE Persist \/ Deliver
  <2>1. /\ UNCHANGED <<conf, up, snap, secrets, counter, flight>>
        /\ stored' \in {stored, snap} /\ copy' \in {copy, snap}
    BY <1>7 DEF Persist, Deliver
  <2>2. SoundLog(snap.log, snap.segs)' /\ SoundLog(stored.log, stored.segs)'
        /\ SoundLog(copy.log, copy.segs)'
    BY <1>00, <2>1 DEF SoundLog, FromMode
  <2>3. StageInv' /\ ActiveInv' /\ CounterInv' /\ (HasActive' <=> HasActive)
    BY <1>00, <2>1 DEF StageInv, ActiveInv, CounterInv, HasActive
  <2>4. StoredInv'
    BY <1>0, <1>00, <2>1 DEF StoredInv, Prefix
  <2> QED BY <2>1, <2>2, <2>3, <2>4 DEF DrawInv, SecretStep
<1>8. CASE Adopt
  <2>1. /\ conf.mode = "plain" /\ conf.resume /\ snap' = copy
        /\ UNCHANGED <<conf, up, secrets, counter, flight, stored, copy>>
    BY <1>0, <1>8 DEF Adopt
  <2>2. SoundLog(snap.log, snap.segs)' /\ SoundLog(stored.log, stored.segs)'
        /\ SoundLog(copy.log, copy.segs)'
    BY <1>00, <2>1 DEF SoundLog, FromMode
  <2>3. StageInv' /\ ActiveInv' /\ StoredInv'
    BY <1>00, <2>1 DEF StageInv, ActiveInv, HasActive, StoredInv
  <2>4. FromMode(copy.log)
    BY <1>00 DEF SoundLog
  <2>5. CounterInv'
    BY <1>00, <2>1, <2>4 DEF CounterInv, FromMode
  <2>6. SecretStep
    BY <2>1, <2>4 DEF SecretStep, FromMode
  <2> QED BY <2>2, <2>3, <2>5, <2>6 DEF DrawInv
<1>9. CASE SeedOk
  <2> DEFINE base   == IF HasActive THEN RevealSecret ELSE secrets
             secret == [index |-> Len(secrets), seed |-> seeds + 1,
                        draws |-> 0, revealed |-> FALSE]
             public == [index |-> Len(secrets), commit |-> seeds + 1,
                        start |-> Len(snap.log), to |-> -1, seed |-> 0]
             shown  == Revealed(snap.segs, Len(snap.log))
             segs   == Append(shown, public)
             priv   == Append(base, secret)
  <2>1. /\ secrets' = priv /\ snap'.segs = segs /\ snap'.log = snap.log /\ up
        /\ UNCHANGED <<conf, up, counter, stored, copy>> /\ flight'.stage = "seeded"
    BY <1>0, <1>9 DEF SeedOk, Snapshot, Flight, completionFrame, AtStage, Idle
  <2>2. conf.mode = "seeded" /\ Aligned(secrets, snap.segs)
    BY <1>00, <1>9, <2>1 DEF SeedOk, AtStage, StageInv, ActiveInv
  <2>3. Len(secrets) \in Nat /\ Len(snap.segs) = Len(secrets)
    BY <1>0, <2>2, LenProperties DEF Aligned
  <2>4. secret \in Secret /\ public \in Segment
    BY <1>0, <2>3 DEF Secret, Segment
  <2>5. /\ shown \in Seq(Segment) /\ Len(shown) = Len(snap.segs)
        /\ IndexedSegs(shown) /\ CoveredDraws(snap.log, shown)
    <3>1. HasActive => snap.segs[Len(snap.segs)].commit = Last(secrets).seed
      BY <1>00, <2>1, <2>2 DEF ActiveInv, OpenFor
    <3> QED BY <1>0, <1>00, <2>2, <3>1, RevealSound DEF SoundLog
  <2>6. /\ base \in Seq(Secret) /\ Len(base) = Len(secrets)
        /\ \A i \in DOMAIN base : base[i].index = i - 1
    <3>1. CASE HasActive
      <4>1. base = RevealSecret
        BY <3>1
      <4> HIDE DEF base
      <4> QED BY <1>0, <2>2, <4>1, RevealSecretFacts DEF Aligned
    <3>2. CASE ~HasActive
      BY <1>0, <2>2, <3>2 DEF Aligned
    <3> QED BY <3>1, <3>2
  <2> HIDE DEF base, shown, secret, public
  <2>7. /\ segs \in Seq(Segment) /\ Len(segs) = Len(secrets) + 1
        /\ \A i \in DOMAIN shown : i \in DOMAIN segs /\ segs[i] = shown[i]
        /\ segs[Len(secrets) + 1] = public
        /\ \A i \in DOMAIN segs : i \in DOMAIN shown \/ i = Len(secrets) + 1
    BY <2>3, <2>4, <2>5, AppendFacts
  <2>8. /\ priv \in Seq(Secret) /\ Len(priv) = Len(secrets) + 1
        /\ \A i \in DOMAIN base : i \in DOMAIN priv /\ priv[i] = base[i]
        /\ priv[Len(secrets) + 1] = secret
        /\ \A i \in DOMAIN priv : i \in DOMAIN base \/ i = Len(secrets) + 1
    BY <2>4, <2>6, AppendFacts
  <2>9. /\ public.index = Len(secrets) /\ public.seed = 0 /\ public.to = -1
        /\ public.commit = seeds + 1 /\ public.start = Len(snap.log)
        /\ secret.index = Len(secrets) /\ secret.seed = seeds + 1 /\ secret.revealed = FALSE
    BY DEF public, secret
  <2> HIDE DEF segs, priv
  <2>10. IndexedSegs(segs)
    BY <2>3, <2>5, <2>7, <2>9 DEF IndexedSegs
  <2>11. CoveredDraws(snap.log, segs)
    <3>1. Len(shown) <= Len(segs)
          /\ \A i \in DOMAIN shown :
                /\ segs[i].commit = shown[i].commit /\ segs[i].start = shown[i].start
                /\ segs[i].to = shown[i].to \/ segs[i].to >= Len(snap.log) - 1
      BY <2>3, <2>5, <2>7
    <3> QED BY <1>0, <2>5, <2>7, <3>1, StillCovered
  <2>12. SoundLog(snap.log, snap.segs)'
    BY <1>00, <2>1, <2>10, <2>11 DEF SoundLog, FromMode
  <2>13. Last(priv) = secret /\ priv # << >>
    BY <2>3, <2>8, EmptySeq, LenProperties DEF Last
  <2>14. HasActive'
    BY <2>1, <2>9, <2>13 DEF HasActive
  <2>15. Aligned(priv, segs)
    BY <2>3, <2>6, <2>7, <2>8, <2>9 DEF Aligned
  <2>16. OpenFor(secret, segs, snap.log)
    <3>1. segs[Len(segs)] = public
      BY <2>7
    <3>2. ASSUME NEW i \in DOMAIN snap.log, SegDraw(snap.log[i]) PROVE snap.log[i].draw.key # Len(secrets)
      <4>1. snap.log[i].draw.key + 1 \in DOMAIN snap.segs
        BY <1>00, <3>2 DEF SoundLog, CoveredDraws
      <4>2. snap.log[i].draw.key + 1 \in 1 .. Len(secrets)
        BY <1>0, <2>3, <4>1, LenProperties
      <4> QED BY <2>3, <4>2
    <3> QED BY <1>0, <2>9, <3>1, <3>2 DEF OpenFor
  <2>17. ActiveInv'
    BY <2>1, <2>13, <2>15, <2>16 DEF ActiveInv
  <2>18. SoundLog(stored.log, stored.segs)' /\ SoundLog(copy.log, copy.segs)' /\ StoredInv'
    BY <1>00, <2>1 DEF SoundLog, FromMode, StoredInv
  <2>19. StageInv' /\ CounterInv'
    BY <1>00, <2>1, <2>2, <2>14 DEF StageInv, CounterInv
  <2> QED BY <2>1, <2>12, <2>17, <2>18, <2>19 DEF DrawInv, SecretStep
<1>10. CASE Bind
  <2>1. /\ snap'.segs = snap.segs /\ snap'.log = snap.log /\ up
        /\ UNCHANGED <<conf, up, secrets, stored, copy>> /\ counter' = counter + 1
        /\ flight.stage = "schedule" /\ flight'.stage = "round" /\ flight'.counter = counter
    BY <1>0, <1>10 DEF Bind, Snapshot, Flight, completionFrame, AtStage, Idle
  <2>2. SoundLog(snap.log, snap.segs)' /\ SoundLog(stored.log, stored.segs)'
        /\ SoundLog(copy.log, copy.segs)' /\ StoredInv'
    BY <1>00, <2>1 DEF SoundLog, FromMode, StoredInv
  <2>3. StageInv' /\ ActiveInv'
    BY <1>00, <2>1 DEF StageInv, ActiveInv, HasActive
  <2>4. CounterInv'
    <3> SUFFICES ASSUME NEW i \in DOMAIN snap.log, BeaconDraw(snap.log[i])
                 PROVE  snap.log[i].draw.key < counter + 1 /\ snap.log[i].draw.key # counter
      BY <1>0, <2>1 DEF CounterInv
    <3>1. snap.log[i] \in Entry
      BY <1>0, SeqEntries
    <3>2. snap.log[i].draw.key \in Nat
      BY <3>1 DEF Entry, Draw
    <3>3. snap.log[i].draw.key < counter
      BY <1>00, <2>1 DEF CounterInv
    <3> QED BY <1>0, <3>2, <3>3
  <2> QED BY <2>1, <2>2, <2>3, <2>4 DEF DrawInv, SecretStep
<1>11. CASE RoundOk
  <2> DEFINE draw == [NoDraw EXCEPT !.from = "beacon", !.key = flight.counter]
             e    == [kind |-> flight.kind, id |-> flight.id,
                      base |-> flight.base, draw |-> draw]
             t    == Append(snap.log, e)
  <2>1. /\ snap'.segs = snap.segs /\ snap'.log \in {snap.log, t} /\ up
        /\ UNCHANGED <<conf, up, secrets, counter, stored, copy>>
        /\ flight.stage = "round" /\ flight'.stage = "done"
    BY <1>0, <1>11 DEF RoundOk, FlightCmd, Done, Snapshot, Flight, completionFrame, AtStage, Idle
  <2>2. CASE snap'.log = snap.log
    <3>1. Quiet
      BY <2>1, <2>2 DEF Quiet
    <3> QED BY <3>1, QuietKept
  <2>3. CASE snap'.log = t
    <3>1. draw \in Draw /\ draw.from = "beacon" /\ draw.key = flight.counter
      BY <1>0 DEF NoDraw, Draw, Flight
    <3>2. e \in Entry /\ e.draw = draw
      <4> HIDE DEF draw
      <4> QED BY <1>0, <3>1 DEF Entry, Flight
    <3> HIDE DEF draw, e
    <3>3. /\ t \in Seq(Entry) /\ Len(t) = Len(snap.log) + 1
          /\ \A i \in DOMAIN snap.log : i \in DOMAIN t /\ t[i] = snap.log[i]
          /\ t[Len(snap.log) + 1] = e
          /\ \A i \in DOMAIN t : i \in DOMAIN snap.log \/ i = Len(snap.log) + 1
      BY <1>0, <3>2, AppendFacts
    <3>4. /\ conf.mode = "beacon" /\ flight.counter < counter
          /\ \A i \in DOMAIN snap.log : BeaconDraw(snap.log[i])
                => snap.log[i].draw.key < counter /\ snap.log[i].draw.key # flight.counter
      BY <1>00, <2>1 DEF StageInv, CounterInv
    <3>5. ~SegDraw(e) /\ BeaconDraw(e) /\ e.draw.key = flight.counter
      BY <3>1, <3>2 DEF SegDraw, BeaconDraw
    <3>6. SoundLog(t, snap.segs)
      <4>1. t = Append(snap.log, e)
        OBVIOUS
      <4>2. BeaconDraw(e) => /\ conf.mode = "beacon"
                             /\ \A i \in DOMAIN snap.log : BeaconDraw(snap.log[i])
                                                          => snap.log[i].draw.key # e.draw.key
        BY <3>4, <3>5
      <4> HIDE DEF t
      <4>3. ASSUME SegDraw(e) PROVE FALSE
        BY <3>5, <4>3
      <4> QED BY <1>0, <1>00, <3>2, <4>1, <4>2, <4>3, AppendSound
    <3> HIDE DEF t
    <3>7. SoundLog(snap.log, snap.segs)' /\ SoundLog(stored.log, stored.segs)'
          /\ SoundLog(copy.log, copy.segs)'
      BY <1>00, <2>1, <2>3, <3>6 DEF SoundLog, FromMode
    <3>8. StageInv' /\ ActiveInv'
      BY <2>1, <3>4 DEF StageInv, ActiveInv
    <3>9. CounterInv'
      BY <2>1, <2>3, <3>3, <3>4, <3>5 DEF CounterInv
    <3>10. StoredInv'
      <4>1. Prefix(snap.log, snap'.log)
        BY <1>0, <2>3, <3>3 DEF Prefix
      <4> QED BY <1>0, <1>00, <2>1, <2>3, <3>3, <4>1, PrefixTrans DEF StoredInv
    <3>11. SecretStep
      BY <2>3, <3>4, <3>6 DEF SecretStep, SoundLog, FromMode
    <3> QED BY <3>7, <3>8, <3>9, <3>10, <3>11 DEF DrawInv
  <2> QED BY <2>1, <2>2, <2>3
<1>12. CASE Crash \/ Close
  <2> DEFINE shown == Revealed(snap.segs, Len(snap.log))
  <2>1. /\ ~up' /\ flight'.stage = "idle" /\ snap'.log = snap.log
        /\ UNCHANGED <<conf, copy>>
        /\ \/ stored'.log = stored.log /\ stored'.segs = stored.segs
           \/ stored'.log = snap'.log /\ stored'.segs = snap'.segs
        /\ \/ snap'.segs = snap.segs
           \/ snap'.segs = shown /\ Close
    BY <1>0, <1>12 DEF Crash, Close, Gone, NoFlight, Snapshot
  <2>2. SoundLog(snap.log, snap'.segs)
    <3>1. CASE snap'.segs = snap.segs
      BY <1>00, <3>1
    <3>2. CASE snap'.segs = shown /\ Close
      <4>1. up /\ conf.mode = "seeded" /\ HasActive
        BY <3>2 DEF Close, Idle
      <4>2. /\ Aligned(secrets, snap.segs)
            /\ HasActive => snap.segs[Len(snap.segs)].commit = Last(secrets).seed
        BY <1>00, <4>1 DEF ActiveInv, OpenFor
      <4>3. IndexedSegs(shown) /\ CoveredDraws(snap.log, shown)
        <5> HIDE DEF shown
        <5>1. shown = Revealed(snap.segs, Len(snap.log))
          BY DEF shown
        <5> QED BY <1>0, <1>00, <4>2, <5>1, RevealSound DEF SoundLog
      <4> QED BY <1>00, <3>2, <4>3 DEF SoundLog
    <3> QED BY <2>1, <3>1, <3>2
  <2> HIDE DEF shown
  <2>3. SoundLog(snap.log, snap.segs)' /\ SoundLog(stored.log, stored.segs)'
        /\ SoundLog(copy.log, copy.segs)'
    BY <1>00, <2>1, <2>2 DEF SoundLog, FromMode
  <2>4. StageInv' /\ ActiveInv' /\ CounterInv'
    BY <2>1 DEF StageInv, ActiveInv, CounterInv
  <2>5. StoredInv'
    BY <1>0, <1>00, <2>1 DEF StoredInv, Prefix
  <2>6. SecretStep
    BY <2>1 DEF SecretStep
  <2> QED BY <2>3, <2>4, <2>5, <2>6 DEF DrawInv
<1>13. CASE Restart
  <2> DEFINE segs == Restored(stored.segs, Len(stored.log))
             priv == [i \in DOMAIN stored.segs |->
                        [index |-> stored.segs[i].index, seed |-> stored.segs[i].seed,
                         draws |-> 0, revealed |-> TRUE]]
  <2>1. /\ snap'.log = stored.log /\ snap'.segs = segs /\ secrets' = priv
        /\ UNCHANGED <<conf, flight, stored, copy>> /\ flight.stage = "idle"
        /\ counter' \in IF conf.mode = "beacon" THEN NextCounter(stored.log) ELSE {0}
    BY <1>0, <1>13 DEF Restart, DownAtRest, NoFlight, Snapshot
  <2>2. /\ segs \in Seq(Segment) /\ Len(segs) = Len(stored.segs)
        /\ IndexedSegs(segs) /\ CoveredDraws(stored.log, segs)
    BY <1>0, <1>00, RestoredSound DEF SoundLog
  <2>3. /\ secrets' \in Seq(Secret) /\ DOMAIN secrets' = DOMAIN stored.segs
        /\ \A i \in DOMAIN stored.segs : /\ secrets'[i].index = stored.segs[i].index
                                        /\ secrets'[i].revealed
    BY <2>1 DEF TypeOK
  <2> HIDE DEF segs, priv
  <2>4. SoundLog(snap.log, snap.segs)' /\ SoundLog(stored.log, stored.segs)'
        /\ SoundLog(copy.log, copy.segs)'
    BY <1>00, <2>1, <2>2 DEF SoundLog, FromMode
  <2>5. Len(secrets') = Len(stored.segs)
    BY <1>0, <2>3, LenProperties
  <2>6. ~HasActive'
    <3> SUFFICES ASSUME secrets' # << >> PROVE Last(secrets').revealed
      BY DEF HasActive
    <3>1. Len(secrets') \in DOMAIN secrets'
      BY <2>3, LenProperties, EmptySeq
    <3> QED BY <2>3, <3>1 DEF Last
  <2>7. ActiveInv'
    <3>1. \A i \in DOMAIN stored.segs : stored.segs[i].index = i - 1
      BY <1>00 DEF SoundLog, IndexedSegs
    <3>2. Aligned(secrets', segs)
      BY <2>2, <2>3, <2>5, <3>1 DEF Aligned
    <3> QED BY <2>1, <2>6, <3>2 DEF ActiveInv
  <2>8. StageInv'
    BY <2>1 DEF StageInv
  <2>9. CounterInv'
    <3> SUFFICES ASSUME NEW i \in DOMAIN stored.log, BeaconDraw(stored.log[i])
                 PROVE  stored.log[i].draw.key < counter'
      BY <2>1 DEF CounterInv
    <3>1. conf.mode = "beacon"
      BY <1>00 DEF SoundLog, FromMode
    <3>2. stored.log[i] \in Entry
      BY <1>0, SeqEntries
    <3>3. stored.log[i].draw.key \in Nat
      BY <3>2 DEF Entry, Draw
    <3>4. stored.log[i].draw.key \in BeaconKeys(stored.log)
      BY DEF BeaconKeys, BeaconDraw
    <3>5. counter' \in NextCounter(stored.log)
      BY <2>1, <3>1
    <3>6. stored.log[i].draw.key + 1 <= counter'
      BY <3>4, <3>5 DEF NextCounter, Greatest
    <3>7. counter' \in Nat
      BY DEF TypeOK
    <3> QED BY <3>3, <3>6, <3>7
  <2>10. StoredInv'
    BY <1>0, <2>1 DEF StoredInv, Prefix
  <2>11. SecretStep
    <3> SUFFICES ASSUME NEW i \in DOMAIN stored.log \ DOMAIN snap.log, SegDraw(stored.log[i])
                 PROVE  FALSE
      BY <2>1 DEF SecretStep
    <3>1. conf.mode = "seeded"
      BY <1>00 DEF SoundLog, FromMode
    <3>2. Prefix(stored.log, snap.log)
      BY <1>0, <1>00, <3>1 DEF StoredInv
    <3> QED BY <1>0, <3>2, LenProperties DEF Prefix
  <2> QED BY <2>4, <2>7, <2>8, <2>9, <2>10, <2>11 DEF DrawInv
<1> QED BY <1>1, <1>2, <1>3, <1>4, <1>5, <1>6, <1>7, <1>8, <1>9, <1>10, <1>11, <1>12, <1>13
        DEF Next, Task, Completion

(* A fresh table is sound.                                                  *)
LEMMA InitDraws ==
    Init => DrawInv
<1> SUFFICES ASSUME Init PROVE DrawInv
  OBVIOUS
<1>1. /\ snap.log = << >> /\ stored = snap /\ copy = snap /\ flight.stage = "idle"
      /\ snap.segs = IF conf.mode = "seeded"
                     THEN <<[index |-> 0, commit |-> 1, start |-> 0, to |-> -1, seed |-> 0]>>
                     ELSE << >>
      /\ secrets = IF conf.mode = "seeded"
                   THEN <<[index |-> 0, seed |-> 1, draws |-> 0, revealed |-> FALSE]>>
                   ELSE << >>
  BY DEF Init, NoFlight
<1>2. IndexedSegs(snap.segs)
  BY <1>1 DEF IndexedSegs
<1>3. SoundLog(snap.log, snap.segs)
  BY <1>1, <1>2 DEF SoundLog, CoveredDraws, DistinctDraws, FromMode
<1>4. ActiveInv
  BY <1>1 DEF ActiveInv, Aligned, OpenFor, Last
<1>5. StageInv /\ CounterInv /\ StoredInv
  BY <1>1 DEF StageInv, CounterInv, StoredInv, Prefix
<1> QED BY <1>1, <1>3, <1>4, <1>5 DEF DrawInv

-----------------------------------------------------------------------------
(* The theorems. *)

(* The invariant holds always.                                              *)
LEMMA InvDraws == ResumeWithoutDraws => (Spec => [](TypeInv /\ DownAtRest /\ DrawInv))
<1> SUFFICES ASSUME ResumeWithoutDraws
             PROVE  Spec => [](TypeInv /\ DownAtRest /\ DrawInv)
  OBVIOUS
<1>1. TypeInv /\ TypeInv' /\ DownAtRest /\ DrawInv /\ [Next]_vars => DrawInv'
  BY DrawKept
<1> QED BY InvTyped, InitDraws, <1>1, PTL DEF Spec

(* The same random bytes never serve two entries of a log, whatever the order
   of commands, completions, crashes, closings and restarts: the n-th draw of
   a segment and the round a counter was bound to are used once
   (applySeeded, beaconDraw, restoreBeacon).                                 *)
THEOREM NoReuse == ResumeWithoutDraws => (Spec => []NoDrawReuse)
<1> SUFFICES ASSUME ResumeWithoutDraws PROVE Spec => []NoDrawReuse
  OBVIOUS
<1>1. DrawInv => NoDrawReuse
  BY DEF DrawInv, SoundLog, DistinctDraws, NoDrawReuse, SegDraw, BeaconDraw
<1> QED BY InvDraws, <1>1, PTL

(* Every draw of a seeded table lies in the range of exactly one published
   segment, whose commitment is to the seed it used, and what is revealed is
   the committed seed (verifySegment's questions).                           *)
THEOREM Verifiable == ResumeWithoutDraws => (Spec => []DrawsVerifiable)
<1> SUFFICES ASSUME ResumeWithoutDraws PROVE Spec => []DrawsVerifiable
  OBVIOUS
<1>1. TypeOK /\ DrawInv => DrawsVerifiable
  <2> SUFFICES ASSUME TypeOK, DrawInv, NEW i \in DOMAIN snap.log, SegDraw(snap.log[i])
               PROVE  LET draw == snap.log[i].draw
                          mine == {j \in DOMAIN snap.segs : snap.segs[j].index = draw.key}
                      IN  \E j \in mine :
                            LET seg == snap.segs[j]
                            IN  /\ mine = {j}
                                /\ seg.commit = draw.seed
                                /\ seg.start <= i - 1 /\ (seg.to # -1 => i - 1 <= seg.to)
                                /\ seg.seed \in {0, seg.commit}
    BY DEF DrawsVerifiable
  <2> DEFINE draw == snap.log[i].draw
             mine == {j \in DOMAIN snap.segs : snap.segs[j].index = draw.key}
             k    == draw.key + 1
  <2>1. /\ k \in DOMAIN snap.segs /\ Covers(snap.segs[k], draw, i)
        /\ \A j \in DOMAIN snap.segs : /\ snap.segs[j].index = j - 1
                                      /\ snap.segs[j].seed \in {0, snap.segs[j].commit}
    BY DEF DrawInv, SoundLog, CoveredDraws, IndexedSegs
  <2>2. snap.log \in Seq(Entry) /\ snap.segs \in Seq(Segment)
    BY DEF TypeOK, Snapshot
  <2>3. snap.log[i] \in Entry
    BY <2>2, SeqEntries
  <2>4. draw.key \in Nat /\ DOMAIN snap.segs \subseteq Nat
    <3>1. snap.log[i].draw \in Draw
      BY <2>3 DEF Entry
    <3>2. draw.key \in Nat
      BY <3>1 DEF Draw
    <3>3. DOMAIN snap.segs = 1 .. Len(snap.segs) /\ Len(snap.segs) \in Nat
      BY <2>2, LenProperties
    <3> QED BY <3>2, <3>3
  <2> HIDE DEF draw
  <2>5. mine = {k}
    BY <2>1, <2>4
  <2> QED BY <2>1, <2>5 DEF Covers, draw
<1>2. TypeInv => TypeOK
  BY DEF TypeInv
<1> QED BY InvDraws, <1>1, <1>2, PTL

(* No entry is drawn from a segment whose seed is already public: a seed is
   revealed only with the last draw from it, when the table closes, or is lost
   with the process (revealActive, restoreSegments).                         *)
THEOREM SecretDraws == ResumeWithoutDraws => (Spec => SecretWhileDrawn)
<1> SUFFICES ASSUME ResumeWithoutDraws PROVE Spec => SecretWhileDrawn
  OBVIOUS
<1>1. TypeInv /\ TypeInv' /\ DownAtRest /\ DrawInv /\ [Next]_vars => SecretStep
  BY DrawKept
<1>2. SecretStep => [\A i \in DOMAIN snap'.log \ DOMAIN snap.log :
                       SegDraw(snap'.log[i]) =>
                         \A j \in DOMAIN snap.segs :
                           snap.segs[j].index = snap'.log[i].draw.key
                           => snap.segs[j].seed = 0]_vars
  BY DEF SecretStep
<1> QED BY InvDraws, <1>1, <1>2, PTL DEF Spec, SecretWhileDrawn

-----------------------------------------------------------------------------
(* The invariant: what waits is waited for. *)

CallsInv == calls \in {<< >>, <<"drain">>, <<"evaluate">>, <<"evaluate", "drain">>}

(* A command is in the queue only behind a draw, or while the queue drains; a
   table without asynchronous draws never queues.                            *)
QueueInv ==
    /\ queue # << >> => Busy \/ calls \in {<<"drain">>, <<"evaluate", "drain">>}
    /\ \A i \in DOMAIN queue : queue[i].id # 0
    /\ conf.mode = "plain" => ~Busy /\ queue = << >>

(* What waits dies with the process.                                        *)
DownInv == ~up => queue = << >> /\ calls = << >>

(* A log answers in the order of arrival, and nothing beyond the n-th arrival. *)
OrderedLog(log, n) ==
    /\ \A i, j \in DOMAIN log : (i < j /\ log[j].id # 0) => log[i].id < log[j].id
    /\ \A i \in DOMAIN log : log[i].id <= n

OrderInv ==
    conf.mode = "plain" => /\ OrderedLog(snap.log, arrived)
                           /\ OrderedLog(stored.log, arrived)
                           /\ OrderedLog(copy.log, arrived)

ServiceInv == CallsInv /\ QueueInv /\ DownInv /\ OrderInv

-----------------------------------------------------------------------------
(* The ids of a sequence of commands or entries. *)

LEMMA IdsFacts ==
    ASSUME NEW S, \A x \in S : x.id \in Nat, NEW s \in Seq(S)
    PROVE  /\ Ids(s) \in Seq(Nat) /\ Len(Ids(s)) = Len(s) /\ DOMAIN Ids(s) = DOMAIN s
           /\ \A i \in DOMAIN s : Ids(s)[i] = s[i].id
           /\ (Ids(s) = << >>) <=> (s = << >>)
<1> DEFINE f == Ids(s)
<1>1. \A i \in DOMAIN s : f[i] = s[i].id
  BY DEF Ids
<1>2. \A i \in DOMAIN s : f[i] \in Nat
  BY <1>1, SeqEntries
<1>3. f = [i \in DOMAIN s |-> f[i]]
  BY DEF Ids
<1> HIDE DEF f
<1>4. f \in Seq(Nat) /\ Len(f) = Len(s) /\ DOMAIN f = DOMAIN s
  BY <1>2, <1>3, MappedSeq
<1>5. (f = << >>) <=> (s = << >>)
  BY <1>4, EmptySeq
<1> QED BY <1>1, <1>4, <1>5 DEF f

LEMMA IdsAppend ==
    ASSUME NEW S, \A x \in S : x.id \in Nat, NEW s \in Seq(S), NEW x \in S
    PROVE  Ids(Append(s, x)) = Append(Ids(s), x.id)
<1> DEFINE t == Append(s, x)
           f == Ids(t)
           g == Append(Ids(s), x.id)
<1>1. /\ t \in Seq(S) /\ Len(t) = Len(s) + 1 /\ Len(s) \in Nat
      /\ DOMAIN s = 1 .. Len(s)
      /\ \A i \in DOMAIN s : i \in DOMAIN t /\ t[i] = s[i]
      /\ Len(s) + 1 \in DOMAIN t /\ t[Len(s) + 1] = x
  BY AppendFacts
<1>2. /\ Ids(s) \in Seq(Nat) /\ Len(Ids(s)) = Len(s)
      /\ \A i \in DOMAIN s : Ids(s)[i] = s[i].id
  BY IdsFacts
<1>3. /\ g \in Seq(Nat) /\ Len(g) = Len(s) + 1
      /\ \A i \in 1 .. Len(s) : g[i] = Ids(s)[i]
      /\ g[Len(s) + 1] = x.id
  BY <1>1, <1>2, AppendProperties
<1> HIDE DEF t, g
<1>4. f \in Seq(Nat) /\ Len(f) = Len(s) + 1 /\ \A i \in DOMAIN t : f[i] = t[i].id
  BY <1>1, IdsFacts
<1> HIDE DEF f
<1>5. \A i \in 1 .. Len(f) : f[i] = g[i]
  <2> TAKE i \in 1 .. Len(f)
  <2>1. CASE i \in 1 .. Len(s)
    BY <1>1, <1>2, <1>3, <1>4, <2>1
  <2>2. CASE i = Len(s) + 1
    BY <1>1, <1>3, <1>4, <2>2
  <2> QED BY <1>1, <1>4, <2>1, <2>2
<1>6. f = g
  BY <1>3, <1>4, <1>5, SeqEqual
<1> QED BY <1>6 DEF f, g, t

LEMMA IdsTail ==
    ASSUME NEW S, \A x \in S : x.id \in Nat, NEW s \in Seq(S), s # << >>
    PROVE  /\ Ids(s) # << >> /\ Head(Ids(s)) = Head(s).id
           /\ Ids(Tail(s)) = Tail(Ids(s))
<1> DEFINE t == Tail(s)
           f == Ids(t)
           h == Ids(s)
           g == Tail(h)
<1>1. /\ t \in Seq(S) /\ Len(t) = Len(s) - 1 /\ Len(s) \in Nat \ {0}
      /\ DOMAIN s = 1 .. Len(s) /\ Head(s) = s[1]
      /\ \A i \in 1 .. Len(s) - 1 : t[i] = s[i + 1] /\ i \in DOMAIN t
  BY HeadTailProperties, LenProperties, EmptySeq
<1>2. /\ h \in Seq(Nat) /\ Len(h) = Len(s) /\ h # << >>
      /\ \A i \in DOMAIN s : h[i] = s[i].id
  BY IdsFacts
<1> HIDE DEF t, h
<1>3. /\ g \in Seq(Nat) /\ Len(g) = Len(s) - 1 /\ Head(h) = h[1]
      /\ \A i \in 1 .. Len(s) - 1 : g[i] = h[i + 1]
  BY <1>1, <1>2, HeadTailProperties
<1> HIDE DEF g
<1>4. f \in Seq(Nat) /\ Len(f) = Len(s) - 1 /\ \A i \in DOMAIN t : f[i] = t[i].id
  BY <1>1, IdsFacts
<1> HIDE DEF f
<1>5. \A i \in 1 .. Len(f) : f[i] = g[i]
  <2> TAKE i \in 1 .. Len(f)
  <2>1. i + 1 \in DOMAIN s /\ t[i] = s[i + 1] /\ i \in DOMAIN t
    BY <1>1, <1>4
  <2> QED BY <1>1, <1>2, <1>3, <1>4, <2>1
<1>6. f = g
  BY <1>1, <1>3, <1>4, <1>5, SeqEqual
<1>7. Head(h) = Head(s).id
  <2>1. 1 \in DOMAIN s
    BY <1>1
  <2> QED BY <1>1, <1>2, <1>3, <2>1
<1> QED BY <1>2, <1>6, <1>7 DEF f, g, h, t

(* An initial part of a log has an initial part of its ids.                 *)
LEMMA IdsPrefix ==
    ASSUME NEW S, \A x \in S : x.id \in Nat, NEW r \in Seq(S), NEW s \in Seq(S), Prefix(r, s)
    PROVE  \E n \in 0 .. Len(Ids(s)) : Ids(r) = SubSeq(Ids(s), 1, n)
<1> DEFINE f == Ids(r)
           h == Ids(s)
           g == SubSeq(h, 1, Len(r))
<1>1. /\ Len(r) \in Nat /\ Len(s) \in Nat /\ Len(r) <= Len(s)
      /\ DOMAIN r = 1 .. Len(r) /\ DOMAIN s = 1 .. Len(s)
      /\ \A i \in DOMAIN r : r[i] = s[i]
  BY LenProperties DEF Prefix
<1>2. /\ h \in Seq(Nat) /\ Len(h) = Len(s)
      /\ \A i \in DOMAIN s : h[i] = s[i].id
  BY IdsFacts
<1>3. /\ f \in Seq(Nat) /\ Len(f) = Len(r)
      /\ \A i \in DOMAIN r : f[i] = r[i].id
  BY IdsFacts
<1> HIDE DEF f, h
<1>4. /\ g \in Seq(Nat) /\ Len(g) = Len(r)
      /\ \A i \in 1 .. Len(r) : g[i] = h[i]
  BY <1>1, <1>2, SubSeqProperties
<1> HIDE DEF g
<1>5. \A i \in 1 .. Len(f) : f[i] = g[i]
  <2> TAKE i \in 1 .. Len(f)
  <2>1. i \in DOMAIN r /\ i \in DOMAIN s /\ i \in 1 .. Len(r)
    BY <1>1, <1>3
  <2> QED BY <1>1, <1>2, <1>3, <1>4, <2>1
<1>6. f = g
  BY <1>3, <1>4, <1>5, SeqEqual
<1>7. f = SubSeq(h, 1, Len(r)) /\ Len(r) \in 0 .. Len(h)
  BY <1>1, <1>2, <1>6 DEF g
<1> QED BY <1>7 DEF f, h

-----------------------------------------------------------------------------
(* What the players see. *)

Waiting == IF InFlight /\ flight.id # 0 THEN <<FlightCmd>> \o queue ELSE queue

(* Commands and entries have ids.                                           *)
LEMMA HaveIds ==
    (\A x \in Cmd : x.id \in Nat) /\ (\A x \in Entry : x.id \in Nat)
BY DEF Cmd, Entry

(* The command with this id is answered; with id 0, the table may have acted
   on its own.                                                               *)
AnswersId(id) ==
    \/ (\E e \in Entry : e.id = id /\ snap'.log = Append(snap.log, e)) /\ refused' = refused
    \/ snap'.log = snap.log /\ Refuse(id)

LEMMA CommitAnswers ==
    ASSUME TypeOK, AuditComplete(snap.segs),
           NEW cmd \in Cmd, NEW base \in Nat, NEW draw, NEW fresh,
           Legal(cmd.kind, snap.log) => draw \in Draw,
           \/ CommitOk(cmd, base, draw, fresh)
           \/ CommitThrows(cmd, base, draw, fresh)
           \/ CommitRefused(cmd)
    PROVE  AnswersId(cmd.id)
<1>1. CASE CommitRefused(cmd)
  BY <1>1 DEF CommitRefused, AnswersId
<1>2. CASE CommitThrows(cmd, base, draw, fresh)
  BY <1>2 DEF CommitThrows
<1>3. CASE CommitOk(cmd, base, draw, fresh)
  <2> DEFINE e == [kind |-> cmd.kind, id |-> cmd.id, base |-> base, draw |-> draw]
  <2>1. e \in Entry /\ e.id = cmd.id
    BY <1>3 DEF CommitOk, Entry, Cmd
  <2>2. snap'.log = Append(snap.log, e) /\ refused' = refused
    BY <1>3 DEF CommitOk, TypeOK, Snapshot
  <2> HIDE DEF e
  <2> QED BY <2>1, <2>2 DEF AnswersId
<1> QED BY <1>1, <1>2, <1>3

(* apply answers at once, or takes the command in flight; it never unwinds the
   task.                                                                     *)
LEMMA ApplyNowServes ==
    ASSUME TypeOK, ~Busy, AuditComplete(snap.segs), NEW cmd \in Cmd, NEW rest,
           ApplyNow(cmd, rest)
    PROVE  \/ /\ flight'.stage \notin {"idle", "done"} /\ FlightCmd' = cmd
              /\ flight'.id = cmd.id
              /\ snap' = snap /\ refused' = refused /\ calls' = rest
              /\ conf.mode # "plain"
           \/ /\ flight' = flight /\ AnswersId(cmd.id)
              /\ \/ calls' = rest
                 \/ /\ calls' = <<"evaluate">> \o rest
                    /\ ~(rest # << >> /\ Head(rest) = "evaluate")
<1>1. CASE BeginFlight(cmd) /\ calls' = rest
  <2>1. AsyncStage(cmd.kind) # "done" /\ (AsyncStage(cmd.kind) # "idle" => conf.mode # "plain")
    BY DEF AsyncStage
  <2>2. [kind |-> cmd.kind, id |-> cmd.id] = cmd
    BY DEF Cmd
  <2>3. flight'.kind = cmd.kind /\ flight'.id = cmd.id /\ flight'.stage = AsyncStage(cmd.kind)
    BY <1>1 DEF BeginFlight
  <2> QED BY <1>1, <2>1, <2>2, <2>3 DEF BeginFlight, FlightCmd
<1>2. CASE ~(BeginFlight(cmd) /\ calls' = rest)
  <2> DEFINE draw  == SyncDraw(cmd.kind)
             fresh == SyncSecrets(cmd.kind)
             base  == Len(snap.log)
  <2>1. /\ AsyncStage(cmd.kind) = "idle" /\ flight' = flight
        /\ \/ /\ CommitOk(cmd, base, draw, fresh)
              /\ calls' = IF rest # << >> /\ Head(rest) = "evaluate"
                          THEN rest ELSE <<"evaluate">> \o rest
           \/ CommitThrows(cmd, base, draw, fresh) /\ calls' = << >>
           \/ CommitRefused(cmd) /\ calls' = rest
    BY <1>2 DEF ApplyNow
  <2>2. Legal(cmd.kind, snap.log) => draw \in Draw
    BY <2>1, NeedsActive
  <2>3. base \in Nat
    BY LenProperties DEF TypeOK, Snapshot
  <2> HIDE DEF draw, fresh, base
  <2>4. AnswersId(cmd.id)
    BY <2>1, <2>2, <2>3, CommitAnswers
  <2>5. ~CommitThrows(cmd, base, draw, fresh)
    BY DEF CommitThrows
  <2> QED BY <2>1, <2>4, <2>5
<1> QED BY <1>1, <1>2

-----------------------------------------------------------------------------
(* Steps of the pipeline as steps of the service. *)

ServiceStep == [Service!Next]_(Service!vars)

LEMMA WaitingType ==
    ASSUME TypeOK
    PROVE  Waiting \in Seq(Cmd) /\ snap.log \in Seq(Entry) /\ FlightCmd \in Cmd
<1>1. flight \in Flight /\ queue \in Seq(Cmd) /\ snap.log \in Seq(Entry)
  BY DEF TypeOK, Snapshot
<1>2. FlightCmd \in Cmd
  BY <1>1 DEF FlightCmd, Flight, Cmd
<1> QED BY <1>1, <1>2 DEF Waiting

(* Nothing a player sees.                                                   *)
LEMMA Stutters ==
    ASSUME Waiting' = Waiting, snap'.log = snap.log,
           UNCHANGED <<conf, arrived, refused>>
    PROVE  ServiceStep
<1>1. Ids(Waiting)' = Ids(Waiting) /\ Ids(snap.log)' = Ids(snap.log)
  BY DEF Ids
<1> QED BY <1>1 DEF ServiceStep, Service!vars, Waiting

LEMMA AnswerStep ==
    ASSUME TypeOK, Waiting # << >>, Waiting' = Tail(Waiting), NEW id, id # 0,
           Head(Waiting).id = id, AnswersId(id), UNCHANGED <<conf, arrived>>
    PROVE  ServiceStep
<1>1. Waiting \in Seq(Cmd) /\ snap.log \in Seq(Entry)
  BY WaitingType
<1>2. /\ Ids(Waiting) # << >> /\ Head(Ids(Waiting)) = id
      /\ Ids(Tail(Waiting)) = Tail(Ids(Waiting))
  BY <1>1, HaveIds, IdsTail
<1>3. Ids(Waiting)' = Tail(Ids(Waiting))
  <2>1. Ids(Waiting)' = Ids(Waiting')
    BY DEF Ids
  <2> QED BY <1>2, <2>1
<1>4. \/ Ids(snap.log)' = Append(Ids(snap.log), id) /\ refused' = refused
      \/ Ids(snap.log)' = Ids(snap.log) /\ refused' = refused \cup {id}
  <2>1. Ids(snap.log)' = Ids(snap'.log)
    BY DEF Ids
  <2>2. CASE (\E e \in Entry : e.id = id /\ snap'.log = Append(snap.log, e)) /\ refused' = refused
    BY <1>1, <2>1, <2>2, HaveIds, IdsAppend
  <2>3. CASE snap'.log = snap.log /\ Refuse(id)
    BY <2>1, <2>3 DEF Refuse
  <2> QED BY <2>2, <2>3 DEF AnswersId
<1>5. Service!Answer
  BY <1>2, <1>3, <1>4 DEF Service!Answer, Service!Answered, Waiting
<1> QED BY <1>5 DEF ServiceStep, Service!Next

LEMMA OwnStep ==
    ASSUME TypeOK, Waiting' = Waiting, AnswersId(0), UNCHANGED <<conf, arrived>>
    PROVE  ServiceStep
<1>1. snap.log \in Seq(Entry)
  BY WaitingType
<1>2. Ids(Waiting)' = Ids(Waiting)
  BY DEF Ids
<1>3. CASE (\E e \in Entry : e.id = 0 /\ snap'.log = Append(snap.log, e)) /\ refused' = refused
  <2>1. Ids(snap.log)' = Ids(snap'.log)
    BY DEF Ids
  <2>2. Ids(snap.log)' = Append(Ids(snap.log), 0)
    BY <1>1, <1>3, <2>1, HaveIds, IdsAppend
  <2>3. Service!Own
    BY <1>2, <1>3, <2>2 DEF Service!Own, Waiting
  <2> QED BY <2>3 DEF ServiceStep, Service!Next
<1>4. CASE snap'.log = snap.log /\ Refuse(0)
  BY <1>4, Stutters DEF Refuse
<1> QED BY <1>3, <1>4 DEF AnswersId

LEMMA ArriveStep ==
    ASSUME TypeOK, NEW cmd \in Cmd, cmd.id = arrived + 1, Waiting' = Append(Waiting, cmd),
           snap'.log = snap.log, arrived' = arrived + 1, UNCHANGED <<conf, refused>>
    PROVE  ServiceStep
<1>1. Waiting \in Seq(Cmd)
  BY WaitingType
<1>2. Ids(Append(Waiting, cmd)) = Append(Ids(Waiting), arrived + 1)
  BY <1>1, HaveIds, IdsAppend
<1>3. Ids(Waiting)' = Append(Ids(Waiting), arrived + 1)
  <2>1. Ids(Waiting)' = Ids(Waiting')
    BY DEF Ids
  <2> QED BY <1>2, <2>1
<1>4. Ids(snap.log)' = Ids(snap.log)
  BY DEF Ids
<1>5. Service!Arrive
  BY <1>3, <1>4 DEF Service!Arrive, Waiting
<1> QED BY <1>5 DEF ServiceStep, Service!Next

LEMMA ServeStep ==
    ASSUME TypeOK, Waiting = << >>, Waiting' = << >>, AnswersId(arrived + 1),
           arrived' = arrived + 1, conf' = conf
    PROVE  ServiceStep
<1>1. Waiting \in Seq(Cmd) /\ snap.log \in Seq(Entry) /\ arrived \in Nat
  BY WaitingType DEF TypeOK
<1>2. Ids(Waiting) = << >> /\ Ids(Waiting)' = << >>
  <2>1. Ids(<< >>) = << >>
    BY DEF Ids
  <2>2. Ids(Waiting)' = Ids(Waiting')
    BY DEF Ids
  <2> QED BY <2>1, <2>2
<1>3. \/ Ids(snap.log)' = Append(Ids(snap.log), arrived + 1) /\ refused' = refused
      \/ Ids(snap.log)' = Ids(snap.log) /\ refused' = refused \cup {arrived + 1}
  <2>1. Ids(snap.log)' = Ids(snap'.log)
    BY DEF Ids
  <2>2. CASE /\ \E e \in Entry : e.id = arrived + 1 /\ snap'.log = Append(snap.log, e)
             /\ refused' = refused
    BY <1>1, <2>1, <2>2, HaveIds, IdsAppend
  <2>3. CASE snap'.log = snap.log /\ Refuse(arrived + 1)
    BY <1>1, <2>1, <2>3 DEF Refuse
  <2> QED BY <2>2, <2>3 DEF AnswersId
<1>4. Service!Serve
  BY <1>2, <1>3 DEF Service!Serve, Service!Answered, Waiting
<1> QED BY <1>4 DEF ServiceStep, Service!Next

LEMMA ForgetStep ==
    ASSUME Waiting' = << >>, snap'.log = snap.log, UNCHANGED <<conf, arrived, refused>>
    PROVE  ServiceStep
<1>1. Ids(Waiting)' = << >>
  <2>1. Ids(<< >>) = << >>
    BY DEF Ids
  <2>2. Ids(Waiting)' = Ids(Waiting')
    BY DEF Ids
  <2> QED BY <2>1, <2>2
<1>2. Ids(snap.log)' = Ids(snap.log)
  BY DEF Ids
<1>3. Service!Forget
  BY <1>1, <1>2 DEF Service!Forget, Waiting
<1> QED BY <1>3 DEF ServiceStep, Service!Next

LEMMA RestoreStep ==
    ASSUME TypeOK, TypeOK', Waiting = << >>, Waiting' = << >>, Prefix(snap'.log, snap.log),
           UNCHANGED <<conf, arrived, refused>>
    PROVE  ServiceStep
<1>1. snap.log \in Seq(Entry) /\ snap'.log \in Seq(Entry)
  BY DEF TypeOK, Snapshot
<1>2. Ids(Waiting) = << >> /\ Ids(Waiting)' = << >>
  <2>1. Ids(<< >>) = << >>
    BY DEF Ids
  <2>2. Ids(Waiting)' = Ids(Waiting')
    BY DEF Ids
  <2> QED BY <2>1, <2>2
<1>3. \E n \in 0 .. Len(Ids(snap.log)) : Ids(snap.log)' = SubSeq(Ids(snap.log), 1, n)
  <2>1. Ids(snap.log)' = Ids(snap'.log)
    BY DEF Ids
  <2> QED BY <1>1, <2>1, HaveIds, IdsPrefix
<1>4. Service!Restore
  BY <1>2, <1>3 DEF Service!Restore, Waiting
<1> QED BY <1>4 DEF ServiceStep, Service!Next

LEMMA ReplaceStep ==
    ASSUME TypeOK, TypeOK', conf.resume, Waiting' = Waiting, OrderedLog(snap'.log, arrived),
           UNCHANGED <<conf, arrived, refused>>
    PROVE  ServiceStep
<1>1. snap'.log \in Seq(Entry) /\ arrived \in Nat
  BY DEF TypeOK, Snapshot
<1> DEFINE f == Ids(snap'.log)
<1>2. /\ DOMAIN f = DOMAIN snap'.log
      /\ \A i \in DOMAIN snap'.log : f[i] = snap'.log[i].id /\ snap'.log[i].id \in Nat
  BY <1>1, HaveIds, IdsFacts, SeqEntries
<1>3. Ids(snap.log)' = f /\ Ids(Waiting)' = Ids(Waiting)
  BY DEF Ids
<1> HIDE DEF f
<1>4. /\ \A i, j \in DOMAIN f : (i < j /\ f[j] # 0) => f[i] < f[j]
      /\ \A i \in DOMAIN f : f[i] \in 0 .. arrived
  BY <1>1, <1>2 DEF OrderedLog
<1>5. Service!Replace
  BY <1>3, <1>4 DEF Service!Replace, Service!InOrder, Waiting
<1> QED BY <1>5 DEF ServiceStep, Service!Next

-----------------------------------------------------------------------------
(* Every step keeps the invariant and is a step of the service. *)

(* A log stays in order when commands arrive, and when the newest of them, or
   the table itself, makes an entry.                                         *)
LEMMA OrderedLater ==
    ASSUME NEW log \in Seq(Entry), NEW n \in Nat, OrderedLog(log, n)
    PROVE  OrderedLog(log, n + 1)
<1>1. \A i \in DOMAIN log : log[i].id \in Nat
  BY HaveIds, SeqEntries
<1> QED BY <1>1 DEF OrderedLog

LEMMA OrderedAppend ==
    ASSUME NEW log \in Seq(Entry), NEW n \in Nat, OrderedLog(log, n), NEW e \in Entry,
           NEW m \in Nat, (e.id = 0 /\ m = n) \/ (e.id = n + 1 /\ m = n + 1)
    PROVE  OrderedLog(Append(log, e), m)
<1> DEFINE t == Append(log, e)
<1>1. /\ Len(log) \in Nat /\ DOMAIN log = 1 .. Len(log) /\ DOMAIN t = 1 .. Len(log) + 1
      /\ \A i \in DOMAIN log : t[i] = log[i]
      /\ t[Len(log) + 1] = e
      /\ \A i \in DOMAIN t : i \in DOMAIN log \/ i = Len(log) + 1
  BY AppendFacts
<1>2. \A i \in DOMAIN log : log[i].id \in Nat /\ log[i].id <= n
  BY HaveIds, SeqEntries DEF OrderedLog
<1> HIDE DEF t
<1>3. \A i \in DOMAIN t : t[i].id <= m
  BY <1>1, <1>2
<1>4. ASSUME NEW i \in DOMAIN t, NEW j \in DOMAIN t, i < j, t[j].id # 0
      PROVE  t[i].id < t[j].id
  <2>1. i \in DOMAIN log /\ t[i] = log[i]
    BY <1>1, <1>4
  <2>2. CASE j \in DOMAIN log
    <3>1. t[j] = log[j]
      BY <1>1, <2>2
    <3> QED BY <1>4, <2>1, <2>2, <3>1 DEF OrderedLog
  <2>3. CASE j = Len(log) + 1
    BY <1>1, <1>2, <1>4, <2>1, <2>3
  <2> QED BY <1>1, <2>2, <2>3
<1> QED BY <1>3, <1>4 DEF OrderedLog, t

LEMMA OrderedAnswers ==
    ASSUME snap.log \in Seq(Entry), NEW n \in Nat, OrderedLog(snap.log, n),
           NEW id, NEW m, AnswersId(id), (id = 0 /\ m = n) \/ (id = n + 1 /\ m = n + 1)
    PROVE  OrderedLog(snap'.log, m)
<1>1. CASE \E e \in Entry : e.id = id /\ snap'.log = Append(snap.log, e)
  BY <1>1, OrderedAppend
<1>2. CASE snap'.log = snap.log
  BY <1>2, OrderedLater
<1> QED BY <1>1, <1>2 DEF AnswersId

(* Nothing the invariant is about changes but the state of the calls.       *)
LEMMA OrderSame ==
    ASSUME OrderInv, UNCHANGED <<conf, arrived>>, snap'.log = snap.log,
           stored'.log \in {stored.log, snap.log}, copy'.log \in {copy.log, snap.log}
    PROVE  OrderInv'
BY DEF OrderInv

(* The autopilot's start, from the continuation it is asked in.             *)
LEMMA OwnKept ==
    ASSUME TypeOK, AuditComplete(snap.segs), ServiceInv, ~Busy,
           NEW rest \in {<<"evaluate">>, <<"evaluate", "drain">>},
           ApplyNow([kind |-> "start", id |-> 0], rest),
           queue # << >> => rest = <<"evaluate", "drain">>,
           UNCHANGED <<conf, up, queue, arrived, stored, copy>>, up
    PROVE  ServiceInv' /\ ServiceStep
<1> DEFINE cmd == [kind |-> "start", id |-> 0]
<1>1. cmd \in Cmd /\ cmd.id = 0
  BY DEF Cmd, Kinds
<1>2. /\ rest # << >> /\ Head(rest) = "evaluate"
      /\ snap.log \in Seq(Entry) /\ arrived \in Nat
  BY DEF TypeOK, Snapshot
<1> HIDE DEF cmd
<1>3. /\ calls' = rest
      /\ \/ /\ flight'.stage \notin {"idle", "done"} /\ flight'.id = 0
            /\ snap' = snap /\ refused' = refused /\ conf.mode # "plain"
         \/ flight' = flight /\ AnswersId(0)
  BY <1>1, <1>2, ApplyNowServes DEF cmd
<1>4. Waiting' = Waiting
  BY <1>3 DEF Waiting, InFlight, Busy
<1>5. ServiceStep
  BY <1>3, <1>4, OwnStep, Stutters
<1>6. CallsInv' /\ QueueInv' /\ DownInv'
  BY <1>3 DEF ServiceInv, CallsInv, QueueInv, DownInv, Busy
<1>7. OrderInv'
  <2>1. CASE snap' = snap
    BY <2>1, OrderSame DEF ServiceInv
  <2>2. CASE AnswersId(0)
    BY <1>2, <2>2, OrderedAnswers DEF ServiceInv, OrderInv
  <2> QED BY <1>3, <2>1, <2>2
<1> QED BY <1>5, <1>6, <1>7 DEF ServiceInv

(* Neither the queue, the draw in flight nor a log changes.                 *)
LEMMA CalmKept ==
    ASSUME ServiceInv, UNCHANGED <<conf, up, queue, flight, arrived, refused>>,
           snap'.log = snap.log,
           stored'.log \in {stored.log, snap.log}, copy'.log \in {copy.log, snap.log},
           CallsInv', up \/ calls' = calls,
           queue # << >> => Busy \/ calls' \in {<<"drain">>, <<"evaluate", "drain">>}
    PROVE  ServiceInv' /\ ServiceStep
<1>1. Waiting' = Waiting
  BY DEF Waiting, InFlight, Busy, FlightCmd
<1>2. OrderInv'
  BY OrderSame DEF ServiceInv
<1>3. QueueInv' /\ DownInv'
  BY DEF ServiceInv, QueueInv, DownInv, Busy
<1> QED BY <1>1, <1>2, <1>3, Stutters DEF ServiceInv

(* The draw in flight is over and its command answered.                     *)
LEMMA CompletionKept ==
    ASSUME TypeOK, ServiceInv, InFlight, flight' = [flight EXCEPT !.stage = "done"],
           AnswersId(flight.id), up,
           UNCHANGED <<conf, up, queue, calls, arrived, stored, copy>>
    PROVE  ServiceInv' /\ ServiceStep
<1>1. flight \in Flight /\ queue \in Seq(Cmd) /\ FlightCmd \in Cmd /\ FlightCmd.id = flight.id
  BY WaitingType DEF TypeOK, FlightCmd
<1>2. flight'.stage = "done" /\ Waiting' = queue
  BY <1>1 DEF Waiting, InFlight, Flight
<1>3. ServiceStep
  <2>1. CASE flight.id = 0
    <3>1. Waiting' = Waiting
      BY <1>2, <2>1 DEF Waiting
    <3> QED BY <2>1, <3>1, OwnStep
  <2>2. CASE flight.id # 0
    <3>1. Waiting = <<FlightCmd>> \o queue
      BY <2>2 DEF Waiting
    <3>2. Waiting # << >> /\ Head(Waiting) = FlightCmd /\ Tail(Waiting) = queue
      <4> HIDE DEF Waiting
      <4> DEFINE c == FlightCmd
      <4>1. c \in Cmd
        BY <1>1
      <4> HIDE DEF c
      <4>2. <<c>> \o queue # << >> /\ Head(<<c>> \o queue) = c /\ Tail(<<c>> \o queue) = queue
        BY <1>1, <4>1
      <4> QED BY <3>1, <4>2 DEF c
    <3> QED BY <1>1, <1>2, <2>2, <3>2, AnswerStep
  <2> QED BY <2>1, <2>2
<1>4. conf.mode # "plain"
  BY DEF ServiceInv, QueueInv, InFlight
<1>5. CallsInv' /\ QueueInv' /\ DownInv' /\ OrderInv'
  BY <1>2, <1>4 DEF ServiceInv, CallsInv, QueueInv, DownInv, OrderInv, Busy
<1> QED BY <1>3, <1>5 DEF ServiceInv

LEMMA ServiceKept ==
    ASSUME ResumeWithoutDraws
    PROVE  TypeInv /\ TypeInv' /\ DownAtRest /\ DrawInv /\ ServiceInv /\ [Next]_vars
           => ServiceInv' /\ ServiceStep
<1> SUFFICES ASSUME TypeOK, TypeOK', SeedThere, DownAtRest, DrawInv, ServiceInv, [Next]_vars
             PROVE  ServiceInv' /\ ServiceStep
  BY DEF TypeInv
<1>0. /\ snap \in Snapshot /\ stored \in Snapshot /\ copy \in Snapshot /\ flight \in Flight
      /\ conf.resume => conf.mode = "plain"
      /\ snap.log \in Seq(Entry) /\ Len(snap.log) \in Nat /\ arrived \in Nat
      /\ queue \in Seq(Cmd)
  BY LenProperties DEF TypeOK, ResumeWithoutDraws, Snapshot
<1>00. CallsInv /\ QueueInv /\ DownInv /\ OrderInv
  BY DEF ServiceInv
<1>000. up => AuditComplete(snap.segs)
  BY AuditHolds DEF DrawInv, SoundLog
<1>1. CASE UNCHANGED vars
  <2>1. /\ UNCHANGED <<conf, up, queue, flight, arrived, refused, calls>>
        /\ snap' = snap /\ stored' = stored /\ copy' = copy
    BY <1>1 DEF vars
  <2>2. CallsInv'
    BY <1>00, <2>1 DEF CallsInv
  <2> QED BY <1>00, <2>1, <2>2, CalmKept DEF QueueInv
<1>2. CASE DrainStep
  <2> DEFINE cmd == Head(queue)
  <2>1. /\ up /\ ~Busy /\ queue # << >> /\ calls = <<"drain">>
        /\ queue' = Tail(queue) /\ ApplyNow(cmd, <<"drain">>)
        /\ UNCHANGED <<conf, up, stored, copy, arrived>>
    BY <1>00, <1>2 DEF DrainStep, Running, CallsInv
  <2>2. /\ cmd \in Cmd /\ Tail(queue) \in Seq(Cmd) /\ Len(queue) \in Nat \ {0}
        /\ cmd = queue[1] /\ Len(Tail(queue)) = Len(queue) - 1
        /\ \A i \in 1 .. Len(queue) - 1 : Tail(queue)[i] = queue[i + 1]
        /\ DOMAIN queue = 1 .. Len(queue)
        /\ DOMAIN Tail(queue) = 1 .. Len(queue) - 1
    BY <1>0, <2>1, HeadTailProperties, LenProperties, EmptySeq
  <2>3. cmd.id # 0 /\ \A i \in DOMAIN Tail(queue) : Tail(queue)[i].id # 0
    <3>1. 1 \in DOMAIN queue
      BY <2>2
    <3>2. ASSUME NEW i \in DOMAIN Tail(queue) PROVE Tail(queue)[i].id # 0
      <4>1. i + 1 \in DOMAIN queue /\ Tail(queue)[i] = queue[i + 1]
        BY <2>2
      <4> QED BY <1>00, <4>1 DEF QueueInv
    <3> QED BY <1>00, <2>2, <3>1, <3>2 DEF QueueInv
  <2>4. <<"evaluate">> \o <<"drain">> = <<"evaluate", "drain">>
    BY TwoEntries
  <2>5. Waiting = queue /\ conf.mode # "plain"
    BY <1>00, <2>1 DEF Waiting, InFlight, QueueInv
  <2> HIDE DEF cmd
  <2>6. /\ \/ /\ flight'.stage \notin {"idle", "done"} /\ FlightCmd' = cmd
              /\ flight'.id = cmd.id
              /\ snap' = snap /\ refused' = refused
           \/ flight' = flight /\ AnswersId(cmd.id)
        /\ calls' \in {<<"drain">>, <<"evaluate", "drain">>}
    BY <1>000, <2>1, <2>2, <2>4, ApplyNowServes
  <2>7. CallsInv' /\ QueueInv' /\ DownInv' /\ OrderInv'
    BY <2>1, <2>3, <2>5, <2>6 DEF CallsInv, QueueInv, DownInv, OrderInv
  <2>8. CASE flight'.stage \notin {"idle", "done"} /\ FlightCmd' = cmd
             /\ flight'.id = cmd.id /\ snap' = snap /\ refused' = refused
    <3>1. Waiting' = <<cmd>> \o Tail(queue)
      BY <2>1, <2>3, <2>8 DEF Waiting, InFlight, Busy
    <3>2. <<Head(queue)>> \o Tail(queue) = queue
      BY <1>0, <2>1
    <3>3. Waiting' = Waiting
      BY <2>5, <3>1, <3>2 DEF cmd
    <3>4. ServiceStep
      BY <2>1, <2>8, <3>3, Stutters
    <3> QED BY <2>7, <3>4 DEF ServiceInv
  <2>9. CASE flight' = flight /\ AnswersId(cmd.id)
    <3>1. Waiting' = Tail(queue)
      BY <2>1, <2>9 DEF Waiting, InFlight, Busy
    <3>2. ServiceStep
      BY <2>1, <2>3, <2>5, <2>9, <3>1, AnswerStep DEF cmd
    <3> QED BY <2>7, <3>2 DEF ServiceInv
  <2> QED BY <2>6, <2>8, <2>9
<1>3. CASE DrainEnd
  <2>1. /\ up /\ (Busy \/ queue = << >>) /\ calls = <<"drain">>
        /\ calls' = IF Busy THEN Tail(calls) ELSE <<"evaluate">> \o Tail(calls)
        /\ UNCHANGED <<conf, up, queue, flight, arrived, refused>>
        /\ snap' = snap /\ stored' = stored /\ copy' = copy
    BY <1>00, <1>3 DEF DrainEnd, Running, CallsInv
  <2>2. calls' \in {<< >>, <<"evaluate">>}
    <3>1. Tail(<<"drain">>) = << >>
      OBVIOUS
    <3>2. <<"evaluate">> \o << >> = <<"evaluate">>
      OBVIOUS
    <3> QED BY <2>1, <3>1, <3>2
  <2>3. CallsInv'
    BY <2>2 DEF CallsInv
  <2> QED BY <2>1, <2>3, CalmKept
<1>4. CASE Evaluate
  <2>1. /\ up /\ calls \in {<<"evaluate">>, <<"evaluate", "drain">>}
        /\ UNCHANGED <<conf, up, queue, arrived>> /\ stored' = stored /\ copy' = copy
        /\ \/ calls' = Tail(calls) /\ UNCHANGED <<snap, flight, refused>>
           \/ ~Busy /\ ApplyNow([kind |-> "start", id |-> 0], calls)
    BY <1>00, <1>4 DEF Evaluate, Running, CallsInv
  <2>2. CASE calls' = Tail(calls) /\ UNCHANGED <<snap, flight, refused>>
    <3>1. /\ calls = <<"evaluate">> => calls' = << >>
          /\ calls = <<"evaluate", "drain">> => calls' = <<"drain">>
      <4>1. Tail(<<"evaluate">>) = << >>
        OBVIOUS
      <4>2. Tail(<<"evaluate", "drain">>) = <<"drain">>
        OBVIOUS
      <4> QED BY <2>2, <4>1, <4>2, Zenon
    <3>2. CallsInv'
      BY <2>1, <3>1 DEF CallsInv
    <3>3. queue # << >> => Busy \/ calls' \in {<<"drain">>, <<"evaluate", "drain">>}
      BY <1>00, <2>1, <3>1 DEF QueueInv
    <3> QED BY <2>1, <2>2, <3>2, <3>3, CalmKept
  <2>3. CASE ~Busy /\ ApplyNow([kind |-> "start", id |-> 0], calls)
    <3>1. queue # << >> => calls = <<"evaluate", "drain">>
      BY <1>00, <2>1, <2>3 DEF QueueInv
    <3> QED BY <1>000, <2>1, <2>3, <3>1, OwnKept
  <2> QED BY <2>1, <2>2, <2>3
<1>5. CASE Fire
  <2>1. /\ up /\ calls = << >>
        /\ UNCHANGED <<conf, up, queue, arrived>> /\ stored' = stored /\ copy' = copy
        /\ \/ calls' \in {<< >>, <<"evaluate">>} /\ UNCHANGED <<snap, flight, refused>>
           \/ ~Busy /\ ApplyNow([kind |-> "start", id |-> 0], <<"evaluate">>)
    BY <1>5 DEF Fire, Idle
  <2>2. queue # << >> => Busy
    BY <1>00, <2>1 DEF QueueInv
  <2>3. CASE calls' \in {<< >>, <<"evaluate">>} /\ UNCHANGED <<snap, flight, refused>>
    <3>1. CallsInv'
      BY <2>3 DEF CallsInv
    <3> QED BY <2>1, <2>2, <2>3, <3>1, CalmKept
  <2>4. CASE ~Busy /\ ApplyNow([kind |-> "start", id |-> 0], <<"evaluate">>)
    BY <1>000, <2>1, <2>2, <2>4, OwnKept
  <2> QED BY <2>1, <2>3, <2>4
<1>6. CASE Arrive
  <2>1. PICK kind \in Kinds :
          LET cmd == [kind |-> kind, id |-> arrived + 1] IN
          \/ /\ Busy /\ queue' = Append(queue, cmd)
             /\ UNCHANGED <<snap, refused, flight, calls>>
          \/ ~Busy /\ ApplyNow(cmd, << >>) /\ UNCHANGED queue
    BY <1>6 DEF Arrive
  <2> DEFINE cmd == [kind |-> kind, id |-> arrived + 1]
  <2>2. /\ up /\ calls = << >> /\ arrived' = arrived + 1 /\ UNCHANGED <<conf, up>>
        /\ stored' = stored /\ copy' = copy
    BY <1>6 DEF Arrive, Idle
  <2>3. cmd \in Cmd /\ cmd.id = arrived + 1 /\ cmd.id # 0
    BY <1>0 DEF Cmd
  <2>4. ASSUME conf.mode = "plain"
        PROVE  OrderedLog(stored.log, arrived + 1) /\ OrderedLog(copy.log, arrived + 1)
    <3>1. stored.log \in Seq(Entry) /\ copy.log \in Seq(Entry)
      BY <1>0 DEF Snapshot
    <3> QED BY <1>0, <1>00, <2>4, <3>1, OrderedLater DEF OrderInv
  <2> HIDE DEF cmd
  <2>5. CASE /\ Busy /\ queue' = Append(queue, cmd)
             /\ UNCHANGED <<snap, refused, flight, calls>>
    <3>1. /\ \A i \in DOMAIN queue' : queue'[i].id # 0
          /\ queue' \in Seq(Cmd)
      <4>1. /\ queue' \in Seq(Cmd) /\ Len(queue) \in Nat
            /\ \A i \in DOMAIN queue : queue'[i] = queue[i]
            /\ queue'[Len(queue) + 1] = cmd
            /\ \A i \in DOMAIN queue' : i \in DOMAIN queue \/ i = Len(queue) + 1
        BY <1>0, <2>3, <2>5, AppendFacts
      <4> QED BY <1>00, <2>3, <4>1 DEF QueueInv
    <3>2. CallsInv' /\ QueueInv' /\ DownInv' /\ OrderInv'
      BY <1>00, <2>2, <2>5, <3>1 DEF CallsInv, QueueInv, DownInv, OrderInv, Busy
    <3>3. Waiting' = Append(Waiting, cmd)
      <4>1. CASE InFlight /\ flight.id # 0
        <5>1. FlightCmd \in Cmd
          BY WaitingType
        <5> DEFINE c == FlightCmd
        <5>2. Waiting = <<c>> \o queue /\ Waiting' = <<c>> \o Append(queue, cmd)
          BY <2>5, <4>1 DEF Waiting, InFlight, Busy, FlightCmd
        <5> HIDE DEF c
        <5>3. c \in Cmd
          BY <5>1 DEF c
        <5>4. Append(<<c>> \o queue, cmd) = <<c>> \o Append(queue, cmd)
          BY <1>0, <2>3, <5>3
        <5> QED BY <5>2, <5>4
      <4>2. CASE ~(InFlight /\ flight.id # 0)
        BY <2>5, <4>2 DEF Waiting, InFlight, Busy
      <4> QED BY <4>1, <4>2
    <3>4. ServiceStep
      BY <2>2, <2>3, <2>5, <3>3, ArriveStep
    <3> QED BY <3>2, <3>4 DEF ServiceInv
  <2>6. CASE ~Busy /\ ApplyNow(cmd, << >>) /\ UNCHANGED queue
    <3>1. queue = << >> /\ Waiting = << >>
      BY <1>00, <2>2, <2>6 DEF QueueInv, Waiting, InFlight
    <3>2. <<"evaluate">> \o << >> = <<"evaluate">>
      OBVIOUS
    <3>3. /\ \/ /\ flight'.stage \notin {"idle", "done"} /\ FlightCmd' = cmd
                /\ flight'.id = cmd.id
                /\ snap' = snap /\ refused' = refused /\ conf.mode # "plain"
             \/ flight' = flight /\ AnswersId(arrived + 1)
          /\ calls' \in {<< >>, <<"evaluate">>}
      BY <1>000, <2>2, <2>3, <2>6, <3>2, ApplyNowServes
    <3>4. CallsInv' /\ QueueInv' /\ DownInv'
      BY <2>2, <2>6, <3>1, <3>3 DEF CallsInv, QueueInv, DownInv, Busy
    <3>5. CASE flight'.stage \notin {"idle", "done"} /\ FlightCmd' = cmd
               /\ flight'.id = cmd.id
               /\ snap' = snap /\ refused' = refused /\ conf.mode # "plain"
      <4>1. Waiting' = <<cmd>> \o << >>
        BY <2>3, <2>6, <3>1, <3>5 DEF Waiting, InFlight, Busy
      <4>2. <<cmd>> \o << >> = Append(<< >>, cmd)
        OBVIOUS
      <4>3. Waiting' = Append(Waiting, cmd)
        BY <3>1, <4>1, <4>2
      <4>4. ServiceStep
        BY <2>2, <2>3, <3>5, <4>3, ArriveStep
      <4>5. OrderInv'
        BY <2>2, <3>5 DEF OrderInv
      <4> QED BY <3>4, <4>4, <4>5 DEF ServiceInv
    <3>6. CASE flight' = flight /\ AnswersId(arrived + 1)
      <4>1. Waiting' = << >>
        BY <2>6, <3>1, <3>6 DEF Waiting, InFlight, Busy
      <4>2. ServiceStep
        BY <2>2, <3>1, <3>6, <4>1, ServeStep
      <4>3. conf.mode = "plain" => OrderedLog(snap'.log, arrived + 1)
        BY <1>0, <1>00, <3>6, OrderedAnswers DEF OrderInv
      <4>4. OrderInv'
        BY <2>2, <2>4, <4>3 DEF OrderInv
      <4> QED BY <3>4, <4>2, <4>4 DEF ServiceInv
    <3> QED BY <3>3, <3>5, <3>6
  <2> QED BY <2>1, <2>5, <2>6 DEF cmd
<1>7. ASSUME NEW seat \in Seats, Presence(seat) \/ SetReady(seat)
      PROVE  ServiceInv' /\ ServiceStep
  <2>1. /\ up /\ calls = << >> /\ calls' = <<"evaluate">> /\ snap'.log = snap.log
        /\ UNCHANGED <<conf, up, queue, flight, arrived, refused>>
        /\ stored' = stored /\ copy' = copy
    BY <1>0, <1>7 DEF Presence, SetReady, Idle, Snapshot
  <2>2. CallsInv' /\ (queue # << >> => Busy)
    BY <1>00, <2>1 DEF CallsInv, QueueInv
  <2> QED BY <2>1, <2>2, CalmKept
<1>8. CASE FetchOk \/ SeededRun \/ RoundOk \/ SourceFails \/ RoundFails
  <2>1. /\ up /\ InFlight /\ flight' = [flight EXCEPT !.stage = "done"]
        /\ UNCHANGED <<conf, up, queue, calls, arrived, stored, copy>>
    BY <1>8 DEF FetchOk, SeededRun, RoundOk, SourceFails, RoundFails, AtStage, Idle, Done,
                completionFrame, InFlight, Busy
  <2>2. FlightCmd \in Cmd /\ FlightCmd.id = flight.id /\ flight.base \in Nat
    BY <1>0, WaitingType DEF FlightCmd, Flight
  <2>3. AnswersId(flight.id)
    <3>1. CASE FetchOk
      <4>1. Fetched \in Draw
        BY DEF Fetched, NoDraw, Draw
      <4>2. CommitLate(flight.base, Fetched, secrets)
        BY <3>1 DEF FetchOk
      <4>3. AnswersId(FlightCmd.id)
        BY <1>000, <2>1, <2>2, <4>1, <4>2, CommitAnswers DEF CommitLate
      <4> QED BY <2>2, <4>3
    <3>2. CASE SeededRun
      <4> DEFINE d == IF NeedsEntropy(flight.kind) THEN SegmentDraw ELSE NoDraw
                 f == IF NeedsEntropy(flight.kind) THEN SegmentDrawn ELSE secrets
      <4>1. CommitLate(Len(snap.log), d, f)
        BY <3>2 DEF SeededRun
      <4>2. d \in Draw
        BY <3>2, SegmentDrawType DEF SeededRun, AtStage, SeedThere, TypeOK, NoDraw, Draw
      <4> HIDE DEF d, f
      <4>3. AnswersId(FlightCmd.id)
        BY <1>0, <1>000, <2>1, <2>2, <4>1, <4>2, CommitAnswers DEF CommitLate
      <4> QED BY <2>2, <4>3
    <3>3. CASE RoundOk
      <4> DEFINE draw == [NoDraw EXCEPT !.from = "beacon", !.key = flight.counter]
                 e    == [kind |-> flight.kind, id |-> flight.id,
                          base |-> flight.base, draw |-> draw]
      <4>1. draw \in Draw
        BY <1>0 DEF NoDraw, Draw, Flight
      <4>2. \/ snap'.log = Append(snap.log, e) /\ refused' = refused
            \/ snap'.log = snap.log /\ Refuse(flight.id)
        BY <1>0, <3>3 DEF RoundOk, FlightCmd, Snapshot
      <4> HIDE DEF draw
      <4>3. e \in Entry /\ e.id = flight.id
        BY <1>0, <4>1 DEF Entry, Flight
      <4> HIDE DEF e
      <4> QED BY <4>2, <4>3 DEF AnswersId
    <3>4. CASE SourceFails \/ RoundFails
      <4>1. snap'.log = snap.log /\ Refuse(flight.id)
        BY <1>0, <3>4 DEF SourceFails, RoundFails, Snapshot
      <4> QED BY <4>1 DEF AnswersId
    <3> QED BY <1>8, <3>1, <3>2, <3>3, <3>4
  <2> QED BY <2>1, <2>3, CompletionKept
<1>9. CASE SeedOk \/ Bind
  <2>1. /\ up /\ InFlight /\ snap'.log = snap.log
        /\ flight'.stage \in {"seeded", "round"} /\ flight'.kind = flight.kind
        /\ flight'.id = flight.id
        /\ UNCHANGED <<conf, up, queue, calls, arrived, refused>>
        /\ stored' = stored /\ copy' = copy
    BY <1>0, <1>9 DEF SeedOk, Bind, AtStage, Idle, completionFrame, InFlight, Busy, Snapshot,
                      Flight
  <2>2. Waiting' = Waiting
    BY <2>1 DEF Waiting, InFlight, Busy, FlightCmd
  <2>3. OrderInv' /\ ServiceStep
    BY <1>00, <2>1, <2>2, OrderSame, Stutters
  <2>4. CallsInv' /\ QueueInv' /\ DownInv'
    BY <1>00, <2>1 DEF CallsInv, QueueInv, DownInv, InFlight, Busy
  <2> QED BY <2>3, <2>4 DEF ServiceInv
<1>10. CASE Finally
  <2>1. /\ up /\ flight.stage = "done" /\ flight' = NoFlight /\ calls' = <<"drain">>
        /\ UNCHANGED <<conf, up, queue, arrived, refused>>
        /\ snap' = snap /\ stored' = stored /\ copy' = copy
    BY <1>10 DEF Finally, AtStage, Idle
  <2>2. Waiting' = Waiting
    BY <2>1 DEF Waiting, InFlight, Busy, NoFlight
  <2>3. OrderInv' /\ ServiceStep
    BY <1>00, <2>1, <2>2, OrderSame, Stutters
  <2>4. CallsInv' /\ QueueInv' /\ DownInv'
    BY <1>00, <2>1 DEF CallsInv, QueueInv, DownInv, Busy, NoFlight
  <2> QED BY <2>3, <2>4 DEF ServiceInv
<1>11. CASE Persist \/ Deliver
  <2>1. /\ up /\ UNCHANGED <<conf, up, queue, flight, arrived, refused, calls>>
        /\ snap' = snap /\ stored' \in {stored, snap} /\ copy' \in {copy, snap}
    BY <1>11 DEF Persist, Deliver
  <2>2. CallsInv'
    BY <1>00, <2>1 DEF CallsInv
  <2> QED BY <1>00, <2>1, <2>2, CalmKept DEF QueueInv
<1>12. CASE Adopt
  <2>1. /\ up /\ conf.resume /\ conf.mode = "plain" /\ snap' = copy
        /\ calls' = <<"evaluate">>
        /\ UNCHANGED <<conf, up, queue, flight, arrived, refused>>
        /\ stored' = stored /\ copy' = copy
    BY <1>0, <1>12 DEF Adopt, Idle
  <2>2. Waiting' = Waiting
    BY <2>1 DEF Waiting, InFlight, Busy, FlightCmd
  <2>3. OrderInv' /\ OrderedLog(snap'.log, arrived)
    BY <1>00, <2>1 DEF OrderInv
  <2>4. CallsInv' /\ QueueInv' /\ DownInv'
    BY <1>00, <2>1 DEF CallsInv, QueueInv, DownInv, Busy
  <2>5. ServiceStep
    BY <2>1, <2>2, <2>3, ReplaceStep
  <2> QED BY <2>3, <2>4, <2>5 DEF ServiceInv
<1>13. CASE Crash \/ Close
  <2>1. /\ ~up' /\ flight' = NoFlight /\ queue' = << >> /\ calls' = << >>
        /\ snap'.log = snap.log /\ stored'.log \in {stored.log, snap.log} /\ copy' = copy
        /\ UNCHANGED <<conf, arrived, refused>>
    BY <1>0, <1>13 DEF Crash, Close, Gone, Snapshot
  <2>2. Waiting' = << >>
    BY <2>1 DEF Waiting, InFlight, Busy, NoFlight
  <2>3. OrderInv' /\ ServiceStep
    BY <1>00, <2>1, <2>2, OrderSame, ForgetStep
  <2>4. CallsInv' /\ QueueInv' /\ DownInv'
    BY <2>1 DEF CallsInv, QueueInv, DownInv, Busy, NoFlight
  <2> QED BY <2>3, <2>4 DEF ServiceInv
<1>14. CASE Restart
  <2>1. /\ flight = NoFlight /\ queue = << >> /\ calls = << >>
        /\ UNCHANGED <<conf, flight, queue, calls, arrived, refused>>
        /\ snap'.log = stored.log /\ stored' = stored /\ copy' = copy
    BY <1>0, <1>00, <1>14 DEF Restart, DownAtRest, DownInv, Snapshot
  <2>2. Waiting = << >> /\ Waiting' = << >>
    BY <2>1 DEF Waiting, InFlight, Busy, NoFlight
  <2>3. OrderInv'
    BY <1>00, <2>1 DEF OrderInv
  <2>4. ServiceStep
    <3>1. CASE conf.resume
      <4>1. OrderedLog(snap'.log, arrived)
        BY <1>0, <1>00, <2>1, <3>1 DEF OrderInv
      <4> QED BY <2>1, <2>2, <3>1, <4>1, ReplaceStep
    <3>2. CASE ~conf.resume
      <4>1. Prefix(snap'.log, snap.log)
        BY <2>1, <3>2 DEF DrawInv, StoredInv
      <4> QED BY <2>1, <2>2, <4>1, RestoreStep
    <3> QED BY <3>1, <3>2
  <2>5. CallsInv' /\ QueueInv' /\ DownInv'
    BY <1>00, <2>1 DEF CallsInv, QueueInv, DownInv, Busy, NoFlight
  <2> QED BY <2>3, <2>4, <2>5 DEF ServiceInv
<1> QED BY <1>1, <1>2, <1>3, <1>4, <1>5, <1>6, <1>7, <1>8, <1>9, <1>10, <1>11, <1>12, <1>13,
           <1>14
        DEF Next, Task, Completion

LEMMA InitService ==
    ASSUME Init
    PROVE  ServiceInv /\ Service!Init
<1>1. /\ flight = NoFlight /\ queue = << >> /\ calls = << >> /\ up = TRUE
      /\ snap.log = << >> /\ stored = snap /\ copy = snap /\ arrived = 0 /\ refused = {}
      /\ conf \in Confs
  BY DEF Init
<1>2. ServiceInv
  BY <1>1 DEF ServiceInv, CallsInv, QueueInv, DownInv, OrderInv, OrderedLog, Busy, NoFlight
<1>3. Waiting = << >> /\ Ids(<< >>) = << >>
  BY <1>1 DEF Waiting, InFlight, Busy, NoFlight, Ids
<1>4. conf.resume \in BOOLEAN
  BY <1>1, ConfsAssumption DEF Conf
<1>5. Service!Init
  BY <1>1, <1>3, <1>4 DEF Service!Init, Waiting
<1> QED BY <1>2, <1>5

-----------------------------------------------------------------------------
(* The theorems. *)

(* The invariant holds always.                                              *)
LEMMA InvService ==
    ResumeWithoutDraws => (Spec => [](TypeInv /\ DownAtRest /\ DrawInv /\ ServiceInv))
<1> SUFFICES ASSUME ResumeWithoutDraws
             PROVE  Spec => [](TypeInv /\ DownAtRest /\ DrawInv /\ ServiceInv)
  OBVIOUS
<1>1. Init => ServiceInv
  BY InitService
<1>2. TypeInv /\ TypeInv' /\ DownAtRest /\ DrawInv /\ ServiceInv /\ [Next]_vars
      => ServiceInv'
  BY ServiceKept
<1> QED BY InvDraws, <1>1, <1>2, PTL DEF Spec

(* "Commands are applied in arrival order" (apply): whatever draws, drains, the
   autopilot, crashes and restarts do in between, every step of the table is a
   step of CommandService or one its players do not see.                     *)
THEOREM InOrderOfArrival == ResumeWithoutDraws => (Spec => ServesInOrder)
<1> SUFFICES ASSUME ResumeWithoutDraws PROVE Spec => ServesInOrder
  OBVIOUS
<1>1. Init => ServiceInv /\ Service!Init
  BY InitService
<1>2. TypeInv /\ TypeInv' /\ DownAtRest /\ DrawInv /\ ServiceInv /\ [Next]_vars
      => ServiceInv' /\ [Service!Next]_(Service!vars)
  BY ServiceKept DEF ServiceStep
<1> QED BY InvDraws, <1>1, <1>2, PTL DEF Spec, ServesInOrder, Service!Spec

-----------------------------------------------------------------------------
(* The autopilot. *)

(* Nobody is connected to a process that is down, or to one just begun.     *)
DeadInv == ~up => present = {} /\ ~timer

(* Whoever decides looks at the snapshot, the configuration and who is here. *)
LEMMA SameDecision ==
    ASSUME snap'.log = snap.log, snap'.ready = snap.ready, UNCHANGED <<conf, present>>
    PROVE  Decision' = Decision
<1>1. /\ Phase(snap'.log) = Phase(snap.log) /\ MatchOver(snap'.log) = MatchOver(snap.log)
      /\ Room' = Room
  BY DEF Room
<1> QED BY <1>1 DEF Decision

(* Where nobody is, nothing is decided, or nobody asks.                     *)
LEMMA NobodyDecides ==
    ASSUME present = {} PROVE conf.apart \/ Decision = "nothing"
BY SeatsAssumption DEF Decision, Room

(* A step that neither the decision nor what asks for it depends on.        *)
LEMMA StillUp ==
    ASSUME AutopilotKeepsUp, UNCHANGED <<conf, up, calls, timer, present, flight>>,
           snap'.log = snap.log, snap'.ready = snap.ready
    PROVE  AutopilotKeepsUp'
<1>1. Decision' = Decision
  BY SameDecision
<1> QED BY <1>1 DEF AutopilotKeepsUp, Idle, Busy

LEMMA KeepsUpKept ==
    ASSUME ResumeWithoutDraws
    PROVE  TypeInv /\ DownAtRest /\ DrawInv /\ ServiceInv /\ DeadInv /\ AutopilotKeepsUp
           /\ [Next]_vars => DeadInv' /\ AutopilotKeepsUp'
<1> SUFFICES ASSUME TypeOK, DownAtRest, DrawInv, ServiceInv, DeadInv, AutopilotKeepsUp,
                    [Next]_vars
             PROVE  DeadInv' /\ AutopilotKeepsUp'
  BY DEF TypeInv
<1>0. /\ snap \in Snapshot /\ flight \in Flight /\ arrived \in Nat /\ queue \in Seq(Cmd)
      /\ CallsInv /\ QueueInv /\ DownInv
  BY DEF TypeOK, ServiceInv
<1>1. up => AuditComplete(snap.segs)
  BY AuditHolds DEF DrawInv, SoundLog
<1>2. CASE UNCHANGED vars
  BY <1>2, StillUp DEF vars, DeadInv
<1>3. CASE DrainStep
  <2>1. /\ up /\ up' /\ ~Busy /\ calls = <<"drain">> /\ ApplyNow(Head(queue), calls)
        /\ Head(queue) \in Cmd
    BY <1>0, <1>3, HeadTailProperties DEF DrainStep, Running, CallsInv
  <2>2. calls' = calls \/ calls' = <<"evaluate">> \o <<"drain">>
    BY <1>1, <2>1, ApplyNowServes
  <2>3. calls' # << >>
    BY <2>1, <2>2, TwoEntries
  <2> QED BY <2>1, <2>3 DEF DeadInv, AutopilotKeepsUp, Idle
<1>4. CASE DrainEnd
  <2>1. /\ up' /\ UNCHANGED flight /\ calls = <<"drain">>
        /\ calls' = IF Busy THEN Tail(calls) ELSE <<"evaluate">> \o Tail(calls)
    BY <1>0, <1>4 DEF DrainEnd, Running, CallsInv
  <2>2. <<"evaluate">> \o << >> = <<"evaluate">> /\ Tail(<<"drain">>) = << >>
    OBVIOUS
  <2>3. Busy' \/ calls' # << >>
    BY <2>1, <2>2 DEF Busy
  <2> QED BY <2>1, <2>3 DEF DeadInv, AutopilotKeepsUp, Idle
<1>5. CASE Evaluate
  <2>1. /\ up /\ up' /\ calls # << >> /\ Head(calls) = "evaluate"
        /\ UNCHANGED <<conf, present>>
    BY <1>5 DEF Evaluate, Running
  <2>2. DeadInv'
    BY <2>1 DEF DeadInv
  <2>3. CASE /\ Busy \/ conf.flow = "off"
             /\ UNCHANGED flight
    BY <2>1, <2>2, <2>3 DEF AutopilotKeepsUp, Idle, Busy
  <2>4. CASE /\ conf.flow # "off" /\ UNCHANGED <<snap, flight>>
             /\ \/ Decision = "nothing" /\ timer' = FALSE
                \/ Decision = "later" /\ timer' = TRUE
    <3>1. Decision' = Decision
      BY <2>1, <2>4, SameDecision
    <3> QED BY <2>2, <2>4, <3>1 DEF AutopilotKeepsUp
  <2>5. CASE ~Busy /\ ApplyNow([kind |-> "start", id |-> 0], calls)
    <3>1. [kind |-> "start", id |-> 0] \in Cmd
      BY DEF Cmd, Kinds
    <3>2. calls' = calls
      BY <1>1, <2>1, <2>5, <3>1, ApplyNowServes
    <3> QED BY <2>1, <2>2, <3>2 DEF AutopilotKeepsUp, Idle
  <2> QED BY <1>5, <2>3, <2>4, <2>5 DEF Evaluate
<1>6. CASE Fire
  <2>1. up /\ up' /\ UNCHANGED <<conf, present>>
    BY <1>6 DEF Fire, Idle
  <2>2. CASE calls' = <<"evaluate">>
    BY <2>1, <2>2 DEF DeadInv, AutopilotKeepsUp, Idle
  <2>3. CASE Busy /\ UNCHANGED flight
    BY <2>1, <2>3 DEF DeadInv, AutopilotKeepsUp, Busy
  <2>4. CASE ~Busy /\ ApplyNow([kind |-> "start", id |-> 0], <<"evaluate">>)
    <3>1. [kind |-> "start", id |-> 0] \in Cmd
      BY DEF Cmd, Kinds
    <3>2. <<"evaluate">> # << >> /\ Head(<<"evaluate">>) = "evaluate"
      OBVIOUS
    <3>3. calls' = <<"evaluate">>
      BY <1>1, <2>1, <2>4, <3>1, <3>2, ApplyNowServes
    <3> QED BY <2>1, <3>3 DEF DeadInv, AutopilotKeepsUp, Idle
  <2> QED BY <1>6, <2>2, <2>3, <2>4 DEF Fire
<1>7. CASE Arrive
  <2>1. PICK kind \in Kinds :
          LET cmd == [kind |-> kind, id |-> arrived + 1] IN
          \/ Busy /\ UNCHANGED flight
          \/ ~Busy /\ ApplyNow(cmd, << >>)
    BY <1>7 DEF Arrive
  <2> DEFINE cmd == [kind |-> kind, id |-> arrived + 1]
  <2>2. up /\ up' /\ UNCHANGED <<conf, present, timer>> /\ calls = << >>
    BY <1>7 DEF Arrive, Idle
  <2>3. cmd \in Cmd
    BY <1>0 DEF Cmd
  <2>4. DeadInv'
    BY <2>2 DEF DeadInv
  <2>5. CASE Busy /\ UNCHANGED flight
    BY <2>4, <2>5 DEF AutopilotKeepsUp, Busy
  <2>6. CASE ~Busy /\ ApplyNow(cmd, << >>)
    <3> HIDE DEF cmd
    <3>1. CASE BeginFlight(cmd)
      <4>1. Busy'
        BY <3>1 DEF BeginFlight, Busy
      <4> QED BY <2>4, <4>1 DEF AutopilotKeepsUp
    <3>2. CASE CommitRefused(cmd) /\ UNCHANGED flight /\ calls' = << >>
      <4>1. AutopilotKeepsUp'
        BY <2>2, <3>2, StillUp DEF CommitRefused
      <4> QED BY <2>4, <4>1
    <3>3. CASE calls' = <<"evaluate">> \o << >>
      <4>1. <<"evaluate">> \o << >> # << >>
        OBVIOUS
      <4> QED BY <2>4, <3>3, <4>1 DEF AutopilotKeepsUp, Idle
    <3>4. \A base, draw, fresh : ~CommitThrows(cmd, base, draw, fresh)
      BY <1>1, <2>2 DEF CommitThrows
    <3> QED BY <2>6, <3>1, <3>2, <3>3, <3>4 DEF ApplyNow
  <2> QED BY <2>1, <2>5, <2>6
<1>8. CASE Adopt \/ \E seat \in Seats : Presence(seat) \/ SetReady(seat)
  <2>1. up' /\ calls' = <<"evaluate">>
    BY <1>8 DEF Adopt, Presence, SetReady, Idle
  <2> QED BY <2>1 DEF DeadInv, AutopilotKeepsUp, Idle
<1>9. CASE Completion /\ ~Finally
  <2>1. /\ up'
        /\ flight'.stage \in {"done", "seeded", "round"}
    <3>1. CASE FetchOk
      BY <1>0, <3>1 DEF FetchOk, AtStage, Idle, Done, completionFrame, Flight
    <3>2. CASE SourceFails
      BY <1>0, <3>2 DEF SourceFails, AtStage, Idle, Done, completionFrame, Flight
    <3>3. CASE SeedOk
      BY <1>0, <3>3 DEF SeedOk, AtStage, Idle, Done, completionFrame, Flight
    <3>4. CASE SeededRun
      BY <1>0, <3>4 DEF SeededRun, AtStage, Idle, Done, completionFrame, Flight
    <3>5. CASE Bind
      BY <1>0, <3>5 DEF Bind, AtStage, Idle, Done, completionFrame, Flight
    <3>6. CASE RoundOk
      BY <1>0, <3>6 DEF RoundOk, AtStage, Idle, Done, completionFrame, Flight
    <3>7. CASE RoundFails
      BY <1>0, <3>7 DEF RoundFails, AtStage, Idle, Done, completionFrame, Flight
    <3> QED BY <1>9, <3>1, <3>2, <3>3, <3>4, <3>5, <3>6, <3>7 DEF Completion
  <2> QED BY <2>1 DEF DeadInv, AutopilotKeepsUp, Busy
<1>10. CASE Finally
  <2>1. up' /\ calls' = <<"drain">>
    BY <1>10 DEF Finally, AtStage, Idle
  <2> QED BY <2>1 DEF DeadInv, AutopilotKeepsUp, Idle
<1>11. CASE Persist \/ Deliver
  BY <1>11, StillUp DEF Persist, Deliver, DeadInv
<1>12. CASE Crash \/ Close
  BY <1>12 DEF Crash, Close, Gone, DeadInv, AutopilotKeepsUp, Idle
<1>13. CASE Restart
  <2>1. present' = {} /\ ~timer' /\ up'
    BY <1>13 DEF Restart, DeadInv
  <2>2. conf'.apart \/ Decision' = "nothing"
    BY <2>1, NobodyDecides, SeatsAssumption DEF Decision, Room
  <2> QED BY <2>1, <2>2 DEF DeadInv, AutopilotKeepsUp
<1> QED BY <1>2, <1>3, <1>4, <1>5, <1>6, <1>7, <1>8, <1>9, <1>10, <1>11, <1>12, <1>13
        DEF Next, Task

(* Between two tasks, with no draw in flight, no immediate decision of the
   autopilot is left untaken and its timer runs exactly when a delayed one
   stands (evaluateAutopilot, firePendingAutopilot, drain).                  *)
THEOREM AutopilotMissesNothing == ResumeWithoutDraws => (Spec => []AutopilotKeepsUp)
<1> SUFFICES ASSUME ResumeWithoutDraws PROVE Spec => []AutopilotKeepsUp
  OBVIOUS
<1>1. Init => DeadInv /\ AutopilotKeepsUp
  <2> SUFFICES ASSUME Init PROVE DeadInv /\ AutopilotKeepsUp
    OBVIOUS
  <2>1. present = {} /\ ~timer /\ up
    BY DEF Init
  <2> QED BY <2>1, NobodyDecides DEF DeadInv, AutopilotKeepsUp
<1>2. TypeInv /\ DownAtRest /\ DrawInv /\ ServiceInv /\ DeadInv /\ AutopilotKeepsUp
      /\ [Next]_vars => DeadInv' /\ AutopilotKeepsUp'
  BY KeepsUpKept
<1> QED BY InvService, <1>1, <1>2, PTL DEF Spec
=============================================================================
