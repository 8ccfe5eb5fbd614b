---------------------------- MODULE MCTableFlow ----------------------------
(* Instances of TableFlow for TLC. *)
EXTENDS TableFlow, TLC

Players == Permutations(Seats)

C(game, mode, flow, apart, resume) ==
    [game |-> game, mode |-> mode, flow |-> flow, apart |-> apart, resume |-> resume]

(* Every mode, both games, both ways of waiting; a longer copy is brought back
   only where no draw can be in flight.                                      *)
MCConfs ==
    {C("ofc", mode, "countdown", FALSE, FALSE) : mode \in Modes}
    \cup {C("backgammon", mode, "ready", FALSE, FALSE) : mode \in Modes \ {"plain"}}
    \cup {C("ofc", "per-draw", "ready", TRUE, FALSE), C("ofc", "seeded", "off", FALSE, FALSE),
          C("backgammon", "plain", "ready", FALSE, TRUE)}

(* Liveness: one configuration per asynchronous source, and one of each flow. *)
LiveConfs == {C("ofc", "per-draw", "countdown", FALSE, FALSE),
              C("ofc", "seeded", "ready", FALSE, FALSE),
              C("ofc", "beacon", "countdown", FALSE, FALSE)}

(* A peer brings a longer copy back to a host whose draws are asynchronous.  *)
ResumeConfs == {C("backgammon", "per-draw", "off", FALSE, TRUE)}

(* A seeded table whose players may still press Start.                       *)
SeededConfs == {C("ofc", "seeded", "countdown", FALSE, FALSE)}
=============================================================================
