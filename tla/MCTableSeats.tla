---------------------------- MODULE MCTableSeats ----------------------------
(* Instances of TableSeats for TLC: a host, and two players a and b. *)
EXTENDS TableSeats, TLC

MCHost == [id |-> "h", key |-> "kh"]

MCHolders == {[id |-> "a", key |-> "ka"], [id |-> "b", key |-> "kb"]}

(* Each with its own key; a's profile without a key (an old record), and a's
   profile on a device that has another key.                                 *)
MCHellos == {[id |-> "h", key |-> "kh", holds |-> "kh"],
             [id |-> "a", key |-> "ka", holds |-> "ka"],
             [id |-> "b", key |-> "kb", holds |-> "kb"],
             [id |-> "a", key |-> NoKey, holds |-> "ka"],
             [id |-> "a", key |-> "ka", holds |-> "kb"]}

C(dealer, invitation, resume, legacy) ==
    [dealer |-> dealer, invitation |-> invitation, resume |-> resume, legacy |-> legacy]

MCConfs == {C(FALSE, FALSE, TRUE, FALSE), C(TRUE, FALSE, FALSE, FALSE),
            C(FALSE, FALSE, FALSE, TRUE), C(FALSE, TRUE, FALSE, FALSE)}

Devices == Permutations(Conns)
=============================================================================
