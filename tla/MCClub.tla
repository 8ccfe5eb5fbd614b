------------------------------- MODULE MCClub -------------------------------
(* Instances of Club for TLC: two members, one table. *)
EXTENDS Club, TLC

CONSTANTS a, b, t

Slots == Permutations(Calls)

R(op, who, to, amount, rake, id) ==
    [op |-> op, who |-> who, to |-> to, table |-> t, amount |-> amount, rake |-> rake,
     id |-> id]

(* Both members sit, one wins from the other, in a hand or in a tally (two
   tallies with ids of their own), somebody leaves, pays, looks around.      *)
MCRequests ==
    {R("sit", a, a, 2, 0, 1), R("sit", b, b, 2, 0, 2), R("sit", a, a, 2, 0, 3),
     R("settle", a, b, 2, 1, 4), R("settle", a, b, 1, 1, 5),
     R("leave", b, b, 0, 0, 6), R("result", a, b, 2, 0, 0),
     R("transfer", a, b, 1, 0, 7), R("lobby", b, b, 0, 0, 0),
     R("grant", a, a, 1, 0, 0), R("invite", a, a, 0, 0, 0)}

C(calls, mode, transfers, admins, clock, dies, sat) ==
    [calls |-> calls, mode |-> mode, transfers |-> transfers, admins |-> admins, clock |-> clock,
     dies |-> dies, sat |-> sat]

(* Both modes from scratch, and with everybody seated: with the clock running,
   with the process dying, with admins at work.                              *)
MCConfs == {C(4, mode, FALSE, FALSE, FALSE, FALSE, FALSE) : mode \in {"immediate", "deferred"}}
           \cup {C(3, "immediate", FALSE, FALSE, TRUE, FALSE, TRUE),
                 C(3, "deferred", FALSE, FALSE, TRUE, FALSE, TRUE),
                 C(4, "deferred", FALSE, FALSE, FALSE, FALSE, TRUE),
                 C(3, "immediate", TRUE, FALSE, FALSE, TRUE, TRUE),
                 C(3, "deferred", FALSE, TRUE, FALSE, FALSE, TRUE)}

(* Everybody seated, an invite being issued.                                 *)
InviteConfs == {C(2, "immediate", FALSE, TRUE, FALSE, FALSE, TRUE)}

(* Everybody seated, the process dying.                                      *)
RetryConfs == {C(2, "deferred", FALSE, FALSE, FALSE, TRUE, TRUE)}
=============================================================================
