--------------------------- MODULE MCClubMatching ---------------------------
(* Instances of ClubMatching for TLC. *)
EXTENDS ClubMatching, TLC

Regulars == Permutations(Members)

K(templates, rated) == [templates |-> templates, rated |-> rated]
Casual  == {K({"quick", "long"}, FALSE)}
MCCrits == Casual \cup {K({"quick"}, TRUE)}
Club(settles, whims, templates, crits, chips) ==
    [settles |-> settles, whims |-> whims, templates |-> templates, crits |-> crits,
     chips |-> chips, tickets |-> 3, moves |-> 0, events |-> 0]

(* A policy that answers anything, with and without chips to play for; two table
   types with sits, leaves and events; a registry that settles; members that
   queue again after they were seated; and some of them without chips, so that
   a table stays part full and another group is formed while it is.         *)
MCConfs ==
    {[Club(FALSE, TRUE, <<"quick">>, MCCrits, {1}) EXCEPT !.events = 1],
     Club(FALSE, TRUE, <<"quick">>, Casual, {0}),
     [Club(FALSE, FALSE, <<"quick", "long">>, Casual, {2}) EXCEPT !.moves = 1, !.events = 1],
     [Club(TRUE, FALSE, <<"quick">>, Casual, {1}) EXCEPT !.moves = 1, !.events = 1],
     [Club(FALSE, FALSE, <<"quick", "long">>, Casual, {2}) EXCEPT !.tickets = 4],
     [Club(FALSE, FALSE, <<"quick">>, MCCrits, {0, 1}) EXCEPT !.tickets = 4]}
=============================================================================
