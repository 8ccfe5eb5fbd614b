--------------------------- MODULE CommandService ---------------------------
(***************************************************************************)
(* What a table promises the players who send it commands: each command is *)
(* answered once, in the order of arrival, by an entry of the log or by a  *)
(* refusal.  Where the randomness comes from, what waits for what and why  *)
(* the table adds entries of its own (id 0) is not visible here.  A host   *)
(* that dies forgets the commands that wait, and may restore an older log; *)
(* where the peers hold full copies (resumes), one of them may bring a log *)
(* back.                                                                   *)
(*                                                                         *)
(* TableFlow implements this; see ServesInOrder there.                     *)
(***************************************************************************)
EXTENDS Integers, Sequences

VARIABLES
    resumes,   \* a log may be replaced by a peer's copy; never changes
    arrived,   \* commands arrived so far: their ids are 1..arrived
    waiting,   \* ids not answered yet, oldest first
    applied,   \* ids of the log, oldest first; 0 for the table's own entries
    refused    \* ids answered with an error

vars == <<resumes, arrived, waiting, applied, refused>>

Init == resumes \in BOOLEAN /\ arrived = 0 /\ waiting = << >> /\ applied = << >> /\ refused = {}

(* The one answer a command gets.                                           *)
Answered(id) ==
    \/ applied' = Append(applied, id) /\ UNCHANGED refused
    \/ refused' = refused \cup {id} /\ UNCHANGED applied

Arrive ==
    /\ arrived' = arrived + 1
    /\ waiting' = Append(waiting, arrived + 1)
    /\ UNCHANGED <<applied, refused>>

(* Answered on the spot, which is fair only when nobody waits.              *)
Serve ==
    /\ waiting = << >>
    /\ arrived' = arrived + 1
    /\ Answered(arrived + 1)
    /\ UNCHANGED waiting

(* Whoever waits longest is next.                                           *)
Answer ==
    /\ waiting # << >>
    /\ waiting' = Tail(waiting)
    /\ Answered(Head(waiting))
    /\ UNCHANGED arrived

(* The table acts on its own: nobody is answered by it.                     *)
Own ==
    /\ applied' = Append(applied, 0)
    /\ UNCHANGED <<arrived, waiting, refused>>

(* The host dies: what waited is never answered.                            *)
Forget ==
    /\ waiting' = << >>
    /\ UNCHANGED <<arrived, applied, refused>>

(* The host is back with the log it had stored: an initial part.            *)
Restore ==
    /\ waiting = << >>
    /\ applied' \in {SubSeq(applied, 1, n) : n \in 0 .. Len(applied)}
    /\ UNCHANGED <<arrived, waiting, refused>>

(* The answers in a log are in order of arrival.                            *)
InOrder(log) ==
    /\ \A i, j \in DOMAIN log : (i < j /\ log[j] # 0) => log[i] < log[j]
    /\ \A i \in DOMAIN log : log[i] \in 0 .. arrived

(* A peer's copy replaces the log: an earlier log, in order like any other. *)
Replace ==
    /\ resumes
    /\ InOrder(applied')
    /\ UNCHANGED <<arrived, waiting, refused>>

Next == /\ UNCHANGED resumes
        /\ Arrive \/ Serve \/ Answer \/ Own \/ Forget \/ Restore \/ Replace

Spec == Init /\ [][Next]_vars

(* Nobody waits for ever: each of the first n commands is answered, or the
   host that held it died.                                                  *)
Waits(id) == \E i \in DOMAIN waiting : waiting[i] = id
Answers(n) == \A id \in 1 .. n : Waits(id) ~> ~Waits(id)
=============================================================================
