---------------------------- MODULE TableSeats ----------------------------
(***************************************************************************)
(* Who sits at a table: packages/table/src/TableServer.ts, the connection  *)
(* lifecycle (accept, hello, challenge, auth, admit, detach), seat         *)
(* reservations, presence, and the adoption of a peer's longer copy.       *)
(*                                                                         *)
(* A connection claims a player; a keyed claim is challenged, and between  *)
(* the challenge, its answer and the end of the signature check (an await) *)
(* other connections come, go and are admitted.                            *)
(***************************************************************************)
EXTENDS Integers, Sequences, FiniteSets

CONSTANTS
    Conns,       \* transport connections; one is reused once it is closed
    NumSeats,
    Ids,         \* profile ids
    Keys,        \* public keys
    Hellos,      \* what may be claimed: see Hello
    Host,        \* the profile that hosts the table
    Holders,     \* players a seat may be reserved for, each with its own key
    MaxDevices,  \* MAX_CONNECTIONS_PER_SEAT
    Confs,       \* table configurations considered
    MaxSeq,      \* bound: actions played
    MaxRestarts  \* bound: times the host process dies

NoKey  == "no key"
Nobody == [id |-> "nobody", key |-> NoKey]

Seats       == 0 .. NumSeats - 1
DealerPlace == -1       \* DEALER_SEAT
Nowhere     == -2
Places      == Seats \cup {DealerPlace}

Profile == [id : Ids, key : Keys \cup {NoKey}]

(* A hello: the profile it names and the key its device can sign with.      *)
Hello == [id : Ids, key : Keys \cup {NoKey}, holds : Keys]

(* dealer: hosted by a non-playing dealer (hostSeat null); invitation:
   invitationOnly; resume: no hidden information, peers hold full copies;
   legacy: some devices have no key.                                        *)
Conf == [dealer : BOOLEAN, invitation : BOOLEAN, resume : BOOLEAN, legacy : BOOLEAN]

ASSUME SeatsAssumption == NumSeats \in Nat \ {0} /\ MaxDevices \in Nat \ {0}
ASSUME ClaimsAssumption == Hellos \subseteq Hello /\ Confs \subseteq Conf
ASSUME HostAssumption == Host \in [id : Ids, key : Keys]
ASSUME HoldersAssumption ==
    /\ Holders \subseteq [id : Ids, key : Keys]
    /\ \A p, q \in Holders : p.key = q.key => p = q
ASSUME NobodyAssumption == "nobody" \notin Ids /\ NoKey \notin Keys

VARIABLES
    cfg,
    up,        \* the host process runs and the table is open
    seq,       \* snapshot.seq
    roster,    \* snapshot.seats
    held,      \* reservedSeats
    phase,     \* of each connection
    claim,     \* of each connection: conn.pending, then conn.seat
    devices,   \* this.seats and this.dealers: connections by place, oldest first
    told,      \* the presence each admitted connection was last told, by place
    stored,    \* the snapshot on the host's disk
    copy,      \* a snapshot some peer holds
    restarts

vars == <<cfg, up, seq, roster, held, phase, claim, devices, told, stored, copy, restarts>>

Phases == {"closed", "open", "pending", "verifying", "admitted"}

Roster   == [Seats -> Profile \cup {Nobody}]
Snapshot == [seq : Nat, roster : Roster]
NoOffer  == [seq |-> 0, roster |-> [s \in Seats |-> Nobody]]

(* who: the hello; place: where it will sit or sits; key: the key that must
   sign; offer: the snapshot the hello carried.                             *)
NoHello == [id |-> "nobody", key |-> NoKey, holds |-> NoKey]
Claim   == [who : Hello \cup {NoHello}, place : Places \cup {Nowhere},
            key : Keys \cup {NoKey}, offer : Snapshot]
NoClaim == [who |-> NoHello, place |-> Nowhere, key |-> NoKey, offer |-> NoOffer]

Absent == [p \in Places |-> FALSE]

Pending(c) == phase[c] \in {"pending", "verifying"}

-----------------------------------------------------------------------------
(* resolve: where a profile may sit. *)

FirstOf(S) == CHOOSE s \in S : \A t \in S : s <= t

(* Seats claimed by a pending challenge, with the claimant that the Map built
   by resolve ends up holding (one of them when there are several).          *)
Claimants(except) ==
    LET pend == {c \in Conns \ {except} : Pending(c) /\ claim[c].place # DealerPlace}
    IN  {o \in [{claim[c].place : c \in pend} -> {claim[c].who.id : c \in pend}] :
            \A s \in DOMAIN o : \E c \in pend : claim[c].place = s /\ claim[c].who.id = o[s]}

FreeSeat(id, o) ==
    LET free == {s \in Seats : /\ roster[s] = Nobody
                               /\ s \in DOMAIN o => o[s] = id
                               /\ held[s] = Nobody}
    IN  IF free = {} THEN Nowhere ELSE FirstOf(free)

(* A seat nobody holds for this player: never at an invitation-only table; the
   one it already claims; the first free one.                               *)
Unheld(id, o) ==
    LET mine == {s \in DOMAIN o : o[s] = id}
    IN  IF cfg.invitation THEN {Nowhere}
        ELSE IF mine = {} THEN {FreeSeat(id, o)}
        ELSE {IF roster[s] = Nobody THEN s ELSE FreeSeat(id, o) : s \in mine}

(* The results resolve may return: a Map is read in insertion order, which is
   abstracted to any order.                                                  *)
Resolve(id, except) ==
    LET own  == {s \in Seats : roster[s].id = id}
        mine == {s \in Seats : held[s].id = id}
    IN  IF cfg.dealer /\ id = Host.id THEN {DealerPlace}
        ELSE IF own # {} THEN {FirstOf(own)}
        ELSE UNION {LET rest == Unheld(id, o)
                    IN  IF mine = {} THEN rest
                        ELSE UNION {IF roster[s] = Nobody THEN {s} ELSE rest : s \in mine}
                    : o \in Claimants(except)}

(* Mutation: a reservation binds no key. *)
BoundKeyOfRoster(place) ==
    IF place = DealerPlace THEN Host.key ELSE roster[place].key

(* The key a place is bound or reserved to.                                 *)
BoundKey(place) ==
    IF place = DealerPlace THEN Host.key
    ELSE IF roster[place].key # NoKey THEN roster[place].key
    ELSE held[place].key

MayTake(place, key) == place # Nowhere /\ BoundKey(place) \in {NoKey, key}

-----------------------------------------------------------------------------
(* Admission and detachment. *)

(* maybeAdopt: the roster and length after considering the offered copy; our
   own entries of the roster win.                                           *)
Adopts(offer) == cfg.resume /\ offer.seq > seq
(* Mutation: the entries of the offered roster win. *)
AdoptedRosterTheirs(offer) ==
    IF Adopts(offer)
    THEN [s \in Seats |-> IF offer.roster[s] # Nobody THEN offer.roster[s] ELSE roster[s]]
    ELSE roster

AdoptedRoster(offer) ==
    IF Adopts(offer)
    THEN [s \in Seats |-> IF roster[s] # Nobody THEN roster[s] ELSE offer.roster[s]]
    ELSE roster
AdoptedSeq(offer) == IF Adopts(offer) THEN offer.seq ELSE seq

(* The profile recorded at a seat when "profile" is admitted there: a bound key
   is kept.                                                                  *)
Recorded(known, profile) ==
    [id |-> profile.id, key |-> IF known.key # NoKey THEN known.key ELSE profile.key]

(* admit and admitDealer: adopt, free the reservation, record the profile, add
   the device (dropping the oldest beyond the cap), and tell presence.       *)
Admit(c, who, place, key, offer) ==
    LET adopted == AdoptedRoster(offer)
        list    == Append(devices[place], c)
        dropped == IF Len(list) > MaxDevices THEN {Head(list)} ELSE {}
        first   == devices[place] = << >>
    IN  /\ seq' = AdoptedSeq(offer)
        /\ roster' = IF place = DealerPlace THEN adopted
                     ELSE [adopted EXCEPT ![place] = Recorded(@, [id |-> who.id, key |-> key])]
        /\ held' = IF place = DealerPlace THEN held ELSE [held EXCEPT ![place] = Nobody]
        /\ devices' = [devices EXCEPT ![place] = IF dropped = {} THEN list ELSE Tail(list)]
        /\ phase' = [d \in Conns |-> IF d = c THEN "admitted"
                                     ELSE IF d \in dropped THEN "closed"
                                     ELSE phase[d]]
        /\ claim' = [d \in Conns |->
                       IF d = c THEN [who |-> who, place |-> place, key |-> key,
                                      offer |-> NoOffer]
                       ELSE IF d \in dropped THEN NoClaim
                       ELSE claim[d]]
        /\ told' = [d \in Conns |->
                      IF d = c THEN [p \in Places |-> p = place \/ devices[p] # << >>]
                      ELSE IF d \in dropped THEN Absent
                      ELSE IF first /\ phase[d] = "admitted" THEN [told[d] EXCEPT ![place] = TRUE]
                      ELSE told[d]]

(* reject, or the transport closed, of a connection that is not admitted.    *)
Reject(c) ==
    /\ phase' = [phase EXCEPT ![c] = "closed"]
    /\ claim' = [claim EXCEPT ![c] = NoClaim]
    /\ UNCHANGED <<seq, roster, held, devices, told>>

(* Mutation: the oldest device is taken off the list. *)
DetachOldest(c) ==
    LET place == claim[c].place
        left  == Tail(devices[place])
    IN  /\ phase' = [phase EXCEPT ![c] = "closed"]
        /\ claim' = [claim EXCEPT ![c] = NoClaim]
        /\ devices' = [devices EXCEPT ![place] = left]
        /\ told' = [d \in Conns |->
                      IF d = c THEN Absent
                      ELSE IF left = << >> /\ phase[d] = "admitted"
                           THEN [told[d] EXCEPT ![place] = FALSE]
                      ELSE told[d]]
        /\ UNCHANGED <<seq, roster, held>>

(* The list without c, which is in it once.                                  *)
Without(list, c) ==
    LET at == CHOOSE i \in DOMAIN list : list[i] = c
    IN  [i \in 1 .. Len(list) - 1 |-> list[IF i < at THEN i ELSE i + 1]]

(* detach of an admitted device: absence is announced when it was the last.  *)
Detach(c) ==
    LET place == claim[c].place
        left  == Without(devices[place], c)
    IN  /\ phase' = [phase EXCEPT ![c] = "closed"]
        /\ claim' = [claim EXCEPT ![c] = NoClaim]
        /\ devices' = [devices EXCEPT ![place] = left]
        /\ told' = [d \in Conns |->
                      IF d = c THEN Absent
                      ELSE IF left = << >> /\ phase[d] = "admitted"
                           THEN [told[d] EXCEPT ![place] = FALSE]
                      ELSE told[d]]
        /\ UNCHANGED <<seq, roster, held>>

-----------------------------------------------------------------------------
(* Handlers. *)

frame == <<cfg, up, stored, copy, restarts>>

Accept(c) ==
    /\ up /\ phase[c] = "closed"
    /\ phase' = [phase EXCEPT ![c] = "open"]
    /\ UNCHANGED <<seq, roster, held, claim, devices, told>>
    /\ UNCHANGED frame

(* challenge: the claim waits for a signature by "key".                     *)
Challenge(c, who, place, key, offer) ==
    /\ phase' = [phase EXCEPT ![c] = "pending"]
    /\ claim' = [claim EXCEPT ![c] = [who |-> who, place |-> place, key |-> key,
                                      offer |-> offer]]
    /\ UNCHANGED <<seq, roster, held, devices, told>>

(* handleHello: refused, challenged, or (an unkeyed client at an unkeyed seat)
   admitted.                                                                 *)
HandleHello(c, who, offer) ==
    /\ up /\ phase[c] = "open"
    /\ who.key = NoKey => cfg.legacy
    /\ \E place \in Resolve(who.id, c) :
         \/ ~MayTake(place, who.key) /\ Reject(c)
         \/ /\ MayTake(place, who.key) /\ who.key # NoKey
            /\ Challenge(c, who, place, who.key, offer)
         \/ /\ MayTake(place, who.key) /\ who.key = NoKey
            /\ Admit(c, who, place, NoKey, offer)
    /\ UNCHANGED frame

(* handleAuth up to its await: the challenge timer keeps running.            *)
HandleAuth(c) ==
    /\ up /\ phase[c] = "pending"
    /\ phase' = [phase EXCEPT ![c] = "verifying"]
    /\ UNCHANGED <<seq, roster, held, claim, devices, told>>
    /\ UNCHANGED frame

(* Mutation: whoever answers is believed. *)
SignedByAnyone(t) == TRUE

(* verifyChallenge: the answer verifies under the key that must sign.        *)
Signed(t) == t.who.holds = t.key

(* handleAuth after the signature check: the roster may have moved on, so the
   place is resolved again.                                                  *)
Verified(c) ==
    LET t == claim[c]
    IN  /\ up /\ phase[c] = "verifying"
        /\ \/ ~Signed(t) /\ Reject(c)
           \/ /\ Signed(t)
              /\ \E place \in Resolve(t.who.id, c) :
                   LET kept == /\ MayTake(place, t.key)
                               /\ (place = DealerPlace) = (t.place = DealerPlace)
                   IN  \/ ~kept /\ Reject(c)
                       \/ kept /\ Admit(c, t.who, place, t.key, t.offer)
        /\ UNCHANGED frame

(* A message out of turn, the challenge's timeout, or the transport closing.  *)
GiveUp(c) ==
    /\ up /\ (phase[c] = "open" \/ Pending(c))
    /\ Reject(c)
    /\ UNCHANGED frame

(* dropConnection, or "bye".                                                 *)
Leave(c) ==
    /\ up /\ phase[c] = "admitted"
    /\ Detach(c)
    /\ UNCHANGED frame

-----------------------------------------------------------------------------
(* The owner of the table: reservations, and play. *)

(* reserveSeat, where it does not throw or return at once.                   *)
ReserveSeat(s, p) ==
    /\ up /\ roster[s] = Nobody
    /\ held[s] = Nobody \/ held[s].id = p.id
    /\ held' = [held EXCEPT ![s] = p]
    /\ UNCHANGED <<seq, roster, phase, claim, devices, told>>
    /\ UNCHANGED frame

(* releaseSeat, or the reservation expired.                                  *)
ReleaseSeat(s) ==
    /\ up /\ held[s] # Nobody
    /\ held' = [held EXCEPT ![s] = Nobody]
    /\ UNCHANGED <<seq, roster, phase, claim, devices, told>>
    /\ UNCHANGED frame

(* commit: an action is played (see TableFlow for how).                      *)
Play ==
    /\ up /\ seq < MaxSeq
    /\ seq' = seq + 1
    /\ UNCHANGED <<roster, held, phase, claim, devices, told>>
    /\ UNCHANGED frame

-----------------------------------------------------------------------------
(* Copies of the snapshot, and the host's process. *)

Current == [seq |-> seq, roster |-> roster]

Persist ==
    /\ up /\ stored # Current /\ restarts < MaxRestarts
    /\ stored' = Current
    /\ UNCHANGED <<cfg, up, seq, roster, held, phase, claim, devices, told, copy, restarts>>

(* An admitted peer received the snapshot.                                   *)
Deliver ==
    /\ up /\ cfg.resume /\ copy # Current
    /\ \E c \in Conns : phase[c] = "admitted"
    /\ copy' = Current
    /\ UNCHANGED <<cfg, up, seq, roster, held, phase, claim, devices, told, stored, restarts>>

Crash ==
    /\ up /\ restarts < MaxRestarts
    /\ up' = FALSE /\ restarts' = restarts + 1
    /\ held' = [s \in Seats |-> Nobody]
    /\ phase' = [c \in Conns |-> "closed"]
    /\ claim' = [c \in Conns |-> NoClaim]
    /\ devices' = [p \in Places |-> << >>]
    /\ told' = [c \in Conns |-> Absent]
    /\ UNCHANGED <<cfg, seq, roster, stored, copy>>

Restart ==
    /\ ~up
    /\ up' = TRUE
    /\ seq' = stored.seq /\ roster' = stored.roster
    /\ UNCHANGED <<cfg, held, phase, claim, devices, told, stored, copy, restarts>>

-----------------------------------------------------------------------------
(* The specification. *)

(* The constructor: a playing host has seat 0 from the start.                *)
Init ==
    /\ cfg \in Confs /\ up = TRUE /\ seq = 0 /\ restarts = 0
    /\ roster = [s \in Seats |-> IF s = 0 /\ ~cfg.dealer THEN Host ELSE Nobody]
    /\ held = [s \in Seats |-> Nobody]
    /\ phase = [c \in Conns |-> "closed"]
    /\ claim = [c \in Conns |-> NoClaim]
    /\ devices = [p \in Places |-> << >>]
    /\ told = [c \in Conns |-> Absent]
    /\ stored = Current /\ copy = Current

(* What a client may bring: nothing, or a copy it was sent, in which it plays. *)
Offers(id) ==
    {NoOffer} \cup IF cfg.resume /\ \E s \in Seats : copy.roster[s].id = id
                   THEN {copy} ELSE {}

Next ==
    \/ \E c \in Conns :
         \/ Accept(c) \/ HandleAuth(c) \/ Verified(c) \/ GiveUp(c) \/ Leave(c)
         \/ \E who \in Hellos : \E offer \in Offers(who.id) : HandleHello(c, who, offer)
    \/ \E s \in Seats : ReleaseSeat(s) \/ \E p \in Holders : ReserveSeat(s, p)
    \/ Play \/ Persist \/ Deliver \/ Crash \/ Restart

Spec == Init /\ [][Next]_vars

-----------------------------------------------------------------------------
(* Properties. *)

(* Every variable has its type.                                             *)
TypeOK ==
    /\ cfg \in Confs /\ up \in BOOLEAN /\ seq \in Nat /\ restarts \in Nat
    /\ roster \in Roster /\ held \in [Seats -> Profile \cup {Nobody}]
    /\ phase \in [Conns -> Phases] /\ claim \in [Conns -> Claim]
    /\ devices \in [Places -> Seq(Conns)]
    /\ told \in [Conns -> [Places -> BOOLEAN]]
    /\ stored \in Snapshot /\ copy \in Snapshot

(* What every device believes about the presence of the other places is what is
   the case.                                                                 *)
PresenceTold ==
    \A c \in Conns : phase[c] = "admitted" =>
        \A p \in Places \ {claim[c].place} : told[c][p] <=> devices[p] # << >>

(* No player holds two seats, whatever admissions overlap (resolve is asked
   again after the signature check).                                         *)
OnePlayerOneSeat ==
    \A s, t \in Seats :
        (roster[s] # Nobody /\ roster[s].id = roster[t].id) => s = t

(* The device lists are the admitted connections, each in exactly one list
   once, and never more than the cap (admit, closeConnection of the oldest,
   detach); every device is one of the player the roster names there, whatever
   is adopted and whoever else joins meanwhile; nobody has two seats; and
   presence is told on the first device and the last, and to each newcomer.  *)
DevicesConsistent ==
    /\ TypeOK /\ PresenceTold /\ OnePlayerOneSeat
    /\ \A p \in Places :
        /\ Len(devices[p]) <= MaxDevices
        /\ \A i, j \in DOMAIN devices[p] : devices[p][i] = devices[p][j] => i = j
        /\ \A c \in Conns :
              (\E i \in DOMAIN devices[p] : devices[p][i] = c)
                  <=> (phase[c] = "admitted" /\ claim[c].place = p)
        /\ \A i \in DOMAIN devices[p] :
              claim[devices[p][i]].who.id = IF p = DealerPlace THEN Host.id ELSE roster[p].id

(* "The first key seen for a profile id is bound to that seat: from then on a
   device can only claim that seat by signing": a device admitted at a bound
   place holds the key the place is bound to.                                *)
AdmittedProvesKey ==
    [][\A c \in Conns :
          (phase'[c] = "admitted" /\ phase[c] # "admitted") =>
              LET place == claim'[c].place
                  bound == IF place = DealerPlace THEN Host.key ELSE roster'[place].key
              IN  bound # NoKey => claim'[c].who.holds = bound]_vars

(* "A bound key is never replaced here" (admit), "a known profile id always gets
   its own seat" (resolve): as long as the process lives, a seat bound to a
   player and a key stays bound to both.                                     *)
BoundSeatKept ==
    [][\A s \in Seats :
          (up /\ up' /\ roster[s].key # NoKey) => roster'[s] = roster[s]]_vars

(* A reserved seat goes to the player and the key it is reserved for, whoever
   claimed it before the reservation was made (unless a peer's longer copy
   already has somebody there).                                              *)
ReservedForHolder ==
    [][\A s \in Seats :
          (/\ up /\ up' /\ seq' = seq
           /\ roster[s] = Nobody /\ held[s] # Nobody /\ roster'[s] # Nobody)
              => roster'[s] = held[s]]_vars
=============================================================================
