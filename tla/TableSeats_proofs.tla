------------------------- MODULE TableSeats_proofs -------------------------
(***************************************************************************)
(* Theorems about TableSeats, for every set of connections, players, keys, *)
(* hellos, reservations and configurations, and every bound.               *)
(***************************************************************************)
EXTENDS TableSeats, ProofLemmas

USE SeatsAssumption, NobodyAssumption

-----------------------------------------------------------------------------
(* The operators of resolve. *)

(* findIndex returns a member, the first, of the seats that satisfy its test. *)
LEMMA FirstOfIn ==
    ASSUME NEW S, S \subseteq Seats, S # {}
    PROVE  FirstOf(S) \in S
<1>1. S \subseteq Nat
  BY DEF Seats
<1>2. \E s \in S : \A t \in S : s <= t
  BY <1>1, LeastNat
<1> QED BY <1>2 DEF FirstOf

(* A claim that waits is for a place of the table, with the key of its hello,
   which is a hello a client may send; a copy that comes with it is of a table
   at which this player sits.                                                *)
OwnOffer(who, offer) == offer = NoOffer \/ \E s \in Seats : offer.roster[s].id = who.id

PendingPlaced ==
    \A c \in Conns : Pending(c) =>
        /\ claim[c].who \in Hellos /\ claim[c].place \in Places
        /\ claim[c].key = claim[c].who.key /\ claim[c].key # NoKey
        /\ OwnOffer(claim[c].who, claim[c].offer)

(* The seats claimed by those who wait are seats of the table.              *)
LEMMA ClaimedSeats ==
    ASSUME PendingPlaced, NEW except, NEW o \in Claimants(except)
    PROVE  DOMAIN o \subseteq Seats
BY DEF PendingPlaced, Claimants, Places

(* resolve finds: the dealer's place, for the host; the player's own seat; an
   empty seat, when the player has none; or nothing.                         *)
LEMMA Resolved ==
    ASSUME TypeOK, PendingPlaced, NEW id \in Ids, NEW except,
           NEW place \in Resolve(id, except)
    PROVE  \/ place = DealerPlace /\ cfg.dealer /\ id = Host.id
           \/ place \in Seats /\ roster[place].id = id
           \/ /\ place \in Seats /\ roster[place] = Nobody
              /\ \A s \in Seats : roster[s].id # id
           \/ place = Nowhere
<1> DEFINE own  == {s \in Seats : roster[s].id = id}
           mine == {s \in Seats : held[s].id = id}
<1>1. CASE cfg.dealer /\ id = Host.id
  BY <1>1 DEF Resolve
<1>2. CASE ~(cfg.dealer /\ id = Host.id) /\ own # {}
  <2>1. place = FirstOf(own)
    BY <1>2 DEF Resolve
  <2>2. place \in own
    BY <1>2, <2>1, FirstOfIn
  <2> QED BY <2>2
<1>3. CASE ~(cfg.dealer /\ id = Host.id) /\ own = {}
  <2>1. PICK o \in Claimants(except) :
          \/ place \in Unheld(id, o)
          \/ \E s \in mine : roster[s] = Nobody /\ place = s
    <3> DEFINE found(o) ==
                 IF mine = {} THEN Unheld(id, o)
                 ELSE UNION {IF roster[s] = Nobody THEN {s} ELSE Unheld(id, o) : s \in mine}
    <3>1. Resolve(id, except) = UNION {found(o) : o \in Claimants(except)}
      BY <1>3 DEF Resolve
    <3>2. PICK o \in Claimants(except) : place \in found(o)
      BY <3>1
    <3>3. CASE mine = {}
      BY <3>2, <3>3
    <3>4. CASE mine # {}
      <4>1. PICK s \in mine : place \in IF roster[s] = Nobody THEN {s} ELSE Unheld(id, o)
        BY <3>2, <3>4
      <4> QED BY <4>1
    <3> QED BY <3>3, <3>4
  <2>2. FreeSeat(id, o) = Nowhere \/ (FreeSeat(id, o) \in Seats /\ roster[FreeSeat(id, o)] = Nobody)
    <3> DEFINE free == {s \in Seats : /\ roster[s] = Nobody
                                      /\ s \in DOMAIN o => o[s] = id
                                      /\ held[s] = Nobody}
    <3>1. FreeSeat(id, o) = IF free = {} THEN Nowhere ELSE FirstOf(free)
      BY DEF FreeSeat
    <3>2. free # {} => FirstOf(free) \in free
      BY FirstOfIn
    <3> QED BY <3>1, <3>2
  <2>3. place \in Unheld(id, o) => place = Nowhere \/ (place \in Seats /\ roster[place] = Nobody)
    <3>1. DOMAIN o \subseteq Seats
      BY ClaimedSeats
    <3> QED BY <2>2, <3>1 DEF Unheld
  <2> QED BY <1>3, <2>1, <2>3
<1> QED BY <1>1, <1>2, <1>3

-----------------------------------------------------------------------------
(* The inductive invariant. *)

(* Peers hold full copies only at the tables of backgammon, the one game without
   hidden information: two seats, and (the hypothesis that is needed) one of
   them the host's, so that a copy can say who sits at one seat only.        *)
OneGuestSeat == \A k \in Confs : k.resume => NumSeats = 2 /\ ~k.dealer

(* A roster the table can have had: a playing host has seat 0, nobody has two. *)
RosterOK(r) ==
    OneGuestSeat => /\ ~cfg.dealer => r[0] = Host
                    /\ \A s, t \in Seats : (r[s] # Nobody /\ r[s].id = r[t].id) => s = t

(* What a client offers was sent to it by the table.                        *)
OfferOK(offer) == offer = NoOffer \/ (cfg.resume /\ RosterOK(offer.roster))

RostersOK ==
    /\ RosterOK(roster) /\ RosterOK(stored.roster) /\ RosterOK(copy.roster)
    /\ \A c \in Conns : Pending(c) => OfferOK(claim[c].offer)

(* The device lists are the admitted connections.                           *)
Listed ==
    \A p \in Places :
        /\ Len(devices[p]) <= MaxDevices
        /\ IsInjective(devices[p])
        /\ Range(devices[p]) = {c \in Conns : phase[c] = "admitted" /\ claim[c].place = p}

(* Who is admitted said a hello, and is the player of its place.            *)
AdmittedPlaced ==
    \A c \in Conns : phase[c] = "admitted" =>
        /\ claim[c].who \in Hellos /\ claim[c].place \in Places
        /\ claim[c].who.id = IF claim[c].place = DealerPlace THEN Host.id
                             ELSE roster[claim[c].place].id

(* A process that is down has no connection.                                *)
DownClosed == ~up => \A c \in Conns : phase[c] = "closed"

SeatInv ==
    /\ TypeOK /\ PendingPlaced /\ RostersOK
    /\ Listed /\ AdmittedPlaced /\ DownClosed /\ PresenceTold

-----------------------------------------------------------------------------
(* What admit does. *)

(* What holds where handleHello and handleAuth call admit.                  *)
Admissible(c, who, place, key, offer) ==
    /\ phase[c] \in {"open", "verifying"} /\ who \in Hellos /\ key = who.key
    /\ place \in Resolve(who.id, c) /\ place # Nowhere
    /\ offer \in Snapshot /\ OfferOK(offer)

(* The place is one of the table: the host's, the player's, or an empty one
   for a player who has none.                                                *)
LEMMA AdmitPlace ==
    ASSUME SeatInv, NEW c, NEW who, NEW place, NEW key, NEW offer,
           Admissible(c, who, place, key, offer)
    PROVE  /\ who \in Hello /\ who.id \in Ids /\ who.key \in Keys \cup {NoKey}
           /\ place \in Places
           /\ \/ place = DealerPlace /\ cfg.dealer /\ who.id = Host.id
              \/ place \in Seats /\ roster[place].id = who.id
              \/ /\ place \in Seats /\ roster[place] = Nobody
                 /\ \A s \in Seats : roster[s].id # who.id
<1>1. who \in Hello /\ who.id \in Ids /\ who.key \in Keys \cup {NoKey}
  BY ClaimsAssumption DEF Admissible, Hello
<1> QED BY <1>1, Resolved DEF Admissible, SeatInv, Places

(* The roster after adopting: entries we have stay; without adoption all do. *)
LEMMA AdoptedKeeps ==
    ASSUME SeatInv, NEW offer \in Snapshot, OfferOK(offer)
    PROVE  /\ AdoptedRoster(offer) \in Roster /\ AdoptedSeq(offer) \in Nat
           /\ RosterOK(AdoptedRoster(offer))
           /\ \A s \in Seats : roster[s] # Nobody => AdoptedRoster(offer)[s] = roster[s]
           /\ ~Adopts(offer) => AdoptedRoster(offer) = roster
           /\ Adopts(offer) /\ OneGuestSeat =>
                /\ NumSeats = 2 /\ AdoptedRoster(offer)[0] = Host /\ roster[0] = Host
<1>1. roster \in Roster /\ seq \in Nat /\ RosterOK(roster) /\ cfg \in Confs
      /\ offer.seq \in Nat /\ offer.roster \in Roster
  BY DEF SeatInv, TypeOK, RostersOK, Snapshot
<1>2. CASE ~Adopts(offer)
  BY <1>1, <1>2 DEF AdoptedRoster, AdoptedSeq
<1>3. CASE Adopts(offer) /\ ~OneGuestSeat
  BY <1>1, <1>3 DEF AdoptedRoster, AdoptedSeq, Roster, RosterOK
<1>4. CASE Adopts(offer) /\ OneGuestSeat
  <2>1. cfg.resume /\ offer.seq > seq /\ offer # NoOffer
    BY <1>1, <1>4 DEF Adopts, NoOffer
  <2>2. /\ NumSeats = 2 /\ ~cfg.dealer /\ RosterOK(offer.roster)
        /\ Seats = {0, 1}
    BY <1>1, <1>4, <2>1 DEF OneGuestSeat, OfferOK, Seats
  <2>3. AdoptedRoster(offer)
          = [s \in Seats |-> IF roster[s] # Nobody THEN roster[s] ELSE offer.roster[s]]
    BY <1>4 DEF AdoptedRoster
  <2>4. AdoptedRoster(offer) \in Roster /\ AdoptedSeq(offer) \in Nat
    BY <1>1, <1>4, <2>3 DEF Roster, AdoptedSeq
  <2>5. roster[0] = Host /\ offer.roster[0] = Host /\ Host # Nobody
    BY <1>1, <1>4, <2>2, HostAssumption DEF RosterOK, Nobody
  <2>6. /\ AdoptedRoster(offer)[0] = Host
        /\ AdoptedRoster(offer)[1] = IF roster[1] # Nobody THEN roster[1] ELSE offer.roster[1]
    BY <2>2, <2>3, <2>5
  <2>7. RosterOK(AdoptedRoster(offer))
    <3>1. \A r : r \in {roster, offer.roster} =>
            \A s, t \in {0, 1} : (r[s] # Nobody /\ r[s].id = r[t].id) => s = t
      BY <1>1, <1>4, <2>2 DEF RosterOK
    <3>2. \A s, t \in {0, 1} :
            (AdoptedRoster(offer)[s] # Nobody
              /\ AdoptedRoster(offer)[s].id = AdoptedRoster(offer)[t].id) => s = t
      BY <2>5, <2>6, <3>1
    <3> QED BY <2>2, <2>6, <3>2 DEF RosterOK
  <2> QED BY <1>4, <2>1, <2>2, <2>3, <2>4, <2>5, <2>6, <2>7
<1> QED BY <1>2, <1>3, <1>4

(* The roster after an admission: typed and sound; the place is the player's;
   players who have devices stay where they are; and an entry with a key is
   as it was.                                                                *)
LEMMA AdmitRoster ==
    ASSUME SeatInv, NEW c, NEW who, NEW place, NEW key, NEW offer,
           Admissible(c, who, place, key, offer), Admit(c, who, place, key, offer)
    PROVE  /\ seq' \in Nat /\ roster' \in Roster /\ held' \in [Seats -> Profile \cup {Nobody}]
           /\ RosterOK(roster')
           /\ place \in Seats => roster'[place].id = who.id
           /\ \A s \in Seats : roster[s] # Nobody => roster'[s].id = roster[s].id
<1> DEFINE adopted == AdoptedRoster(offer)
           entry == Recorded(adopted[place], [id |-> who.id, key |-> key])
<1>1. /\ who.id \in Ids /\ key \in Keys \cup {NoKey} /\ place \in Places
      /\ \/ place = DealerPlace /\ cfg.dealer /\ who.id = Host.id
         \/ place \in Seats /\ roster[place].id = who.id
         \/ /\ place \in Seats /\ roster[place] = Nobody
            /\ \A s \in Seats : roster[s].id # who.id
  <2>1. key = who.key
    BY DEF Admissible
  <2> QED BY <2>1, AdmitPlace
<1>2. /\ adopted \in Roster /\ AdoptedSeq(offer) \in Nat /\ RosterOK(adopted)
      /\ \A s \in Seats : roster[s] # Nobody => adopted[s] = roster[s]
      /\ ~Adopts(offer) => adopted = roster
      /\ Adopts(offer) /\ OneGuestSeat =>
           /\ NumSeats = 2 /\ adopted[0] = Host /\ roster[0] = Host
  BY AdoptedKeeps DEF Admissible
<1>3. /\ roster \in Roster /\ RosterOK(roster) /\ held \in [Seats -> Profile \cup {Nobody}]
      /\ Nobody.id = "nobody" /\ Nobody.key = NoKey /\ Host # Nobody
  BY HostAssumption DEF SeatInv, TypeOK, RostersOK, Nobody
<1>4. seq' = AdoptedSeq(offer)
  BY Zenon DEF Admit
<1>5. CASE place = DealerPlace
  <2>1. roster' = adopted /\ held' = held /\ place \notin Seats
    BY <1>5 DEF Admit, DealerPlace, Seats
  <2> QED BY <1>2, <1>3, <1>4, <2>1
<1>6. CASE place # DealerPlace
  <2>1. /\ place \in Seats
        /\ roster' = [adopted EXCEPT ![place] = entry]
        /\ held' = [held EXCEPT ![place] = Nobody]
    BY <1>1, <1>6 DEF Admit, Places
  <2>2. entry \in Profile /\ entry.id = who.id /\ entry # Nobody
    <3>1. adopted[place].key \in Keys \cup {NoKey}
      BY <1>2, <2>1 DEF Roster, Profile, Nobody
    <3>2. entry = [id |-> who.id,
                   key |-> IF adopted[place].key # NoKey THEN adopted[place].key ELSE key]
      BY DEF Recorded
    <3> QED BY <1>1, <1>3, <3>1, <3>2 DEF Profile
  <2>3. /\ \A s \in Seats : roster'[s] = IF s = place THEN entry ELSE adopted[s]
        /\ roster' \in Roster
    <3> HIDE DEF entry, adopted
    <3> QED BY <1>2, <2>1, <2>2 DEF Roster
  <2>4. held' \in [Seats -> Profile \cup {Nobody}]
    BY <1>3, <2>1
  <2>5. ASSUME OneGuestSeat PROVE \A s \in Seats : s # place => adopted[s].id # who.id
    <3>1. CASE roster[place].id = who.id
      <4>1. adopted[place].id = who.id /\ adopted[place] # Nobody
        BY <1>1, <1>2, <1>3, <2>1, <3>1
      <4> QED BY <1>2, <2>1, <2>5, <4>1 DEF RosterOK
    <3>2. CASE roster[place] = Nobody /\ \A s \in Seats : roster[s].id # who.id
      <4>1. CASE ~Adopts(offer)
        BY <1>2, <3>2, <4>1
      <4>2. CASE Adopts(offer)
        <5>1. Seats = {0, 1} /\ place = 1
          BY <1>2, <1>3, <2>1, <2>5, <3>2, <4>2 DEF Seats
        <5> QED BY <1>2, <2>5, <3>2, <4>2, <5>1
      <4> QED BY <4>1, <4>2
    <3> QED BY <1>1, <1>6, <3>1, <3>2
  <2>6. RosterOK(roster')
    <3> SUFFICES ASSUME OneGuestSeat PROVE RosterOK(roster')
      BY DEF RosterOK
    <3>1. ~cfg.dealer => roster'[0] = Host
      <4> SUFFICES ASSUME ~cfg.dealer PROVE roster'[0] = Host
        OBVIOUS
      <4>1. 0 \in Seats /\ roster[0] = Host /\ adopted[0] = Host
        BY <1>2, <1>3 DEF RosterOK, Seats
      <4>2. CASE place = 0
        <5>1. who.id = Host.id /\ Host.key # NoKey /\ Host \in [id : Ids, key : Keys]
          BY <1>1, <1>6, <4>1, <4>2, <1>3, HostAssumption
        <5>2. entry = [id |-> Host.id, key |-> Host.key]
          BY <4>1, <4>2, <5>1 DEF Recorded
        <5> QED BY <2>3, <4>1, <4>2, <5>1, <5>2
      <4> QED BY <2>3, <4>1, <4>2
    <3>2. ASSUME NEW s \in Seats, NEW t \in Seats, roster'[s] # Nobody, roster'[s].id = roster'[t].id
          PROVE  s = t
      <4> HIDE DEF entry, adopted
      <4> QED BY <1>2, <2>2, <2>3, <2>5, <3>2 DEF RosterOK
    <3> QED BY <3>1, <3>2 DEF RosterOK
  <2>7. \A s \in Seats : roster[s] # Nobody => roster'[s].id = roster[s].id
    <3> HIDE DEF entry, adopted
    <3> QED BY <1>1, <1>2, <1>3, <1>6, <2>2, <2>3
  <2> QED BY <1>2, <1>4, <2>1, <2>2, <2>3, <2>4, <2>6, <2>7
<1> QED BY <1>5, <1>6

(* The device list of the place after an admission: the newcomer last, the
   oldest gone when the list was full, and never the newcomer itself.         *)
LEMMA AdmitList ==
    ASSUME SeatInv, NEW c \in Conns, phase[c] # "admitted", NEW place \in Places
    PROVE  LET list    == Append(devices[place], c)
               dropped == IF Len(list) > MaxDevices THEN {Head(list)} ELSE {}
               kept    == IF dropped = {} THEN list ELSE Tail(list)
           IN  /\ kept \in Seq(Conns) /\ Len(kept) <= MaxDevices /\ IsInjective(kept)
               /\ Range(kept) = (Range(devices[place]) \cup {c}) \ dropped
               /\ dropped \subseteq Range(devices[place]) /\ c \notin dropped
<1> DEFINE dev     == devices[place]
           list    == Append(dev, c)
           dropped == IF Len(list) > MaxDevices THEN {Head(list)} ELSE {}
           kept    == IF dropped = {} THEN list ELSE Tail(list)
<1> SUFFICES /\ kept \in Seq(Conns) /\ Len(kept) <= MaxDevices /\ IsInjective(kept)
             /\ Range(kept) = (Range(dev) \cup {c}) \ dropped
             /\ dropped \subseteq Range(dev) /\ c \notin dropped
  OBVIOUS
<1>1. /\ dev \in Seq(Conns) /\ Len(dev) <= MaxDevices /\ IsInjective(dev)
      /\ c \notin Range(dev) /\ Len(dev) \in Nat
  BY LenProperties DEF SeatInv, TypeOK, Listed
<1> HIDE DEF dev
<1>2. /\ list \in Seq(Conns) /\ Len(list) = Len(dev) + 1
      /\ Range(list) = Range(dev) \cup {c} /\ IsInjective(list)
  BY <1>1, AppendMembers
<1>3. CASE Len(list) <= MaxDevices
  <2>1. dropped = {} /\ kept = list
    BY <1>1, <1>2, <1>3
  <2> QED BY <1>1, <1>2, <1>3, <2>1
<1>4. CASE Len(list) > MaxDevices
  <2>1. dropped = {Head(list)} /\ kept = Tail(list) /\ Len(dev) = MaxDevices
    BY <1>1, <1>2, <1>4
  <2>2. list # << >> /\ Head(list) = list[1] /\ 1 \in DOMAIN dev
    <3>1. Len(list) # 0 /\ Len(<< >>) = 0 /\ 1 \in 1 .. Len(dev)
      BY <1>1, <1>2, <2>1
    <3> QED BY <1>1, <1>2, <3>1, TailMembers, LenProperties
  <2>3. Head(list) = dev[1] /\ dev[1] \in Range(dev)
    <3>1. list[1] = dev[1]
      BY <1>1, <2>1, AppendProperties
    <3> QED BY <2>2, <3>1 DEF Range
  <2>4. /\ Tail(list) \in Seq(Conns) /\ Len(Tail(list)) = Len(list) - 1
        /\ IsInjective(Tail(list)) /\ Range(Tail(list)) = Range(list) \ {Head(list)}
    BY <1>2, <2>2, TailMembers
  <2> HIDE DEF list, kept, dropped
  <2> QED BY <1>1, <1>2, <2>1, <2>3, <2>4
<1> QED
  <2>1. Len(list) \in Nat
    BY <1>1, <1>2
  <2> HIDE DEF list, kept, dropped
  <2> QED BY <1>3, <1>4, <2>1

(* Admission keeps the lists, the players at their places, and what everyone
   is told of the presence of the others.                                    *)
LEMMA AdmitKeeps ==
    ASSUME SeatInv, up, NEW c \in Conns, NEW who, NEW place, NEW key, NEW offer,
           Admissible(c, who, place, key, offer), Admit(c, who, place, key, offer),
           UNCHANGED frame
    PROVE  SeatInv'
<1> DEFINE list    == Append(devices[place], c)
           dropped == IF Len(list) > MaxDevices THEN {Head(list)} ELSE {}
           kept    == IF dropped = {} THEN list ELSE Tail(list)
           first   == devices[place] = << >>
<1>1. /\ who \in Hello /\ who \in Hellos /\ key \in Keys \cup {NoKey} /\ place \in Places
      /\ phase[c] # "admitted"
      /\ place = DealerPlace => who.id = Host.id
      /\ place \in Seats => roster[place] = Nobody \/ roster[place].id = who.id
  <2>1. /\ key = who.key /\ who \in Hellos /\ phase[c] # "admitted"
    BY DEF Admissible
  <2>2. DealerPlace \notin Seats
    BY DEF DealerPlace, Seats
  <2> QED BY <2>1, <2>2, AdmitPlace
<1>2. /\ seq' \in Nat /\ roster' \in Roster /\ held' \in [Seats -> Profile \cup {Nobody}]
      /\ RosterOK(roster')
      /\ place \in Seats => roster'[place].id = who.id
      /\ \A s \in Seats : roster[s] # Nobody => roster'[s].id = roster[s].id
  BY AdmitRoster
<1>3. /\ kept \in Seq(Conns) /\ Len(kept) <= MaxDevices /\ IsInjective(kept)
      /\ Range(kept) = (Range(devices[place]) \cup {c}) \ dropped
      /\ dropped \subseteq Range(devices[place]) /\ c \notin dropped
  BY <1>1, AdmitList
<1>4. /\ devices' = [devices EXCEPT ![place] = kept]
      /\ phase' = [d \in Conns |-> IF d = c THEN "admitted"
                                   ELSE IF d \in dropped THEN "closed" ELSE phase[d]]
      /\ claim' = [d \in Conns |->
                     IF d = c THEN [who |-> who, place |-> place, key |-> key, offer |-> NoOffer]
                     ELSE IF d \in dropped THEN NoClaim ELSE claim[d]]
      /\ told' = [d \in Conns |->
                    IF d = c THEN [p \in Places |-> p = place \/ devices[p] # << >>]
                    ELSE IF d \in dropped THEN Absent
                    ELSE IF first /\ phase[d] = "admitted" THEN [told[d] EXCEPT ![place] = TRUE]
                    ELSE told[d]]
  BY Zenon DEF Admit
<1>5. /\ cfg' = cfg /\ up' = up /\ stored' = stored /\ copy' = copy /\ restarts' = restarts
  BY DEF frame
<1>6. /\ devices \in [Places -> Seq(Conns)] /\ phase \in [Conns -> Phases]
      /\ claim \in [Conns -> Claim] /\ told \in [Conns -> [Places -> BOOLEAN]]
      /\ \A p \in Places : Range(devices[p])
                            = {d \in Conns : phase[d] = "admitted" /\ claim[d].place = p}
  BY DEF SeatInv, TypeOK, Listed
<1>7. \A d \in dropped : d \in Conns /\ phase[d] = "admitted" /\ claim[d].place = place
  BY <1>1, <1>3, <1>6
<1> HIDE DEF kept, dropped, list
<1>8. TypeOK'
  <2>1. NoOffer \in Snapshot /\ NoClaim \in Claim
    BY DEF NoOffer, NoClaim, Claim, NoHello, Snapshot, Roster
  <2>2. [who |-> who, place |-> place, key |-> key, offer |-> NoOffer] \in Claim
    BY <1>1, <2>1 DEF Claim
  <2>3. claim' \in [Conns -> Claim]
    BY <1>4, <1>6, <2>1, <2>2
  <2>4. phase' \in [Conns -> Phases]
    BY <1>4, <1>6 DEF Phases
  <2>5. devices' \in [Places -> Seq(Conns)]
    BY <1>1, <1>3, <1>4, <1>6
  <2>6. told' \in [Conns -> [Places -> BOOLEAN]]
    <3>1. Absent \in [Places -> BOOLEAN]
      BY DEF Absent
    <3>2. \A d \in Conns : [told[d] EXCEPT ![place] = TRUE] \in [Places -> BOOLEAN]
      BY <1>6
    <3>3. [p \in Places |-> p = place \/ devices[p] # << >>] \in [Places -> BOOLEAN]
      OBVIOUS
    <3> QED BY <1>4, <1>6, <3>1, <3>2, <3>3
  <2> QED BY <1>2, <1>5, <2>3, <2>4, <2>5, <2>6 DEF TypeOK, SeatInv
<1>9. PendingPlaced'
  <2>1. \A d \in Conns : Pending(d)' => Pending(d) /\ claim'[d] = claim[d]
    BY <1>4 DEF Pending
  <2> QED BY <2>1 DEF PendingPlaced, SeatInv, OwnOffer
<1>10. RostersOK'
  <2>1. \A d \in Conns : Pending(d)' => Pending(d) /\ claim'[d] = claim[d]
    BY <1>4 DEF Pending
  <2> QED BY <1>2, <1>5, <2>1 DEF RostersOK, RosterOK, OfferOK, SeatInv
<1>11. Listed'
  <2> SUFFICES ASSUME NEW p \in Places
               PROVE  /\ Len(devices'[p]) <= MaxDevices /\ IsInjective(devices'[p])
                      /\ Range(devices'[p])
                           = {d \in Conns : phase'[d] = "admitted" /\ claim'[d].place = p}
    BY DEF Listed
  <2>1. CASE p = place
    <3>1. devices'[p] = kept
      BY <1>4, <1>6, <2>1
    <3>2. \A d \in Conns : (phase'[d] = "admitted" /\ claim'[d].place = p)
                            <=> d = c \/ (d \notin dropped /\ d \in Range(devices[p]))
      BY <1>4, <1>6, <2>1
    <3> QED BY <1>3, <1>6, <2>1, <3>1, <3>2
  <2>2. CASE p # place
    <3>1. devices'[p] = devices[p]
      BY <1>4, <1>6, <2>2
    <3>2. \A d \in Conns : (phase'[d] = "admitted" /\ claim'[d].place = p)
                            <=> (phase[d] = "admitted" /\ claim[d].place = p)
      BY <1>1, <1>4, <1>7, <2>2
    <3> QED BY <1>6, <3>1, <3>2 DEF SeatInv, Listed
  <2> QED BY <2>1, <2>2
<1>12. AdmittedPlaced'
  <2> SUFFICES ASSUME NEW d \in Conns, phase'[d] = "admitted"
               PROVE  /\ claim'[d].who \in Hellos /\ claim'[d].place \in Places
                      /\ claim'[d].who.id = IF claim'[d].place = DealerPlace THEN Host.id
                                            ELSE roster'[claim'[d].place].id
    BY DEF AdmittedPlaced
  <2>1. CASE d = c
    <3>1. claim'[d].who = who /\ claim'[d].place = place
      BY <1>4, <2>1
    <3> QED BY <1>1, <1>2, <3>1 DEF Places
  <2>2. CASE d # c
    <3>1. claim'[d] = claim[d] /\ phase[d] = "admitted"
      BY <1>4, <2>2
    <3>2. /\ claim[d].who \in Hellos /\ claim[d].place \in Places /\ claim[d].who.id \in Ids
          /\ claim[d].who.id = IF claim[d].place = DealerPlace THEN Host.id
                               ELSE roster[claim[d].place].id
      BY <3>1, ClaimsAssumption DEF SeatInv, AdmittedPlaced, Hello
    <3>3. claim[d].place \in Seats => roster[claim[d].place] # Nobody
      BY <3>2 DEF Nobody, Seats, DealerPlace
    <3> QED BY <1>2, <3>1, <3>2, <3>3 DEF Places
  <2> QED BY <2>1, <2>2
<1>13. DownClosed'
  BY <1>5 DEF DownClosed
<1>14. PresenceTold'
  <2> SUFFICES ASSUME NEW d \in Conns, phase'[d] = "admitted",
                      NEW p \in Places, p # claim'[d].place
               PROVE  told'[d][p] <=> devices'[p] # << >>
    BY DEF PresenceTold
  <2>1. devices'[place] # << >>
    <3>1. c \in Range(kept)
      BY <1>3
    <3> QED BY <1>1, <1>3, <1>4, <1>6, <3>1, NoMembers
  <2>2. p # place => devices'[p] = devices[p]
    BY <1>4, <1>6
  <2>3. CASE d = c
    BY <1>4, <2>1, <2>2, <2>3
  <2>4. CASE d # c
    <3>1. /\ phase[d] = "admitted" /\ claim'[d] = claim[d]
          /\ told'[d] = IF first THEN [told[d] EXCEPT ![place] = TRUE] ELSE told[d]
      BY <1>4, <2>4
    <3>2. told[d][p] <=> devices[p] # << >>
      BY <3>1 DEF SeatInv, PresenceTold
    <3>3. told[d] \in [Places -> BOOLEAN]
      BY <1>6
    <3>4. CASE p = place
      BY <1>1, <2>1, <3>1, <3>2, <3>3, <3>4
    <3>5. CASE p # place
      BY <2>2, <3>1, <3>2, <3>3, <3>5
    <3> QED BY <3>4, <3>5
  <2> QED BY <2>3, <2>4
<1> QED BY <1>8, <1>9, <1>10, <1>11, <1>12, <1>13, <1>14 DEF SeatInv

-----------------------------------------------------------------------------
(* What detach and the other handlers do. *)

(* Taking one device off a list takes that device off and no other.          *)
LEMMA WithoutMembers ==
    ASSUME NEW list \in Seq(Conns), IsInjective(list), NEW c \in Range(list)
    PROVE  /\ Without(list, c) \in Seq(Conns)
           /\ Len(Without(list, c)) = Len(list) - 1
           /\ IsInjective(Without(list, c)) /\ Range(Without(list, c)) = Range(list) \ {c}
<1> DEFINE at   == CHOOSE i \in DOMAIN list : list[i] = c
           left == [i \in 1 .. Len(list) - 1 |-> list[IF i < at THEN i ELSE i + 1]]
<1>1. Len(list) \in Nat /\ DOMAIN list = 1 .. Len(list)
  BY LenProperties
<1>2. at \in DOMAIN list /\ list[at] = c
  BY DEF Range
<1>3. Without(list, c) = left
  BY DEF Without
<1> HIDE DEF at
<1>4. /\ Len(list) - 1 \in Nat
      /\ \A i \in 1 .. Len(list) - 1 : /\ (IF i < at THEN i ELSE i + 1) \in DOMAIN list
                                       /\ (IF i < at THEN i ELSE i + 1) # at
                                       /\ left[i] = list[IF i < at THEN i ELSE i + 1]
  BY <1>1, <1>2
<1>5. left \in Seq(Conns) /\ Len(left) = Len(list) - 1 /\ DOMAIN left = 1 .. Len(list) - 1
  <2>1. \A i \in 1 .. Len(list) - 1 : left[i] \in Conns
    BY <1>4, SeqEntries
  <2> QED BY <1>4, <2>1
<1> HIDE DEF left
<1>6. IsInjective(left)
  <2> SUFFICES ASSUME NEW i \in 1 .. Len(list) - 1, NEW j \in 1 .. Len(list) - 1, left[i] = left[j]
               PROVE  i = j
    BY <1>5 DEF IsInjective
  <2>1. (IF i < at THEN i ELSE i + 1) = (IF j < at THEN j ELSE j + 1)
    BY <1>4 DEF IsInjective
  <2> QED BY <1>1, <1>2, <2>1
<1>7. Range(left) = Range(list) \ {c}
  <2>1. \A i \in DOMAIN left : left[i] \in Range(list) /\ left[i] # c
    BY <1>2, <1>4, <1>5 DEF Range, IsInjective
  <2>2. ASSUME NEW i \in DOMAIN list, i # at PROVE list[i] \in Range(left)
    <3>1. CASE i < at
      <4>1. i \in 1 .. Len(list) - 1 /\ left[i] = list[i]
        BY <1>1, <1>2, <1>4, <3>1
      <4> QED BY <1>5, <4>1 DEF Range
    <3>2. CASE i > at
      <4>1. i - 1 \in 1 .. Len(list) - 1 /\ ~(i - 1 < at) /\ (i - 1) + 1 = i
        BY <1>1, <1>2, <3>2
      <4>2. left[i - 1] = list[i]
        BY <1>4, <4>1
      <4> QED BY <1>5, <4>1, <4>2 DEF Range
    <3> QED BY <1>1, <1>2, <2>2, <3>1, <3>2
  <2>3. Range(list) \ {c} \subseteq Range(left)
    BY <1>2, <2>2 DEF Range
  <2>4. Range(left) \subseteq Range(list) \ {c}
    BY <2>1 DEF Range
  <2> QED BY <2>3, <2>4
<1> QED BY <1>3, <1>5, <1>6, <1>7

(* Detaching a device keeps the invariant: its place's list loses it alone, and
   the others are told when it was the last.                                 *)
LEMMA DetachKeeps ==
    ASSUME SeatInv, up, NEW c \in Conns, phase[c] = "admitted", Detach(c), UNCHANGED frame
    PROVE  SeatInv'
<1> DEFINE place == claim[c].place
           left  == Without(devices[place], c)
<1>1. /\ devices \in [Places -> Seq(Conns)] /\ phase \in [Conns -> Phases]
      /\ claim \in [Conns -> Claim] /\ told \in [Conns -> [Places -> BOOLEAN]]
      /\ place \in Places
      /\ \A p \in Places : Range(devices[p])
                            = {d \in Conns : phase[d] = "admitted" /\ claim[d].place = p}
  BY DEF SeatInv, TypeOK, Listed, AdmittedPlaced
<1>2. /\ left \in Seq(Conns) /\ Len(left) <= MaxDevices /\ IsInjective(left)
      /\ Range(left) = Range(devices[place]) \ {c}
  <2>1. /\ devices[place] \in Seq(Conns) /\ IsInjective(devices[place]) /\ c \in Range(devices[place])
        /\ Len(devices[place]) <= MaxDevices /\ Len(devices[place]) \in Nat
    BY <1>1, LenProperties DEF SeatInv, Listed
  <2>2. /\ left \in Seq(Conns) /\ Len(left) = Len(devices[place]) - 1 /\ IsInjective(left)
        /\ Range(left) = Range(devices[place]) \ {c}
    BY <2>1, WithoutMembers
  <2> QED BY <2>1, <2>2
<1>3. /\ phase' = [phase EXCEPT ![c] = "closed"]
      /\ claim' = [claim EXCEPT ![c] = NoClaim]
      /\ devices' = [devices EXCEPT ![place] = left]
      /\ told' = [d \in Conns |->
                    IF d = c THEN Absent
                    ELSE IF left = << >> /\ phase[d] = "admitted"
                         THEN [told[d] EXCEPT ![place] = FALSE]
                    ELSE told[d]]
      /\ seq' = seq /\ roster' = roster /\ held' = held
  BY DEF Detach
<1>4. /\ cfg' = cfg /\ up' = up /\ stored' = stored /\ copy' = copy /\ restarts' = restarts
  BY DEF frame
<1> HIDE DEF left, place
<1>5. TypeOK'
  <2>1. NoClaim \in Claim
    BY DEF NoOffer, NoClaim, Claim, NoHello, Snapshot, Roster
  <2>2. claim' \in [Conns -> Claim] /\ phase' \in [Conns -> Phases]
    BY <1>1, <1>3, <2>1 DEF Phases
  <2>3. devices' \in [Places -> Seq(Conns)]
    BY <1>1, <1>2, <1>3
  <2>4. told' \in [Conns -> [Places -> BOOLEAN]]
    <3>1. Absent \in [Places -> BOOLEAN]
      BY DEF Absent
    <3>2. \A d \in Conns : [told[d] EXCEPT ![place] = FALSE] \in [Places -> BOOLEAN]
      BY <1>1
    <3> QED BY <1>1, <1>3, <3>1, <3>2
  <2> QED BY <1>3, <1>4, <2>2, <2>3, <2>4 DEF TypeOK, SeatInv
<1>6. \A d \in Conns : /\ Pending(d)' => Pending(d) /\ claim'[d] = claim[d]
                       /\ d # c => claim'[d] = claim[d] /\ phase'[d] = phase[d]
  BY <1>1, <1>3 DEF Pending
<1>7. PendingPlaced'
  <2> SUFFICES ASSUME NEW d \in Conns, Pending(d)'
               PROVE  /\ claim'[d].who \in Hellos /\ claim'[d].place \in Places
                      /\ claim'[d].key = claim'[d].who.key /\ claim'[d].key # NoKey
                      /\ OwnOffer(claim'[d].who, claim'[d].offer)
    BY DEF PendingPlaced, OwnOffer
  <2>1. Pending(d) /\ claim'[d] = claim[d]
    BY <1>6
  <2> QED BY <2>1 DEF PendingPlaced, SeatInv
<1>8. RostersOK'
  <2>1. ASSUME NEW d \in Conns, Pending(d)' PROVE Pending(d) /\ claim'[d] = claim[d]
    BY <1>6, <2>1
  <2> QED BY <1>3, <1>4, <2>1 DEF RostersOK, RosterOK, OfferOK, SeatInv
<1>9. Listed'
  <2> SUFFICES ASSUME NEW p \in Places
               PROVE  /\ Len(devices'[p]) <= MaxDevices /\ IsInjective(devices'[p])
                      /\ Range(devices'[p])
                           = {d \in Conns : phase'[d] = "admitted" /\ claim'[d].place = p}
    BY DEF Listed
  <2>1. CASE p = place
    <3>1. devices'[p] = left /\ Range(left) = Range(devices[p]) \ {c}
      BY <1>1, <1>2, <1>3, <2>1
    <3>2. \A d \in Conns : (phase'[d] = "admitted" /\ claim'[d].place = p)
                            <=> (d # c /\ phase[d] = "admitted" /\ claim[d].place = p)
      BY <1>1, <1>3, <1>6
    <3> QED BY <1>1, <1>2, <3>1, <3>2
  <2>2. CASE p # place
    <3>1. devices'[p] = devices[p]
      BY <1>1, <1>3, <2>2
    <3>2. \A d \in Conns : (phase'[d] = "admitted" /\ claim'[d].place = p)
                            <=> (phase[d] = "admitted" /\ claim[d].place = p)
      BY <1>1, <1>3, <1>6, <2>2 DEF place
    <3> QED BY <1>1, <3>1, <3>2 DEF SeatInv, Listed
  <2> QED BY <2>1, <2>2
<1>10. AdmittedPlaced'
  BY <1>1, <1>3, <1>6 DEF AdmittedPlaced, SeatInv
<1>11. DownClosed'
  BY <1>4 DEF DownClosed
<1>12. PresenceTold'
  <2> SUFFICES ASSUME NEW d \in Conns, phase'[d] = "admitted",
                      NEW p \in Places, p # claim'[d].place
               PROVE  told'[d][p] <=> devices'[p] # << >>
    BY DEF PresenceTold
  <2>1. /\ d # c /\ phase[d] = "admitted" /\ claim'[d] = claim[d]
        /\ told'[d] = IF left = << >> THEN [told[d] EXCEPT ![place] = FALSE] ELSE told[d]
    BY <1>1, <1>3, <1>6
  <2>2. told[d][p] <=> devices[p] # << >>
    BY <2>1 DEF SeatInv, PresenceTold
  <2>3. told[d] \in [Places -> BOOLEAN]
    BY <1>1
  <2>4. CASE p = place
    <3>1. devices[place] # << >>
      BY <1>1, NoMembers DEF place
    <3> QED BY <1>1, <1>3, <2>1, <2>2, <2>3, <2>4, <3>1
  <2>5. CASE p # place
    BY <1>1, <1>3, <2>1, <2>2, <2>3, <2>5
  <2> QED BY <2>4, <2>5
<1> QED BY <1>5, <1>7, <1>8, <1>9, <1>10, <1>11, <1>12 DEF SeatInv

(* Steps of connections that are not admitted, before and after, keep the
   invariant when what then waits is a claim that may.                       *)
LEMMA QuietKeeps ==
    ASSUME SeatInv, up, NEW c \in Conns, phase[c] # "admitted",
           NEW ph \in Phases \ {"admitted"}, NEW cl \in Claim,
           phase' = [phase EXCEPT ![c] = ph], claim' = [claim EXCEPT ![c] = cl],
           ph \in {"pending", "verifying"} =>
               /\ cl.who \in Hellos /\ cl.place \in Places /\ cl.key = cl.who.key
               /\ cl.key # NoKey /\ OfferOK(cl.offer) /\ OwnOffer(cl.who, cl.offer),
           UNCHANGED <<seq, roster, held, devices, told>>, UNCHANGED frame
    PROVE  SeatInv'
<1>1. /\ phase \in [Conns -> Phases] /\ claim \in [Conns -> Claim]
      /\ cfg' = cfg /\ up' = up /\ stored' = stored /\ copy' = copy /\ restarts' = restarts
  BY DEF SeatInv, TypeOK, frame
<1>2. \A d \in Conns : /\ d # c => claim'[d] = claim[d] /\ phase'[d] = phase[d]
                       /\ d = c => claim'[d] = cl /\ phase'[d] = ph
  BY <1>1
<1>3. TypeOK'
  BY <1>1 DEF TypeOK, SeatInv
<1>4. PendingPlaced'
  BY <1>2 DEF PendingPlaced, SeatInv, Pending, OwnOffer
<1>5. RostersOK'
  BY <1>1, <1>2 DEF RostersOK, RosterOK, OfferOK, SeatInv, Pending
<1>6. \A d \in Conns : /\ phase'[d] = "admitted" <=> phase[d] = "admitted"
                       /\ phase[d] = "admitted" => claim'[d] = claim[d]
  BY <1>2
<1>7. Listed'
  BY <1>6 DEF Listed, SeatInv
<1>8. AdmittedPlaced' /\ PresenceTold' /\ DownClosed'
  BY <1>1, <1>6 DEF AdmittedPlaced, PresenceTold, DownClosed, SeatInv
<1> QED BY <1>3, <1>4, <1>5, <1>7, <1>8 DEF SeatInv

(* reject is such a step.                                                    *)
LEMMA RejectKeeps ==
    ASSUME SeatInv, up, NEW c \in Conns, phase[c] # "admitted", Reject(c), UNCHANGED frame
    PROVE  SeatInv'
<1>1. NoClaim \in Claim
  BY DEF NoOffer, NoClaim, Claim, NoHello, Snapshot, Roster
<1>2. "closed" \in Phases \ {"admitted"}
  BY DEF Phases
<1> QED BY <1>1, <1>2, QuietKeeps DEF Reject

-----------------------------------------------------------------------------
(* The invariant. *)

(* It holds when the table is opened: a playing host sits at seat 0, alone.  *)
LEMMA SeatsInit == Init => SeatInv
<1> SUFFICES ASSUME Init PROVE SeatInv
  OBVIOUS
<1> USE DEF Init
<1>1. /\ Host \in Profile /\ 0 \in Seats /\ Nobody # Host /\ << >> \in Seq(Conns)
      /\ Len(<< >>) = 0 /\ Range(<< >>) = {} /\ IsInjective(<< >>)
  BY HostAssumption, EmptySeq DEF Profile, Seats, Nobody, Range, IsInjective
<1>2. NoClaim \in Claim /\ Absent \in [Places -> BOOLEAN]
  BY DEF NoOffer, NoClaim, Claim, NoHello, Snapshot, Roster, Absent
<1>3. roster \in Roster
  BY <1>1 DEF Roster
<1>4. stored \in Snapshot /\ copy \in Snapshot
  BY <1>3 DEF Current, Snapshot
<1>5. TypeOK
  BY <1>1, <1>2, <1>3, <1>4 DEF TypeOK, Phases
<1>6. \A s \in Seats : roster[s] = IF s = 0 /\ ~cfg.dealer THEN Host ELSE Nobody
  OBVIOUS
<1>7. RosterOK(roster)
  BY <1>1, <1>6 DEF RosterOK
<1>8. \A c \in Conns : phase[c] = "closed"
  OBVIOUS
<1>9. RostersOK
  BY <1>7, <1>8 DEF RostersOK, Current, Pending
<1>10. Listed
  BY <1>1, <1>8, SeatsAssumption DEF Listed
<1> QED BY <1>5, <1>8, <1>9, <1>10
        DEF SeatInv, PendingPlaced, AdmittedPlaced, DownClosed, PresenceTold, Pending

(* A hello keeps it.                                                         *)
LEMMA HelloKeeps ==
    ASSUME SeatInv, NEW c \in Conns, NEW who \in Hellos,
           NEW offer \in Offers(who.id), HandleHello(c, who, offer)
    PROVE  SeatInv'
<1>1. /\ up /\ phase[c] = "open" /\ UNCHANGED frame /\ who \in Hello
      /\ copy \in Snapshot /\ RosterOK(copy.roster)
  BY ClaimsAssumption DEF HandleHello, SeatInv, TypeOK, RostersOK
<1>2. offer \in Snapshot /\ OfferOK(offer)
  <2>1. NoOffer \in Snapshot
    BY DEF NoOffer, Snapshot, Roster
  <2> QED BY <1>1, <2>1 DEF Offers, OfferOK
<1>3. OwnOffer(who, offer)
  BY DEF Offers, OwnOffer
<1>4. PICK place \in Resolve(who.id, c) :
        \/ ~MayTake(place, who.key) /\ Reject(c)
        \/ MayTake(place, who.key) /\ who.key # NoKey /\ Challenge(c, who, place, who.key, offer)
        \/ MayTake(place, who.key) /\ who.key = NoKey /\ Admit(c, who, place, NoKey, offer)
  BY DEF HandleHello
<1>5. MayTake(place, who.key) => Admissible(c, who, place, who.key, offer)
  BY <1>1, <1>2 DEF Admissible, MayTake
<1>6. CASE Reject(c)
  BY <1>1, <1>6, RejectKeeps
<1>7. CASE MayTake(place, who.key) /\ who.key # NoKey /\ Challenge(c, who, place, who.key, offer)
  <2> DEFINE cl == [who |-> who, place |-> place, key |-> who.key, offer |-> offer]
  <2>1. place \in Places /\ who.key \in Keys \cup {NoKey}
    BY <1>5, <1>7, AdmitPlace
  <2>2. cl \in Claim /\ "pending" \in Phases \ {"admitted"} /\ phase[c] # "admitted"
    BY <1>1, <1>2, <2>1 DEF Claim, Phases
  <2>3. /\ phase' = [phase EXCEPT ![c] = "pending"] /\ claim' = [claim EXCEPT ![c] = cl]
        /\ UNCHANGED <<seq, roster, held, devices, told>>
    BY <1>7 DEF Challenge
  <2>4. /\ cl.who \in Hellos /\ cl.place \in Places /\ cl.key = cl.who.key /\ cl.key # NoKey
        /\ OfferOK(cl.offer) /\ OwnOffer(cl.who, cl.offer)
    BY <1>2, <1>7, <1>3, <2>1
  <2> HIDE DEF cl
  <2> QED BY <1>1, <2>2, <2>3, <2>4, QuietKeeps
<1>8. CASE MayTake(place, who.key) /\ who.key = NoKey /\ Admit(c, who, place, NoKey, offer)
  BY <1>1, <1>5, <1>8, AdmitKeeps
<1> QED BY <1>4, <1>6, <1>7, <1>8

(* What handleAuth knows after the signature check.                          *)
LEMMA VerifiedAdmissible ==
    ASSUME SeatInv, NEW c \in Conns, phase[c] = "verifying",
           NEW place \in Resolve(claim[c].who.id, c), MayTake(place, claim[c].key)
    PROVE  Admissible(c, claim[c].who, place, claim[c].key, claim[c].offer)
BY DEF SeatInv, PendingPlaced, RostersOK, Pending, MayTake, Admissible, TypeOK, Claim

(* The end of handleAuth keeps it: the place is resolved again.              *)
LEMMA VerifiedKeeps ==
    ASSUME SeatInv, NEW c \in Conns, Verified(c)
    PROVE  SeatInv'
<1>1. up /\ phase[c] = "verifying" /\ UNCHANGED frame
  BY DEF Verified
<1>2. CASE Reject(c)
  BY <1>1, <1>2, RejectKeeps
<1>3. CASE ~Reject(c)
  <2>1. PICK place \in Resolve(claim[c].who.id, c) :
          /\ MayTake(place, claim[c].key)
          /\ Admit(c, claim[c].who, place, claim[c].key, claim[c].offer)
    BY <1>3 DEF Verified
  <2> QED BY <1>1, <2>1, VerifiedAdmissible, AdmitKeeps
<1> QED BY <1>2, <1>3

(* Every step keeps it.                                                      *)
LEMMA SeatsStep == SeatInv /\ [Next]_vars => SeatInv'
<1> SUFFICES ASSUME SeatInv, [Next]_vars PROVE SeatInv'
  OBVIOUS
<1>0. /\ TypeOK /\ PendingPlaced /\ RostersOK /\ Listed /\ AdmittedPlaced /\ DownClosed /\ PresenceTold
      /\ phase \in [Conns -> Phases] /\ claim \in [Conns -> Claim]
  BY DEF SeatInv, TypeOK
<1>1. CASE UNCHANGED vars
  BY <1>0, <1>1 DEF vars, SeatInv, TypeOK, PendingPlaced, OwnOffer, RostersOK, RosterOK, OfferOK, Listed,
                    AdmittedPlaced, DownClosed, PresenceTold, Pending
<1>2. ASSUME NEW c \in Conns, Accept(c) PROVE SeatInv'
  <2>1. /\ up /\ phase[c] # "admitted" /\ phase' = [phase EXCEPT ![c] = "open"]
        /\ claim' = [claim EXCEPT ![c] = claim[c]]
        /\ UNCHANGED <<seq, roster, held, devices, told>> /\ UNCHANGED frame
    BY <1>0, <1>2 DEF Accept
  <2>2. "open" \in Phases \ {"admitted"} /\ claim[c] \in Claim
    BY <1>0 DEF Phases
  <2> QED BY <2>1, <2>2, QuietKeeps
<1>3. ASSUME NEW c \in Conns, HandleAuth(c) PROVE SeatInv'
  <2>1. /\ up /\ phase[c] # "admitted" /\ phase' = [phase EXCEPT ![c] = "verifying"]
        /\ claim' = [claim EXCEPT ![c] = claim[c]] /\ Pending(c)
        /\ UNCHANGED <<seq, roster, held, devices, told>> /\ UNCHANGED frame
    BY <1>0, <1>3 DEF HandleAuth, Pending
  <2>2. "verifying" \in Phases \ {"admitted"} /\ claim[c] \in Claim
    BY <1>0 DEF Phases
  <2>3. /\ claim[c].who \in Hellos /\ claim[c].place \in Places /\ claim[c].key = claim[c].who.key
        /\ claim[c].key # NoKey /\ OfferOK(claim[c].offer)
        /\ OwnOffer(claim[c].who, claim[c].offer)
    BY <1>0, <2>1 DEF PendingPlaced, RostersOK
  <2> QED BY <2>1, <2>2, <2>3, QuietKeeps
<1>4. ASSUME NEW c \in Conns, Verified(c) PROVE SeatInv'
  BY <1>4, VerifiedKeeps
<1>5. ASSUME NEW c \in Conns, GiveUp(c) PROVE SeatInv'
  <2>1. up /\ phase[c] # "admitted" /\ Reject(c) /\ UNCHANGED frame
    BY <1>5 DEF GiveUp, Pending
  <2> QED BY <2>1, RejectKeeps
<1>6. ASSUME NEW c \in Conns, Leave(c) PROVE SeatInv'
  BY <1>6, DetachKeeps DEF Leave
<1>7. ASSUME NEW c \in Conns, NEW who \in Hellos, NEW offer \in Offers(who.id),
             HandleHello(c, who, offer)
      PROVE  SeatInv'
  BY <1>7, HelloKeeps
<1>8. ASSUME NEW s \in Seats, ReleaseSeat(s) \/ \E p \in Holders : ReserveSeat(s, p)
      PROVE  SeatInv'
  <2>1. PICK p \in Holders \cup {Nobody} :
          /\ held' = [held EXCEPT ![s] = p]
          /\ UNCHANGED <<seq, roster, phase, claim, devices, told>> /\ UNCHANGED frame
    BY <1>8 DEF ReleaseSeat, ReserveSeat
  <2>2. held' \in [Seats -> Profile \cup {Nobody}]
    BY <1>0, <2>1, HoldersAssumption DEF TypeOK, Profile
  <2> QED BY <1>0, <2>1, <2>2 DEF frame, SeatInv, TypeOK, PendingPlaced, OwnOffer, RostersOK, RosterOK,
                                   OfferOK, Listed, AdmittedPlaced, DownClosed, PresenceTold, Pending
<1>9. CASE Play
  BY <1>0, <1>9 DEF Play, frame, SeatInv, TypeOK, PendingPlaced, OwnOffer, RostersOK, RosterOK,
                    OfferOK, Listed, AdmittedPlaced, DownClosed, PresenceTold, Pending
<1>10. CASE Persist \/ Deliver
  <2>1. Current \in Snapshot /\ Current.roster = roster
    BY <1>0 DEF TypeOK, Current, Snapshot
  <2>2. stored' \in {stored, Current} /\ copy' \in {copy, Current}
    BY <1>10 DEF Persist, Deliver
  <2>3. UNCHANGED <<cfg, up, seq, roster, held, phase, claim, devices, told>>
        /\ restarts' \in Nat
    BY <1>0, <1>10 DEF Persist, Deliver, TypeOK
  <2>4. TypeOK'
    BY <1>0, <2>1, <2>2, <2>3 DEF TypeOK
  <2>5. RostersOK'
    BY <1>0, <2>1, <2>2, <2>3 DEF RostersOK, RosterOK, OfferOK, Pending
  <2> QED BY <1>0, <2>3, <2>4, <2>5 DEF SeatInv, PendingPlaced, OwnOffer, Listed,
                                         AdmittedPlaced, DownClosed, PresenceTold, Pending
<1>11. CASE Crash
  <2>1. /\ cfg' = cfg /\ seq' = seq /\ roster' = roster /\ stored' = stored /\ copy' = copy
        /\ \A c \in Conns : phase'[c] = "closed"
        /\ \A p \in Places : devices'[p] = << >>
    BY <1>11 DEF Crash
  <2>2. TypeOK'
    <3>1. NoClaim \in Claim /\ Absent \in [Places -> BOOLEAN] /\ << >> \in Seq(Conns)
      BY EmptySeq DEF NoOffer, NoClaim, Claim, NoHello, Snapshot, Roster, Absent
    <3>2. /\ held' \in [Seats -> Profile \cup {Nobody}] /\ phase' \in [Conns -> Phases]
          /\ claim' \in [Conns -> Claim] /\ told' \in [Conns -> [Places -> BOOLEAN]]
      BY <1>11, <3>1 DEF Crash, Phases
    <3>3. devices' \in [Places -> Seq(Conns)]
      BY <1>11, <3>1, Zenon DEF Crash
    <3>4. up' = FALSE /\ restarts' = restarts + 1 /\ restarts \in Nat
      BY <1>0, <1>11, Zenon DEF Crash, TypeOK
    <3>5. up' \in BOOLEAN
      BY <3>4, Zenon
    <3>6. restarts' \in Nat
      BY <3>4
    <3> QED BY <1>0, <2>1, <3>2, <3>3, <3>5, <3>6 DEF TypeOK
  <2>3. RostersOK'
    BY <1>0, <2>1 DEF RostersOK, RosterOK, Pending
  <2>4. Listed'
    BY <2>1, EmptySeq, SeatsAssumption DEF Listed, Range, IsInjective
  <2> QED BY <2>1, <2>2, <2>3, <2>4 DEF SeatInv, PendingPlaced, OwnOffer, AdmittedPlaced, DownClosed,
                                         PresenceTold, Pending
<1>12. CASE Restart
  <2>1. /\ roster' = stored.roster /\ seq' = stored.seq /\ up' = TRUE
        /\ UNCHANGED <<cfg, held, phase, claim, devices, told, stored, copy, restarts>>
        /\ \A c \in Conns : phase[c] = "closed" /\ phase'[c] = "closed"
    BY <1>0, <1>12 DEF Restart, DownClosed
  <2>2. TypeOK'
    BY <1>0, <2>1 DEF TypeOK, Snapshot
  <2>3. RostersOK'
    BY <1>0, <2>1 DEF RostersOK, RosterOK, Pending
  <2> QED BY <1>0, <2>1, <2>2, <2>3 DEF SeatInv, PendingPlaced, OwnOffer, Listed, AdmittedPlaced, DownClosed,
                                         PresenceTold, Pending
<1> QED BY <1>1, <1>2, <1>3, <1>4, <1>5, <1>6, <1>7, <1>8, <1>9, <1>10, <1>11, <1>12 DEF Next

(* Connections, claims, lists, rosters and presence, in every state.         *)
THEOREM SeatsInvariant == Spec => []SeatInv
<1>1. Init => SeatInv
  BY SeatsInit
<1>2. SeatInv /\ [Next]_vars => SeatInv'
  BY SeatsStep
<1> QED BY <1>1, <1>2, PTL DEF Spec

(* The device lists are the admitted connections, within the cap; each device
   is its place's player's; nobody holds two seats; and presence is told
   (admit, detach, maybeAdopt; TableServer.ts).                              *)
THEOREM Devices == OneGuestSeat => (Spec => []DevicesConsistent)
<1> SUFFICES ASSUME OneGuestSeat PROVE Spec => []DevicesConsistent
  OBVIOUS
<1>1. SeatInv => DevicesConsistent
  <2> SUFFICES ASSUME SeatInv PROVE DevicesConsistent
    OBVIOUS
  <2>1. TypeOK /\ PresenceTold /\ OnePlayerOneSeat
    BY DEF SeatInv, RostersOK, RosterOK, OnePlayerOneSeat
  <2>2. ASSUME NEW p \in Places
        PROVE  /\ Len(devices[p]) <= MaxDevices
               /\ \A i, j \in DOMAIN devices[p] : devices[p][i] = devices[p][j] => i = j
               /\ \A c \in Conns : (\E i \in DOMAIN devices[p] : devices[p][i] = c)
                                     <=> (phase[c] = "admitted" /\ claim[c].place = p)
               /\ \A i \in DOMAIN devices[p] :
                     claim[devices[p][i]].who.id = IF p = DealerPlace THEN Host.id ELSE roster[p].id
    <3>1. /\ Len(devices[p]) <= MaxDevices /\ IsInjective(devices[p])
          /\ Range(devices[p]) = {c \in Conns : phase[c] = "admitted" /\ claim[c].place = p}
      BY DEF SeatInv, Listed
    <3>2. \A i \in DOMAIN devices[p] :
            /\ devices[p][i] \in Conns /\ phase[devices[p][i]] = "admitted"
            /\ claim[devices[p][i]].place = p
      BY <3>1 DEF Range
    <3> QED BY <3>1, <3>2 DEF Range, IsInjective, SeatInv, AdmittedPlaced
  <2> QED BY <2>1, <2>2 DEF DevicesConsistent
<1> QED BY <1>1, SeatsInvariant, PTL

-----------------------------------------------------------------------------
(* What a step may never do to a seat. *)

(* A copy the table has seen: the latest that was sent, or one that waits.   *)
KnownOffer(offer) ==
    offer \in {NoOffer, copy} \/ \E d \in Conns : Pending(d) /\ claim[d].offer = offer

(* An admission, with what is known of the claim.                            *)
Admission(c, who, place, key, offer) ==
    /\ Admissible(c, who, place, key, offer) /\ Admit(c, who, place, key, offer)
    /\ MayTake(place, key) /\ OwnOffer(who, offer) /\ KnownOffer(offer)
    /\ key # NoKey => who.holds = key
    /\ key = NoKey => cfg.legacy

(* A reservation is made, or ended, or all are forgotten.                   *)
HeldMoves ==
    \/ held' = held \/ held' = [s \in Seats |-> Nobody]
    \/ \E s \in Seats, p \in Holders \cup {Nobody} : held' = [held EXCEPT ![s] = p]

(* Nobody is admitted and, while the process lives, no entry of the roster
   changes but by an admission.                                              *)
LEMMA Admissions ==
    ASSUME SeatInv, [Next]_vars
    PROVE  \/ /\ \A d \in Conns : phase'[d] = "admitted" => phase[d] = "admitted"
              /\ up /\ up' => roster' = roster
              /\ roster' \in {roster, stored.roster} /\ HeldMoves
           \/ /\ up /\ up' /\ UNCHANGED frame
              /\ \E c \in Conns, who \in Hellos, place \in Places, key \in Keys \cup {NoKey},
                    offer \in Snapshot : Admission(c, who, place, key, offer)
<1> DEFINE quiet == /\ \A d \in Conns : phase'[d] = "admitted" => phase[d] = "admitted"
                    /\ up /\ up' => roster' = roster
                    /\ roster' \in {roster, stored.roster} /\ HeldMoves
           admits == /\ up /\ up' /\ UNCHANGED frame
                     /\ \E c \in Conns, who \in Hellos, place \in Places,
                           key \in Keys \cup {NoKey}, offer \in Snapshot :
                             Admission(c, who, place, key, offer)
<1> SUFFICES quiet \/ admits
  OBVIOUS
<1>0. phase \in [Conns -> Phases] /\ seq \in Nat
  BY DEF SeatInv, TypeOK
<1>1. ASSUME NEW c \in Conns, Reject(c), UNCHANGED frame PROVE quiet
  BY <1>0, <1>1 DEF Reject, frame, HeldMoves
<1>2. ASSUME NEW c \in Conns, Verified(c) PROVE quiet \/ admits
  <2>1. up /\ phase[c] = "verifying" /\ UNCHANGED frame
    BY <1>2 DEF Verified
  <2>2. CASE Reject(c)
    BY <1>1, <2>1, <2>2
  <2>3. CASE ~Reject(c)
    <3> DEFINE t == claim[c]
    <3>1. PICK place \in Resolve(t.who.id, c) :
            Signed(t) /\ MayTake(place, t.key) /\ Admit(c, t.who, place, t.key, t.offer)
      BY <1>2, <2>3 DEF Verified
    <3>2. Admissible(c, t.who, place, t.key, t.offer)
      BY <2>1, <3>1, VerifiedAdmissible
    <3>3. /\ t.who \in Hellos /\ t.key # NoKey /\ t.key \in Keys \cup {NoKey}
          /\ t.offer \in Snapshot /\ OwnOffer(t.who, t.offer) /\ KnownOffer(t.offer)
      BY <2>1 DEF SeatInv, PendingPlaced, Pending, TypeOK, Claim, KnownOffer
    <3>4. place \in Places
      BY <3>2, AdmitPlace
    <3>5. Admission(c, t.who, place, t.key, t.offer)
      BY <3>1, <3>2, <3>3 DEF Admission, Signed
    <3> HIDE DEF t
    <3> QED BY <2>1, <3>3, <3>4, <3>5 DEF frame
  <2> QED BY <2>2, <2>3
<1>3. ASSUME NEW c \in Conns, NEW who \in Hellos, NEW offer \in Offers(who.id),
             HandleHello(c, who, offer)
      PROVE  quiet \/ admits
  <2>1. /\ up /\ phase[c] = "open" /\ UNCHANGED frame
        /\ who.key = NoKey => cfg.legacy
        /\ copy \in Snapshot /\ RosterOK(copy.roster)
    BY <1>3 DEF HandleHello, SeatInv, TypeOK, RostersOK
  <2>2. offer \in Snapshot /\ OfferOK(offer) /\ OwnOffer(who, offer) /\ KnownOffer(offer)
    <3>1. NoOffer \in Snapshot
      BY DEF NoOffer, Snapshot, Roster
    <3> QED BY <2>1, <3>1 DEF Offers, OfferOK, OwnOffer, KnownOffer
  <2>3. PICK place \in Resolve(who.id, c) :
          \/ Reject(c)
          \/ Challenge(c, who, place, who.key, offer)
          \/ MayTake(place, NoKey) /\ who.key = NoKey /\ Admit(c, who, place, NoKey, offer)
    BY <1>3 DEF HandleHello
  <2>4. CASE Reject(c)
    BY <1>1, <2>1, <2>4
  <2>5. CASE Challenge(c, who, place, who.key, offer)
    BY <1>0, <2>1, <2>5 DEF Challenge, frame, HeldMoves
  <2>6. CASE MayTake(place, NoKey) /\ who.key = NoKey /\ Admit(c, who, place, NoKey, offer)
    <3>1. Admissible(c, who, place, NoKey, offer)
      BY <2>1, <2>2, <2>6 DEF Admissible, MayTake
    <3>2. place \in Places
      BY <3>1, AdmitPlace
    <3>3. Admission(c, who, place, NoKey, offer)
      BY <2>1, <2>2, <2>6, <3>1 DEF Admission
    <3> QED BY <2>1, <2>2, <3>2, <3>3, Zenon DEF frame
  <2> QED BY <2>3, <2>4, <2>5, <2>6
<1>4. ASSUME NEW c \in Conns, Accept(c) \/ HandleAuth(c) \/ GiveUp(c) \/ Leave(c) PROVE quiet
  BY <1>0, <1>4 DEF Accept, HandleAuth, GiveUp, Reject, Leave, Detach, frame, HeldMoves
<1>5. CASE \/ \E s \in Seats : ReleaseSeat(s) \/ \E p \in Holders : ReserveSeat(s, p)
           \/ Play \/ Persist \/ Deliver \/ Crash \/ Restart \/ UNCHANGED vars
  BY <1>0, <1>5 DEF ReleaseSeat, ReserveSeat, Play, Persist, Deliver, Crash, Restart, frame, vars,
                    HeldMoves
<1> QED
  <2> HIDE DEF quiet, admits
  <2>1. CASE \E c \in Conns :
               \/ Accept(c) \/ HandleAuth(c) \/ Verified(c) \/ GiveUp(c) \/ Leave(c)
               \/ \E who \in Hellos : \E offer \in Offers(who.id) : HandleHello(c, who, offer)
    BY <1>2, <1>3, <1>4, <2>1, Zenon
  <2> QED BY <1>5, <2>1, Zenon DEF Next

(* An admission at a seat with a key leaves the entry as it is.             *)
LEMMA AdmissionKeepsBound ==
    ASSUME SeatInv, NEW c, NEW who \in Hellos, NEW place \in Places, NEW key \in Keys \cup {NoKey},
           NEW offer \in Snapshot, Admission(c, who, place, key, offer),
           NEW s \in Seats, roster[s].key # NoKey
    PROVE  roster'[s] = roster[s]
<1>1. /\ roster \in Roster /\ roster[s] # Nobody
      /\ AdoptedRoster(offer) \in Roster /\ AdoptedRoster(offer)[s] = roster[s]
  <2>1. roster \in Roster /\ roster[s] # Nobody
    BY DEF SeatInv, TypeOK, Nobody
  <2> QED BY <2>1, AdoptedKeeps DEF Admission, Admissible
<1>2. roster[s] = [id |-> roster[s].id, key |-> roster[s].key]
  BY <1>1 DEF Roster, Profile
<1>3. CASE s = place
  <2>1. s # DealerPlace
    BY DEF DealerPlace, Seats
  <2>2. roster[s].id = who.id
    BY <1>1, <1>3, <2>1, AdmitPlace DEF Admission
  <2> QED BY <1>1, <1>2, <1>3, <2>1, <2>2 DEF Admission, Admit, Recorded, Roster
<1>4. CASE s # place
  BY <1>1, <1>4 DEF Admission, Admit, Roster
<1> QED BY <1>3, <1>4

(* "A bound key is never replaced" (admit), "a known profile id always gets its
   own seat" (resolve): while the process lives, a seat bound to a player and a
   key stays bound to both, whatever is adopted and whoever else joins.       *)
THEOREM Bound == Spec => BoundSeatKept
<1>1. SeatInv /\ [Next]_vars => [\A s \in Seats :
                                   (up /\ up' /\ roster[s].key # NoKey) => roster'[s] = roster[s]]_vars
  BY Admissions, AdmissionKeepsBound, Zenon
<1> QED BY <1>1, SeatsInvariant, PTL DEF Spec, BoundSeatKept

(* A device that signs with the key a seat is reserved for says that it is of
   the player the seat is reserved for.                                      *)
HolderKeys == \A h \in Hellos, p \in Holders : (h.key = p.key /\ h.holds = h.key) => h.id = p.id

(* Seats are reserved for players who have keys.                             *)
HeldByHolders == \A s \in Seats : held[s] = Nobody \/ held[s] \in Holders

(* reserveSeat is asked for nobody else; admit only ends reservations.       *)
LEMMA HeldStep == SeatInv /\ HeldByHolders /\ [Next]_vars => HeldByHolders'
<1> SUFFICES ASSUME SeatInv, HeldByHolders, [Next]_vars PROVE HeldByHolders'
  OBVIOUS
<1>1. /\ held \in [Seats -> Profile \cup {Nobody}]
      /\ \A s \in Seats : held[s] = Nobody \/ held[s] \in Holders
  BY DEF SeatInv, TypeOK, HeldByHolders
<1>2. ASSUME NEW c, NEW who, NEW place \in Places, NEW key, NEW offer, Admit(c, who, place, key, offer)
      PROVE  HeldMoves
  BY <1>2 DEF Admit, Places, HeldMoves
<1>3. HeldMoves
  BY <1>2, Admissions DEF Admission
<1> QED BY <1>1, <1>3 DEF HeldMoves, HeldByHolders

(* A reserved seat goes to the player and the key it is reserved for, whoever
   claimed it before (resolve, and the bound key that handleHello and
   handleAuth ask for), unless a peer's longer copy is adopted.               *)
THEOREM Reserved == HolderKeys => (Spec => ReservedForHolder)
<1> SUFFICES ASSUME HolderKeys PROVE Spec => ReservedForHolder
  OBVIOUS
<1>1. Init => HeldByHolders
  BY DEF Init, HeldByHolders
<1>2. ASSUME SeatInv, HeldByHolders, NEW c, NEW who \in Hellos, NEW place \in Places,
             NEW key \in Keys \cup {NoKey}, NEW offer \in Snapshot,
             Admission(c, who, place, key, offer), seq' = seq,
             NEW s \in Seats, roster[s] = Nobody, held[s] # Nobody, roster'[s] # Nobody
      PROVE  roster'[s] = held[s]
  <2>1. ~Adopts(offer)
    BY <1>2 DEF Admission, Admit, Adopts, AdoptedSeq, SeatInv, TypeOK, Snapshot
  <2>2. AdoptedRoster(offer) = roster /\ roster \in Roster
    BY <1>2, <2>1 DEF AdoptedRoster, SeatInv, TypeOK
  <2>3. s = place /\ place # DealerPlace
    BY <1>2, <2>2 DEF Admission, Admit, Roster
  <2>4. roster'[s] = [id |-> who.id, key |-> key]
    BY <1>2, <2>2, <2>3 DEF Admission, Admit, Roster, Recorded, Nobody
  <2>5. held[s] \in Holders /\ held[s] \in [id : Ids, key : Keys]
    BY <1>2, HoldersAssumption DEF HeldByHolders
  <2>6. key = held[s].key
    BY <1>2, <2>3, <2>5 DEF Admission, MayTake, BoundKey, Nobody
  <2>7. key # NoKey /\ key = who.key /\ who.holds = key
    BY <1>2, <2>5, <2>6 DEF Admission, Admissible
  <2>8. who.id = held[s].id
    BY <1>2, <2>5, <2>6, <2>7 DEF HolderKeys
  <2> QED BY <2>4, <2>5, <2>6, <2>8
<1>3. SeatInv /\ HeldByHolders /\ [Next]_vars
        => [\A s \in Seats :
              (/\ up /\ up' /\ seq' = seq
               /\ roster[s] = Nobody /\ held[s] # Nobody /\ roster'[s] # Nobody)
                  => roster'[s] = held[s]]_vars
  <2> SUFFICES ASSUME SeatInv, HeldByHolders, [Next]_vars, NEW s \in Seats, up, up', seq' = seq,
                      roster[s] = Nobody, held[s] # Nobody, roster'[s] # Nobody
               PROVE  roster'[s] = held[s]
    OBVIOUS
  <2>1. PICK c \in Conns, who \in Hellos, place \in Places, key \in Keys \cup {NoKey},
            offer \in Snapshot : Admission(c, who, place, key, offer)
    BY Admissions
  <2> QED BY <1>2, <2>1
<1> QED BY <1>1, <1>3, HeldStep, SeatsInvariant, PTL DEF Spec, ReservedForHolder

-----------------------------------------------------------------------------
(* Keys. *)

(* Where peers hold full copies every client has a key, and a player has one. *)
KeyedCopies ==
    \A k \in Confs : k.resume =>
        /\ ~k.legacy
        /\ \A g, h \in Hellos : (g.id = h.id /\ g.key # NoKey /\ h.key # NoKey) => g.key = h.key

(* The keys on a roster are the host's, and keys that players of that name have
   shown.                                                                    *)
KeysKnown(r) ==
    \A s \in Seats : r[s].key = NoKey \/ r[s] = Host
                     \/ \E h \in Hellos : h.id = r[s].id /\ h.key = r[s].key

KeyInv ==
    /\ KeysKnown(roster) /\ KeysKnown(stored.roster) /\ KeysKnown(copy.roster)
    /\ \A c \in Conns : Pending(c) => KeysKnown(claim[c].offer.roster)

(* What waits after a step is known, and copies are of the current roster.    *)
LEMMA Offered ==
    ASSUME SeatInv, [Next]_vars
    PROVE  /\ \A d \in Conns : Pending(d)' => KnownOffer(claim'[d].offer)
           /\ stored'.roster \in {stored.roster, roster} /\ copy'.roster \in {copy.roster, roster}
<1>0. phase \in [Conns -> Phases] /\ claim \in [Conns -> Claim]
  BY DEF SeatInv, TypeOK
<1> DEFINE same == UNCHANGED <<stored, copy>>
           known == \A d \in Conns : Pending(d)' => KnownOffer(claim'[d].offer)
<1>1. ASSUME \A d \in Conns : Pending(d)' => Pending(d) /\ claim'[d] = claim[d] PROVE known
  BY <1>1 DEF KnownOffer
<1>2. ASSUME NEW c \in Conns, Reject(c) PROVE known
  BY <1>0, <1>1, <1>2 DEF Reject, Pending
<1>3. ASSUME NEW c, NEW who, NEW place, NEW key, NEW offer, Admit(c, who, place, key, offer)
      PROVE  known
  <2>1. \A d \in Conns : Pending(d)' => Pending(d) /\ claim'[d] = claim[d]
    BY <1>3 DEF Admit, Pending
  <2> QED BY <1>1, <2>1
<1>4. ASSUME NEW c \in Conns, NEW who, NEW place, NEW key, NEW id, NEW offer \in Offers(id),
             Challenge(c, who, place, key, offer)
      PROVE  known
  <2>1. KnownOffer(offer)
    BY DEF Offers, KnownOffer
  <2>2. \A d \in Conns : Pending(d)' => \/ Pending(d) /\ claim'[d] = claim[d]
                                        \/ claim'[d].offer = offer
    BY <1>0, <1>4 DEF Challenge, Pending
  <2> QED BY <2>1, <2>2 DEF KnownOffer
<1>5. ASSUME NEW c \in Conns, Verified(c) PROVE known /\ same
  BY <1>2, <1>3, <1>5 DEF Verified, frame
<1>6. ASSUME NEW c \in Conns, NEW who \in Hellos, NEW offer \in Offers(who.id),
             HandleHello(c, who, offer)
      PROVE  known /\ same
  BY <1>2, <1>3, <1>4, <1>6 DEF HandleHello, frame
<1>7. ASSUME NEW c \in Conns, Accept(c) \/ HandleAuth(c) \/ GiveUp(c) \/ Leave(c)
      PROVE  known /\ same
  <2>1. same
    BY <1>7 DEF Accept, HandleAuth, GiveUp, Leave, frame
  <2>2. \A d \in Conns : Pending(d)' => Pending(d) /\ claim'[d] = claim[d]
    BY <1>0, <1>7 DEF Accept, HandleAuth, GiveUp, Reject, Leave, Detach, Pending
  <2> QED BY <1>1, <2>1, <2>2
<1>8. CASE \/ \E s \in Seats : ReleaseSeat(s) \/ \E p \in Holders : ReserveSeat(s, p)
           \/ Play \/ Restart \/ Crash \/ UNCHANGED vars
  <2>1. same
    BY <1>8 DEF ReleaseSeat, ReserveSeat, Play, Restart, Crash, frame, vars
  <2>2. \A d \in Conns : Pending(d)' => Pending(d) /\ claim'[d] = claim[d]
    BY <1>8 DEF ReleaseSeat, ReserveSeat, Play, Restart, Crash, vars, Pending
  <2> QED BY <1>1, <2>1, <2>2
<1>9. CASE Persist \/ Deliver
  <2>1. \A d \in Conns : Pending(d)' => Pending(d) /\ claim'[d] = claim[d]
    BY <1>9 DEF Persist, Deliver, Pending
  <2>2. stored'.roster \in {stored.roster, roster} /\ copy'.roster \in {copy.roster, roster}
    BY <1>9 DEF Persist, Deliver, Current
  <2> QED BY <1>1, <2>1, <2>2
<1> QED
  <2>1. CASE \E c \in Conns :
               \/ Accept(c) \/ HandleAuth(c) \/ Verified(c) \/ GiveUp(c) \/ Leave(c)
               \/ \E who \in Hellos : \E offer \in Offers(who.id) : HandleHello(c, who, offer)
    <3>1. known /\ same
      BY <1>5, <1>6, <1>7, <2>1, Zenon
    <3> QED BY <3>1
  <2> QED BY <1>8, <1>9, <2>1, Zenon DEF Next

(* The key a newcomer showed is the key its seat is bound to from then on.   *)
LEMMA AdmittedKey ==
    ASSUME SeatInv, KeyInv, OneGuestSeat, KeyedCopies,
           NEW c, NEW who \in Hellos, NEW place \in Seats, NEW key \in Keys \cup {NoKey},
           NEW offer \in Snapshot, Admission(c, who, place, key, offer)
    PROVE  roster'[place] = [id |-> who.id, key |-> key]
<1> DEFINE adopted == AdoptedRoster(offer)
<1>1. /\ roster \in Roster /\ adopted \in Roster /\ key = who.key
      /\ OfferOK(offer) /\ offer.seq \in Nat /\ offer.roster \in Roster
      /\ cfg \in Confs /\ seq \in Nat
  BY AdoptedKeeps DEF SeatInv, TypeOK, Admission, Admissible, Snapshot
<1>2. place # DealerPlace
  BY DEF DealerPlace, Seats
<1>3. roster'[place] = [id |-> who.id, key |-> IF adopted[place].key # NoKey
                                               THEN adopted[place].key ELSE key]
  BY <1>1, <1>2 DEF Admission, Admit, Recorded, Roster
<1>4. roster[place].key \in {NoKey, key}
  BY <1>2 DEF Admission, MayTake, BoundKey
<1>5. CASE adopted[place] = roster[place]
  BY <1>3, <1>4, <1>5
<1>6. CASE adopted[place] # roster[place]
  <2>1. /\ Adopts(offer) /\ roster[place] = Nobody /\ adopted[place] = offer.roster[place]
    BY <1>6 DEF AdoptedRoster
  <2>2. /\ cfg.resume /\ offer # NoOffer /\ offer.seq # 0
    BY <1>1, <2>1 DEF Adopts, NoOffer
  <2>3. /\ NumSeats = 2 /\ ~cfg.dealer /\ ~cfg.legacy /\ Seats = {0, 1}
        /\ RosterOK(offer.roster) /\ RosterOK(roster)
    BY <1>1, <2>2 DEF OneGuestSeat, KeyedCopies, OfferOK, Seats, SeatInv, RostersOK
  <2>4. roster[0] = Host /\ offer.roster[0] = Host /\ Host # Nobody
    BY <2>3, HostAssumption DEF RosterOK, Nobody
  <2>5. place = 1 /\ \A s \in Seats : roster[s].id # who.id
    <3>1. place = 1
      BY <2>1, <2>3, <2>4
    <3>2. who.id \in Ids /\ Nobody.id = "nobody"
      BY ClaimsAssumption DEF Hello, Nobody
    <3> QED BY <1>2, <2>1, <3>1, <3>2, AdmitPlace DEF Admission
  <2>6. who.id # Host.id /\ offer.roster[1].id = who.id
    <3>1. who.id # Host.id
      BY <2>3, <2>4, <2>5
    <3>2. \E s \in Seats : offer.roster[s].id = who.id
      BY <2>2 DEF Admission, OwnOffer
    <3> QED BY <2>3, <2>4, <3>1, <3>2
  <2>7. KeysKnown(offer.roster)
    <3>1. KeysKnown(NoOffer.roster)
      BY DEF KeysKnown, NoOffer, Nobody
    <3> QED BY <3>1 DEF Admission, KnownOffer, KeyInv
  <2>8. offer.roster[1].key = NoKey \/ \E h \in Hellos : h.id = who.id /\ h.key = offer.roster[1].key
    BY <2>3, <2>6, <2>7 DEF KeysKnown
  <2>9. key # NoKey
    BY <2>3 DEF Admission
  <2>10. offer.roster[1].key \in {NoKey, key}
    <3> SUFFICES ASSUME offer.roster[1].key # NoKey PROVE offer.roster[1].key = key
      OBVIOUS
    <3> QED BY <1>1, <2>2, <2>8, <2>9 DEF KeyedCopies
  <2> QED BY <1>3, <2>1, <2>5, <2>10
<1> QED BY <1>5, <1>6

(* Every step keeps the keys on rosters known.                              *)
LEMMA KeysStep ==
    OneGuestSeat /\ KeyedCopies /\ SeatInv /\ KeyInv /\ [Next]_vars => KeyInv'
<1> SUFFICES ASSUME OneGuestSeat, KeyedCopies, SeatInv, KeyInv, [Next]_vars PROVE KeyInv'
  OBVIOUS
<1>1. /\ KeysKnown(roster) /\ KeysKnown(stored.roster) /\ KeysKnown(copy.roster)
      /\ KeysKnown(NoOffer.roster)
      /\ \A d \in Conns : Pending(d) => KeysKnown(claim[d].offer.roster)
  BY DEF KeyInv, KeysKnown, NoOffer, Nobody
<1>2. \A offer : KnownOffer(offer) => KeysKnown(offer.roster)
  BY <1>1 DEF KnownOffer
<1>3. KeysKnown(roster')
  <2>1. CASE roster' \in {roster, stored.roster}
    BY <1>1, <2>1
  <2>2. ASSUME NEW c \in Conns, NEW who \in Hellos, NEW place \in Places,
               NEW key \in Keys \cup {NoKey}, NEW offer \in Snapshot,
               Admission(c, who, place, key, offer)
        PROVE  KeysKnown(roster')
    <3> DEFINE adopted == AdoptedRoster(offer)
    <3>1. KeysKnown(adopted)
      <4>1. KeysKnown(offer.roster)
        BY <1>2, <2>2 DEF Admission
      <4>2. \A s \in Seats : adopted[s] \in {roster[s], offer.roster[s]}
        BY DEF AdoptedRoster
      <4> HIDE DEF adopted
      <4> QED BY <1>1, <4>1, <4>2 DEF KeysKnown
    <3>2. CASE place = DealerPlace
      <4>1. roster' = adopted
        BY <2>2, <3>2 DEF Admission, Admit
      <4> QED BY <3>1, <4>1
    <3>3. CASE place # DealerPlace
      <4>1. place \in Seats /\ adopted \in Roster
        BY <2>2, <3>3, AdoptedKeeps DEF Places, Admission, Admissible
      <4>2. roster'[place] = [id |-> who.id, key |-> key] /\ key = who.key
        BY <2>2, <4>1, AdmittedKey DEF Admission, Admissible
      <4>3. \A s \in Seats : s # place => roster'[s] = adopted[s]
        BY <2>2, <3>3, <4>1 DEF Admission, Admit, Roster
      <4> HIDE DEF adopted
      <4> QED BY <3>1, <4>2, <4>3 DEF KeysKnown
    <3> QED BY <3>2, <3>3
  <2> QED BY <2>1, <2>2, Admissions
<1>4. KeysKnown(stored'.roster) /\ KeysKnown(copy'.roster)
  BY <1>1, Offered
<1>5. \A d \in Conns : Pending(d)' => KeysKnown(claim'[d].offer.roster)
  BY <1>2, Offered
<1> QED BY <1>3, <1>4, <1>5 DEF KeyInv, KeysKnown

(* "From then on a device can only claim that seat by signing" (handleHello,
   handleAuth): who is admitted at a place bound to a key holds it.           *)
THEOREM ProvesKey == OneGuestSeat /\ KeyedCopies => (Spec => AdmittedProvesKey)
<1> SUFFICES ASSUME OneGuestSeat, KeyedCopies PROVE Spec => AdmittedProvesKey
  OBVIOUS
<1>1. Init => KeyInv
  <2> SUFFICES ASSUME Init PROVE KeyInv
    OBVIOUS
  <2>1. KeysKnown(roster)
    BY DEF Init, KeysKnown, Nobody
  <2> QED BY <2>1 DEF Init, Current, KeyInv, Pending
<1>2. SeatInv /\ KeyInv /\ [Next]_vars => KeyInv'
  BY KeysStep
<1>3. SeatInv /\ KeyInv /\ [Next]_vars
        => [\A c \in Conns :
              (phase'[c] = "admitted" /\ phase[c] # "admitted") =>
                  LET place == claim'[c].place
                      bound == IF place = DealerPlace THEN Host.key ELSE roster'[place].key
                  IN  bound # NoKey => claim'[c].who.holds = bound]_vars
  <2> SUFFICES ASSUME SeatInv, KeyInv, [Next]_vars, NEW c \in Conns,
                      phase'[c] = "admitted", phase[c] # "admitted"
               PROVE  LET place == claim'[c].place
                          bound == IF place = DealerPlace THEN Host.key ELSE roster'[place].key
                      IN  bound # NoKey => claim'[c].who.holds = bound
    OBVIOUS
  <2>1. PICK d \in Conns, who \in Hellos, place \in Places, key \in Keys \cup {NoKey},
             offer \in Snapshot : Admission(d, who, place, key, offer)
    BY Admissions
  <2>2. d = c /\ claim'[c].who = who /\ claim'[c].place = place
    BY <2>1 DEF Admission, Admit
  <2>3. key # NoKey => who.holds = key
    BY <2>1 DEF Admission
  <2>4. CASE place = DealerPlace
    <3>1. Host.key \in Keys /\ BoundKey(place) = Host.key
      BY <2>4, HostAssumption DEF BoundKey
    <3>2. key = Host.key
      BY <2>1, <3>1 DEF Admission, MayTake
    <3> QED BY <2>2, <2>3, <2>4, <3>1, <3>2
  <2>5. CASE place # DealerPlace
    <3>1. place \in Seats
      BY <2>5 DEF Places
    <3>2. roster'[place] = [id |-> who.id, key |-> key]
      BY <2>1, <3>1, AdmittedKey
    <3> QED BY <2>2, <2>3, <2>5, <3>2
  <2> QED BY <2>4, <2>5
<1> QED BY <1>1, <1>2, <1>3, SeatsInvariant, PTL DEF Spec, AdmittedProvesKey
=============================================================================
