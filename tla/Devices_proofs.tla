---------------------------- MODULE Devices_proofs ---------------------------
(***************************************************************************)
(* Proofs about the devices of a player: those that act for the player are  *)
(* signed out in the end and stop on the day that was told; those that sync *)
(* never stop looking for each other, and agree in the end.                 *)
(***************************************************************************)
EXTENDS Grants, Sync, ProofLemmas, FiniteSetTheorems

(* Types. *)
Listing  == [serial : Nat \ {0}, key : Paired, expires : Nat, at : Nat]
Anywhere == Roots \cup {NoRoot}
Stages   == {"none", "asked", "answering", "left", "sent", "paired", "failed"}
Pairing  == [root : Anywhere, phase : Stages, serial : Nat, at : Nat]
Grant    == [serial : Nat, expires : Nat]
Renewal  == [root : Anywhere, pc : {"idle", "looking", "signing"}, at : Nat, known : BOOLEAN]
Pub      == [root : Anywhere, pc : {"idle", "looking", "putting", "storing", "stored"},
             serials : SUBSET Nat, at : Nat]
Lists    == [serials : SUBSET Nat, at : Int]
SignOut  == [key : Paired, serial : Nat, root : Roots, by : Nat]

TypeInv ==
    /\ vouch \in GrantConf /\ vouch.hosts \subseteq vouch.roots
    /\ day \in Nat /\ moment \in Nat
    /\ listed \in [Roots -> SUBSET Listing] /\ published \in [Roots -> Nat]
    /\ pairing \in [Paired -> Pairing] /\ held \in [Paired -> Grant]
    /\ renewing \in [Paired -> Renewal] /\ pubs \in [Publishers -> Pub]
    /\ revoked \in Lists /\ cached \in [Roots -> Lists]
    /\ signedOut \subseteq SignOut
    /\ \A r \in Roots : \E top \in Nat : \A e \in listed[r] : e.serial <= top
    /\ \A r \in Roots : published[r] <= moment

(* What is under way names its root.                                        *)
RootsNamed ==
    /\ \A k \in Paired : pairing[k].phase # "none" => pairing[k].root \in vouch.hosts
    /\ \A k \in Paired : renewing[k].pc = "idle" <=> renewing[k].root = NoRoot
    /\ \A i \in Publishers : pubs[i].pc = "idle" <=> pubs[i].root = NoRoot

(* Without overlap a root publishes once at a time, and renews nothing meanwhile. *)
OneAtATime ==
    ~vouch.overlap =>
        /\ \A i, j \in Publishers : pubs[i].root = pubs[j].root /\ pubs[i].root # NoRoot => i = j
        /\ \A i \in Publishers, k \in Paired :
              pubs[i].root = renewing[k].root => pubs[i].root = NoRoot
        /\ \A i, j \in Publishers : pubs[i].pc = "storing" /\ pubs[j].pc = "storing" => i = j

(* The list only grows: what is being stored has what is stored, what was read is
   in it; and what is being published has everything signed out here.       *)
PubInv ==
    ~vouch.overlap =>
        /\ \A r \in Roots : cached[r].serials \subseteq revoked.serials
        /\ \A i \in Publishers :
              /\ pubs[i].pc # "idle" => SignedOutAt(pubs[i].root) \subseteq pubs[i].serials
              /\ pubs[i].pc = "storing" => revoked.serials \subseteq pubs[i].serials
              /\ pubs[i].pc = "stored" => pubs[i].serials \subseteq revoked.serials
        /\ \A r \in Roots : \A e \in listed[r] :
              e.at # 0 => e.at > published[r] \/ e.serial \in revoked.serials

PublishInv == TypeInv /\ RootsNamed /\ OneAtATime /\ PubInv

(* A serial is chosen when a pairing is approved, and is the grant's from then on. *)
Serials ==
    /\ \A k \in Paired : pairing[k].phase \in {"none", "asked"} => pairing[k].serial = 0
    /\ \A k \in Paired :
          pairing[k].phase \in {"answering", "left", "sent", "paired"} => pairing[k].serial # 0
    /\ \A k \in Paired : held[k] # NoGrant =>
          /\ pairing[k].phase = "paired"
          /\ held[k].serial = pairing[k].serial
    /\ \A k \in Paired : renewing[k].pc # "idle" => held[k] # NoGrant

(* The player has one root, and nothing overlaps there. *)
Alone == ~vouch.overlap /\ Cardinality(vouch.roots) = 1

(* A serial that was chosen is of one device, which is listed with it once its
   grant is signed, and listed once.                                        *)
Numbered ==
    /\ \A k, j \in Paired :
          pairing[k].serial = pairing[j].serial /\ pairing[k].serial # 0 => k = j
    /\ \A r \in Roots : \A e \in listed[r] :
          /\ r \in vouch.roots
          /\ pairing[e.key].serial = e.serial
          /\ pairing[e.key].phase \in {"sent", "paired", "failed"}
    /\ \A r \in Roots : \A e, d \in listed[r] : e.serial = d.serial => e = d
    /\ \A k \in Paired : pairing[k].serial # 0 /\ pairing[k].phase \notin {"answering", "left"} =>
          \E e \in listed[pairing[k].root] : e.serial = pairing[k].serial /\ e.key = k

(* No grant, held or on its way, lasts longer than the list says. *)
Dated ==
    /\ \A k \in Paired : held[k] # NoGrant => \A r \in Roots : \A e \in Entry(r, held[k].serial) :
          held[k].expires <= e.expires
    /\ \A k \in Paired : pairing[k].phase = "sent" =>
          \A r \in Roots : \A e \in Entry(r, pairing[k].serial) :
             pairing[k].at + Lasts <= e.expires

(* A grant that is being renewed is soon over, and is not signed out. *)
RenewalsDue ==
    \A k \in Paired : renewing[k].pc # "idle" =>
        /\ renewing[k].root \in vouch.roots
        /\ held[k].expires <= renewing[k].at + RenewWithin
        /\ \A e \in Entry(renewing[k].root, held[k].serial) : e.at = 0

(* What was signed out stays listed as such, until the day that was told. *)
Told ==
    \A o \in signedOut : \E e \in Entry(o.root, o.serial) :
        e.key = o.key /\ e.at # 0 /\ e.expires <= o.by

ListedInv == Numbered /\ Dated /\ RenewalsDue /\ Told
AloneInv == Alone => ListedInv
-----------------------------------------------------------------------------
(* What the actions are made of. *)

(* A bound being used up is all that changes of the situation.              *)
LEMMA BoundUsed ==
    ASSUME vouch \in GrantConf, NEW bound \in {"outs", "opens", "fails", "leaves", "days"},
           Uses(bound)
    PROVE  /\ vouch' \in GrantConf /\ vouch'.overlap = vouch.overlap
           /\ vouch'.roots = vouch.roots /\ vouch'.hosts = vouch.hosts
BY DEF Uses, GrantConf

(* What a root has listed once a grant is recorded.                         *)
LEMMA Recorded ==
    ASSUME listed \in [Roots -> SUBSET Listing], NEW r \in Roots, NEW serial \in Nat \ {0},
           NEW key \in Paired, NEW expires \in Nat, RecordPaired(r, serial, key, expires)
    PROVE  /\ listed' \in [Roots -> SUBSET Listing]
           /\ \A q \in Roots : q # r => listed'[q] = listed[q]
           /\ \A e : e \in listed'[r] <=>
                 \/ e \in listed[r] /\ e.serial # serial
                 \/ e = [serial |-> serial, key |-> key, expires |-> expires, at |-> 0]
<1>1. PICK new : new = [serial |-> serial, key |-> key, expires |-> expires, at |-> 0]
  OBVIOUS
<1>2. new \in Listing
  BY <1>1 DEF Listing
<1>3. PICK mine : mine = (listed[r] \ Entry(r, serial)) \cup {new}
  OBVIOUS
<1>4. mine \in SUBSET Listing
  BY <1>2, <1>3
<1>5. listed' = [listed EXCEPT ![r] = mine]
  BY <1>1, <1>3 DEF RecordPaired
<1>6. \A e : e \in mine <=> (e \in listed[r] /\ e.serial # serial) \/ e = new
  BY <1>3 DEF Entry
<1> QED BY <1>1, <1>4, <1>5, <1>6

(* What a root has listed once a serial is marked.                          *)
LEMMA Marked ==
    ASSUME listed \in [Roots -> SUBSET Listing], NEW r \in Roots, NEW serial,
           moment' \in Nat, MarkRevoked(r, serial)
    PROVE  /\ listed' \in [Roots -> SUBSET Listing]
           /\ \A q \in Roots : q # r => listed'[q] = listed[q]
           /\ \A e \in listed[r] : e.serial # serial => e \in listed'[r]
           /\ \A e \in listed[r] : e.serial = serial => [e EXCEPT !.at = moment'] \in listed'[r]
           /\ \A e \in listed'[r] :
                 \/ e \in listed[r] /\ e.serial # serial
                 \/ /\ e.serial = serial /\ e.at = moment'
                    /\ \E d \in listed[r] : d.serial = serial /\ d.key = e.key
                                            /\ d.expires = e.expires
                                            /\ e = [d EXCEPT !.at = moment']
<1>1. PICK now : now = moment'
  OBVIOUS
<1>2. PICK mine : mine = {IF e.serial = serial THEN [e EXCEPT !.at = now]
                         ELSE e : e \in listed[r]}
  OBVIOUS
<1>3. listed' = [listed EXCEPT ![r] = mine]
  BY <1>1, <1>2 DEF MarkRevoked
<1>4. \A e \in Listing : [e EXCEPT !.at = now] \in Listing
                         /\ [e EXCEPT !.at = now].serial = e.serial
                         /\ [e EXCEPT !.at = now].key = e.key
                         /\ [e EXCEPT !.at = now].expires = e.expires
                         /\ [e EXCEPT !.at = now].at = now
  BY <1>1 DEF Listing
<1>5. listed[r] \subseteq Listing
  OBVIOUS
<1>6. mine \in SUBSET Listing
  BY <1>2, <1>4, <1>5
<1>7. listed' \in [Roots -> SUBSET Listing] /\ listed'[r] = mine
      /\ \A q \in Roots : q # r => listed'[q] = listed[q]
  BY <1>3, <1>6
<1>8. ASSUME NEW e \in mine
      PROVE  \/ e \in listed[r] /\ e.serial # serial
             \/ /\ e.serial = serial /\ e.at = now
                /\ \E d \in listed[r] : d.serial = serial /\ d.key = e.key
                                        /\ d.expires = e.expires
                                        /\ e = [d EXCEPT !.at = now]
  <2>1. PICK d \in listed[r] : e = IF d.serial = serial THEN [d EXCEPT !.at = now] ELSE d
    BY <1>2
  <2>2. d \in Listing
    BY <1>5
  <2> QED BY <1>4, <2>1, <2>2
<1>9. \A e \in listed[r] : /\ e.serial # serial => e \in mine
                           /\ e.serial = serial => [e EXCEPT !.at = now] \in mine
  BY <1>2
<1> QED BY <1>1, <1>7, <1>8, <1>9

(* The publications and the list are left alone; what is newly marked as signed
   out was on the list, and is of a root that publishes nothing.            *)
LEMMA NothingPublished ==
    ASSUME PublishInv, TypeInv', vouch'.overlap = vouch.overlap,
           pubs' = pubs, revoked' = revoked, published' = published,
           \A r \in Roots : cached'[r].serials \subseteq cached[r].serials \cup revoked.serials,
           \A r \in Roots : \A e \in listed'[r] : e.at # 0 =>
              \/ e \in listed[r]
              \/ e.serial \in revoked.serials /\ \A i \in Publishers : pubs[i].root # r
    PROVE  PubInv'
<1> SUFFICES ASSUME ~vouch.overlap PROVE PubInv'
  BY DEF PubInv
<1>1. \A r \in Roots : cached'[r].serials \subseteq revoked'.serials
  BY DEF PublishInv, PubInv
<1>2. \A r \in Roots : \A e \in listed'[r] :
         e.at # 0 => e.at > published'[r] \/ e.serial \in revoked'.serials
  BY DEF PublishInv, PubInv
<1>3. ASSUME NEW i \in Publishers, pubs[i].pc # "idle"
      PROVE  SignedOutAt(pubs[i].root)' \subseteq pubs[i].serials
  <2>1. pubs[i].root \in Roots
    BY <1>3 DEF PublishInv, TypeInv, RootsNamed, Pub, Anywhere
  <2>2. \A e \in listed'[pubs[i].root] : e.at # 0 => e \in listed[pubs[i].root]
    BY <2>1
  <2>3. \A e \in listed[pubs[i].root] : e.at # 0 => e.serial \in pubs[i].serials
    BY <1>3 DEF PublishInv, PubInv, SignedOutAt
  <2> QED BY <2>2, <2>3 DEF SignedOutAt
<1>4. \A i \in Publishers :
       /\ pubs'[i].pc = "storing" => revoked'.serials \subseteq pubs'[i].serials
       /\ pubs'[i].pc = "stored" => pubs'[i].serials \subseteq revoked'.serials
  BY DEF PublishInv, PubInv
<1> QED BY <1>1, <1>2, <1>3, <1>4 DEF PubInv
-----------------------------------------------------------------------------
(* Who publishes and who renews is as it was.                               *)
LEMMA SameDoers ==
    ASSUME RootsNamed, OneAtATime, vouch'.overlap = vouch.overlap, vouch'.hosts = vouch.hosts,
           pubs' = pubs, renewing' = renewing,
           \A k \in Paired : pairing'[k].phase # "none" =>
              pairing'[k].root \in vouch.hosts
    PROVE  RootsNamed' /\ OneAtATime'
BY DEF RootsNamed, OneAtATime

(* A request changes nothing that is published.                             *)
LEMMA RequestsKeeps ==
    ASSUME PublishInv, NEW k \in Paired, NEW r \in Roots, Requests(k, r)
    PROVE  PublishInv'
<1>1. PICK new : new = [NoPairing EXCEPT !.root = r, !.phase = "asked"]
  OBVIOUS
<1>2. new \in Pairing /\ new.root = r
  BY <1>1 DEF NoPairing, Pairing, Anywhere, Stages
<1>3. pairing' = [pairing EXCEPT ![k] = new] /\ r \in vouch.hosts
      /\ UNCHANGED <<vouch, day, moment, listed, published, held, renewing, pubs, revoked,
                     cached, signedOut>>
  BY <1>1 DEF Requests
<1>4. TypeInv'
  BY <1>2, <1>3 DEF PublishInv, TypeInv
<1>5. \A x \in Paired : pairing'[x].phase # "none" => pairing'[x].root \in vouch.hosts
  BY <1>2, <1>3 DEF PublishInv, TypeInv, RootsNamed
<1>6. RootsNamed' /\ OneAtATime'
  BY <1>3, <1>5, SameDoers DEF PublishInv
<1>7. PubInv'
  BY <1>3, <1>4, NothingPublished
<1> QED BY <1>4, <1>6, <1>7 DEF PublishInv

(* The serial of a new device is beyond those that are listed, which are not
   without bound.                                                           *)
LEMMA SerialFresh ==
    ASSUME listed \in [Roots -> SUBSET Listing], NEW r \in Roots,
           NEW top \in Nat, \A e \in listed[r] : e.serial <= top
    PROVE  NextSerial(r) \in Nat \ {0} /\ \A e \in listed[r] : e.serial < NextSerial(r)
<1> DEFINE S == {e.serial : e \in listed[r]} \cup {0}
           T == {top - x : x \in S}
<1>1. \A x \in S : x \in Nat /\ x <= top
  BY DEF Listing
<1>2. 0 \in S
  OBVIOUS
<1> HIDE DEF S
<1>3. T \subseteq Nat /\ T # {}
  BY <1>1, <1>2
<1>4. PICK t \in T : \A u \in T : t <= u
  <2> HIDE DEF T
  <2> QED BY <1>3, LeastNat
<1>5. PICK x \in S : t = top - x
  OBVIOUS
<1>6. \A y \in S : x >= y
  <2> TAKE y \in S
  <2>1. top - y \in T
    OBVIOUS
  <2>2. x \in Nat /\ y \in Nat /\ top - x <= top - y
    BY <1>1, <1>4, <1>5, <2>1
  <2> QED BY <2>2
<1>7. Max(S) \in S /\ \A y \in S : Max(S) >= y
  BY <1>6 DEF Max
<1>8. NextSerial(r) = Max(S) + 1
  BY DEF NextSerial, S
<1>9. \A e \in listed[r] : e.serial \in S
  BY DEF S
<1> QED BY <1>1, <1>7, <1>8, <1>9

(* Nor does an approval, which only chooses a serial.                       *)
LEMMA ApprovesKeeps ==
    ASSUME PublishInv, NEW k \in Paired, Approves(k)
    PROVE  PublishInv'
<1>1. pairing[k].root \in Roots /\ pairing[k].root \in vouch.hosts /\ pairing[k] \in Pairing
  BY DEF Approves, PublishInv, TypeInv, RootsNamed, GrantConf
<1>2. PICK serial : serial = NextSerial(pairing[k].root)
  OBVIOUS
<1>3. serial \in Nat
  BY <1>1, <1>2, SerialFresh DEF PublishInv, TypeInv
<1>4. PICK new : new = [pairing[k] EXCEPT !.phase = "answering", !.at = day, !.serial = serial]
  OBVIOUS
<1>5. new \in Pairing /\ new.root = pairing[k].root
  BY <1>1, <1>3, <1>4 DEF Pairing, Stages, PublishInv, TypeInv
<1>6. pairing' = [pairing EXCEPT ![k] = new]
      /\ UNCHANGED <<vouch, day, moment, listed, published, held, renewing, pubs, revoked,
                     cached, signedOut>>
  BY <1>2, <1>4 DEF Approves, PublishInv, TypeInv
<1>7. TypeInv'
  BY <1>5, <1>6 DEF PublishInv, TypeInv
<1>8. \A x \in Paired : pairing'[x].phase # "none" => pairing'[x].root \in vouch.hosts
  BY <1>1, <1>5, <1>6 DEF PublishInv, TypeInv, RootsNamed
<1>9. RootsNamed' /\ OneAtATime'
  BY <1>6, <1>8, SameDoers DEF PublishInv
<1>10. PubInv'
  BY <1>6, <1>7, NothingPublished
<1> QED BY <1>7, <1>9, <1>10 DEF PublishInv

(* A pairing at another stage.                                              *)
LEMMA Staged ==
    ASSUME PublishInv, NEW k \in Paired, NEW phase \in Stages,
           pairing[k].phase # "none", pairing' = [pairing EXCEPT ![k].phase = phase]
    PROVE  /\ pairing' \in [Paired -> Pairing]
           /\ \A x \in Paired : pairing'[x].phase # "none" => pairing'[x].root \in vouch.hosts
<1>1. PICK new : new = [pairing[k] EXCEPT !.phase = phase]
  OBVIOUS
<1>2. new \in Pairing /\ new.root = pairing[k].root
  BY <1>1 DEF PublishInv, TypeInv, Pairing
<1>3. pairing' = [pairing EXCEPT ![k] = new]
  BY <1>1 DEF PublishInv, TypeInv
<1> QED BY <1>2, <1>3 DEF PublishInv, TypeInv, RootsNamed

(* A grant is listed as not signed out, so nothing waits for a publication. *)
LEMMA GrantedKeeps ==
    ASSUME PublishInv, NEW k \in Paired, Granted(k)
    PROVE  PublishInv'
<1>1. /\ pairing[k].root \in Roots /\ pairing[k].serial \in Nat \ {0}
      /\ pairing[k].at + Lasts \in Nat
  BY DEF Granted, PublishInv, TypeInv, RootsNamed, GrantConf, Pairing, Lasts
<1>2. /\ RecordPaired(pairing[k].root, pairing[k].serial, k, pairing[k].at + Lasts)
      /\ UNCHANGED <<vouch, day, moment, published, held, renewing, pubs, revoked, cached,
                     signedOut>>
      /\ pairing' = [pairing EXCEPT ![k].phase =
                        IF pairing[k].phase = "left" THEN "failed" ELSE "sent"]
      /\ pairing[k].phase # "none"
  BY DEF Granted
<1>3. /\ listed' \in [Roots -> SUBSET Listing]
      /\ \A r \in Roots : \A e \in listed'[r] :
            e \in listed[r] \/ (e.at = 0 /\ r = pairing[k].root /\ e.serial = pairing[k].serial)
  <2>1. listed \in [Roots -> SUBSET Listing]
    BY DEF PublishInv, TypeInv
  <2> QED BY <1>1, <1>2, <2>1, Recorded
<1>4. /\ pairing' \in [Paired -> Pairing]
      /\ \A x \in Paired : pairing'[x].phase # "none" => pairing'[x].root \in vouch.hosts
  <2>1. PICK phase : phase = IF pairing[k].phase = "left" THEN "failed" ELSE "sent"
    OBVIOUS
  <2>2. phase \in Stages /\ pairing' = [pairing EXCEPT ![k].phase = phase]
    BY <1>2, <2>1 DEF Stages
  <2> QED BY <1>2, <2>2, Staged
<1>5. TypeInv'
  <2>1. ASSUME NEW r \in Roots
        PROVE  \E top \in Nat : \A e \in listed'[r] : e.serial <= top
    <3>1. PICK top \in Nat : \A e \in listed[r] : e.serial <= top
      BY DEF PublishInv, TypeInv
    <3>2. PICK more \in Nat : more = top + pairing[k].serial
      BY <1>1
    <3>3. ASSUME NEW e \in listed'[r] PROVE e.serial <= more
      <4>1. e.serial \in Nat /\ (e.serial <= top \/ e.serial = pairing[k].serial)
        BY <1>3, <3>1 DEF Listing
      <4> QED BY <1>1, <3>2, <4>1
    <3> QED BY <3>3
  <2> QED BY <1>2, <1>3, <1>4, <2>1 DEF PublishInv, TypeInv
<1>6. RootsNamed' /\ OneAtATime'
  BY <1>2, <1>4, SameDoers DEF PublishInv
<1>7. PubInv'
  BY <1>2, <1>3, <1>5, NothingPublished
<1> QED BY <1>5, <1>6, <1>7 DEF PublishInv

(* A device that accepts its grant changes nothing that is published.       *)
LEMMA AcceptsKeeps ==
    ASSUME PublishInv, NEW k \in Paired, Accepts(k)
    PROVE  PublishInv'
<1>1. /\ UNCHANGED <<vouch, day, moment, listed, published, renewing, pubs, revoked, cached,
                     signedOut>>
      /\ pairing[k].phase # "none"
      /\ \/ /\ held' = [held EXCEPT ![k] = [serial |-> pairing[k].serial,
                                            expires |-> pairing[k].at + Lasts]]
            /\ pairing' = [pairing EXCEPT ![k].phase = "paired"]
         \/ pairing' = [pairing EXCEPT ![k].phase = "failed"] /\ UNCHANGED held
  BY DEF Accepts
<1>2. held' \in [Paired -> Grant]
  BY <1>1 DEF PublishInv, TypeInv, Pairing, Grant, Lasts
<1>3. /\ pairing' \in [Paired -> Pairing]
      /\ \A x \in Paired : pairing'[x].phase # "none" => pairing'[x].root \in vouch.hosts
  BY <1>1, Staged DEF Stages
<1>4. TypeInv'
  BY <1>1, <1>2, <1>3 DEF PublishInv, TypeInv
<1>5. RootsNamed' /\ OneAtATime'
  BY <1>1, <1>3, SameDoers DEF PublishInv
<1>6. PubInv'
  BY <1>1, <1>4, NothingPublished
<1> QED BY <1>4, <1>5, <1>6 DEF PublishInv

(* Nor does one that leaves.                                                *)
LEMMA WithdrawsKeeps ==
    ASSUME PublishInv, NEW k \in Paired, Withdraws(k)
    PROVE  PublishInv'
<1>1. /\ UNCHANGED <<day, moment, listed, published, held, renewing, pubs, revoked, cached,
                     signedOut>>
      /\ pairing[k].phase # "none" /\ Uses("leaves")
      /\ pairing' = [pairing EXCEPT ![k].phase =
                        IF pairing[k].phase = "answering" THEN "left" ELSE "failed"]
  BY DEF Withdraws
<1>2. /\ vouch' \in GrantConf /\ vouch'.overlap = vouch.overlap
      /\ vouch'.roots = vouch.roots /\ vouch'.hosts = vouch.hosts
  BY <1>1, BoundUsed DEF PublishInv, TypeInv
<1>3. /\ pairing' \in [Paired -> Pairing]
      /\ \A x \in Paired : pairing'[x].phase # "none" => pairing'[x].root \in vouch.hosts
  <2>1. PICK phase : phase = IF pairing[k].phase = "answering" THEN "left" ELSE "failed"
    OBVIOUS
  <2>2. phase \in Stages /\ pairing' = [pairing EXCEPT ![k].phase = phase]
    BY <1>1, <2>1 DEF Stages
  <2> QED BY <1>1, <2>2, Staged
<1>4. TypeInv'
  BY <1>1, <1>2, <1>3 DEF PublishInv, TypeInv
<1>5. RootsNamed' /\ OneAtATime'
  BY <1>1, <1>2, <1>3, SameDoers DEF PublishInv
<1>6. PubInv'
  BY <1>1, <1>2, <1>4, NothingPublished
<1> QED BY <1>4, <1>5, <1>6 DEF PublishInv
-----------------------------------------------------------------------------
(* The list of signed-out devices. *)

(* A publication begins, with what is signed out here.                      *)
LEMMA Beginning ==
    ASSUME PublishInv, NEW r \in vouch.roots, NEW i \in Publishers, NEW serials, AtRest(r),
           Publishes(r, i, serials), TypeInv', vouch'.overlap = vouch.overlap,
           vouch'.hosts = vouch.hosts, UNCHANGED <<published, pairing, renewing, revoked>>,
           \A q \in Roots : q # r => listed'[q] = listed[q],
           \A e \in listed'[r] : e.at # 0 =>
              e.serial \in serials /\ (e \in listed[r] \/ e.at > published[r])
    PROVE  PublishInv'
<1>1. r \in Roots /\ r # NoRoot
  BY GrantAssumption DEF PublishInv, TypeInv, GrantConf
<1>2. /\ pubs'[i] = [root |-> r, pc |-> "looking", serials |-> serials, at |-> 0]
      /\ \A j \in Publishers : j # i => pubs'[j] = pubs[j]
      /\ cached'[r].serials = {} /\ \A q \in Roots : q # r => cached'[q] = cached[q]
  BY <1>1 DEF Publishes, PublishInv, TypeInv, Unread
<1>3. RootsNamed'
  BY <1>1, <1>2 DEF PublishInv, RootsNamed
<1>4. OneAtATime'
  <2> SUFFICES ASSUME ~vouch.overlap PROVE OneAtATime'
    BY DEF OneAtATime
  <2>1. /\ \A k \in Paired : renewing[k].root # r
        /\ \A j \in Publishers : pubs[j].root # r
    BY DEF AtRest
  <2> QED BY <1>1, <1>2, <2>1 DEF PublishInv, OneAtATime
<1>5. PubInv'
  <2> SUFFICES ASSUME ~vouch.overlap PROVE PubInv'
    BY DEF PubInv
  <2>1. \A j \in Publishers : pubs[j].root # r
    BY DEF AtRest
  <2>2. \A q \in Roots : cached'[q].serials \subseteq revoked'.serials
    BY <1>2 DEF PublishInv, PubInv
  <2>3. \A q \in Roots : \A e \in listed'[q] :
           e.at # 0 => e.at > published'[q] \/ e.serial \in revoked'.serials
    BY <1>1 DEF PublishInv, PubInv
  <2>4. SignedOutAt(r)' \subseteq serials
    BY DEF SignedOutAt
  <2>5. ASSUME NEW j \in Publishers, pubs'[j].pc # "idle"
        PROVE  SignedOutAt(pubs[j].root)' \subseteq pubs'[j].serials
    <3>1. CASE j = i
      BY <1>2, <2>4, <3>1 DEF SignedOutAt
    <3>2. CASE j # i
      <4>1. pubs'[j] = pubs[j] /\ pubs[j].root \in Roots /\ pubs[j].root # r
        BY <1>2, <2>1, <2>5, <3>2 DEF PublishInv, TypeInv, RootsNamed, Pub, Anywhere
      <4>2. SignedOutAt(pubs[j].root) \subseteq pubs[j].serials
        BY <2>5, <4>1 DEF PublishInv, PubInv
      <4> QED BY <4>1, <4>2 DEF SignedOutAt
    <3> QED BY <3>1, <3>2
  <2>6. \A j \in Publishers :
         /\ pubs'[j].pc = "storing" => revoked'.serials \subseteq pubs'[j].serials
         /\ pubs'[j].pc = "stored" => pubs'[j].serials \subseteq revoked'.serials
    BY <1>2 DEF PublishInv, PubInv
  <2> QED BY <2>2, <2>3, <2>5, <2>6 DEF PubInv
<1> QED BY <1>3, <1>4, <1>5 DEF PublishInv

(* What a publication that begins is made of.                               *)
LEMMA BeginningTyped ==
    ASSUME TypeInv, NEW r \in vouch.roots, NEW i \in Publishers, NEW serials \in SUBSET Nat,
           Publishes(r, i, serials)
    PROVE  pubs' \in [Publishers -> Pub] /\ cached' \in [Roots -> Lists]
BY DEF Publishes, TypeInv, Pub, Lists, Unread, Anywhere, GrantConf

(* A sign-out waits to be published, and its publication begins with it.    *)
LEMMA SignsOutKeeps ==
    ASSUME PublishInv, NEW r \in Roots, NEW e \in listed[r], SignsOut(r, e)
    PROVE  PublishInv'
<1>1. /\ r \in vouch.roots /\ AtRest(r) /\ Uses("outs") /\ moment' = moment + 1
      /\ MarkRevoked(r, e.serial)
      /\ signedOut' = signedOut \cup
                       {[key |-> e.key, serial |-> e.serial, root |-> r, by |-> e.expires]}
      /\ UNCHANGED <<day, published, pairing, held, renewing, revoked>>
  BY DEF SignsOut
<1>2. PICK i \in Publishers : Publishes(r, i, SignedOutAt(r) \cup {e.serial})
  BY DEF SignsOut
<1>3. /\ vouch' \in GrantConf /\ vouch'.overlap = vouch.overlap
      /\ vouch'.roots = vouch.roots /\ vouch'.hosts = vouch.hosts
  BY <1>1, BoundUsed DEF PublishInv, TypeInv
<1>4. moment' \in Nat /\ moment' > moment
  BY <1>1 DEF PublishInv, TypeInv
<1>5. /\ listed' \in [Roots -> SUBSET Listing]
      /\ \A q \in Roots : q # r => listed'[q] = listed[q]
      /\ \A x \in listed'[r] :
            \/ x \in listed[r] /\ x.serial # e.serial
            \/ /\ x.serial = e.serial /\ x.at = moment'
               /\ \E d \in listed[r] : d.serial = e.serial
  <2>1. listed \in [Roots -> SUBSET Listing]
    BY DEF PublishInv, TypeInv
  <2> QED BY <1>1, <1>4, <2>1, Marked
<1>6. e \in Listing
  BY DEF PublishInv, TypeInv
<1>7. SignedOutAt(r) \cup {e.serial} \in SUBSET Nat
  BY <1>6 DEF SignedOutAt, PublishInv, TypeInv, Listing
<1>8. pubs' \in [Publishers -> Pub] /\ cached' \in [Roots -> Lists]
  BY <1>1, <1>2, <1>7, BeginningTyped DEF PublishInv
<1>9. TypeInv'
  <2>1. ASSUME NEW q \in Roots
        PROVE  \E top \in Nat : \A x \in listed'[q] : x.serial <= top
    <3>1. PICK top \in Nat : \A x \in listed[q] : x.serial <= top
      BY DEF PublishInv, TypeInv
    <3>2. \A x \in listed'[q] : x.serial <= top
      BY <1>5, <3>1
    <3> QED BY <3>2
  <2>2. signedOut' \subseteq SignOut
    BY <1>1, <1>6 DEF PublishInv, TypeInv, SignOut, Listing
  <2>3. \A q \in Roots : published'[q] <= moment'
    BY <1>1, <1>4 DEF PublishInv, TypeInv
  <2> QED BY <1>1, <1>3, <1>4, <1>5, <1>8, <2>1, <2>2, <2>3 DEF PublishInv, TypeInv
<1>10. \A x \in listed'[r] : x.at # 0 =>
          x.serial \in SignedOutAt(r) \cup {e.serial} /\ (x \in listed[r] \/ x.at > published[r])
  <2>1. moment' > published[r]
    BY <1>4 DEF PublishInv, TypeInv
  <2> QED BY <1>5, <2>1 DEF SignedOutAt
<1> QED BY <1>1, <1>2, <1>3, <1>5, <1>9, <1>10, Beginning

(* A publication begins with everything that is signed out here.            *)
LEMMA CatchesUpKeeps ==
    ASSUME PublishInv, NEW r \in Roots, CatchesUp(r)
    PROVE  PublishInv'
<1>1. /\ r \in vouch.roots /\ AtRest(r) /\ Uses("opens")
      /\ UNCHANGED <<day, moment, listed, published, pairing, held, renewing, revoked, signedOut>>
  BY DEF CatchesUp
<1>2. PICK i \in Publishers : Publishes(r, i, SignedOutAt(r))
  BY DEF CatchesUp
<1>3. /\ vouch' \in GrantConf /\ vouch'.overlap = vouch.overlap
      /\ vouch'.roots = vouch.roots /\ vouch'.hosts = vouch.hosts
  BY <1>1, BoundUsed DEF PublishInv, TypeInv
<1>4. SignedOutAt(r) \in SUBSET Nat
  BY DEF SignedOutAt, PublishInv, TypeInv, Listing
<1>5. pubs' \in [Publishers -> Pub] /\ cached' \in [Roots -> Lists]
  BY <1>1, <1>2, <1>4, BeginningTyped DEF PublishInv
<1>6. TypeInv'
  BY <1>1, <1>3, <1>5 DEF PublishInv, TypeInv
<1>7. \A x \in listed'[r] : x.at # 0 => x.serial \in SignedOutAt(r) /\ x \in listed[r]
  BY <1>1 DEF SignedOutAt
<1> QED BY <1>1, <1>2, <1>3, <1>6, <1>7, Beginning

(* A publication is at another point, with the root it is of, or is over.    *)
LEMMA Going ==
    ASSUME PublishInv, NEW i \in Publishers, NEW p \in Pub, pubs' = [pubs EXCEPT ![i] = p],
           pubs[i].pc # "idle", p = NoPub \/ (p.pc # "idle" /\ p.root = pubs[i].root),
           vouch'.overlap = vouch.overlap, vouch'.hosts = vouch.hosts,
           UNCHANGED <<pairing, renewing>>,
           (~vouch.overlap /\ p.pc = "storing") =>
              \A j \in Publishers : j # i => pubs[j].pc # "storing"
    PROVE  /\ pubs' \in [Publishers -> Pub] /\ RootsNamed' /\ OneAtATime'
           /\ pubs'[i] = p /\ \A j \in Publishers : j # i => pubs'[j] = pubs[j]
           /\ pubs[i].root \in Roots
           /\ ~vouch.overlap => \A j \in Publishers : j # i => pubs[j].root # pubs[i].root
<1>1. /\ pubs' \in [Publishers -> Pub] /\ pubs'[i] = p
      /\ \A j \in Publishers : j # i => pubs'[j] = pubs[j]
  BY DEF PublishInv, TypeInv
<1>2. pubs[i].root \in Roots /\ pubs[i].root # NoRoot
  BY DEF PublishInv, TypeInv, RootsNamed, Pub, Anywhere
<1>3. p.pc = "idle" <=> p.root = NoRoot
  BY <1>2 DEF NoPub
<1>4. RootsNamed'
  BY <1>1, <1>3 DEF PublishInv, RootsNamed
<1>5. p.root = NoRoot \/ p.root = pubs[i].root
  BY DEF NoPub
<1>6. OneAtATime'
  <2> SUFFICES ASSUME ~vouch.overlap PROVE OneAtATime'
    BY DEF OneAtATime
  <2>1. \A j \in Publishers : pubs'[j].root = NoRoot \/ pubs'[j].root = pubs[j].root
    BY <1>1, <1>5
  <2>2. \A j, l \in Publishers : pubs'[j].root = pubs'[l].root /\ pubs'[j].root # NoRoot => j = l
    BY <2>1 DEF PublishInv, OneAtATime
  <2>3. \A j \in Publishers, k \in Paired :
           pubs'[j].root = renewing[k].root => pubs'[j].root = NoRoot
    BY <2>1 DEF PublishInv, OneAtATime
  <2>4. \A j, l \in Publishers : pubs'[j].pc = "storing" /\ pubs'[l].pc = "storing" => j = l
    BY <1>1 DEF PublishInv, OneAtATime
  <2> QED BY <2>2, <2>3, <2>4 DEF OneAtATime
<1>7. ~vouch.overlap => \A j \in Publishers : j # i => pubs[j].root # pubs[i].root
  BY <1>2 DEF PublishInv, OneAtATime
<1> QED BY <1>1, <1>2, <1>4, <1>6, <1>7

(* What is read of the list joins what is being published.                  *)
LEMMA LooksKeeps ==
    ASSUME PublishInv, NEW i \in Publishers, Looks(i)
    PROVE  PublishInv'
<1> DEFINE r == pubs[i].root
           list == Reads(r)
<1>1. /\ pubs[i].pc = "looking" /\ moment' = moment + 1
      /\ cached' = [cached EXCEPT ![r] = list]
      /\ UNCHANGED <<vouch, day, listed, published, pairing, held, renewing, revoked, signedOut>>
  BY DEF Looks
<1>2. pubs[i] \in Pub /\ r \in Roots
  BY <1>1 DEF PublishInv, TypeInv, RootsNamed, Pub, Anywhere
<1>3. list \in Lists /\ list.serials \subseteq cached[r].serials \cup revoked.serials
  BY <1>2 DEF Reads, PublishInv, TypeInv
<1>4. PICK p : p = [pubs[i] EXCEPT !.pc = "putting", !.at = moment',
                                   !.serials = @ \cup list.serials]
  OBVIOUS
<1>5. moment' \in Nat
  BY <1>1 DEF PublishInv, TypeInv
<1>6. /\ p \in Pub /\ p.root = r /\ p.pc = "putting"
      /\ p.serials = pubs[i].serials \cup list.serials
  BY <1>2, <1>3, <1>4, <1>5 DEF Pub, Lists
<1>7. pubs' = [pubs EXCEPT ![i] = p]
  BY <1>4 DEF Looks, PublishInv, TypeInv
<1> HIDE DEF list
<1>8. /\ pubs' \in [Publishers -> Pub] /\ RootsNamed' /\ OneAtATime'
      /\ pubs'[i] = p /\ \A j \in Publishers : j # i => pubs'[j] = pubs[j]
  BY <1>1, <1>6, <1>7, Going
<1>9. cached' \in [Roots -> Lists]
      /\ \A q \in Roots : cached'[q].serials \subseteq cached[q].serials \cup revoked.serials
  BY <1>1, <1>2, <1>3 DEF PublishInv, TypeInv
<1>10. TypeInv'
  <2>1. \A q \in Roots : published'[q] <= moment'
    BY <1>1, <1>5 DEF PublishInv, TypeInv
  <2> QED BY <1>1, <1>5, <1>8, <1>9, <2>1 DEF PublishInv, TypeInv
<1>11. PubInv'
  <2> SUFFICES ASSUME ~vouch.overlap PROVE PubInv'
    BY <1>1 DEF PubInv
  <2>1. \A q \in Roots : cached'[q].serials \subseteq revoked'.serials
    BY <1>1, <1>9 DEF PublishInv, PubInv
  <2>2. \A q : SignedOutAt(q)' = SignedOutAt(q)
    BY <1>1 DEF SignedOutAt
  <2>3. \A j \in Publishers :
           /\ pubs'[j].root = pubs[j].root /\ pubs[j].serials \subseteq pubs'[j].serials
           /\ pubs'[j].pc # "idle" => pubs[j].pc # "idle"
           /\ j # i => pubs'[j] = pubs[j]
    BY <1>1, <1>6, <1>8
  <2>4. \A j \in Publishers : pubs'[j].pc # "idle" =>
           SignedOutAt(pubs[j].root)' \subseteq pubs'[j].serials
    <3> SUFFICES ASSUME NEW j \in Publishers, pubs'[j].pc # "idle"
                 PROVE  SignedOutAt(pubs[j].root)' \subseteq pubs'[j].serials
      OBVIOUS
    <3>1. SignedOutAt(pubs[j].root) \subseteq pubs[j].serials
      BY <2>3 DEF PublishInv, PubInv
    <3> QED BY <1>1, <2>3, <3>1 DEF SignedOutAt
  <2>5. \A j \in Publishers :
         /\ pubs'[j].pc = "storing" => revoked'.serials \subseteq pubs'[j].serials
         /\ pubs'[j].pc = "stored" => pubs'[j].serials \subseteq revoked'.serials
    BY <1>1, <1>6, <1>8, <2>3 DEF PublishInv, PubInv
  <2>6. \A q \in Roots : \A e \in listed'[q] :
           e.at # 0 => e.at > published'[q] \/ e.serial \in revoked'.serials
    BY <1>1 DEF PublishInv, PubInv
  <2> QED BY <2>1, <2>4, <2>5, <2>6 DEF PubInv
<1> QED BY <1>8, <1>10, <1>11 DEF PublishInv

(* A list that is stored has what is stored, because nobody stores meanwhile. *)
LEMMA ChecksKeeps ==
    ASSUME PublishInv, NEW i \in Publishers, Checks(i)
    PROVE  PublishInv'
<1>1. /\ pubs[i].pc = "putting"
      /\ vouch.overlap \/ \A j \in Publishers : pubs[j].pc # "storing"
      /\ UNCHANGED <<vouch, day, moment, listed, published, pairing, held, renewing, revoked,
                     cached, signedOut>>
  BY DEF Checks
<1>2. PICK p : p = IF StillRevokes([serials |-> pubs[i].serials, at |-> pubs[i].at], revoked)
                   THEN [pubs[i] EXCEPT !.pc = "storing"] ELSE NoPub
  OBVIOUS
<1>3. pubs' = [pubs EXCEPT ![i] = p]
  BY <1>2 DEF Checks
<1>4. pubs[i] \in Pub
  BY DEF PublishInv, TypeInv
<1>5. /\ p \in Pub
      /\ \/ p = NoPub
         \/ /\ p.root = pubs[i].root /\ p.pc = "storing" /\ p.serials = pubs[i].serials
            /\ revoked.serials \subseteq p.serials
  BY <1>2, <1>4 DEF Pub, NoPub, Anywhere, StillRevokes
<1>6. /\ pubs' \in [Publishers -> Pub] /\ RootsNamed' /\ OneAtATime'
      /\ pubs'[i] = p /\ \A j \in Publishers : j # i => pubs'[j] = pubs[j]
  BY <1>1, <1>3, <1>5, Going
<1>7. TypeInv'
  BY <1>1, <1>6 DEF PublishInv, TypeInv
<1>8. PubInv'
  <2> SUFFICES ASSUME ~vouch.overlap PROVE PubInv'
    BY <1>1 DEF PubInv
  <2>1. ASSUME NEW j \in Publishers, pubs'[j].pc # "idle"
        PROVE  SignedOutAt(pubs[j].root)' \subseteq pubs'[j].serials
    <3>1. /\ pubs'[j].root = pubs[j].root /\ pubs'[j].serials = pubs[j].serials
          /\ pubs[j].pc # "idle"
      BY <1>1, <1>5, <1>6, <2>1 DEF NoPub
    <3>2. SignedOutAt(pubs[j].root) \subseteq pubs[j].serials
      BY <3>1 DEF PublishInv, PubInv
    <3> QED BY <1>1, <3>1, <3>2 DEF SignedOutAt
  <2>2. \A j \in Publishers :
         /\ pubs'[j].pc = "storing" => revoked'.serials \subseteq pubs'[j].serials
         /\ pubs'[j].pc = "stored" => pubs'[j].serials \subseteq revoked'.serials
    BY <1>1, <1>5, <1>6 DEF NoPub, PublishInv, PubInv
  <2> QED BY <1>1, <2>1, <2>2 DEF PublishInv, PubInv
<1> QED BY <1>6, <1>7, <1>8 DEF PublishInv

(* The list that is stored has what the list had.                           *)
LEMMA StoresKeeps ==
    ASSUME PublishInv, NEW i \in Publishers, Stores(i)
    PROVE  PublishInv'
<1>1. /\ pubs[i].pc = "storing" /\ revoked' = [serials |-> pubs[i].serials, at |-> pubs[i].at]
      /\ UNCHANGED <<vouch, day, moment, listed, published, pairing, held, renewing, cached,
                     signedOut>>
  BY DEF Stores
<1>2. PICK p : p = [pubs[i] EXCEPT !.pc = "stored"]
  OBVIOUS
<1>3. pubs[i] \in Pub
  BY DEF PublishInv, TypeInv
<1>4. pubs' = [pubs EXCEPT ![i] = p]
  BY <1>2 DEF Stores, PublishInv, TypeInv
<1>5. p \in Pub /\ p.root = pubs[i].root /\ p.pc = "stored" /\ p.serials = pubs[i].serials
  BY <1>2, <1>3 DEF Pub
<1>6. /\ pubs' \in [Publishers -> Pub] /\ RootsNamed' /\ OneAtATime'
      /\ pubs'[i] = p /\ \A j \in Publishers : j # i => pubs'[j] = pubs[j]
  BY <1>1, <1>4, <1>5, Going
<1>7. revoked' \in Lists /\ revoked'.serials = pubs[i].serials
  BY <1>1, <1>3 DEF Pub, Lists
<1>8. TypeInv'
  BY <1>1, <1>6, <1>7 DEF PublishInv, TypeInv
<1>9. PubInv'
  <2> SUFFICES ASSUME ~vouch.overlap PROVE PubInv'
    BY <1>1 DEF PubInv
  <2>1. revoked.serials \subseteq revoked'.serials
    BY <1>1, <1>7 DEF PublishInv, PubInv
  <2>2. ASSUME NEW j \in Publishers, pubs'[j].pc # "idle"
        PROVE  SignedOutAt(pubs[j].root)' \subseteq pubs'[j].serials
    <3>1. /\ pubs'[j].root = pubs[j].root /\ pubs'[j].serials = pubs[j].serials
          /\ pubs[j].pc # "idle"
      BY <1>1, <1>5, <1>6, <2>2
    <3>2. SignedOutAt(pubs[j].root) \subseteq pubs[j].serials
      BY <3>1 DEF PublishInv, PubInv
    <3> QED BY <1>1, <3>1, <3>2 DEF SignedOutAt
  <2>3. \A j \in Publishers : j # i => pubs[j].pc # "storing"
    BY <1>1 DEF PublishInv, OneAtATime
  <2>4. \A j \in Publishers :
         /\ pubs'[j].pc = "storing" => revoked'.serials \subseteq pubs'[j].serials
         /\ pubs'[j].pc = "stored" => pubs'[j].serials \subseteq revoked'.serials
    BY <1>5, <1>6, <1>7, <2>1, <2>3 DEF PublishInv, PubInv
  <2>5. \A q \in Roots : cached'[q].serials \subseteq revoked'.serials
    BY <1>1, <2>1 DEF PublishInv, PubInv
  <2>6. \A q \in Roots : \A e \in listed'[q] :
           e.at # 0 => e.at > published'[q] \/ e.serial \in revoked'.serials
    BY <1>1, <2>1 DEF PublishInv, PubInv
  <2> QED BY <2>2, <2>4, <2>5, <2>6 DEF PubInv
<1> QED BY <1>6, <1>8, <1>9 DEF PublishInv

(* NoPub is a publication, and nothing.                                     *)
LEMMA NoPubTyped == NoPub \in Pub /\ NoPub.pc = "idle" /\ NoPub.root = NoRoot
BY DEF NoPub, Pub, Anywhere

(* What was published has everything that is signed out here.               *)
LEMMA PublicationEndsKeeps ==
    ASSUME PublishInv, NEW i \in Publishers, PublicationEnds(i)
    PROVE  PublishInv'
<1> DEFINE r == pubs[i].root
<1>1. /\ pubs[i].pc = "stored" /\ moment' = moment + 1
      /\ published' = [published EXCEPT ![r] = moment']
      /\ cached' = [cached EXCEPT ![r] = Unread]
      /\ pubs' = [pubs EXCEPT ![i] = NoPub]
      /\ UNCHANGED <<vouch, day, listed, pairing, held, renewing, revoked, signedOut>>
  BY DEF PublicationEnds
<1>2. /\ pubs' \in [Publishers -> Pub] /\ RootsNamed' /\ OneAtATime'
      /\ pubs'[i] = NoPub /\ \A j \in Publishers : j # i => pubs'[j] = pubs[j]
      /\ r \in Roots
  BY <1>1, NoPubTyped, Going
<1>3. moment' \in Nat /\ moment' > moment
  BY <1>1 DEF PublishInv, TypeInv
<1>4. /\ published' \in [Roots -> Nat] /\ published'[r] = moment'
      /\ \A q \in Roots : q # r => published'[q] = published[q]
  BY <1>1, <1>2, <1>3 DEF PublishInv, TypeInv
<1>5. /\ cached' \in [Roots -> Lists] /\ cached'[r].serials = {}
      /\ \A q \in Roots : q # r => cached'[q] = cached[q]
  BY <1>1, <1>2 DEF PublishInv, TypeInv, Unread, Lists
<1>6. TypeInv'
  <2>1. \A q \in Roots : published'[q] <= moment'
    BY <1>3, <1>4 DEF PublishInv, TypeInv
  <2> QED BY <1>1, <1>2, <1>3, <1>4, <1>5, <2>1 DEF PublishInv, TypeInv
<1>7. PubInv'
  <2> SUFFICES ASSUME ~vouch.overlap PROVE PubInv'
    BY <1>1 DEF PubInv
  <2>1. \A q \in Roots : cached'[q].serials \subseteq revoked'.serials
    BY <1>1, <1>5 DEF PublishInv, PubInv
  <2>2. SignedOutAt(r) \subseteq revoked.serials
    BY <1>1 DEF PublishInv, PubInv
  <2>3. \A q \in Roots : \A e \in listed'[q] :
           e.at # 0 => e.at > published'[q] \/ e.serial \in revoked'.serials
    BY <1>1, <1>2, <1>4, <2>2 DEF PublishInv, PubInv, SignedOutAt
  <2>4. ASSUME NEW j \in Publishers, pubs'[j].pc # "idle"
        PROVE  SignedOutAt(pubs[j].root)' \subseteq pubs'[j].serials
    <3>1. j # i /\ pubs'[j] = pubs[j]
      BY <1>2, <2>4, NoPubTyped
    <3>2. SignedOutAt(pubs[j].root) \subseteq pubs[j].serials
      BY <2>4, <3>1 DEF PublishInv, PubInv
    <3> QED BY <1>1, <3>1, <3>2 DEF SignedOutAt
  <2>5. \A j \in Publishers :
         /\ pubs'[j].pc = "storing" => revoked'.serials \subseteq pubs'[j].serials
         /\ pubs'[j].pc = "stored" => pubs'[j].serials \subseteq revoked'.serials
    BY <1>1, <1>2, NoPubTyped DEF PublishInv, PubInv
  <2> QED BY <2>1, <2>3, <2>4, <2>5 DEF PubInv
<1> QED BY <1>2, <1>6, <1>7 DEF PublishInv

(* A failed publication leaves what waits waiting.                          *)
LEMMA PublicationFailsKeeps ==
    ASSUME PublishInv, NEW i \in Publishers, PublicationFails(i)
    PROVE  PublishInv'
<1>1. /\ pubs[i].pc # "idle" /\ Uses("fails") /\ pubs' = [pubs EXCEPT ![i] = NoPub]
      /\ UNCHANGED <<day, moment, listed, published, pairing, held, renewing, revoked, cached,
                     signedOut>>
  BY DEF PublicationFails
<1>2. /\ vouch' \in GrantConf /\ vouch'.overlap = vouch.overlap
      /\ vouch'.roots = vouch.roots /\ vouch'.hosts = vouch.hosts
  BY <1>1, BoundUsed DEF PublishInv, TypeInv
<1>3. /\ pubs' \in [Publishers -> Pub] /\ RootsNamed' /\ OneAtATime'
      /\ pubs'[i] = NoPub /\ \A j \in Publishers : j # i => pubs'[j] = pubs[j]
  BY <1>1, <1>2, NoPubTyped, Going
<1>4. TypeInv'
  BY <1>1, <1>2, <1>3 DEF PublishInv, TypeInv
<1>5. PubInv'
  <2> SUFFICES ASSUME ~vouch.overlap PROVE PubInv'
    BY <1>2 DEF PubInv
  <2>1. ASSUME NEW j \in Publishers, pubs'[j].pc # "idle"
        PROVE  SignedOutAt(pubs[j].root)' \subseteq pubs'[j].serials
    <3>1. j # i /\ pubs'[j] = pubs[j]
      BY <1>3, <2>1, NoPubTyped
    <3>2. SignedOutAt(pubs[j].root) \subseteq pubs[j].serials
      BY <2>1, <3>1 DEF PublishInv, PubInv
    <3> QED BY <1>1, <3>1, <3>2 DEF SignedOutAt
  <2>2. \A j \in Publishers :
         /\ pubs'[j].pc = "storing" => revoked'.serials \subseteq pubs'[j].serials
         /\ pubs'[j].pc = "stored" => pubs'[j].serials \subseteq revoked'.serials
    BY <1>1, <1>3, NoPubTyped DEF PublishInv, PubInv
  <2> QED BY <1>1, <2>1, <2>2 DEF PublishInv, PubInv
<1> QED BY <1>3, <1>4, <1>5 DEF PublishInv

(* What was read of the list is forgotten.                                  *)
LEMMA AgesKeeps ==
    ASSUME PublishInv, NEW r \in Roots, Ages(r)
    PROVE  PublishInv'
<1>1. /\ cached' = [cached EXCEPT ![r] = Unread]
      /\ UNCHANGED <<vouch, day, moment, listed, published, pairing, held, renewing, pubs,
                     revoked, signedOut>>
  BY DEF Ages
<1>2. /\ cached' \in [Roots -> Lists]
      /\ \A q \in Roots : cached'[q].serials \subseteq cached[q].serials
  BY <1>1 DEF PublishInv, TypeInv, Unread, Lists
<1>3. TypeInv'
  BY <1>1, <1>2 DEF PublishInv, TypeInv
<1>4. RootsNamed' /\ OneAtATime'
  BY <1>1, SameDoers DEF PublishInv, RootsNamed
<1>5. PubInv'
  BY <1>1, <1>2, <1>3, NothingPublished
<1> QED BY <1>3, <1>4, <1>5 DEF PublishInv

(* A day passes, and what was read of the list is forgotten.                *)
LEMMA DayPassesKeeps ==
    ASSUME PublishInv, DayPasses
    PROVE  PublishInv'
<1>1. /\ Uses("days") /\ day' = day + 1 /\ cached' = [r \in Roots |-> Unread]
      /\ UNCHANGED <<moment, listed, published, pairing, held, renewing, pubs, revoked,
                     signedOut>>
  BY DEF DayPasses
<1>2. /\ vouch' \in GrantConf /\ vouch'.overlap = vouch.overlap
      /\ vouch'.roots = vouch.roots /\ vouch'.hosts = vouch.hosts
  BY <1>1, BoundUsed DEF PublishInv, TypeInv
<1>3. /\ cached' \in [Roots -> Lists] /\ \A q \in Roots : cached'[q].serials = {}
  BY <1>1 DEF Unread, Lists
<1>4. TypeInv'
  BY <1>1, <1>2, <1>3 DEF PublishInv, TypeInv
<1>5. RootsNamed' /\ OneAtATime'
  BY <1>1, <1>2, SameDoers DEF PublishInv, RootsNamed
<1>6. PubInv'
  BY <1>1, <1>2, <1>3, <1>4, NothingPublished
<1> QED BY <1>4, <1>5, <1>6 DEF PublishInv

-----------------------------------------------------------------------------
(* Renewal. *)

(* A renewal begins at a root that publishes nothing.                       *)
LEMMA ShowsKeeps ==
    ASSUME PublishInv, NEW k \in Paired, NEW r \in Roots, Shows(k, r)
    PROVE  PublishInv'
<1>1. /\ renewing[k].pc = "idle" /\ r \in vouch.roots /\ AtRest(r)
      /\ UNCHANGED <<vouch, day, moment, listed, published, pairing, held, pubs, revoked, cached,
                     signedOut>>
  BY DEF Shows
<1>2. PICK w : w = [root |-> r, pc |-> "looking", at |-> day,
                    known |-> Entry(r, held[k].serial) # {}]
  OBVIOUS
<1>3. w \in Renewal /\ w.root = r /\ w.pc = "looking" /\ r # NoRoot
  BY <1>2, GrantAssumption DEF Renewal, Anywhere, PublishInv, TypeInv
<1>4. renewing' = [renewing EXCEPT ![k] = w]
  BY <1>2 DEF Shows
<1>5. /\ renewing' \in [Paired -> Renewal] /\ renewing'[k] = w
      /\ \A x \in Paired : x # k => renewing'[x] = renewing[x]
  BY <1>3, <1>4 DEF PublishInv, TypeInv
<1>6. TypeInv'
  BY <1>1, <1>5 DEF PublishInv, TypeInv
<1>7. RootsNamed'
  BY <1>1, <1>3, <1>5 DEF PublishInv, RootsNamed
<1>8. OneAtATime'
  BY <1>1, <1>3, <1>5 DEF PublishInv, OneAtATime, AtRest
<1>9. PubInv'
  BY <1>1, <1>6, NothingPublished
<1> QED BY <1>6, <1>7, <1>8, <1>9 DEF PublishInv

(* A renewal goes on, at its root, or ends.                                 *)
LEMMA Renewing ==
    ASSUME PublishInv, NEW k \in Paired, NEW w \in Renewal,
           renewing' = [renewing EXCEPT ![k] = w],
           renewing[k].pc # "idle",
           w = NoRenewal \/ (w.pc # "idle" /\ w.root = renewing[k].root),
           vouch'.overlap = vouch.overlap, vouch'.hosts = vouch.hosts,
           UNCHANGED <<pairing, pubs>>
    PROVE  /\ renewing' \in [Paired -> Renewal] /\ RootsNamed' /\ OneAtATime'
           /\ renewing[k].root \in Roots
           /\ ~vouch.overlap => \A i \in Publishers : pubs[i].root # renewing[k].root
<1>1. /\ renewing' \in [Paired -> Renewal] /\ renewing'[k] = w
      /\ \A x \in Paired : x # k => renewing'[x] = renewing[x]
  BY DEF PublishInv, TypeInv
<1>2. renewing[k].root \in Roots /\ renewing[k].root # NoRoot
  BY DEF PublishInv, TypeInv, RootsNamed, Renewal, Anywhere
<1>3. w.pc = "idle" <=> w.root = NoRoot
  BY <1>2 DEF NoRenewal
<1>4. RootsNamed'
  BY <1>1, <1>3 DEF PublishInv, RootsNamed
<1>5. w.root = NoRoot \/ w.root = renewing[k].root
  BY DEF NoRenewal
<1>6. OneAtATime'
  BY <1>1, <1>5 DEF PublishInv, OneAtATime
<1>7. ~vouch.overlap => \A i \in Publishers : pubs[i].root # renewing[k].root
  BY <1>2 DEF PublishInv, OneAtATime
<1> QED BY <1>1, <1>2, <1>4, <1>6, <1>7

(* No renewal is a renewal.                                                 *)
LEMMA NoRenewalTyped == NoRenewal \in Renewal
BY DEF NoRenewal, Renewal, Anywhere

(* What the list says is marked, and is of a root that publishes nothing.   *)
LEMMA LearnsKeeps ==
    ASSUME PublishInv, NEW k \in Paired, Learns(k)
    PROVE  PublishInv'
<1> DEFINE r == renewing[k].root
           list == Reads(r)
<1>1. /\ renewing[k].pc = "looking" /\ renewing[k] \in Renewal /\ r \in Roots
      /\ UNCHANGED <<day, published, pairing, held, pubs, revoked, signedOut>>
  BY DEF Learns, PublishInv, TypeInv, RootsNamed, Renewal, Anywhere
<1>2. list \in Lists /\ list.serials \subseteq cached[r].serials \cup revoked.serials
  BY <1>1 DEF Reads, PublishInv, TypeInv
<1>3. CASE /\ cached' = [cached EXCEPT ![r] = list] /\ UNCHANGED vouch
           /\ held[k].serial \in list.serials
           /\ renewing' = [renewing EXCEPT ![k] = NoRenewal]
           /\ moment' = moment + 1 /\ MarkRevoked(r, held[k].serial)
  <2>1. moment' \in Nat
    BY <1>3 DEF PublishInv, TypeInv
  <2>2. /\ listed' \in [Roots -> SUBSET Listing]
        /\ \A q \in Roots : q # r => listed'[q] = listed[q]
        /\ \A e \in listed'[r] :
              \/ e \in listed[r] /\ e.serial # held[k].serial
              \/ e.serial = held[k].serial /\ \E d \in listed[r] : d.serial = held[k].serial
    <3>1. listed \in [Roots -> SUBSET Listing]
      BY DEF PublishInv, TypeInv
    <3> QED BY <1>1, <1>3, <2>1, <3>1, Marked
  <2>3. /\ renewing' \in [Paired -> Renewal] /\ RootsNamed' /\ OneAtATime'
        /\ ~vouch.overlap => \A i \in Publishers : pubs[i].root # r
    BY <1>1, <1>3, NoRenewalTyped, Renewing
  <2>4. /\ cached' \in [Roots -> Lists]
        /\ \A q \in Roots : cached'[q].serials \subseteq cached[q].serials \cup revoked.serials
    BY <1>1, <1>2, <1>3 DEF PublishInv, TypeInv
  <2>5. TypeInv'
    <3>1. ASSUME NEW q \in Roots
          PROVE  \E top \in Nat : \A x \in listed'[q] : x.serial <= top
      <4>1. PICK top \in Nat : \A x \in listed[q] : x.serial <= top
        BY DEF PublishInv, TypeInv
      <4>2. \A x \in listed'[q] : x.serial <= top
        BY <2>2, <4>1
      <4> QED BY <4>2
    <3>2. \A q \in Roots : published'[q] <= moment'
      BY <1>1, <1>3 DEF PublishInv, TypeInv
    <3> QED BY <1>1, <1>3, <2>1, <2>2, <2>3, <2>4, <3>1, <3>2 DEF PublishInv, TypeInv
  <2>6. PubInv'
    <3> SUFFICES ASSUME ~vouch.overlap PROVE PubInv'
      BY <1>3 DEF PubInv
    <3>1. held[k].serial \in revoked.serials
      BY <1>1, <1>2, <1>3 DEF PublishInv, PubInv
    <3>2. \A q \in Roots : \A e \in listed'[q] : e.at # 0 =>
             \/ e \in listed[q]
             \/ e.serial \in revoked.serials /\ \A i \in Publishers : pubs[i].root # q
      BY <2>2, <2>3, <3>1
    <3> HIDE DEF r, list
    <3> QED BY <1>1, <1>3, <2>4, <2>5, <3>2, NothingPublished
  <2> QED BY <2>3, <2>5, <2>6 DEF PublishInv
<1>4. ASSUME NEW w \in Renewal, renewing' = [renewing EXCEPT ![k] = w],
             w = NoRenewal \/ (w.pc # "idle" /\ w.root = r),
             cached' = [cached EXCEPT ![r] = list] \/ UNCHANGED cached,
             vouch' \in GrantConf, vouch'.overlap = vouch.overlap, vouch'.hosts = vouch.hosts,
             vouch'.roots = vouch.roots, UNCHANGED <<listed, moment>>
      PROVE  PublishInv'
  <2>1. renewing' \in [Paired -> Renewal] /\ RootsNamed' /\ OneAtATime'
    BY <1>1, <1>4, Renewing
  <2>2. /\ cached' \in [Roots -> Lists]
        /\ \A q \in Roots : cached'[q].serials \subseteq cached[q].serials \cup revoked.serials
    BY <1>1, <1>2, <1>4 DEF PublishInv, TypeInv
  <2>3. TypeInv'
    BY <1>1, <1>4, <2>1, <2>2 DEF PublishInv, TypeInv
  <2>4. PubInv'
    BY <1>1, <1>4, <2>2, <2>3, NothingPublished
  <2> QED BY <2>1, <2>3, <2>4 DEF PublishInv
<1>5. CASE /\ cached' = [cached EXCEPT ![r] = list] /\ UNCHANGED <<vouch, moment, listed>>
           /\ renewing' = [renewing EXCEPT ![k] = NoRenewal]
  BY <1>4, <1>5, NoRenewalTyped DEF PublishInv, TypeInv
<1>6. CASE /\ cached' = [cached EXCEPT ![r] = list] /\ UNCHANGED <<vouch, moment, listed>>
           /\ renewing' = [renewing EXCEPT ![k].pc = "signing"]
  <2>1. PICK w : w = [renewing[k] EXCEPT !.pc = "signing"]
    OBVIOUS
  <2>2. w \in Renewal /\ w.pc = "signing" /\ w.root = r
    BY <1>1, <2>1 DEF Renewal
  <2>3. renewing' = [renewing EXCEPT ![k] = w]
    BY <1>6, <2>1
  <2> QED BY <1>4, <1>6, <2>2, <2>3 DEF PublishInv, TypeInv
<1>7. CASE /\ Uses("fails") /\ UNCHANGED <<cached, moment, listed>>
           /\ renewing' = [renewing EXCEPT ![k] =
                 IF renewing[k].known THEN [renewing[k] EXCEPT !.pc = "signing"] ELSE NoRenewal]
  <2>1. PICK w : w = IF renewing[k].known THEN [renewing[k] EXCEPT !.pc = "signing"]
                                          ELSE NoRenewal
    OBVIOUS
  <2>2. w \in Renewal /\ (w = NoRenewal \/ (w.pc = "signing" /\ w.root = r))
    BY <1>1, <2>1, NoRenewalTyped DEF Renewal
  <2>3. renewing' = [renewing EXCEPT ![k] = w]
    BY <1>7, <2>1
  <2>4. /\ vouch' \in GrantConf /\ vouch'.overlap = vouch.overlap
        /\ vouch'.roots = vouch.roots /\ vouch'.hosts = vouch.hosts
    BY <1>7, BoundUsed DEF PublishInv, TypeInv
  <2> QED BY <1>4, <1>7, <2>2, <2>3, <2>4
<1> QED BY <1>3, <1>5, <1>6, <1>7 DEF Learns

(* A renewed grant is listed as not signed out.                             *)
LEMMA RenewsKeeps ==
    ASSUME PublishInv, Serials, NEW k \in Paired, Renews(k)
    PROVE  PublishInv'
<1> DEFINE r == renewing[k].root
           until == renewing[k].at + Lasts
<1>1. /\ renewing[k].pc = "signing" /\ renewing[k] \in Renewal /\ r \in Roots
      /\ RecordPaired(r, held[k].serial, k, until)
      /\ renewing' = [renewing EXCEPT ![k] = NoRenewal]
      /\ UNCHANGED <<day, moment, published, pairing, pubs, revoked, cached, signedOut>>
  BY DEF Renews, PublishInv, TypeInv, RootsNamed, Renewal, Anywhere
<1>2. until \in Nat /\ held[k].serial \in Nat \ {0} /\ held[k] \in Grant
  BY <1>1 DEF PublishInv, TypeInv, Serials, Renewal, Grant, Lasts
<1>3. /\ held' = [held EXCEPT ![k].expires = until] /\ UNCHANGED vouch
      \/ (UNCHANGED held /\ (UNCHANGED vouch \/ Uses("leaves")))
  BY DEF Renews
<1>4. /\ vouch' \in GrantConf /\ vouch'.overlap = vouch.overlap
      /\ vouch'.roots = vouch.roots /\ vouch'.hosts = vouch.hosts
  BY <1>3, BoundUsed DEF PublishInv, TypeInv
<1> HIDE DEF r, until
<1>5. held' \in [Paired -> Grant]
  BY <1>2, <1>3 DEF PublishInv, TypeInv, Grant
<1>6. /\ listed' \in [Roots -> SUBSET Listing]
      /\ \A q \in Roots : \A e \in listed'[q] :
            e \in listed[q] \/ (e.at = 0 /\ q = r /\ e.serial = held[k].serial)
  <2>1. listed \in [Roots -> SUBSET Listing]
    BY DEF PublishInv, TypeInv
  <2> QED BY <1>1, <1>2, <2>1, Recorded
<1>7. renewing' \in [Paired -> Renewal] /\ RootsNamed' /\ OneAtATime'
  BY <1>1, <1>4, NoRenewalTyped, Renewing DEF r
<1>8. TypeInv'
  <2>1. ASSUME NEW q \in Roots
        PROVE  \E top \in Nat : \A e \in listed'[q] : e.serial <= top
    <3>1. PICK top \in Nat : \A e \in listed[q] : e.serial <= top
      BY DEF PublishInv, TypeInv
    <3>2. PICK more \in Nat : more = top + held[k].serial
      BY <1>2
    <3>3. ASSUME NEW e \in listed'[q] PROVE e.serial <= more
      <4>1. e.serial \in Nat /\ (e.serial <= top \/ e.serial = held[k].serial)
        BY <1>6, <3>1 DEF Listing
      <4> QED BY <1>2, <3>2, <4>1
    <3> QED BY <3>3
  <2> QED BY <1>1, <1>4, <1>5, <1>6, <1>7, <2>1 DEF PublishInv, TypeInv
<1>9. PubInv'
  BY <1>1, <1>4, <1>6, <1>8, NothingPublished
<1> QED BY <1>7, <1>8, <1>9 DEF PublishInv

-----------------------------------------------------------------------------
(* The serials of pairings and grants. *)

(* Nothing happens to pairings, grants or renewals.                         *)
LEMMA SameSerials ==
    ASSUME Serials, UNCHANGED <<pairing, held, renewing>>
    PROVE  Serials'
BY DEF Serials

(* A pairing that is not over goes on.                                      *)
LEMMA PairingGoesOn ==
    ASSUME TypeInv, Serials, NEW k \in Paired, NEW p \in Pairing,
           pairing' = [pairing EXCEPT ![k] = p], UNCHANGED <<held, renewing>>,
           pairing[k].phase \notin {"paired"},
           p.phase \in {"none", "asked"} => p.serial = 0,
           p.phase \in {"answering", "left", "sent", "paired"} => p.serial # 0
    PROVE  Serials'
<1>1. pairing'[k] = p /\ \A x \in Paired : x # k => pairing'[x] = pairing[x]
  BY DEF TypeInv
<1>2. held[k] = NoGrant
  BY DEF Serials
<1> QED BY <1>1, <1>2 DEF Serials

(* A pairing has its serial from the approval on.                           *)
LEMMA SerialsPaired ==
    ASSUME PublishInv, Serials, NEW k \in Paired,
           \/ \E r \in Roots : Requests(k, r)
           \/ Approves(k) \/ Granted(k) \/ Withdraws(k)
    PROVE  Serials'
<1> USE DEF PublishInv
<1>0. TypeInv /\ pairing[k] \in Pairing
  BY DEF TypeInv
<1>1. CASE \E r \in Roots : Requests(k, r)
  <2>1. PICK r \in Roots : Requests(k, r)
    BY <1>1
  <2>2. PICK p : p = [NoPairing EXCEPT !.root = r, !.phase = "asked"]
    OBVIOUS
  <2>3. p \in Pairing /\ p.phase = "asked" /\ p.serial = 0
    BY <2>2 DEF NoPairing, Pairing, Anywhere, Stages
  <2>4. pairing' = [pairing EXCEPT ![k] = p] /\ UNCHANGED <<held, renewing>>
        /\ pairing[k].phase = "none"
    BY <2>1, <2>2 DEF Requests
  <2> QED BY <1>0, <2>3, <2>4, PairingGoesOn
<1>2. CASE Approves(k)
  <2>1. PICK serial : serial = NextSerial(pairing[k].root)
    OBVIOUS
  <2>2. pairing[k].root \in Roots
    BY <1>2 DEF Approves, TypeInv, RootsNamed, GrantConf
  <2>3. serial \in Nat \ {0}
    BY <2>1, <2>2, SerialFresh DEF TypeInv
  <2>4. PICK p : p = [pairing[k] EXCEPT !.phase = "answering", !.at = day, !.serial = serial]
    OBVIOUS
  <2>5. p \in Pairing /\ p.phase = "answering" /\ p.serial # 0
    BY <1>0, <2>3, <2>4 DEF Pairing, Stages, TypeInv
  <2>6. pairing' = [pairing EXCEPT ![k] = p] /\ UNCHANGED <<held, renewing>>
        /\ pairing[k].phase = "asked"
    BY <1>2, <2>1, <2>4 DEF Approves, TypeInv
  <2> QED BY <1>0, <2>5, <2>6, PairingGoesOn
<1>3. ASSUME NEW phase \in {"sent", "failed", "left"}, pairing[k].phase \notin {"none", "paired"},
             pairing' = [pairing EXCEPT ![k].phase = phase], UNCHANGED <<held, renewing>>,
             phase \in {"sent", "left"} => pairing[k].phase \in {"answering", "left"}
      PROVE  Serials'
  <2>1. PICK p : p = [pairing[k] EXCEPT !.phase = phase]
    OBVIOUS
  <2>2. p \in Pairing /\ p.phase = phase /\ p.serial = pairing[k].serial
    BY <1>0, <2>1 DEF Pairing, Stages
  <2>3. pairing' = [pairing EXCEPT ![k] = p]
    BY <1>3, <2>1 DEF TypeInv
  <2>4. p.phase \in {"sent", "left"} => p.serial # 0
    BY <1>3, <2>2 DEF Serials
  <2> QED BY <1>0, <1>3, <2>2, <2>3, <2>4, PairingGoesOn
<1>4. CASE Granted(k)
  <2>1. CASE pairing[k].phase = "left"
    <3>1. pairing' = [pairing EXCEPT ![k].phase = "failed"] /\ UNCHANGED <<held, renewing>>
      BY <1>4, <2>1 DEF Granted
    <3> QED BY <1>3, <2>1, <3>1
  <2>2. CASE pairing[k].phase = "answering"
    <3>1. pairing' = [pairing EXCEPT ![k].phase = "sent"] /\ UNCHANGED <<held, renewing>>
      BY <1>4, <2>2 DEF Granted
    <3> QED BY <1>3, <2>2, <3>1
  <2> QED BY <1>4, <2>1, <2>2 DEF Granted
<1>5. CASE Withdraws(k)
  <2>1. CASE pairing[k].phase = "answering"
    <3>1. pairing' = [pairing EXCEPT ![k].phase = "left"] /\ UNCHANGED <<held, renewing>>
      BY <1>5, <2>1 DEF Withdraws, TypeInv
    <3> QED BY <1>3, <2>1, <3>1
  <2>2. CASE pairing[k].phase \in {"asked", "sent"}
    <3>1. pairing' = [pairing EXCEPT ![k].phase = "failed"] /\ UNCHANGED <<held, renewing>>
      BY <1>5, <2>2 DEF Withdraws, TypeInv
    <3> QED BY <1>3, <2>2, <3>1
  <2> QED BY <1>5, <2>1, <2>2 DEF Withdraws
<1> QED BY <1>1, <1>2, <1>4, <1>5

(* The grant that is accepted has the serial of the pairing.                *)
LEMMA SerialsAccepted ==
    ASSUME PublishInv, Serials, NEW k \in Paired, Accepts(k)
    PROVE  Serials'
<1> USE DEF PublishInv
<1>1. pairing[k] \in Pairing /\ pairing[k].phase = "sent" /\ UNCHANGED renewing
  BY DEF Accepts, TypeInv
<1>2. CASE day < pairing[k].at + Lasts
  <2>1. PICK g : g = [serial |-> pairing[k].serial, expires |-> pairing[k].at + Lasts]
    OBVIOUS
  <2>2. PICK p : p = [pairing[k] EXCEPT !.phase = "paired"]
    OBVIOUS
  <2>3. p.phase = "paired" /\ p.serial = pairing[k].serial /\ g.serial = p.serial /\ p.serial # 0
    BY <1>1, <2>1, <2>2 DEF Pairing, Serials
  <2>4. held' = [held EXCEPT ![k] = g] /\ pairing' = [pairing EXCEPT ![k] = p]
    BY <1>2, <2>1, <2>2 DEF Accepts, TypeInv
  <2>5. /\ held'[k] = g /\ \A x \in Paired : x # k => held'[x] = held[x]
        /\ pairing'[k] = p /\ \A x \in Paired : x # k => pairing'[x] = pairing[x]
    BY <2>4 DEF TypeInv
  <2>6. g # NoGrant
    BY <2>3 DEF NoGrant
  <2> QED BY <1>1, <2>3, <2>5, <2>6 DEF Serials
<1>3. CASE ~(day < pairing[k].at + Lasts)
  <2>1. PICK p : p = [pairing[k] EXCEPT !.phase = "failed"]
    OBVIOUS
  <2>2. p \in Pairing /\ p.phase = "failed"
    BY <1>1, <2>1 DEF Pairing, Stages
  <2>3. pairing' = [pairing EXCEPT ![k] = p] /\ UNCHANGED held
    BY <1>3, <2>1 DEF Accepts, TypeInv
  <2> QED BY <1>1, <2>2, <2>3, PairingGoesOn
<1> QED BY <1>2, <1>3

(* A renewal leaves the serial of the grant.                                *)
LEMMA SerialsRenewed ==
    ASSUME PublishInv, Serials, NEW k \in Paired,
           \/ \E r \in Roots : Shows(k, r)
           \/ Learns(k) \/ Renews(k)
    PROVE  Serials'
<1> USE DEF PublishInv
<1>1. ASSUME NEW w, renewing' = [renewing EXCEPT ![k] = w], UNCHANGED <<held, pairing>>,
             held[k] # NoGrant
      PROVE  Serials'
  BY <1>1 DEF Serials, TypeInv
<1>2. CASE \E r \in Roots : Shows(k, r)
  BY <1>1, <1>2 DEF Shows
<1>3. CASE Learns(k)
  <2>1. held[k] # NoGrant /\ UNCHANGED <<held, pairing>>
    BY <1>3 DEF Learns, Serials
  <2>2. PICK w : renewing' = [renewing EXCEPT ![k] = w]
    BY <1>3 DEF Learns
  <2> QED BY <1>1, <2>1, <2>2
<1>4. CASE Renews(k)
  <2>1. /\ renewing[k].pc = "signing" /\ held[k] # NoGrant /\ UNCHANGED pairing
        /\ renewing' = [renewing EXCEPT ![k] = NoRenewal]
        /\ held' = [held EXCEPT ![k].expires = renewing[k].at + Lasts] \/ UNCHANGED held
    BY <1>4 DEF Renews, Serials
  <2>2. CASE UNCHANGED held
    BY <1>1, <2>1, <2>2
  <2>3. CASE held' = [held EXCEPT ![k].expires = renewing[k].at + Lasts]
    <3>1. PICK g : g = [held[k] EXCEPT !.expires = renewing[k].at + Lasts]
      OBVIOUS
    <3>2. held[k] \in Grant /\ held[k].serial = pairing[k].serial /\ pairing[k].phase = "paired"
      BY <2>1 DEF TypeInv, Serials
    <3>3. g.serial = pairing[k].serial /\ g # NoGrant
      BY <3>1, <3>2 DEF Grant, Serials, NoGrant
    <3>4. held' = [held EXCEPT ![k] = g]
      BY <2>3, <3>1 DEF TypeInv
    <3>5. /\ held'[k] = g /\ \A x \in Paired : x # k => held'[x] = held[x]
          /\ renewing'[k] = NoRenewal /\ \A x \in Paired : x # k => renewing'[x] = renewing[x]
      BY <2>1, <3>4 DEF TypeInv
    <3>6. NoRenewal.pc = "idle"
      BY DEF NoRenewal
    <3> QED BY <2>1, <3>2, <3>3, <3>5, <3>6 DEF Serials
  <2> QED BY <2>1, <2>2, <2>3
<1> QED BY <1>2, <1>3, <1>4

(* Serials are kept at every step.                                          *)
LEMMA SerialsKept ==
    ASSUME PublishInv, Serials, GrantNext
    PROVE  Serials'
<1>1. ASSUME NEW k \in Paired,
             \/ \E r \in Roots : Requests(k, r)
             \/ Approves(k) \/ Granted(k) \/ Withdraws(k)
      PROVE  Serials'
  BY <1>1, SerialsPaired
<1>2. ASSUME NEW k \in Paired, Accepts(k) PROVE Serials'
  BY <1>2, SerialsAccepted
<1>3. ASSUME NEW k \in Paired, (\E r \in Roots : Shows(k, r)) \/ Learns(k) \/ Renews(k)
      PROVE  Serials'
  BY <1>3, SerialsRenewed
<1>4. ASSUME NEW r \in Roots, Ages(r) \/ CatchesUp(r) \/ \E e \in listed[r] : SignsOut(r, e)
      PROVE  Serials'
  <2>1. UNCHANGED <<pairing, held, renewing>>
    BY <1>4 DEF Ages, CatchesUp, SignsOut
  <2> QED BY <2>1, SameSerials
<1>5. ASSUME NEW i \in Publishers,
             Looks(i) \/ Checks(i) \/ Stores(i) \/ PublicationEnds(i) \/ PublicationFails(i)
      PROVE  Serials'
  <2>1. UNCHANGED <<pairing, held, renewing>>
    BY <1>5 DEF Looks, Checks, Stores, PublicationEnds, PublicationFails
  <2> QED BY <2>1, SameSerials
<1>6. ASSUME DayPasses PROVE Serials'
  BY <1>6, SameSerials DEF DayPasses
<1> QED BY <1>1, <1>2, <1>3, <1>4, <1>5, <1>6 DEF GrantNext

-----------------------------------------------------------------------------
(* What is published, at every step. *)

(* Nothing is signed out in the beginning.                                  *)
LEMMA PublishBegins ==
    ASSUME GrantInit
    PROVE  PublishInv /\ Serials
<1>1. /\ vouch \in GrantConf /\ vouch.hosts \subseteq vouch.roots
      /\ day = 0 /\ moment = 0 /\ revoked = NoList /\ signedOut = {}
      /\ listed = [r \in Roots |-> {}] /\ published = [r \in Roots |-> 0]
      /\ pairing = [k \in Paired |-> NoPairing] /\ held = [k \in Paired |-> NoGrant]
      /\ renewing = [k \in Paired |-> NoRenewal]
      /\ pubs = [i \in Publishers |-> NoPub] /\ cached = [r \in Roots |-> Unread]
  BY GrantAssumption DEF GrantInit
<1>2. NoPairing \in Pairing /\ NoPairing.phase = "none" /\ NoPairing.serial = 0
  BY DEF NoPairing, Pairing, Anywhere, Stages
<1>3. NoGrant \in Grant
  BY DEF NoGrant, Grant
<1>4. NoRenewal.pc = "idle" /\ NoRenewal.root = NoRoot
  BY DEF NoRenewal
<1>5. NoPub.pc = "idle" /\ NoPub.root = NoRoot
  BY DEF NoPub
<1>6. NoList \in Lists /\ Unread \in Lists /\ Unread.serials = {}
  BY DEF NoList, Unread, Lists
<1>7. TypeInv
  <2>1. \A r \in Roots : \E top \in Nat : \A e \in listed[r] : e.serial <= top
    BY <1>1
  <2> QED BY <1>1, <1>2, <1>3, <1>6, <2>1, NoRenewalTyped, NoPubTyped DEF TypeInv
<1>8. RootsNamed
  BY <1>1, <1>2, <1>4, <1>5 DEF RootsNamed
<1>9. OneAtATime
  BY <1>1, <1>5 DEF OneAtATime
<1>10. PubInv
  BY <1>1, <1>5, <1>6 DEF PubInv
<1>11. Serials
  BY <1>1, <1>2, <1>4 DEF Serials
<1> QED BY <1>7, <1>8, <1>9, <1>10, <1>11 DEF PublishInv

(* What is published is kept in order at every step.                        *)
LEMMA PublishKept ==
    ASSUME PublishInv, Serials, GrantNext
    PROVE  PublishInv'
<1>1. ASSUME NEW k \in Paired, NEW r \in Roots, Requests(k, r) \/ Shows(k, r)
      PROVE  PublishInv'
  BY <1>1, RequestsKeeps, ShowsKeeps
<1>2. ASSUME NEW k \in Paired, Approves(k) \/ Granted(k) \/ Accepts(k) \/ Withdraws(k)
      PROVE  PublishInv'
  BY <1>2, ApprovesKeeps, GrantedKeeps, AcceptsKeeps, WithdrawsKeeps
<1>3. ASSUME NEW k \in Paired, Learns(k) \/ Renews(k) PROVE PublishInv'
  BY <1>3, LearnsKeeps, RenewsKeeps
<1>4. ASSUME NEW r \in Roots, Ages(r) \/ CatchesUp(r) PROVE PublishInv'
  BY <1>4, AgesKeeps, CatchesUpKeeps
<1>5. ASSUME NEW r \in Roots, NEW e \in listed[r], SignsOut(r, e) PROVE PublishInv'
  BY <1>5, SignsOutKeeps
<1>6. ASSUME NEW i \in Publishers, Looks(i) \/ Checks(i) \/ Stores(i) PROVE PublishInv'
  BY <1>6, LooksKeeps, ChecksKeeps, StoresKeeps
<1>7. ASSUME NEW i \in Publishers, PublicationEnds(i) \/ PublicationFails(i) PROVE PublishInv'
  BY <1>7, PublicationEndsKeeps, PublicationFailsKeeps
<1>8. ASSUME DayPasses PROVE PublishInv'
  BY <1>8, DayPassesKeeps
<1> QED BY <1>1, <1>2, <1>3, <1>4, <1>5, <1>6, <1>7, <1>8 DEF GrantNext

(* And while nothing happens.                                               *)
LEMMA PublishStutters ==
    ASSUME PublishInv, Serials, UNCHANGED grantVars
    PROVE  PublishInv' /\ Serials'
<1>1. /\ TypeInv' /\ RootsNamed' /\ Serials'
  BY DEF PublishInv, TypeInv, RootsNamed, Serials, grantVars
<1>2. OneAtATime'
  BY DEF PublishInv, OneAtATime, grantVars
<1>3. PubInv'
  BY DEF PublishInv, PubInv, SignedOutAt, grantVars
<1> QED BY <1>1, <1>2, <1>3 DEF PublishInv

(* What is published, and the serials, in every state.                      *)
LEMMA PublishAlways == GrantSpec => [](PublishInv /\ Serials)
<1>1. GrantInit => PublishInv /\ Serials
  BY PublishBegins
<1>2. PublishInv /\ Serials /\ [GrantNext]_grantVars => PublishInv' /\ Serials'
  BY PublishKept, SerialsKept, PublishStutters
<1> QED BY <1>1, <1>2, PTL DEF GrantSpec

(* When a root finds nothing left to publish, everything it has signed out is on
   the list that tables read.                                               *)
THEOREM PublishedInTheEnd == GrantSpec => []CaughtUp
<1>1. PublishInv => CaughtUp
  <2> SUFFICES ASSUME PublishInv, ~vouch.overlap, NEW r \in vouch.roots, ~Unpublished(r),
                      NEW serial \in SignedOutAt(r)
               PROVE  serial \in revoked.serials
    BY DEF CaughtUp
  <2>1. r \in Roots
    BY DEF PublishInv, TypeInv, GrantConf
  <2>2. PICK e \in listed[r] : e.at # 0 /\ e.serial = serial
    BY DEF SignedOutAt
  <2>3. ~(e.at > published[r])
    BY <2>2 DEF Unpublished, RevokedAt
  <2> QED BY <2>1, <2>2, <2>3 DEF PublishInv, PubInv
<1> QED BY <1>1, PublishAlways, PTL

-----------------------------------------------------------------------------
(* A player with one root. *)

(* A player who has one root has it among the devices considered.           *)
LEMMA OneRoot ==
    ASSUME TypeInv, Alone
    PROVE  \E r \in Roots : vouch.roots = {r}
<1>1. vouch.roots \subseteq Roots /\ IsFiniteSet(vouch.roots)
  BY GrantAssumption, FS_Subset DEF TypeInv, GrantConf
<1>2. PICK r : vouch.roots = {r}
  BY <1>1, FS_Singleton DEF Alone
<1> QED BY <1>1, <1>2

(* No step changes who the roots are, or whether things overlap.            *)
LEMMA SameRoots ==
    ASSUME PublishInv, GrantNext
    PROVE  vouch'.overlap = vouch.overlap /\ vouch'.roots = vouch.roots
<1>1. vouch \in GrantConf
  BY DEF PublishInv, TypeInv
<1>2. UNCHANGED vouch \/ \E b \in {"outs", "opens", "fails", "leaves", "days"} : Uses(b)
  <2>1. ASSUME NEW k \in Paired,
               \/ \E r \in Roots : Requests(k, r) \/ Shows(k, r)
               \/ Approves(k) \/ Granted(k) \/ Accepts(k)
        PROVE  UNCHANGED vouch
    BY <2>1 DEF Requests, Shows, Approves, Granted, Accepts
  <2>2. ASSUME NEW k \in Paired, Withdraws(k) \/ Renews(k)
        PROVE  UNCHANGED vouch \/ Uses("leaves")
    BY <2>2 DEF Withdraws, Renews
  <2>3. ASSUME NEW k \in Paired, Learns(k)
        PROVE  UNCHANGED vouch \/ Uses("fails")
    BY <2>3 DEF Learns
  <2>4. ASSUME NEW r \in Roots, Ages(r) \/ CatchesUp(r) \/ \E e \in listed[r] : SignsOut(r, e)
        PROVE  UNCHANGED vouch \/ Uses("opens") \/ Uses("outs")
    BY <2>4 DEF Ages, CatchesUp, SignsOut
  <2>5. ASSUME NEW i \in Publishers,
               Looks(i) \/ Checks(i) \/ Stores(i) \/ PublicationEnds(i) \/ PublicationFails(i)
        PROVE  UNCHANGED vouch \/ Uses("fails")
    BY <2>5 DEF Looks, Checks, Stores, PublicationEnds, PublicationFails
  <2>6. ASSUME DayPasses PROVE Uses("days")
    BY <2>6 DEF DayPasses
  <2> QED BY <2>1, <2>2, <2>3, <2>4, <2>5, <2>6 DEF GrantNext
<1> QED BY <1>1, <1>2, BoundUsed

(* A serial that is chosen and not yet granted is of no listed device.      *)
LEMMA NotYetListed ==
    ASSUME TypeInv, Serials, Numbered, NEW k \in Paired,
           pairing[k].phase \in {"answering", "left"}, NEW r \in Roots, NEW e \in listed[r]
    PROVE  e.serial # pairing[k].serial /\ e.key # k
<1>1. e.key \in Paired /\ pairing[e.key].serial = e.serial
      /\ pairing[e.key].phase \in {"sent", "paired", "failed"}
  BY DEF TypeInv, Numbered, Listing
<1>2. e.key # k
  BY <1>1
<1>3. pairing[k].serial # 0
  BY DEF Serials
<1>4. pairing[e.key].serial # pairing[k].serial
  BY <1>1, <1>2, <1>3 DEF Numbered
<1> QED BY <1>1, <1>2, <1>4

(* Nothing happens to the list of devices, pairings, grants or renewals.    *)
LEMMA ListedSame ==
    ASSUME ListedInv, vouch'.roots = vouch.roots,
           UNCHANGED <<listed, pairing, held, renewing, signedOut>>
    PROVE  ListedInv'
BY DEF ListedInv, Numbered, Dated, RenewalsDue, Told, Entry

(* A new pairing has no serial, and no listed device is of it.              *)
LEMMA ListedRequests ==
    ASSUME TypeInv, Serials, ListedInv, NEW k \in Paired, NEW r \in Roots, Requests(k, r)
    PROVE  ListedInv'
<1>1. PICK p : p = [NoPairing EXCEPT !.root = r, !.phase = "asked"]
  OBVIOUS
<1>2. p.phase = "asked" /\ p.serial = 0
  BY <1>1 DEF NoPairing
<1>3. /\ pairing' = [pairing EXCEPT ![k] = p] /\ pairing[k].phase = "none"
      /\ UNCHANGED <<vouch, listed, held, renewing, signedOut>>
  BY <1>1 DEF Requests
<1>4. pairing'[k] = p /\ \A x \in Paired : x # k => pairing'[x] = pairing[x]
  BY <1>3 DEF TypeInv
<1>5. \A q \in Roots : \A e \in listed[q] : e.key \in Paired /\ e.key # k
  BY <1>3 DEF TypeInv, ListedInv, Numbered, Listing
<1>6. Numbered'
  BY <1>2, <1>3, <1>4, <1>5 DEF ListedInv, Numbered
<1>7. Dated'
  BY <1>2, <1>3, <1>4 DEF ListedInv, Dated, Entry
<1>8. RenewalsDue' /\ Told'
  BY <1>3 DEF ListedInv, RenewalsDue, Told, Entry
<1> QED BY <1>6, <1>7, <1>8 DEF ListedInv

(* The serial that is chosen is of no other device: every one that was chosen
   before is listed, since nothing else is under way.                       *)
LEMMA ListedApproves ==
    ASSUME PublishInv, Serials, ListedInv, Alone, NEW k \in Paired, Approves(k)
    PROVE  ListedInv'
<1> USE DEF PublishInv
<1>1. PICK r \in Roots : vouch.roots = {r}
  BY OneRoot
<1>2. \A x \in Paired : pairing[x].phase # "none" => pairing[x].root = r
  BY <1>1 DEF TypeInv, RootsNamed
<1>3. pairing[k].root = r /\ pairing[k].phase = "asked"
  BY <1>2 DEF Approves
<1>4. PICK serial : serial = NextSerial(r)
  OBVIOUS
<1>5. serial \in Nat \ {0} /\ \A e \in listed[r] : e.serial < serial
  BY <1>4, SerialFresh DEF TypeInv
<1>6. PICK p : p = [pairing[k] EXCEPT !.phase = "answering", !.at = day, !.serial = serial]
  OBVIOUS
<1>7. p.phase = "answering" /\ p.serial = serial
  BY <1>6 DEF TypeInv, Pairing
<1>8. /\ pairing' = [pairing EXCEPT ![k] = p]
      /\ UNCHANGED <<vouch, listed, held, renewing, signedOut>>
  BY <1>3, <1>4, <1>6 DEF Approves, TypeInv
<1>9. pairing'[k] = p /\ \A x \in Paired : x # k => pairing'[x] = pairing[x]
  BY <1>8 DEF TypeInv
<1>10. ASSUME NEW x \in Paired, x # k, pairing[x].serial # 0 PROVE pairing[x].serial # serial
  <2>1. pairing[x].phase # "none" /\ pairing[x].root = r
    BY <1>2, <1>10 DEF Serials
  <2>2. pairing[x].phase \notin {"answering", "left"}
    BY <1>3, <2>1 DEF Approves, AtRest, Alone
  <2>3. PICK e \in listed[r] : e.serial = pairing[x].serial
    BY <1>10, <2>1, <2>2 DEF ListedInv, Numbered
  <2>4. e.serial \in Nat
    BY <2>3 DEF TypeInv, Listing
  <2> QED BY <1>5, <2>3, <2>4
<1>11. \A q \in Roots : \A e \in listed[q] : e.key \in Paired /\ e.key # k
  BY <1>3 DEF TypeInv, ListedInv, Numbered, Listing
<1>12. Numbered'
  <2>1. \A x, y \in Paired : pairing'[x].serial = pairing'[y].serial /\ pairing'[x].serial # 0
                             => x = y
    BY <1>7, <1>9, <1>10 DEF ListedInv, Numbered
  <2> QED BY <1>7, <1>8, <1>9, <1>11, <2>1 DEF ListedInv, Numbered
<1>13. Dated'
  BY <1>7, <1>8, <1>9 DEF ListedInv, Dated, Entry
<1>14. RenewalsDue' /\ Told'
  BY <1>8 DEF ListedInv, RenewalsDue, Told, Entry
<1> QED BY <1>12, <1>13, <1>14 DEF ListedInv

(* A signed grant adds its device to the list, with a serial that is not there. *)
LEMMA ListedGranted ==
    ASSUME PublishInv, Serials, ListedInv, NEW k \in Paired, Granted(k)
    PROVE  ListedInv'
<1> USE DEF PublishInv
<1>1. PICK r : r = pairing[k].root
  OBVIOUS
<1>2. PICK serial : serial = pairing[k].serial
  OBVIOUS
<1>3. PICK new : new = [serial |-> serial, key |-> k, expires |-> pairing[k].at + Lasts, at |-> 0]
  OBVIOUS
<1>4. /\ pairing[k] \in Pairing /\ pairing[k].phase \in {"answering", "left"}
      /\ r \in Roots /\ r \in vouch.roots
      /\ serial \in Nat \ {0} /\ pairing[k].at + Lasts \in Nat
  BY <1>1, <1>2 DEF Granted, TypeInv, RootsNamed, GrantConf, Pairing, Lasts
<1>5. /\ RecordPaired(r, serial, k, pairing[k].at + Lasts)
      /\ UNCHANGED <<vouch, held, renewing, signedOut>>
  BY <1>1, <1>2 DEF Granted
<1>6. \A q \in Roots : \A e \in listed[q] : e.serial # serial /\ e.key # k /\ e.key \in Paired
  BY <1>2, <1>4, NotYetListed DEF ListedInv, TypeInv, Listing
<1>7. \A q \in Roots : \A e : e \in listed'[q] <=> (e \in listed[q] \/ (q = r /\ e = new))
  <2>1. listed \in [Roots -> SUBSET Listing]
    BY DEF TypeInv
  <2>2. /\ \A q \in Roots : q # r => listed'[q] = listed[q]
        /\ \A e : e \in listed'[r] <=> (e \in listed[r] /\ e.serial # serial) \/ e = new
    BY <1>3, <1>4, <1>5, <2>1, Recorded
  <2> QED BY <1>6, <2>2
<1>8. /\ pairing'[k].serial = serial /\ pairing'[k].root = r /\ pairing'[k].at = pairing[k].at
      /\ pairing'[k].phase \in {"sent", "failed"}
      /\ \A x \in Paired : x # k => pairing'[x] = pairing[x]
  <2>1. PICK phase \in {"sent", "failed"} : pairing' = [pairing EXCEPT ![k].phase = phase]
    BY DEF Granted
  <2>2. PICK p : p = [pairing[k] EXCEPT !.phase = phase]
    OBVIOUS
  <2>3. /\ p.serial = serial /\ p.root = r /\ p.at = pairing[k].at /\ p.phase = phase
    BY <1>1, <1>2, <1>4, <2>2 DEF Pairing
  <2>4. pairing' = [pairing EXCEPT ![k] = p]
    BY <2>1, <2>2 DEF TypeInv
  <2> QED BY <2>3, <2>4 DEF TypeInv
<1>9. new.serial = serial /\ new.key = k /\ new.expires = pairing[k].at + Lasts /\ new.at = 0
  BY <1>3
<1>10. \A x \in Paired : x # k => pairing[x].serial # serial
  BY <1>2, <1>4 DEF ListedInv, Numbered
<1>11. Numbered'
  <2>1. \A x, y \in Paired : pairing'[x].serial = pairing'[y].serial /\ pairing'[x].serial # 0
                             => x = y
    BY <1>2, <1>8 DEF ListedInv, Numbered
  <2>2. ASSUME NEW q \in Roots, NEW e \in listed'[q]
        PROVE  /\ q \in vouch'.roots /\ pairing'[e.key].serial = e.serial
               /\ pairing'[e.key].phase \in {"sent", "paired", "failed"}
    <3>1. CASE e \in listed[q]
      BY <1>5, <1>6, <1>8, <3>1 DEF ListedInv, Numbered
    <3>2. CASE q = r /\ e = new
      BY <1>4, <1>5, <1>8, <1>9, <3>2
    <3> QED BY <1>7, <3>1, <3>2
  <2>3. \A q \in Roots : \A e, d \in listed'[q] : e.serial = d.serial => e = d
    BY <1>6, <1>7, <1>9 DEF ListedInv, Numbered
  <2>4. ASSUME NEW x \in Paired, pairing'[x].serial # 0,
               pairing'[x].phase \notin {"answering", "left"}
        PROVE  \E e \in listed'[pairing'[x].root] : e.serial = pairing'[x].serial /\ e.key = x
    <3>1. CASE x = k
      BY <1>4, <1>7, <1>8, <1>9, <3>1
    <3>2. CASE x # k
      <4>1. PICK e \in listed[pairing[x].root] : e.serial = pairing[x].serial /\ e.key = x
        BY <1>8, <2>4, <3>2 DEF ListedInv, Numbered
      <4>2. pairing[x].root \in Roots
        BY <1>8, <2>4, <3>2 DEF TypeInv, RootsNamed, Serials, GrantConf
      <4> QED BY <1>7, <1>8, <3>2, <4>1, <4>2
    <3> QED BY <3>1, <3>2
  <2> QED BY <2>1, <2>2, <2>3, <2>4 DEF Numbered
<1>12. Dated'
  <2>1. ASSUME NEW x \in Paired, held'[x] # NoGrant, NEW q \in Roots, NEW e \in listed'[q],
               e.serial = held'[x].serial
        PROVE  held'[x].expires <= e.expires
    <3>1. held[x].serial = pairing[x].serial /\ x # k
      BY <1>4, <1>5, <2>1 DEF Serials
    <3>2. e \in listed[q]
      BY <1>5, <1>7, <1>9, <1>10, <2>1, <3>1
    <3> QED BY <1>5, <2>1, <3>2 DEF ListedInv, Dated, Entry
  <2>2. ASSUME NEW x \in Paired, pairing'[x].phase = "sent", NEW q \in Roots,
               NEW e \in listed'[q], e.serial = pairing'[x].serial
        PROVE  pairing'[x].at + Lasts <= e.expires
    <3>1. CASE x = k
      BY <1>4, <1>6, <1>7, <1>8, <1>9, <2>2, <3>1
    <3>2. CASE x # k
      <4>1. e \in listed[q]
        BY <1>7, <1>8, <1>9, <1>10, <2>2, <3>2
      <4> QED BY <1>8, <2>2, <3>2, <4>1 DEF ListedInv, Dated, Entry
    <3> QED BY <3>1, <3>2
  <2> QED BY <2>1, <2>2 DEF Dated, Entry
<1>13. RenewalsDue'
  <2>1. ASSUME NEW x \in Paired, renewing[x].pc # "idle"
        PROVE  /\ renewing[x].root \in vouch.roots
               /\ held[x].expires <= renewing[x].at + RenewWithin
               /\ \A e \in listed'[renewing[x].root] : e.serial = held[x].serial => e.at = 0
    <3>1. renewing[x].root \in vouch.roots
      BY <2>1 DEF ListedInv, RenewalsDue
    <3>2. renewing[x].root \in Roots
      BY <3>1 DEF TypeInv, GrantConf
    <3> QED BY <1>7, <1>9, <2>1, <3>2 DEF ListedInv, RenewalsDue, Entry
  <2> QED BY <1>5, <2>1 DEF RenewalsDue, Entry
<1>14. Told'
  <2>1. ASSUME NEW o \in signedOut
        PROVE  \E e \in listed'[o.root] : e.serial = o.serial /\ e.key = o.key /\ e.at # 0
                                          /\ e.expires <= o.by
    <3>1. PICK e \in listed[o.root] : e.serial = o.serial /\ e.key = o.key /\ e.at # 0
                                      /\ e.expires <= o.by
      BY DEF ListedInv, Told, Entry
    <3>2. o.root \in Roots
      BY DEF TypeInv, SignOut
    <3> QED BY <1>7, <3>1, <3>2
  <2> QED BY <1>5, <2>1 DEF Told, Entry
<1> QED BY <1>11, <1>12, <1>13, <1>14 DEF ListedInv

(* A grant that is accepted lasts as long as the list says.                 *)
LEMMA ListedAccepts ==
    ASSUME TypeInv, Serials, ListedInv, NEW k \in Paired, Accepts(k)
    PROVE  ListedInv'
<1>1. /\ pairing[k] \in Pairing /\ pairing[k].phase = "sent" /\ held[k] = NoGrant
      /\ UNCHANGED <<vouch, listed, renewing, signedOut>>
  BY DEF Accepts, TypeInv, Serials
<1>2. /\ pairing'[k].serial = pairing[k].serial /\ pairing'[k].root = pairing[k].root
      /\ pairing'[k].phase \in {"paired", "failed"}
      /\ \A x \in Paired : x # k => pairing'[x] = pairing[x]
  <2>1. PICK phase \in {"paired", "failed"} : pairing' = [pairing EXCEPT ![k].phase = phase]
    BY DEF Accepts
  <2>2. PICK p : p = [pairing[k] EXCEPT !.phase = phase]
    OBVIOUS
  <2>3. p.serial = pairing[k].serial /\ p.root = pairing[k].root /\ p.phase = phase
    BY <1>1, <2>2 DEF Pairing
  <2>4. pairing' = [pairing EXCEPT ![k] = p]
    BY <2>1, <2>2 DEF TypeInv
  <2> QED BY <2>3, <2>4 DEF TypeInv
<1>3. /\ held'[k] = NoGrant \/ (/\ held'[k].serial = pairing[k].serial
                                /\ held'[k].expires = pairing[k].at + Lasts)
      /\ \A x \in Paired : x # k => held'[x] = held[x]
  <2>1. PICK g : g = [serial |-> pairing[k].serial, expires |-> pairing[k].at + Lasts]
    OBVIOUS
  <2>2. held' = [held EXCEPT ![k] = g] \/ UNCHANGED held
    BY <2>1 DEF Accepts
  <2> QED BY <1>1, <2>1, <2>2 DEF TypeInv
<1>4. Numbered'
  <2>1. \A x, y \in Paired : pairing'[x].serial = pairing'[y].serial /\ pairing'[x].serial # 0
                             => x = y
    BY <1>2 DEF ListedInv, Numbered
  <2>2. \A q \in Roots : \A e \in listed[q] : e.key \in Paired
    BY DEF TypeInv, Listing
  <2>3. \A q \in Roots : \A e \in listed[q] :
           /\ q \in vouch.roots /\ pairing'[e.key].serial = e.serial
           /\ pairing'[e.key].phase \in {"sent", "paired", "failed"}
    BY <1>2, <2>2 DEF ListedInv, Numbered
  <2>4. ASSUME NEW x \in Paired, pairing'[x].serial # 0,
               pairing'[x].phase \notin {"answering", "left"}
        PROVE  \E e \in listed[pairing'[x].root] : e.serial = pairing'[x].serial /\ e.key = x
    BY <1>1, <1>2, <2>4 DEF ListedInv, Numbered
  <2> QED BY <1>1, <2>1, <2>3, <2>4 DEF ListedInv, Numbered
<1>5. Dated'
  <2>1. ASSUME NEW x \in Paired, held'[x] # NoGrant, NEW q \in Roots, NEW e \in listed[q],
               e.serial = held'[x].serial
        PROVE  held'[x].expires <= e.expires
    BY <1>1, <1>3, <2>1 DEF ListedInv, Dated, Entry
  <2>2. ASSUME NEW x \in Paired, pairing'[x].phase = "sent", NEW q \in Roots,
               NEW e \in listed[q], e.serial = pairing'[x].serial
        PROVE  pairing'[x].at + Lasts <= e.expires
    BY <1>2, <2>2 DEF ListedInv, Dated, Entry
  <2> QED BY <1>1, <2>1, <2>2 DEF Dated, Entry
<1>6. RenewalsDue'
  BY <1>1, <1>3 DEF ListedInv, RenewalsDue, Serials, Entry
<1>7. Told'
  BY <1>1 DEF ListedInv, Told, Entry
<1> QED BY <1>4, <1>5, <1>6, <1>7 DEF ListedInv

(* A device that leaves stays listed if its grant was signed.               *)
LEMMA ListedWithdraws ==
    ASSUME TypeInv, Serials, ListedInv, NEW k \in Paired, Withdraws(k),
           vouch'.roots = vouch.roots
    PROVE  ListedInv'
<1>1. /\ pairing[k] \in Pairing /\ pairing[k].phase \in {"asked", "answering", "sent"}
      /\ UNCHANGED <<listed, held, renewing, signedOut>>
  BY DEF Withdraws, TypeInv
<1>2. /\ pairing'[k].serial = pairing[k].serial /\ pairing'[k].root = pairing[k].root
      /\ \/ pairing[k].phase = "answering" /\ pairing'[k].phase = "left"
         \/ pairing[k].phase # "answering" /\ pairing'[k].phase = "failed"
      /\ \A x \in Paired : x # k => pairing'[x] = pairing[x]
  <2>1. PICK phase : phase = IF pairing[k].phase = "answering" THEN "left" ELSE "failed"
    OBVIOUS
  <2>2. PICK p : p = [pairing[k] EXCEPT !.phase = phase]
    OBVIOUS
  <2>3. p.serial = pairing[k].serial /\ p.root = pairing[k].root /\ p.phase = phase
    BY <1>1, <2>2 DEF Pairing
  <2>4. pairing' = [pairing EXCEPT ![k] = p]
    BY <2>1, <2>2 DEF TypeInv, Withdraws
  <2> QED BY <2>1, <2>3, <2>4 DEF TypeInv
<1>3. Numbered'
  <2>1. \A x, y \in Paired : pairing'[x].serial = pairing'[y].serial /\ pairing'[x].serial # 0
                             => x = y
    BY <1>2 DEF ListedInv, Numbered
  <2>2. \A q \in Roots : \A e \in listed[q] : e.key \in Paired
    BY DEF TypeInv, Listing
  <2>3. \A q \in Roots : \A e \in listed[q] :
           /\ q \in vouch.roots /\ pairing'[e.key].serial = e.serial
           /\ pairing'[e.key].phase \in {"sent", "paired", "failed"}
    BY <1>2, <2>2 DEF ListedInv, Numbered
  <2>4. ASSUME NEW x \in Paired, pairing'[x].serial # 0,
               pairing'[x].phase \notin {"answering", "left"}
        PROVE  \E e \in listed[pairing'[x].root] : e.serial = pairing'[x].serial /\ e.key = x
    BY <1>1, <1>2, <2>4 DEF ListedInv, Numbered
  <2> QED BY <1>1, <2>1, <2>3, <2>4 DEF ListedInv, Numbered
<1>4. Dated'
  BY <1>1, <1>2 DEF ListedInv, Dated, Entry
<1>5. RenewalsDue'
  BY <1>1 DEF ListedInv, RenewalsDue, Entry
<1>6. Told'
  BY <1>1 DEF ListedInv, Told, Entry
<1> QED BY <1>3, <1>4, <1>5, <1>6 DEF ListedInv

(* A serial is marked as signed out: who is listed, and until when, stays.  *)
LEMMA ListedMarked ==
    ASSUME PublishInv, Serials, ListedInv, NEW r \in Roots, NEW serial, MarkRevoked(r, serial),
           moment' = moment + 1, vouch'.roots = vouch.roots, UNCHANGED <<pairing, held>>
    PROVE  /\ Numbered' /\ Dated'
           /\ \A o \in signedOut : \E e \in listed'[o.root] :
                 e.serial = o.serial /\ e.key = o.key /\ e.at # 0 /\ e.expires <= o.by
           /\ \A e \in listed[r] : e.serial = serial => \E d \in listed'[r] :
                 d.serial = serial /\ d.key = e.key /\ d.at # 0 /\ d.expires = e.expires
           /\ \A q \in Roots : \A e \in listed'[q] :
                 (q = r => e.serial # serial) => e \in listed[q]
<1> USE DEF PublishInv
<1>0. moment' \in Nat /\ moment' # 0
  BY DEF TypeInv
<1>1. /\ \A q \in Roots : q # r => listed'[q] = listed[q]
      /\ \A e \in listed[r] : e.serial # serial => e \in listed'[r]
      /\ \A e \in listed[r] : e.serial = serial => [e EXCEPT !.at = moment'] \in listed'[r]
      /\ \A e \in listed'[r] :
            \/ e \in listed[r] /\ e.serial # serial
            \/ /\ e.serial = serial /\ e.at = moment'
               /\ \E d \in listed[r] : d.serial = serial /\ d.key = e.key
                                       /\ d.expires = e.expires
                                       /\ e = [d EXCEPT !.at = moment']
  <2>1. listed \in [Roots -> SUBSET Listing]
    BY DEF TypeInv
  <2> QED BY <1>0, <2>1, Marked
<1>2. PICK now : now = moment'
  OBVIOUS
<1>3. \A e \in listed[r] : e.serial = serial => \E d \in listed'[r] :
         d.serial = serial /\ d.key = e.key /\ d.at # 0 /\ d.expires = e.expires
  <2> TAKE e \in listed[r]
  <2> HAVE e.serial = serial
  <2>1. PICK d : d = [e EXCEPT !.at = now]
    OBVIOUS
  <2>2. e \in Listing
    BY DEF TypeInv
  <2>3. d.serial = serial /\ d.key = e.key /\ d.at = now /\ d.expires = e.expires
    BY <2>1, <2>2 DEF Listing
  <2>4. d \in listed'[r]
    BY <1>1, <1>2, <2>1
  <2> QED BY <1>0, <1>2, <2>3, <2>4
<1>4. \A q \in Roots : \A e \in listed'[q] : \E d \in listed[q] :
         d.serial = e.serial /\ d.key = e.key /\ d.expires = e.expires
  BY <1>1
<1>5. \A q \in Roots : \A d \in listed[q] : \E e \in listed'[q] :
         e.serial = d.serial /\ e.key = d.key /\ e.expires = d.expires /\ (d.at # 0 => e.at # 0)
  BY <1>1, <1>3
<1>6. Numbered'
  <2>1. \A x, y \in Paired : pairing'[x].serial = pairing'[y].serial /\ pairing'[x].serial # 0
                             => x = y
    BY DEF ListedInv, Numbered
  <2>2. \A q \in Roots : \A e \in listed'[q] :
           /\ q \in vouch'.roots /\ pairing'[e.key].serial = e.serial
           /\ pairing'[e.key].phase \in {"sent", "paired", "failed"}
    BY <1>4 DEF ListedInv, Numbered
  <2>3. \A q \in Roots : \A e, d \in listed'[q] : e.serial = d.serial => e = d
    BY <1>1 DEF ListedInv, Numbered
  <2>4. ASSUME NEW x \in Paired, pairing'[x].serial # 0,
               pairing'[x].phase \notin {"answering", "left"}
        PROVE  \E e \in listed'[pairing'[x].root] : e.serial = pairing'[x].serial /\ e.key = x
    <3>1. PICK d \in listed[pairing[x].root] : d.serial = pairing[x].serial /\ d.key = x
      BY <2>4 DEF ListedInv, Numbered
    <3>2. pairing[x].root \in Roots
      BY <2>4 DEF Serials, RootsNamed, TypeInv, GrantConf
    <3> QED BY <1>5, <3>1, <3>2
  <2> QED BY <2>1, <2>2, <2>3, <2>4 DEF Numbered
<1>7. Dated'
  BY <1>4 DEF ListedInv, Dated, Entry
<1>8. ASSUME NEW o \in signedOut
      PROVE  \E e \in listed'[o.root] :
                e.serial = o.serial /\ e.key = o.key /\ e.at # 0 /\ e.expires <= o.by
  <2>1. PICK d \in listed[o.root] :
              d.serial = o.serial /\ d.key = o.key /\ d.at # 0 /\ d.expires <= o.by
    BY DEF ListedInv, Told, Entry
  <2>2. o.root \in Roots
    BY DEF TypeInv, SignOut
  <2> QED BY <1>5, <2>1, <2>2
<1>9. \A q \in Roots : \A e \in listed'[q] : (q = r => e.serial # serial) => e \in listed[q]
  BY <1>1
<1> QED BY <1>3, <1>6, <1>7, <1>8, <1>9

(* The person is told the day that is listed, and no renewal is under way.  *)
LEMMA ListedSignsOut ==
    ASSUME PublishInv, Serials, ListedInv, Alone, NEW r \in Roots, NEW e \in listed[r],
           SignsOut(r, e), vouch'.roots = vouch.roots
    PROVE  ListedInv'
<1> USE DEF PublishInv
<1>1. /\ r \in vouch.roots /\ AtRest(r) /\ moment' = moment + 1 /\ MarkRevoked(r, e.serial)
      /\ signedOut' = signedOut \cup
                       {[key |-> e.key, serial |-> e.serial, root |-> r, by |-> e.expires]}
      /\ UNCHANGED <<pairing, held, renewing>>
  BY DEF SignsOut
<1>2. /\ Numbered' /\ Dated'
      /\ \A o \in signedOut : \E d \in listed'[o.root] :
            d.serial = o.serial /\ d.key = o.key /\ d.at # 0 /\ d.expires <= o.by
      /\ \A x \in listed[r] : x.serial = e.serial => \E d \in listed'[r] :
            d.serial = e.serial /\ d.key = x.key /\ d.at # 0 /\ d.expires = x.expires
  BY <1>1, ListedMarked
<1>3. \A k \in Paired : renewing[k].pc = "idle"
  <2> SUFFICES ASSUME NEW k \in Paired, renewing[k].pc # "idle" PROVE FALSE
    OBVIOUS
  <2>1. renewing[k].root \in vouch.roots
    BY DEF ListedInv, RenewalsDue
  <2>2. renewing[k].root = r
    BY <1>1, <2>1, OneRoot
  <2> QED BY <1>1, <2>2 DEF AtRest, Alone
<1>4. RenewalsDue'
  BY <1>1, <1>3 DEF RenewalsDue
<1>5. Told'
  <2>1. PICK new : new = [key |-> e.key, serial |-> e.serial, root |-> r, by |-> e.expires]
    OBVIOUS
  <2>2. \E d \in listed'[new.root] :
            d.serial = new.serial /\ d.key = new.key /\ d.at # 0 /\ d.expires <= new.by
    <3>1. PICK d \in listed'[r] : d.serial = e.serial /\ d.key = e.key /\ d.at # 0
                                  /\ d.expires = e.expires
      BY <1>2
    <3>2. e.expires \in Nat
      BY DEF TypeInv, Listing
    <3> QED BY <2>1, <3>1, <3>2
  <2>3. signedOut' = signedOut \cup {new}
    BY <1>1, <2>1
  <2> QED BY <1>2, <2>2, <2>3 DEF Told, Entry
<1> QED BY <1>2, <1>4, <1>5 DEF ListedInv

(* A renewal begins for a grant that is soon over and not signed out.       *)
LEMMA ListedShows ==
    ASSUME TypeInv, ListedInv, NEW k \in Paired, NEW r \in Roots, Shows(k, r)
    PROVE  ListedInv'
<1>1. PICK w : w = [root |-> r, pc |-> "looking", at |-> day,
                    known |-> Entry(r, held[k].serial) # {}]
  OBVIOUS
<1>2. w.root = r /\ w.at = day /\ renewing' = [renewing EXCEPT ![k] = w]
      /\ UNCHANGED <<vouch, listed, pairing, held, signedOut>>
  BY <1>1 DEF Shows
<1>3. renewing'[k] = w /\ \A x \in Paired : x # k => renewing'[x] = renewing[x]
  BY <1>2 DEF TypeInv
<1>4. r \in vouch.roots /\ held[k].expires - day <= RenewWithin
      /\ \A e \in Entry(r, held[k].serial) : e.at = 0
  BY DEF Shows, Renewable, SoonOver
<1>5. held[k].expires \in Nat /\ day \in Nat
  BY DEF TypeInv, Grant
<1>6. held[k].expires <= day + RenewWithin
  BY <1>4, <1>5 DEF RenewWithin
<1>7. RenewalsDue'
  BY <1>2, <1>3, <1>4, <1>6 DEF ListedInv, RenewalsDue, Entry
<1>8. Numbered' /\ Dated' /\ Told'
  BY <1>2 DEF ListedInv, Numbered, Dated, Told, Entry
<1> QED BY <1>7, <1>8 DEF ListedInv

(* A renewal that learns of a sign-out ends, and disturbs no other.         *)
LEMMA ListedLearns ==
    ASSUME PublishInv, Serials, ListedInv, NEW k \in Paired, Learns(k),
           vouch'.roots = vouch.roots
    PROVE  ListedInv'
<1> USE DEF PublishInv
<1>1. /\ renewing[k].pc = "looking" /\ renewing[k] \in Renewal
      /\ renewing[k].root \in Roots /\ held[k] # NoGrant
      /\ UNCHANGED <<pairing, held, signedOut>>
  BY DEF Learns, TypeInv, RootsNamed, Renewal, Anywhere, Serials
<1>2. CASE UNCHANGED listed
  <2>1. PICK w : /\ renewing' = [renewing EXCEPT ![k] = w]
                 /\ w = NoRenewal \/ w = [renewing[k] EXCEPT !.pc = "signing"]
    BY DEF Learns, TypeInv
  <2>2. renewing'[k] = w /\ \A x \in Paired : x # k => renewing'[x] = renewing[x]
    BY <2>1 DEF TypeInv
  <2>3. w.pc = "idle" \/ (w.root = renewing[k].root /\ w.at = renewing[k].at)
    BY <1>1, <2>1 DEF NoRenewal, Renewal
  <2>4. RenewalsDue'
    BY <1>1, <1>2, <2>2, <2>3 DEF ListedInv, RenewalsDue, Entry
  <2>5. Numbered' /\ Dated' /\ Told'
    BY <1>1, <1>2 DEF ListedInv, Numbered, Dated, Told, Entry
  <2> QED BY <2>4, <2>5 DEF ListedInv
<1>3. CASE /\ moment' = moment + 1 /\ MarkRevoked(renewing[k].root, held[k].serial)
           /\ renewing' = [renewing EXCEPT ![k] = NoRenewal]
  <2>1. /\ Numbered' /\ Dated'
        /\ \A o \in signedOut : \E d \in listed'[o.root] :
              d.serial = o.serial /\ d.key = o.key /\ d.at # 0 /\ d.expires <= o.by
        /\ \A q \in Roots : \A e \in listed'[q] :
              (q = renewing[k].root => e.serial # held[k].serial) => e \in listed[q]
    BY <1>1, <1>3, ListedMarked
  <2>2. ASSUME NEW x \in Paired, renewing'[x].pc # "idle"
        PROVE  /\ renewing[x] = renewing'[x] /\ renewing[x].root \in vouch.roots
               /\ held[x].expires <= renewing[x].at + RenewWithin
               /\ \A e \in listed'[renewing[x].root] : e.serial = held[x].serial => e.at = 0
    <3>1. x # k /\ renewing'[x] = renewing[x]
      BY <1>3, <2>2 DEF TypeInv, NoRenewal
    <3>2. held[x] # NoGrant
      BY <2>2, <3>1 DEF Serials
    <3>3. held[x].serial # held[k].serial
      BY <1>1, <3>1, <3>2 DEF Serials, ListedInv, Numbered
    <3>4. /\ renewing[x].root \in vouch.roots /\ renewing[x].root \in Roots
          /\ held[x].expires <= renewing[x].at + RenewWithin
          /\ \A e \in listed[renewing[x].root] : e.serial = held[x].serial => e.at = 0
      BY <2>2, <3>1 DEF ListedInv, RenewalsDue, Entry, TypeInv, GrantConf
    <3> QED BY <2>1, <3>1, <3>3, <3>4
  <2>3. RenewalsDue'
    BY <1>1, <2>2 DEF RenewalsDue, Entry
  <2>4. Told'
    BY <1>1, <2>1 DEF Told, Entry
  <2> QED BY <2>1, <2>3, <2>4 DEF ListedInv
<1> QED BY <1>2, <1>3 DEF Learns

(* A renewal replaces the entry of its device, which was not signed out, by one that
   lasts at least as long as the grant.                                     *)
LEMMA ListedRenews ==
    ASSUME PublishInv, Serials, ListedInv, Alone, NEW k \in Paired, Renews(k),
           vouch'.roots = vouch.roots
    PROVE  ListedInv'
<1> USE DEF PublishInv
<1>1. PICK r : r = renewing[k].root
  OBVIOUS
<1>2. PICK serial : serial = held[k].serial
  OBVIOUS
<1>3. PICK until : until = renewing[k].at + Lasts
  OBVIOUS
<1>4. PICK new : new = [serial |-> serial, key |-> k, expires |-> until, at |-> 0]
  OBVIOUS
<1>5. /\ renewing[k].pc = "signing" /\ renewing[k] \in Renewal /\ held[k] \in Grant
      /\ held[k] # NoGrant /\ pairing[k].phase = "paired" /\ pairing[k].serial = serial
      /\ serial \in Nat \ {0} /\ until \in Nat
  BY <1>2, <1>3 DEF Renews, TypeInv, Serials, Renewal, Grant, Lasts
<1>6. /\ r \in vouch.roots /\ r \in Roots /\ held[k].expires <= renewing[k].at + RenewWithin
      /\ \A e \in listed[r] : e.serial = serial => e.at = 0
  BY <1>1, <1>2, <1>5 DEF ListedInv, RenewalsDue, Entry, TypeInv, GrantConf
<1>7. vouch.roots = {r}
  BY <1>6, OneRoot
<1>8. /\ RecordPaired(r, serial, k, until)
      /\ renewing' = [renewing EXCEPT ![k] = NoRenewal]
      /\ held' = [held EXCEPT ![k].expires = until] \/ UNCHANGED held
      /\ UNCHANGED <<pairing, signedOut>>
  BY <1>1, <1>2, <1>3 DEF Renews
<1>9. \A q \in Roots : \A e : e \in listed'[q] <=>
         (e \in listed[q] /\ (q = r => e.serial # serial)) \/ (q = r /\ e = new)
  <2>1. listed \in [Roots -> SUBSET Listing]
    BY DEF TypeInv
  <2>2. /\ \A q \in Roots : q # r => listed'[q] = listed[q]
        /\ \A e : e \in listed'[r] <=> (e \in listed[r] /\ e.serial # serial) \/ e = new
    BY <1>4, <1>5, <1>6, <1>8, <2>1, Recorded
  <2> QED BY <2>2
<1>10. new.serial = serial /\ new.key = k /\ new.expires = until /\ new.at = 0
  BY <1>4
<1>11. \A q \in Roots : \A e \in listed[q] : q = r
  BY <1>7 DEF ListedInv, Numbered
<1>12. \A x \in Paired : x # k => pairing[x].serial # serial
  BY <1>5 DEF ListedInv, Numbered
<1>13. /\ held'[k].serial = serial /\ held'[k].expires <= until
       /\ \A x \in Paired : x # k => held'[x] = held[x]
  <2>1. held[k].expires <= until
    BY <1>3, <1>5, <1>6 DEF Renewal, Grant, Lasts, RenewWithin
  <2>2. PICK g : g = [held[k] EXCEPT !.expires = until]
    OBVIOUS
  <2>3. g.serial = serial /\ g.expires = until
    BY <1>2, <1>5, <2>2 DEF Grant
  <2>4. held' = [held EXCEPT ![k] = g] \/ UNCHANGED held
    BY <1>8, <2>2 DEF TypeInv
  <2> QED BY <1>2, <1>5, <2>1, <2>3, <2>4 DEF TypeInv
<1>14. Numbered'
  <2>1. \A x, y \in Paired : pairing'[x].serial = pairing'[y].serial /\ pairing'[x].serial # 0
                             => x = y
    BY <1>8 DEF ListedInv, Numbered
  <2>2. \A q \in Roots : \A e \in listed'[q] :
           /\ q \in vouch'.roots /\ pairing'[e.key].serial = e.serial
           /\ pairing'[e.key].phase \in {"sent", "paired", "failed"}
    BY <1>5, <1>6, <1>8, <1>9, <1>10 DEF ListedInv, Numbered
  <2>3. \A q \in Roots : \A e, d \in listed'[q] : e.serial = d.serial => e = d
    BY <1>9, <1>10, <1>11 DEF ListedInv, Numbered
  <2>4. ASSUME NEW x \in Paired, pairing[x].serial # 0,
               pairing[x].phase \notin {"answering", "left"}
        PROVE  \E e \in listed'[pairing[x].root] : e.serial = pairing[x].serial /\ e.key = x
    <3>1. pairing[x].root = r
      BY <1>7, <2>4 DEF Serials, RootsNamed, TypeInv
    <3>2. CASE x = k
      BY <1>5, <1>6, <1>9, <1>10, <3>1, <3>2
    <3>3. CASE x # k
      <4>1. PICK e \in listed[r] : e.serial = pairing[x].serial /\ e.key = x
        BY <2>4, <3>1 DEF ListedInv, Numbered
      <4>2. e.serial # serial
        BY <1>12, <3>3, <4>1
      <4> QED BY <1>6, <1>9, <3>1, <4>1, <4>2
    <3> QED BY <3>2, <3>3
  <2> QED BY <1>8, <2>1, <2>2, <2>3, <2>4 DEF Numbered
<1>15. Dated'
  <2>1. ASSUME NEW x \in Paired, held'[x] # NoGrant, NEW q \in Roots, NEW e \in listed'[q],
               e.serial = held'[x].serial
        PROVE  held'[x].expires <= e.expires
    <3>1. CASE x = k
      BY <1>9, <1>10, <1>11, <1>13, <2>1, <3>1
    <3>2. CASE x # k
      <4>1. held'[x] = held[x] /\ held[x].serial = pairing[x].serial
        BY <1>13, <2>1, <3>2 DEF Serials
      <4>2. e \in listed[q]
        BY <1>9, <1>10, <1>12, <2>1, <3>2, <4>1
      <4> QED BY <2>1, <4>1, <4>2 DEF ListedInv, Dated, Entry
    <3> QED BY <3>1, <3>2
  <2>2. ASSUME NEW x \in Paired, pairing[x].phase = "sent", NEW q \in Roots,
               NEW e \in listed'[q], e.serial = pairing[x].serial
        PROVE  pairing[x].at + Lasts <= e.expires
    <3>1. x # k
      BY <1>5, <2>2
    <3>2. e \in listed[q]
      BY <1>9, <1>10, <1>12, <2>2, <3>1
    <3> QED BY <2>2, <3>2 DEF ListedInv, Dated, Entry
  <2> QED BY <1>8, <2>1, <2>2 DEF Dated, Entry
<1>16. RenewalsDue'
  <2>1. ASSUME NEW x \in Paired, renewing'[x].pc # "idle"
        PROVE  /\ renewing'[x].root \in vouch'.roots
               /\ held'[x].expires <= renewing'[x].at + RenewWithin
               /\ \A e \in listed'[renewing'[x].root] : e.serial = held'[x].serial => e.at = 0
    <3>1. x # k /\ renewing'[x] = renewing[x] /\ held'[x] = held[x]
      BY <1>8, <1>13, <2>1 DEF TypeInv, NoRenewal
    <3>2. /\ renewing[x].root \in vouch.roots /\ renewing[x].root \in Roots
          /\ held[x].expires <= renewing[x].at + RenewWithin
          /\ \A e \in listed[renewing[x].root] : e.serial = held[x].serial => e.at = 0
      BY <2>1, <3>1 DEF ListedInv, RenewalsDue, Entry, TypeInv, GrantConf
    <3> QED BY <1>9, <1>10, <3>1, <3>2
  <2> QED BY <2>1 DEF RenewalsDue, Entry
<1>17. Told'
  <2>1. ASSUME NEW o \in signedOut
        PROVE  \E e \in listed'[o.root] :
                  e.serial = o.serial /\ e.key = o.key /\ e.at # 0 /\ e.expires <= o.by
    <3>1. PICK e \in listed[o.root] :
                e.serial = o.serial /\ e.key = o.key /\ e.at # 0 /\ e.expires <= o.by
      BY DEF ListedInv, Told, Entry
    <3>2. o.root \in Roots
      BY DEF TypeInv, SignOut
    <3>3. o.root = r => e.serial # serial
      BY <1>6, <3>1
    <3> QED BY <1>9, <3>1, <3>2, <3>3
  <2> QED BY <1>8, <2>1 DEF Told, Entry
<1> QED BY <1>14, <1>15, <1>16, <1>17 DEF ListedInv

(* The list of devices is kept in order at every step.                      *)
LEMMA ListedKept ==
    ASSUME PublishInv, Serials, ListedInv, Alone, GrantNext
    PROVE  ListedInv'
<1>0. TypeInv /\ vouch'.roots = vouch.roots
  BY SameRoots DEF PublishInv
<1>1. ASSUME NEW k \in Paired, NEW r \in Roots, Requests(k, r) \/ Shows(k, r)
      PROVE  ListedInv'
  BY <1>0, <1>1, ListedRequests, ListedShows
<1>2. ASSUME NEW k \in Paired, Approves(k) \/ Granted(k) \/ Accepts(k) \/ Withdraws(k)
      PROVE  ListedInv'
  BY <1>0, <1>2, ListedApproves, ListedGranted, ListedAccepts, ListedWithdraws
<1>3. ASSUME NEW k \in Paired, Learns(k) \/ Renews(k) PROVE ListedInv'
  BY <1>0, <1>3, ListedLearns, ListedRenews
<1>4. ASSUME NEW r \in Roots, Ages(r) \/ CatchesUp(r) PROVE ListedInv'
  <2>1. UNCHANGED <<listed, pairing, held, renewing, signedOut>>
    BY <1>4 DEF Ages, CatchesUp
  <2> QED BY <1>0, <2>1, ListedSame
<1>5. ASSUME NEW r \in Roots, NEW e \in listed[r], SignsOut(r, e) PROVE ListedInv'
  BY <1>0, <1>5, ListedSignsOut
<1>6. ASSUME NEW i \in Publishers,
             Looks(i) \/ Checks(i) \/ Stores(i) \/ PublicationEnds(i) \/ PublicationFails(i)
      PROVE  ListedInv'
  <2>1. UNCHANGED <<listed, pairing, held, renewing, signedOut>>
    BY <1>6 DEF Looks, Checks, Stores, PublicationEnds, PublicationFails
  <2> QED BY <1>0, <2>1, ListedSame
<1>7. ASSUME DayPasses PROVE ListedInv'
  <2>1. UNCHANGED <<listed, pairing, held, renewing, signedOut>>
    BY <1>7 DEF DayPasses
  <2> QED BY <1>0, <2>1, ListedSame
<1> QED BY <1>1, <1>2, <1>3, <1>4, <1>5, <1>6, <1>7 DEF GrantNext

(* No device is listed in the beginning.                                    *)
LEMMA ListedBegins ==
    ASSUME GrantInit
    PROVE  ListedInv
<1>1. /\ listed = [r \in Roots |-> {}] /\ signedOut = {}
      /\ pairing = [k \in Paired |-> NoPairing] /\ held = [k \in Paired |-> NoGrant]
      /\ renewing = [k \in Paired |-> NoRenewal]
  BY DEF GrantInit
<1>2. NoPairing.serial = 0 /\ NoPairing.phase = "none" /\ NoRenewal.pc = "idle"
  BY DEF NoPairing, NoRenewal
<1> QED BY <1>1, <1>2 DEF ListedInv, Numbered, Dated, RenewalsDue, Told

(* A device that the player's only root has signed out is let in nowhere from the
   day the person was told, whatever became of the list; and a device that holds
   a grant is listed with it, so that it can be signed out.                 *)
THEOREM StopsOnTheDay == GrantSpec => []StopsByDate
<1>1. GrantInit => AloneInv
  BY ListedBegins DEF AloneInv
<1>2. PublishInv /\ Serials /\ AloneInv /\ [GrantNext]_grantVars => AloneInv'
  <2> SUFFICES ASSUME PublishInv, Serials, AloneInv, [GrantNext]_grantVars, Alone'
               PROVE  ListedInv'
    BY DEF AloneInv
  <2>1. CASE GrantNext
    BY <2>1, SameRoots, ListedKept DEF AloneInv, Alone
  <2>2. CASE UNCHANGED grantVars
    <3>1. Alone /\ vouch'.roots = vouch.roots
          /\ UNCHANGED <<listed, pairing, held, renewing, signedOut>>
      BY <2>2 DEF grantVars, Alone
    <3> QED BY <3>1, ListedSame DEF AloneInv
  <2> QED BY <2>1, <2>2
<1>3. PublishInv /\ Serials /\ AloneInv => StopsByDate
  <2> SUFFICES ASSUME PublishInv, Serials, ListedInv, Alone PROVE StopsByDate
    BY DEF AloneInv, Alone, StopsByDate
  <2> USE DEF PublishInv
  <2>1. ASSUME NEW o \in signedOut, day >= o.by PROVE ~Authorized(o.key, NoList)
    <3>1. PICK e \in listed[o.root] : e.serial = o.serial /\ e.key = o.key /\ e.expires <= o.by
      BY DEF ListedInv, Told, Entry
    <3>2. /\ o.root \in Roots /\ o.key \in Paired /\ o.by \in Nat /\ day \in Nat
          /\ e.expires \in Nat /\ held[o.key].expires \in Nat
      BY <3>1 DEF TypeInv, SignOut, Listing, Grant
    <3>3. pairing[o.key].serial = e.serial
      BY <3>1, <3>2 DEF ListedInv, Numbered
    <3>4. held[o.key] # NoGrant => held[o.key].expires <= e.expires
      BY <3>1, <3>2, <3>3 DEF Serials, ListedInv, Dated, Entry
    <3> QED BY <2>1, <3>1, <3>2, <3>4 DEF Authorized
  <2>2. ASSUME NEW k \in Paired, held[k] # NoGrant
        PROVE  \E e \in Entry(pairing[k].root, held[k].serial) :
                  e.key = k /\ held[k].expires <= e.expires
    <3>1. pairing[k].phase = "paired" /\ held[k].serial = pairing[k].serial
          /\ pairing[k].serial # 0
      BY <2>2 DEF Serials
    <3>2. pairing[k].root \in Roots
      BY <3>1 DEF RootsNamed, TypeInv, GrantConf
    <3>3. PICK e \in listed[pairing[k].root] : e.serial = pairing[k].serial /\ e.key = k
      BY <3>1 DEF ListedInv, Numbered
    <3> QED BY <2>2, <3>1, <3>2, <3>3 DEF ListedInv, Dated, Entry
  <2> QED BY <2>1, <2>2 DEF StopsByDate
<1> QED BY <1>1, <1>2, <1>3, PublishAlways, PTL DEF GrantSpec

-----------------------------------------------------------------------------
(* The devices of a player keep each other up to date.                      *)

Kinds  == {"hello", "auth", "manifest", "want", "data", "bye", "closed"}
Proofs == {"auth", "manifest", "want", "data"}
Msgs   == [kind : Kinds, version : Nat]
Stands == {"none", "attached", "greeted", "authed"}
Loops  == {"off", "host", "join", "retry", "connected"}
Job    == [version : Nat, put : BOOLEAN, from : Devices \cup {NoDevice}]

SyncTypes ==
    /\ setup \in SyncConf /\ copy \in [Devices -> Nat]
    /\ running \subseteq Devices /\ hubs \subseteq running /\ push \subseteq running
    /\ address \in hubs \cup {NoDevice} /\ loop \in [Devices -> Loops]
    /\ peer \in [Devices -> [Devices -> Stands]]
    /\ net \in [Devices -> [Devices -> Seq(Msgs)]]
    /\ jobs \in [Devices -> SUBSET Job]

(* What a sends b may rely on: a proof precedes what needs one.              *)
Ends(q)  == \E i \in DOMAIN q : q[i] = Closed
Proved(q, n) == \E i \in DOMAIN q : i < n /\ q[i].kind = "auth"
Early(q) == \A n \in DOMAIN q : q[n].kind \in {"manifest", "want", "data"} => Proved(q, n)
ShowsAuth(q) == \E i \in DOMAIN q : q[i].kind = "auth"

(* A device, at stand a with its peer, the peer at stand b with it, q under way to
   the device and r from it: an end the peer does not know of is under way, and so
   is its hello before the first of its messages is handled, and its proof before
   anything that needs one.                                                 *)
Orderly(a, b, q, r) ==
    /\ a # "none" /\ b = "none" => Ends(q)
    /\ a # "none" /\ b # "none" => (Ends(q) <=> Ends(r))
    /\ a = "attached" => q # << >> /\ q[1].kind \in {"hello", "bye", "closed"}
    /\ a \in {"attached", "greeted"} => Early(q)
    /\ a \in {"attached", "greeted"} /\ b \in {"greeted", "authed"} /\ ~Ends(q) => ShowsAuth(q)
Pair(d, e) == Orderly(peer[d][e], peer[e][d], net[e][d], net[d][e])
PairInv == \A d \in Devices : peer[d][d] = "none" /\ \A e \in Devices : e # d => Pair(d, e)

(* Who is connected is a hub, or has one peer; nobody else has any.          *)
LoopOk(d) ==
    /\ d \in running <=> loop[d] # "off"
    /\ loop[d] # "connected" => \A e \in Devices : peer[d][e] = "none"
    /\ d \in hubs => loop[d] = "connected"
    /\ loop[d] = "connected" /\ d \notin hubs =>
          \E e \in Devices : /\ peer[d][e] # "none"
                             /\ \A g \in Devices : g # e => peer[d][g] = "none"
LoopInv == \A d \in Devices : LoopOk(d)

(* Data that are being applied came from a peer, or from one that is gone.   *)
JobInv == \A d \in Devices : \A j \in jobs[d] : j.from \in Devices => peer[d][j.from] # "none"

SyncInv == SyncTypes /\ PairInv /\ LoopInv /\ JobInv

-----------------------------------------------------------------------------
(* Queues. *)

LEMMA ContainsEnds ==
    ASSUME NEW q \in Seq(Msgs) PROVE Contains(q, Closed) <=> Ends(q)
BY DEF Contains, Ends

LEMMA Heard ==
    ASSUME NEW q \in Seq(Msgs), NEW i \in Due(q)
    PROVE  /\ i = 1 /\ q # << >> /\ q[1] \in Msgs /\ RemoveAt(q, i) \in Seq(Msgs)
           /\ Len(RemoveAt(q, i)) = Len(q) - 1
           /\ \A j \in DOMAIN RemoveAt(q, i) : j + 1 \in DOMAIN q /\ RemoveAt(q, i)[j] = q[j + 1]
<1>1. i = 1 /\ i \in DOMAIN q /\ Len(q) \in Nat /\ DOMAIN q = 1 .. Len(q)
  BY LenProperties DEF Due
<1> DEFINE b == SubSeq(q, i + 1, Len(q))
           a == SubSeq(q, 1, i - 1)
<1>2. b \in Seq(Msgs) /\ Len(b) = Len(q) - 1 /\ \A j \in 1 .. Len(b) : b[j] = q[i + j]
  BY <1>1, SubSeqProperties
<1>3. a \in Seq(Msgs) /\ Len(a) = 0
  BY <1>1, SubSeqProperties
<1>4. RemoveAt(q, i) = a \o b
  BY DEF RemoveAt
<1> HIDE DEF a, b
<1>5. /\ a \o b \in Seq(Msgs) /\ Len(a \o b) = Len(b)
      /\ \A j \in 1 .. Len(b) : (a \o b)[j] = b[j]
  BY <1>2, <1>3, ConcatProperties
<1>6. DOMAIN (a \o b) = 1 .. Len(b)
  BY <1>5, LenProperties
<1>7. \A j \in 1 .. Len(b) : j + 1 \in DOMAIN q /\ (a \o b)[j] = q[j + 1]
  BY <1>1, <1>2, <1>5
<1>8. q # << >> /\ q[1] \in Msgs
  BY <1>1
<1> QED BY <1>1, <1>2, <1>4, <1>5, <1>6, <1>7, <1>8

LEMMA Queued ==
    ASSUME NEW q \in Seq(Msgs), NEW m \in Msgs
    PROVE  /\ Append(q, m) \in Seq(Msgs) /\ Append(q, m) # << >>
           /\ DOMAIN Append(q, m) = 1 .. Len(q) + 1 /\ DOMAIN q = 1 .. Len(q) /\ Len(q) \in Nat
           /\ Append(q, m)[Len(q) + 1] = m
           /\ \A i \in DOMAIN q : i \in DOMAIN Append(q, m) /\ Append(q, m)[i] = q[i]
<1>1. DOMAIN q = 1 .. Len(q) /\ Len(q) \in Nat
  BY LenProperties
<1>2. /\ Append(q, m) \in Seq(Msgs) /\ Len(Append(q, m)) = Len(q) + 1
      /\ \A i \in 1 .. Len(q) : Append(q, m)[i] = q[i]
      /\ Append(q, m)[Len(q) + 1] = m
  BY AppendProperties
<1>3. DOMAIN Append(q, m) = 1 .. Len(q) + 1
  BY <1>2, LenProperties
<1>4. Append(q, m) # << >>
  BY <1>1, <1>2
<1> QED BY <1>1, <1>2, <1>3, <1>4

(* What one more message at the end, or one less at the front, means.       *)
LEMMA QueuedFacts ==
    ASSUME NEW q \in Seq(Msgs), NEW m \in Msgs
    PROVE  /\ Ends(Append(q, m)) <=> Ends(q) \/ m = Closed
           /\ ShowsAuth(q) => ShowsAuth(Append(q, m))
           /\ m.kind = "auth" => ShowsAuth(Append(q, m))
           /\ Early(q) /\ (m.kind \in {"manifest", "want", "data"} => ShowsAuth(q)) => Early(Append(q, m))
           /\ q # << >> => Append(q, m)[1] = q[1]
<1> DEFINE p == Append(q, m)
<1>1. /\ p \in Seq(Msgs) /\ DOMAIN p = 1 .. Len(q) + 1 /\ DOMAIN q = 1 .. Len(q) /\ Len(q) \in Nat
      /\ p[Len(q) + 1] = m /\ \A i \in DOMAIN q : i \in DOMAIN p /\ p[i] = q[i]
  BY Queued
<1> HIDE DEF p
<1>2. \A i \in DOMAIN p : i \in DOMAIN q \/ i = Len(q) + 1
  BY <1>1
<1>3. Len(q) + 1 \in DOMAIN p
  BY <1>1
<1>4. Ends(p) <=> Ends(q) \/ m = Closed
  BY <1>1, <1>2, <1>3 DEF Ends
<1>5. (ShowsAuth(q) => ShowsAuth(p)) /\ (m.kind = "auth" => ShowsAuth(p))
  BY <1>1, <1>3 DEF ShowsAuth
<1>6. ASSUME Early(q), m.kind \in {"manifest", "want", "data"} => ShowsAuth(q) PROVE Early(p)
  <2> SUFFICES ASSUME NEW n \in DOMAIN p, p[n].kind \in {"manifest", "want", "data"}
               PROVE  Proved(p, n)
    BY DEF Early
  <2>1. CASE n \in DOMAIN q
    <3>1. q[n].kind \in {"manifest", "want", "data"}
      BY <1>1, <2>1
    <3>2. PICK i \in DOMAIN q : i < n /\ q[i].kind = "auth"
      BY <1>6, <2>1, <3>1 DEF Early, Proved
    <3> QED BY <1>1, <3>2 DEF Proved
  <2>2. CASE n = Len(q) + 1
    <3>1. PICK i \in DOMAIN q : q[i].kind = "auth"
      BY <1>1, <1>6, <2>2 DEF ShowsAuth
    <3>2. i < n
      BY <1>1, <2>2, <3>1
    <3> QED BY <1>1, <3>1, <3>2 DEF Proved
  <2> QED BY <1>2, <2>1, <2>2
<1>7. q # << >> => p[1] = q[1]
  BY <1>1
<1> QED BY <1>4, <1>5, <1>6, <1>7 DEF p

LEMMA HeardFacts ==
    ASSUME NEW q \in Seq(Msgs), NEW i \in Due(q)
    PROVE  /\ q[1].kind # "closed" => (Ends(RemoveAt(q, i)) <=> Ends(q))
           /\ ShowsAuth(q) /\ q[1].kind # "auth" => ShowsAuth(RemoveAt(q, i))
           /\ Early(q) => q[1].kind \notin {"manifest", "want", "data"}
           /\ Early(q) /\ q[1].kind # "auth" => Early(RemoveAt(q, i))
<1> DEFINE p == RemoveAt(q, i)
<1>1. /\ q # << >> /\ p \in Seq(Msgs) /\ Len(p) = Len(q) - 1 /\ \A j \in DOMAIN p : p[j] = q[j + 1]
  BY Heard
<1> HIDE DEF p
<1>2. Len(q) \in Nat /\ DOMAIN q = 1 .. Len(q) /\ DOMAIN p = 1 .. Len(q) - 1 /\ 1 \in DOMAIN q
  BY <1>1, LenProperties
<1>3. \A j \in DOMAIN q : j = 1 \/ (j - 1 \in DOMAIN p /\ q[j] = p[j - 1])
  <2> SUFFICES ASSUME NEW j \in DOMAIN q, j # 1 PROVE j - 1 \in DOMAIN p /\ q[j] = p[j - 1]
    OBVIOUS
  <2>1. j - 1 \in DOMAIN p /\ (j - 1) + 1 = j
    BY <1>2
  <2> QED BY <1>1, <2>1
<1>4. \A j \in DOMAIN p : j + 1 \in DOMAIN q /\ j \in Int
  BY <1>2
<1>5. q[1].kind # "closed" => (Ends(p) <=> Ends(q))
  <2>1. q[1].kind # "closed" => q[1] # Closed
    BY DEF Closed, Message
  <2> QED BY <1>1, <1>3, <1>4, <2>1 DEF Ends
<1>6. ShowsAuth(q) /\ q[1].kind # "auth" => ShowsAuth(p)
  BY <1>3 DEF ShowsAuth
<1>7. Early(q) => q[1].kind \notin {"manifest", "want", "data"}
  <2>1. \A j \in DOMAIN q : ~(j < 1)
    BY <1>2
  <2> QED BY <1>2, <2>1 DEF Early, Proved
<1>8. ASSUME Early(q), q[1].kind # "auth" PROVE Early(p)
  <2> SUFFICES ASSUME NEW n \in DOMAIN p, p[n].kind \in {"manifest", "want", "data"}
               PROVE  Proved(p, n)
    BY DEF Early
  <2>1. n + 1 \in DOMAIN q /\ q[n + 1].kind \in {"manifest", "want", "data"}
    BY <1>1, <1>4
  <2>2. PICK j \in DOMAIN q : j < n + 1 /\ q[j].kind = "auth"
    BY <1>8, <2>1 DEF Early, Proved
  <2>3. j - 1 \in DOMAIN p /\ p[j - 1].kind = "auth"
    BY <1>3, <1>8, <2>2
  <2>4. j - 1 < n
    BY <1>2, <1>4, <2>2
  <2> QED BY <2>3, <2>4 DEF Proved
<1> QED BY <1>5, <1>6, <1>7, <1>8 DEF p

-----------------------------------------------------------------------------
(* Both ends of a connection. *)

Both(a, b, q, r) == Orderly(a, b, q, r) /\ Orderly(b, a, r, q)

(* A message is handled, and answered or not.                               *)
LEMMA Answered ==
    ASSUME NEW a \in Stands, NEW b \in Stands, NEW q \in Seq(Msgs), NEW r \in Seq(Msgs), Both(a, b, q, r),
           NEW i \in Due(q), a # "none", q[1].kind # "closed",
           NEW c \in {"greeted", "authed"}, NEW m \in Msgs, NEW s,
           c = "greeted" => q[1].kind = "hello" /\ a # "authed",
           c = "authed" => a \in {"greeted", "authed"},
           s = r \/ (s = Append(r, m) /\ b # "none" /\ ~Ends(q) /\ ~Ends(r)),
           m.kind \in Proofs, m.kind # "auth" => a \in {"greeted", "authed"},
           a = "attached" /\ b # "none" /\ ~Ends(q) /\ ~Ends(r) => s = Append(r, m) /\ m.kind = "auth"
    PROVE  Both(c, b, RemoveAt(q, i), s)
<1> DEFINE p == RemoveAt(q, i)
<1>1. /\ Ends(p) <=> Ends(q)
      /\ ShowsAuth(q) /\ q[1].kind # "auth" => ShowsAuth(p)
      /\ Early(q) /\ q[1].kind # "auth" => Early(p)
  BY HeardFacts
<1> HIDE DEF p
<1>2. m # Closed
  BY DEF Closed, Message, Proofs
<1>3. s = r \/ s = Append(r, m)
  OBVIOUS
<1>4. /\ Ends(s) <=> Ends(r)
      /\ ShowsAuth(r) => ShowsAuth(s)
      /\ s = Append(r, m) /\ m.kind = "auth" => ShowsAuth(s)
      /\ Early(r) /\ (m.kind \in {"manifest", "want", "data"} => ShowsAuth(r)) => Early(s)
      /\ r # << >> => s[1] = r[1] /\ s # << >>
  <2>1. Append(r, m) # << >>
    BY Queued
  <2> QED BY <1>2, <1>3, <2>1, QueuedFacts
<1>5. Orderly(a, b, q, r) /\ Orderly(b, a, r, q)
  BY DEF Both
<1>6. a \in {"attached", "greeted", "authed"}
  BY DEF Stands
<1>7. Orderly(c, b, p, s)
  <2>1. b = "none" => Ends(p)
    BY <1>1, <1>5 DEF Orderly
  <2>2. b # "none" => (Ends(p) <=> Ends(s))
    BY <1>1, <1>4, <1>5 DEF Orderly
  <2>3. c = "greeted" => Early(p)
    BY <1>1, <1>5, <1>6 DEF Orderly
  <2>4. c = "greeted" /\ b \in {"greeted", "authed"} /\ ~Ends(p) => ShowsAuth(p)
    BY <1>1, <1>5, <1>6 DEF Orderly
  <2> QED BY <2>1, <2>2, <2>3, <2>4 DEF Orderly
<1>8. Orderly(b, c, s, p)
  <2>1. b # "none" => (Ends(s) <=> Ends(p))
    BY <1>1, <1>4, <1>5 DEF Orderly
  <2>2. b = "attached" => s # << >> /\ s[1].kind \in {"hello", "bye", "closed"}
    BY <1>4, <1>5 DEF Orderly
  <2>3. b \in {"attached", "greeted"} => Early(s)
    <3>1. CASE s = r
      BY <1>5, <3>1 DEF Orderly
    <3>2. CASE s # r
      BY <1>4, <1>5, <3>2 DEF Orderly
    <3> QED BY <3>1, <3>2
  <2>4. b \in {"attached", "greeted"} /\ ~Ends(s) => ShowsAuth(s)
    <3>1. CASE a = "attached"
      BY <1>4, <1>5, <3>1 DEF Orderly
    <3>2. CASE a \in {"greeted", "authed"}
      BY <1>4, <1>5, <3>2 DEF Orderly
    <3> QED BY <1>6, <3>1, <3>2
  <2> QED BY <2>1, <2>2, <2>3, <2>4 DEF Orderly
<1> QED BY <1>7, <1>8 DEF Both, p

(* Data are sent to a peer that proved itself.                              *)
LEMMA DataSent ==
    ASSUME NEW a \in Stands, NEW b \in Stands, NEW q \in Seq(Msgs), NEW r \in Seq(Msgs), Both(a, b, q, r),
           a = "authed", b # "none", ~Ends(q), ~Ends(r), NEW m \in Msgs, m.kind = "data"
    PROVE  Both(a, b, q, Append(r, m))
<1> DEFINE s == Append(r, m)
<1>1. m # Closed
  BY DEF Closed, Message
<1>2. /\ Ends(s) <=> Ends(r)
      /\ ShowsAuth(r) => ShowsAuth(s)
      /\ Early(r) /\ (m.kind \in {"manifest", "want", "data"} => ShowsAuth(r)) => Early(s)
      /\ r # << >> => s[1] = r[1]
      /\ s # << >>
  BY <1>1, QueuedFacts, Queued
<1> HIDE DEF s
<1>3. Orderly(a, b, q, s)
  BY <1>2 DEF Both, Orderly
<1>4. Orderly(b, a, s, q)
  <2>1. Orderly(b, a, r, q)
    BY DEF Both
  <2> QED BY <1>2, <2>1 DEF Orderly
<1> QED BY <1>3, <1>4 DEF Both, s

(* A connection is closed by one end.                                       *)
Farewell(r, bye) == IF bye THEN Append(Append(r, Message("bye", 0)), Closed) ELSE Append(r, Closed)
LEMMA FarewellFacts ==
    ASSUME NEW r \in Seq(Msgs), NEW bye \in BOOLEAN
    PROVE  /\ Farewell(r, bye) \in Seq(Msgs) /\ Ends(Farewell(r, bye)) /\ (Early(r) => Early(Farewell(r, bye)))
           /\ Farewell(r, bye) # << >>
           /\ r # << >> => Farewell(r, bye)[1] = r[1]
<1>1. /\ Message("bye", 0) \in Msgs /\ Closed \in Msgs /\ Message("bye", 0).kind = "bye"
      /\ Closed.kind = "closed"
  BY DEF Message, Closed, Msgs, Kinds
<1> DEFINE s == Append(r, Message("bye", 0))
<1>2. s \in Seq(Msgs) /\ s # << >> /\ (r # << >> => s[1] = r[1]) /\ (Early(r) => Early(s))
  BY <1>1, Queued, QueuedFacts
<1> HIDE DEF s
<1>3. ASSUME NEW u \in Seq(Msgs)
      PROVE  /\ Append(u, Closed) \in Seq(Msgs) /\ Append(u, Closed) # << >> /\ Ends(Append(u, Closed))
             /\ (u # << >> => Append(u, Closed)[1] = u[1]) /\ (Early(u) => Early(Append(u, Closed)))
  BY <1>1, Queued, QueuedFacts
<1>4. CASE bye
  <2>1. Farewell(r, bye) = Append(s, Closed)
    BY <1>4 DEF Farewell, s
  <2> QED BY <1>2, <1>3, <2>1
<1>5. CASE ~bye
  <2>1. Farewell(r, bye) = Append(r, Closed)
    BY <1>5 DEF Farewell
  <2> QED BY <1>3, <2>1
<1> QED BY <1>4, <1>5

LEMMA Hangup ==
    ASSUME NEW a \in Stands, NEW b \in Stands, NEW q \in Seq(Msgs), NEW r \in Seq(Msgs), Both(a, b, q, r),
           NEW bye \in BOOLEAN, NEW s,
           s = IF a # "none" /\ b # "none" /\ ~Ends(q) /\ ~Ends(r) THEN Farewell(r, bye)
               ELSE IF b = "none" THEN << >> ELSE r
    PROVE  Both("none", b, << >>, s) /\ s \in Seq(Msgs)
<1>1. /\ Farewell(r, bye) \in Seq(Msgs) /\ Ends(Farewell(r, bye)) /\ (Early(r) => Early(Farewell(r, bye)))
      /\ Farewell(r, bye) # << >>
      /\ r # << >> => Farewell(r, bye)[1] = r[1]
  BY FarewellFacts
<1>2. Orderly(b, a, r, q) /\ Orderly(a, b, q, r)
  BY DEF Both
<1>3. Orderly("none", b, << >>, s)
  BY DEF Orderly
<1>4. Orderly(b, "none", s, << >>)
  <2>1. CASE b = "none"
    BY <2>1 DEF Orderly
  <2>2. CASE b # "none" /\ a # "none" /\ ~Ends(q) /\ ~Ends(r)
    BY <1>1, <1>2, <2>2 DEF Orderly
  <2>3. CASE b # "none" /\ ~(a # "none" /\ ~Ends(q) /\ ~Ends(r))
    <3>1. s = r /\ Ends(r)
      BY <1>2, <2>3 DEF Orderly
    <3> QED BY <1>2, <2>3, <3>1 DEF Orderly
  <2> QED BY <2>1, <2>2, <2>3
<1>5. s \in Seq(Msgs)
  BY <1>1
<1> QED BY <1>3, <1>4, <1>5 DEF Both

(* A connection begins, or breaks.                                          *)
LEMMA OneMessage ==
    ASSUME NEW m \in Msgs
    PROVE  <<m>> \in Seq(Msgs) /\ DOMAIN <<m>> = {1} /\ <<m>>[1] = m /\ <<m>> # << >>
OBVIOUS

LEMMA Beginnings ==
    /\ Both("attached", "attached", <<Hello>>, <<Hello>>)
    /\ Both("attached", "none", <<Closed>>, << >>)
    /\ \A a, b \in Stands : a # "none" /\ b # "none" => Both(a, b, <<Closed>>, <<Closed>>)
<1>1. Hello \in Msgs /\ Closed \in Msgs /\ Hello.kind = "hello" /\ Closed.kind = "closed" /\ Hello # Closed
  BY DEF Hello, Closed, Message, Msgs, Kinds
<1>2. /\ DOMAIN <<Hello>> = {1} /\ <<Hello>>[1] = Hello /\ <<Hello>> # << >>
      /\ DOMAIN <<Closed>> = {1} /\ <<Closed>>[1] = Closed /\ <<Closed>> # << >>
  BY <1>1, OneMessage
<1> DEFINE h == <<Hello>>
           c == <<Closed>>
<1> HIDE DEF h, c
<1>3. ~Ends(h) /\ Early(h) /\ h # << >> /\ h[1].kind = "hello"
  BY <1>1, <1>2 DEF Ends, Early, h
<1>4. Ends(c) /\ Early(c) /\ c # << >> /\ c[1].kind = "closed"
  BY <1>1, <1>2 DEF Ends, Early, c
<1>5. Both("attached", "attached", h, h)
  BY <1>3 DEF Both, Orderly
<1>6. Both("attached", "none", c, << >>)
  BY <1>4 DEF Both, Orderly
<1>7. \A a, b \in Stands : a # "none" /\ b # "none" => Both(a, b, c, c)
  BY <1>4 DEF Both, Orderly
<1> QED BY <1>5, <1>6, <1>7 DEF h, c

-----------------------------------------------------------------------------
(* Steps. *)

Net == [Devices -> [Devices -> Seq(Msgs)]]
Peers == [Devices -> [Devices -> Stands]]

LEMMA LinkedEnds ==
    ASSUME SyncTypes, NEW d \in Devices, NEW e \in Devices
    PROVE  Linked(d, e) <=> /\ peer[d][e] # "none" /\ peer[e][d] # "none"
                            /\ ~Ends(net[e][d]) /\ ~Ends(net[d][e])
<1>1. net[d][e] \in Seq(Msgs) /\ net[e][d] \in Seq(Msgs)
  BY DEF SyncTypes
<1> QED BY <1>1, ContainsEnds DEF Linked

LEMMA PairBoth ==
    ASSUME PairInv, NEW d \in Devices, NEW e \in Devices, d # e
    PROVE  Both(peer[d][e], peer[e][d], net[e][d], net[d][e])
BY DEF PairInv, Pair, Both

(* What is under way once a message was sent.                               *)
LEMMA SentFacts ==
    ASSUME NEW n \in Net, NEW d \in Devices, NEW S, NEW m \in Msgs
    PROVE  /\ Sent(n, d, S, m) \in Net
           /\ \A e \in Devices :
                 Sent(n, d, S, m)[d][e] = IF e \in S /\ Linked(d, e) THEN Append(n[d][e], m) ELSE n[d][e]
           /\ \A f, e \in Devices : f # d => Sent(n, d, S, m)[f][e] = n[f][e]
<1> DEFINE row == [e \in Devices |-> IF e \in S /\ Linked(d, e) THEN Append(n[d][e], m) ELSE n[d][e]]
<1>1. Sent(n, d, S, m) = [n EXCEPT ![d] = row]
  BY DEF Sent
<1>2. row \in [Devices -> Seq(Msgs)]
  <2>1. \A e \in Devices : n[d][e] \in Seq(Msgs) /\ Append(n[d][e], m) \in Seq(Msgs)
    BY Queued DEF Net
  <2> QED BY <2>1
<1>3. \A e \in Devices : row[e] = IF e \in S /\ Linked(d, e) THEN Append(n[d][e], m) ELSE n[d][e]
  OBVIOUS
<1> HIDE DEF row
<1> QED BY <1>1, <1>2, <1>3 DEF Net

(* The first message of a queue is taken.                                   *)
LEMMA TakenFacts ==
    ASSUME NEW n \in Net, NEW d \in Devices, NEW e \in Devices, NEW i \in Due(n[e][d])
    PROVE  /\ [n EXCEPT ![e][d] = RemoveAt(@, i)] \in Net
           /\ [n EXCEPT ![e][d] = RemoveAt(@, i)][e][d] = RemoveAt(n[e][d], i)
           /\ \A f, g \in Devices : f # e \/ g # d => [n EXCEPT ![e][d] = RemoveAt(@, i)][f][g] = n[f][g]
<1>1. RemoveAt(n[e][d], i) \in Seq(Msgs)
  BY Heard DEF Net
<1> QED BY <1>1 DEF Net

(* Only the connections of one device change, each in order.                *)
LEMMA PairsKept ==
    ASSUME PairInv, NEW d \in Devices, peer'[d][d] = "none",
           \A e \in Devices : e # d => Both(peer'[d][e], peer'[e][d], net'[e][d], net'[d][e]),
           \A f, g \in Devices : f # d /\ g # d => peer'[f][g] = peer[f][g] /\ net'[f][g] = net[f][g]
    PROVE  PairInv'
<1> SUFFICES ASSUME NEW f \in Devices
             PROVE  /\ peer'[f][f] = "none"
                    /\ \A g \in Devices : g # f => Orderly(peer'[f][g], peer'[g][f], net'[g][f], net'[f][g])
  BY DEF PairInv, Pair
<1>1. peer'[f][f] = "none"
  BY DEF PairInv
<1>2. ASSUME NEW g \in Devices, g # f
      PROVE  Orderly(peer'[f][g], peer'[g][f], net'[g][f], net'[f][g])
  <2>1. CASE f = d
    BY <1>2, <2>1 DEF Both
  <2>2. CASE g = d
    BY <1>2, <2>2 DEF Both
  <2>3. CASE f # d /\ g # d
    BY <1>2, <2>3 DEF PairInv, Pair
  <2> QED BY <2>1, <2>2, <2>3
<1> QED BY <1>1, <1>2

(* Only one connection changes.                                             *)
LEMMA PairKept ==
    ASSUME PairInv, NEW d \in Devices, NEW e \in Devices, d # e,
           Both(peer'[d][e], peer'[e][d], net'[e][d], net'[d][e]),
           \A f, g \in Devices : ~(f = d /\ g = e) /\ ~(f = e /\ g = d) =>
                 peer'[f][g] = peer[f][g] /\ net'[f][g] = net[f][g]
    PROVE  PairInv'
<1>1. peer'[d][d] = "none"
  BY DEF PairInv
<1>2. ASSUME NEW f \in Devices, f # d PROVE Both(peer'[d][f], peer'[f][d], net'[f][d], net'[d][f])
  <2>1. CASE f = e
    BY <2>1
  <2>2. CASE f # e
    <3>1. /\ peer'[d][f] = peer[d][f] /\ peer'[f][d] = peer[f][d]
          /\ net'[f][d] = net[f][d] /\ net'[d][f] = net[d][f]
      BY <1>2, <2>2
    <3> QED BY <1>2, <3>1, PairBoth
  <2> QED BY <2>1, <2>2
<1>3. \A f, g \in Devices : f # d /\ g # d => peer'[f][g] = peer[f][g] /\ net'[f][g] = net[f][g]
  OBVIOUS
<1> QED BY <1>1, <1>2, <1>3, PairsKept

LEMMA LoopsKept ==
    ASSUME LoopInv, UNCHANGED <<running, hubs, loop>>,
           \A f, g \in Devices : peer'[f][g] = "none" <=> peer[f][g] = "none"
    PROVE  LoopInv'
<1> SUFFICES ASSUME NEW f \in Devices PROVE LoopOk(f)'
  BY DEF LoopInv
<1>1. LoopOk(f)
  BY DEF LoopInv
<1> QED BY <1>1 DEF LoopOk

(* A message of a peer is handled, and answered or not.                     *)
MayAnswer(d, e, c, m, S) ==
    /\ peer[d][e] # "none" /\ net[e][d][1].kind # "closed" /\ (S = {} \/ S = {e})
    /\ c \in {"greeted", "authed"} /\ m \in Msgs /\ m.kind \in Proofs
    /\ c = "greeted" => net[e][d][1].kind = "hello" /\ peer[d][e] # "authed"
    /\ c = "authed" => peer[d][e] \in {"greeted", "authed"}
    /\ m.kind # "auth" => peer[d][e] \in {"greeted", "authed"}
    /\ peer[d][e] = "attached" => S = {e} /\ m.kind = "auth"
Answers(d, e, i, c, m, S) ==
    /\ peer' = [peer EXCEPT ![d][e] = c]
    /\ net' = Sent([net EXCEPT ![e][d] = RemoveAt(@, i)], d, S, m)
PairsGoOn ==
    /\ PairInv' /\ peer' \in Peers /\ net' \in Net
    /\ \A f, g \in Devices : peer'[f][g] = "none" <=> peer[f][g] = "none"

LEMMA PairAnswered ==
    ASSUME SyncInv, NEW d \in Devices, NEW e \in Devices, d # e,
           NEW i \in Due(net[e][d]), NEW c, NEW m, NEW S, MayAnswer(d, e, c, m, S),
           Answers(d, e, i, c, m, S)
    PROVE  PairsGoOn
<1>0. /\ peer[d][e] # "none" /\ net[e][d][1].kind # "closed" /\ (S = {} \/ S = {e})
      /\ c \in {"greeted", "authed"} /\ m \in Msgs /\ m.kind \in Proofs
      /\ c = "greeted" => net[e][d][1].kind = "hello" /\ peer[d][e] # "authed"
      /\ c = "authed" => peer[d][e] \in {"greeted", "authed"}
      /\ m.kind # "auth" => peer[d][e] \in {"greeted", "authed"}
      /\ peer[d][e] = "attached" => S = {e} /\ m.kind = "auth"
      /\ peer' = [peer EXCEPT ![d][e] = c]
      /\ net' = Sent([net EXCEPT ![e][d] = RemoveAt(@, i)], d, S, m)
  BY DEF MayAnswer, Answers
<1>1. net \in Net /\ peer \in Peers /\ SyncTypes /\ PairInv
  BY DEF SyncInv, SyncTypes, Net, Peers
<1> DEFINE n == [net EXCEPT ![e][d] = RemoveAt(@, i)]
<1>2. /\ n \in Net /\ n[e][d] = RemoveAt(net[e][d], i)
      /\ \A f, g \in Devices : f # e \/ g # d => n[f][g] = net[f][g]
  BY <1>1, TakenFacts
<1>3. net' = Sent(n, d, S, m)
  BY <1>0
<1> HIDE DEF n
<1>4. /\ net' \in Net
      /\ \A f \in Devices : net'[d][f] = IF f \in S /\ Linked(d, f) THEN Append(n[d][f], m) ELSE n[d][f]
      /\ \A g, f \in Devices : g # d => net'[g][f] = n[g][f]
  <2>1. /\ Sent(n, d, S, m) \in Net
        /\ \A f \in Devices :
              Sent(n, d, S, m)[d][f] = IF f \in S /\ Linked(d, f) THEN Append(n[d][f], m) ELSE n[d][f]
        /\ \A g, f \in Devices : g # d => Sent(n, d, S, m)[g][f] = n[g][f]
    BY <1>0, <1>2, SentFacts
  <2> QED BY <1>3, <2>1
<1>5. c \in Stands
  BY <1>0 DEF Stands
<1>6. /\ peer' \in Peers /\ peer'[d][e] = c
      /\ \A f, g \in Devices : f # d \/ g # e => peer'[f][g] = peer[f][g]
  BY <1>0, <1>1, <1>5 DEF Peers
<1> DEFINE a == peer[d][e]
           b == peer[e][d]
           q == net[e][d]
           r == net[d][e]
           s == net'[d][e]
<1>7. /\ a \in Stands /\ b \in Stands /\ q \in Seq(Msgs) /\ r \in Seq(Msgs) /\ Both(a, b, q, r)
  BY <1>1, PairBoth DEF Peers, Net
<1>8. s = IF S = {e} /\ b # "none" /\ ~Ends(q) /\ ~Ends(r) THEN Append(r, m) ELSE r
  <2>1. s = IF e \in S /\ Linked(d, e) THEN Append(n[d][e], m) ELSE n[d][e]
    BY <1>4
  <2>2. n[d][e] = r
    BY <1>2
  <2>3. Linked(d, e) <=> b # "none" /\ ~Ends(q) /\ ~Ends(r)
    BY <1>0, <1>1, LinkedEnds
  <2>4. e \in S <=> S = {e}
    BY <1>0
  <2> HIDE DEF b, q, r, s
  <2> QED BY <2>1, <2>2, <2>3, <2>4
<1>9. Both(c, b, RemoveAt(q, i), s)
  <2>1. /\ a # "none" /\ q[1].kind # "closed"
        /\ c = "greeted" => q[1].kind = "hello" /\ a # "authed"
        /\ c = "authed" => a \in {"greeted", "authed"}
        /\ m.kind # "auth" => a \in {"greeted", "authed"}
        /\ a = "attached" => S = {e} /\ m.kind = "auth"
        /\ i \in Due(q) /\ c \in {"greeted", "authed"} /\ m \in Msgs /\ m.kind \in Proofs
    BY <1>0
  <2> HIDE DEF a, b, q, r, s
  <2> QED BY <1>7, <1>8, <2>1, Answered
<1>10. Both(peer'[d][e], peer'[e][d], net'[e][d], net'[d][e])
  BY <1>2, <1>4, <1>6, <1>9
<1>11. \A f, g \in Devices : ~(f = d /\ g = e) /\ ~(f = e /\ g = d) =>
          peer'[f][g] = peer[f][g] /\ net'[f][g] = net[f][g]
  <2> SUFFICES ASSUME NEW f \in Devices, NEW g \in Devices, ~(f = d /\ g = e), ~(f = e /\ g = d)
               PROVE  peer'[f][g] = peer[f][g] /\ net'[f][g] = net[f][g]
    OBVIOUS
  <2>1. peer'[f][g] = peer[f][g]
    BY <1>6
  <2>2. n[f][g] = net[f][g]
    BY <1>2
  <2>3. net'[f][g] = n[f][g]
    <3>1. CASE f = d
      <4>1. net'[d][g] = IF g \in S /\ Linked(d, g) THEN Append(n[d][g], m) ELSE n[d][g]
        BY <1>4
      <4>2. g \notin S
        BY <1>0, <3>1
      <4> QED BY <3>1, <4>1, <4>2
    <3>2. CASE f # d
      BY <1>4, <3>2
    <3> QED BY <3>1, <3>2
  <2> QED BY <2>1, <2>2, <2>3
<1>12. PairInv'
  BY <1>1, <1>10, <1>11, PairKept
<1>13. \A f, g \in Devices : peer'[f][g] = "none" <=> peer[f][g] = "none"
  BY <1>0, <1>6
<1> QED BY <1>4, <1>6, <1>12, <1>13 DEF PairsGoOn

LEMMA DataToAll ==
    ASSUME SyncInv, NEW d \in Devices, NEW S, S \subseteq AuthedBy(d), NEW m \in Msgs, m.kind = "data",
           net' = Sent(net, d, S, m), UNCHANGED peer
    PROVE  PairInv' /\ net' \in Net
<1>1. net \in Net /\ peer \in Peers /\ SyncTypes /\ PairInv
  BY DEF SyncInv, SyncTypes, Net, Peers
<1>2. /\ net' \in Net
      /\ \A f \in Devices : net'[d][f] = IF f \in S /\ Linked(d, f) THEN Append(net[d][f], m) ELSE net[d][f]
      /\ \A g, f \in Devices : g # d => net'[g][f] = net[g][f]
  <2>1. /\ Sent(net, d, S, m) \in Net
        /\ \A f \in Devices :
              Sent(net, d, S, m)[d][f] = IF f \in S /\ Linked(d, f) THEN Append(net[d][f], m) ELSE net[d][f]
        /\ \A g, f \in Devices : g # d => Sent(net, d, S, m)[g][f] = net[g][f]
    BY <1>1, SentFacts
  <2> QED BY <2>1
<1>3. ASSUME NEW e \in Devices, e # d PROVE Both(peer'[d][e], peer'[e][d], net'[e][d], net'[d][e])
  <2> DEFINE a == peer[d][e]
             b == peer[e][d]
             q == net[e][d]
             r == net[d][e]
  <2>1. /\ a \in Stands /\ b \in Stands /\ q \in Seq(Msgs) /\ r \in Seq(Msgs) /\ Both(a, b, q, r)
    BY <1>1, <1>3, PairBoth DEF Peers, Net
  <2>2. peer'[d][e] = a /\ peer'[e][d] = b /\ net'[e][d] = q
    BY <1>2, <1>3
  <2>3. net'[d][e] = IF e \in S /\ Linked(d, e) THEN Append(r, m) ELSE r
    BY <1>2
  <2>4. CASE e \in S /\ Linked(d, e)
    <3>1. a = "authed" /\ b # "none" /\ ~Ends(q) /\ ~Ends(r)
      BY <1>1, <2>4, LinkedEnds DEF AuthedBy
    <3> HIDE DEF a, b, q, r
    <3>2. Both(a, b, q, Append(r, m))
      BY <2>1, <3>1, DataSent
    <3> QED BY <2>2, <2>3, <2>4, <3>2
  <2>5. CASE ~(e \in S /\ Linked(d, e))
    <3> HIDE DEF a, b, q, r
    <3> QED BY <2>1, <2>2, <2>3, <2>5
  <2> QED BY <2>4, <2>5
<1>4. peer'[d][d] = "none"
  BY <1>1 DEF PairInv
<1>5. \A f, g \in Devices : f # d /\ g # d => peer'[f][g] = peer[f][g] /\ net'[f][g] = net[f][g]
  BY <1>2
<1>6. PairInv'
  BY <1>1, <1>3, <1>4, <1>5, PairsKept
<1> QED BY <1>2, <1>6

LEMMA TypesStay ==
    ASSUME SyncTypes, UNCHANGED <<setup, copy, running, hubs, address, push>>, peer' \in Peers,
           net' \in Net, loop' \in [Devices -> Loops], jobs' \in [Devices -> SUBSET Job]
    PROVE  SyncTypes'
BY DEF SyncTypes, Peers, Net

(* A connection that one end closes.                                        *)
LEMMA DetachKeeps ==
    ASSUME SyncInv, NEW d \in Devices, NEW e \in Devices, d # e, Detach(d, e, FALSE),
           d \in running, peer[d][e] # "none",
           UNCHANGED <<setup, copy, running, hubs, address, push>>
    PROVE  /\ SyncInv' /\ peer'[d][e] = "none"
           /\ \A f, g \in Devices : f # d \/ g # e => peer'[f][g] = peer[f][g]
           /\ \A f, g \in Devices : ~(f = d /\ g = e) /\ ~(f = e /\ g = d) => net'[f][g] = net[f][g]
<1>1. net \in Net /\ peer \in Peers /\ SyncTypes /\ PairInv /\ LoopInv /\ JobInv
  BY DEF SyncInv, SyncTypes, Net, Peers
<1> DEFINE a == peer[d][e]
           b == peer[e][d]
           q == net[e][d]
           r == net[d][e]
           s == IF b = "none" THEN << >> ELSE IF ~Linked(d, e) THEN r ELSE Append(r, Closed)
<1>2. /\ a \in Stands /\ b \in Stands /\ q \in Seq(Msgs) /\ r \in Seq(Msgs) /\ Both(a, b, q, r)
  BY <1>1, PairBoth DEF Peers, Net
<1>3. peer' = [peer EXCEPT ![d][e] = "none"]
  BY DEF Detach
<1>4. net' = [net EXCEPT ![e][d] = << >>, ![d][e] = s]
  BY <1>1 DEF Detach, Net
<1>5. Linked(d, e) <=> a # "none" /\ b # "none" /\ ~Ends(q) /\ ~Ends(r)
  BY <1>1, LinkedEnds
<1>6. s = IF a # "none" /\ b # "none" /\ ~Ends(q) /\ ~Ends(r) THEN Farewell(r, FALSE)
          ELSE IF b = "none" THEN << >> ELSE r
  <2> HIDE DEF a, b, q, r
  <2> QED BY <1>5 DEF Farewell
<1>7. Both("none", b, << >>, s) /\ s \in Seq(Msgs)
  <2> HIDE DEF a, b, q, r, s
  <2> QED BY <1>2, <1>6, Hangup
<1> HIDE DEF s
<1>8. /\ peer' \in Peers /\ peer'[d][e] = "none"
      /\ \A f, g \in Devices : f # d \/ g # e => peer'[f][g] = peer[f][g]
  BY <1>1, <1>3 DEF Peers, Stands
<1>9. /\ net' \in Net /\ net'[d][e] = s /\ net'[e][d] = << >>
      /\ \A f, g \in Devices : ~(f = d /\ g = e) /\ ~(f = e /\ g = d) => net'[f][g] = net[f][g]
  <2>1. << >> \in Seq(Msgs)
    OBVIOUS
  <2> QED BY <1>1, <1>4, <1>7, <2>1 DEF Net
<1>10. PairInv'
  <2>1. Both(peer'[d][e], peer'[e][d], net'[e][d], net'[d][e])
    BY <1>7, <1>8, <1>9
  <2>2. \A f, g \in Devices : ~(f = d /\ g = e) /\ ~(f = e /\ g = d) =>
            peer'[f][g] = peer[f][g] /\ net'[f][g] = net[f][g]
    BY <1>8, <1>9
  <2> QED BY <1>1, <2>1, <2>2, PairKept
<1>11. loop' = IF d \in hubs THEN loop ELSE [loop EXCEPT ![d] = "retry"]
  BY DEF Detach
<1>12. loop' \in [Devices -> Loops] /\ jobs' \in [Devices -> SUBSET Job] /\ JobInv'
  <2>1. loop' \in [Devices -> Loops]
    BY <1>1, <1>11 DEF SyncTypes, Loops
  <2>2. jobs' = [jobs EXCEPT ![d] = Orphan(@, e)]
    BY DEF Detach
  <2>3. jobs \in [Devices -> SUBSET Job]
    BY <1>1 DEF SyncTypes
  <2>4. \A j \in Job : [j EXCEPT !.from = NoDevice] \in Job /\ [j EXCEPT !.from = NoDevice].from = NoDevice
    BY DEF Job
  <2>5. ASSUME NEW js \in SUBSET Job
        PROVE  Orphan(js, e) \in SUBSET Job /\ \A j \in Orphan(js, e) : j.from # e /\ (j \in js \/ j.from = NoDevice)
    <3>1. NoDevice # e
      BY SyncConfsAssumption
    <3> QED BY <2>4, <3>1 DEF Orphan
  <2> HIDE DEF Orphan
  <2>6. jobs' \in [Devices -> SUBSET Job]
    BY <2>2, <2>3, <2>5
  <2>7. jobs'[d] = Orphan(jobs[d], e) /\ \A f \in Devices : f # d => jobs'[f] = jobs[f]
    BY <2>2, <2>3
  <2>8. ASSUME NEW f \in Devices, NEW j \in jobs'[f], j.from \in Devices PROVE peer'[f][j.from] # "none"
    <3>1. j \in jobs[f] /\ (f = d => j.from # e)
      BY <2>3, <2>5, <2>7, <2>8, SyncConfsAssumption
    <3> QED BY <1>1, <1>8, <2>8, <3>1 DEF JobInv
  <2> QED BY <2>1, <2>6, <2>8 DEF JobInv
<1>13. LoopInv'
  <2> SUFFICES ASSUME NEW f \in Devices PROVE LoopOk(f)'
    BY DEF LoopInv
  <2>1. LoopOk(f) /\ LoopOk(d) /\ loop \in [Devices -> Loops]
    BY <1>1 DEF LoopInv, SyncTypes
  <2>2. CASE f = d /\ d \in hubs
    <3>1. loop[d] = "connected" /\ loop' = loop
      BY <1>11, <2>1, <2>2 DEF LoopOk
    <3> QED BY <2>1, <2>2, <3>1 DEF LoopOk
  <2>3. CASE f = d /\ d \notin hubs
    <3>1. loop'[d] = "retry"
      BY <1>11, <2>1, <2>3
    <3>2. loop[d] = "connected"
      BY <2>1 DEF LoopOk
    <3>3. \A g \in Devices : g # e => peer[d][g] = "none"
      BY <2>1, <2>3, <3>2 DEF LoopOk
    <3>4. \A g \in Devices : peer'[d][g] = "none"
      BY <1>8, <3>3
    <3> QED BY <2>3, <3>1, <3>4 DEF LoopOk
  <2>4. CASE f # d
    <3>1. loop'[f] = loop[f] /\ \A g \in Devices : peer'[f][g] = peer[f][g]
      BY <1>8, <1>11, <2>1, <2>4
    <3> QED BY <2>1, <3>1 DEF LoopOk
  <2> QED BY <2>2, <2>3, <2>4
<1> QED BY <1>1, <1>8, <1>9, <1>10, <1>12, <1>13, TypesStay DEF SyncInv

LEMMA ByeStep ==
    ASSUME SyncInv, NEW d \in Devices, NEW e \in Devices, d # e, HandleBye(d, e) PROVE SyncInv'
<1>1. /\ Detach(d, e, FALSE) /\ d \in running /\ peer[d][e] # "none"
      /\ UNCHANGED <<setup, copy, running, hubs, address, push>>
  BY DEF HandleBye, Received
<1> QED BY <1>1, DetachKeeps

-----------------------------------------------------------------------------
(* What a device tells of its copy. *)

News == {"data", "manifest"}
Carries(q, v)  == \E i \in DOMAIN q : q[i].kind \in News /\ q[i].version >= v
Wants(q)       == \E i \in DOMAIN q : q[i].kind = "want"
Truthful(q, v) == \A i \in DOMAIN q : q[i].kind \in News => q[i].version <= v
Applies(js, v) == \E j \in js : j.put /\ j.version >= v

(* Data that are applied are written exactly if they are newer than the copy, and
   a peer they came from has them.  What e lacks of what d has is still to be
   pushed, under way, being applied, or wanted.                             *)
JobsOk(d) == \A j \in jobs[d] : /\ j.put <=> j.version > copy[d]
                                /\ j.from \in Devices => j.version <= copy[j.from]
Open(d, e) == peer[d][e] = "authed" /\ peer[e][d] # "none" /\ ~Ends(net[d][e])
Brings(d, e) ==
    \/ copy[d] <= copy[e] \/ d \in push \/ Applies(jobs[e], copy[d])
    \/ Carries(net[d][e], copy[d]) \/ Wants(net[e][d])
TellsOf(d, e) == Truthful(net[d][e], copy[d]) /\ (Open(d, e) => Brings(d, e))
NewsInv ==
    /\ \A d \in Devices : seen.best[d] = copy[d] /\ JobsOk(d)
    /\ \A d, e \in Devices : d # e => TellsOf(d, e)
Seen == [best : [Devices -> Nat], overlap : BOOLEAN]
ReachInv == seen \in Seen /\ (~seen.overlap => NewsInv)

(* One more message at the end, or one less at the front.                   *)
LEMMA NewsQueued ==
    ASSUME NEW q \in Seq(Msgs), NEW m \in Msgs, NEW v \in Nat
    PROVE  /\ Carries(q, v) => Carries(Append(q, m), v)
           /\ m.kind \in News /\ m.version >= v => Carries(Append(q, m), v)
           /\ Wants(q) => Wants(Append(q, m))
           /\ m.kind = "want" => Wants(Append(q, m))
           /\ Truthful(q, v) /\ (m.kind \in News => m.version <= v) => Truthful(Append(q, m), v)
<1> DEFINE p == Append(q, m)
<1>1. /\ p \in Seq(Msgs) /\ DOMAIN p = 1 .. Len(q) + 1 /\ DOMAIN q = 1 .. Len(q) /\ Len(q) \in Nat
      /\ p[Len(q) + 1] = m /\ \A i \in DOMAIN q : i \in DOMAIN p /\ p[i] = q[i]
  BY Queued
<1> HIDE DEF p
<1>2. \A i \in DOMAIN p : i \in DOMAIN q \/ i = Len(q) + 1
  BY <1>1
<1>3. Len(q) + 1 \in DOMAIN p
  BY <1>1
<1>4. (Carries(q, v) => Carries(p, v)) /\ (m.kind \in News /\ m.version >= v => Carries(p, v))
  BY <1>1, <1>3 DEF Carries
<1>5. (Wants(q) => Wants(p)) /\ (m.kind = "want" => Wants(p))
  BY <1>1, <1>3 DEF Wants
<1>6. Truthful(q, v) /\ (m.kind \in News => m.version <= v) => Truthful(p, v)
  BY <1>1, <1>2 DEF Truthful
<1> QED BY <1>4, <1>5, <1>6 DEF p

LEMMA NewsHeard ==
    ASSUME NEW q \in Seq(Msgs), NEW i \in Due(q), NEW v \in Nat
    PROVE  /\ Carries(q, v) => Carries(RemoveAt(q, i), v) \/ (q[1].kind \in News /\ q[1].version >= v)
           /\ Wants(q) => Wants(RemoveAt(q, i)) \/ q[1].kind = "want"
           /\ Truthful(q, v) => Truthful(RemoveAt(q, i), v) /\ (q[1].kind \in News => q[1].version <= v)
<1> DEFINE p == RemoveAt(q, i)
<1>1. /\ q # << >> /\ p \in Seq(Msgs) /\ Len(p) = Len(q) - 1
      /\ \A j \in DOMAIN p : j + 1 \in DOMAIN q /\ p[j] = q[j + 1]
  BY Heard
<1> HIDE DEF p
<1>2. Len(q) \in Nat /\ DOMAIN q = 1 .. Len(q) /\ DOMAIN p = 1 .. Len(q) - 1 /\ 1 \in DOMAIN q
  BY <1>1, LenProperties
<1>3. \A j \in DOMAIN q : j = 1 \/ (j - 1 \in DOMAIN p /\ q[j] = p[j - 1])
  <2> SUFFICES ASSUME NEW j \in DOMAIN q, j # 1 PROVE j - 1 \in DOMAIN p /\ q[j] = p[j - 1]
    OBVIOUS
  <2>1. j - 1 \in DOMAIN p /\ (j - 1) + 1 = j
    BY <1>2
  <2> QED BY <1>1, <2>1
<1>4. Carries(q, v) => Carries(p, v) \/ (q[1].kind \in News /\ q[1].version >= v)
  BY <1>3 DEF Carries
<1>5. Wants(q) => Wants(p) \/ q[1].kind = "want"
  BY <1>3 DEF Wants
<1>6. Truthful(q, v) => Truthful(p, v) /\ (q[1].kind \in News => q[1].version <= v)
  BY <1>1, <1>2 DEF Truthful
<1> QED BY <1>4, <1>5, <1>6 DEF p

LEMMA TruthfulLater ==
    ASSUME NEW q \in Seq(Msgs), NEW v \in Nat, NEW w \in Nat, v <= w, Truthful(q, v)
    PROVE  Truthful(q, w)
<1>1. \A i \in DOMAIN q : q[i] \in Msgs
  BY LenProperties, ElementOfSeq
<1>2. \A i \in DOMAIN q : q[i].version \in Nat
  BY <1>1 DEF Msgs
<1> QED BY <1>2 DEF Truthful

-----------------------------------------------------------------------------
(* A message of a peer that is handled, all that follows from it.           *)

HandledJobs(d, e, m, S) ==
    /\ jobs' \in [Devices -> SUBSET Job] /\ jobs[d] \subseteq jobs'[d]
    /\ \A f \in Devices : f # d => jobs'[f] = jobs[f]
    /\ \A j \in jobs'[d] \ jobs[d] :
          /\ net[e][d][1].kind = "data" /\ j.from = e /\ j.version = net[e][d][1].version
          /\ j.put <=> j.version > copy[d]
    /\ net[e][d][1].kind \in News =>
          \/ net[e][d][1].version <= copy[d] \/ Applies(jobs'[d], net[e][d][1].version)
          \/ S = {e} /\ m.kind = "want"
HandledNews(d, e, c, m, S) ==
    /\ net[e][d][1].kind = "want" => S = {e} /\ m = Message("data", copy[d])
    /\ c = "authed" /\ peer[d][e] # "authed" => S = {e} /\ m = Manifest(d)
    /\ S = {e} /\ m.kind \in News => m.version = copy[d]
Handled(d, e, i, c, m, S) ==
    /\ MayAnswer(d, e, c, m, S) /\ Answers(d, e, i, c, m, S)
    /\ UNCHANGED <<setup, copy, running, hubs, address, loop, push, seen>>
    /\ HandledJobs(d, e, m, S) /\ HandledNews(d, e, c, m, S)

LEMMA HandledKeeps ==
    ASSUME SyncInv, NEW d \in Devices, NEW e \in Devices, d # e, NEW i \in Due(net[e][d]),
           NEW c, NEW m, NEW S, Handled(d, e, i, c, m, S)
    PROVE  SyncInv' /\ PairsGoOn
<1>1. net \in Net /\ peer \in Peers /\ SyncTypes /\ PairInv /\ LoopInv /\ JobInv
  BY DEF SyncInv, SyncTypes, Net, Peers
<1>2. /\ MayAnswer(d, e, c, m, S) /\ Answers(d, e, i, c, m, S)
      /\ UNCHANGED <<setup, copy, running, hubs, address, loop, push, seen>>
      /\ HandledJobs(d, e, m, S)
  BY DEF Handled
<1>3. PairsGoOn
  BY <1>2, PairAnswered
<1>4. LoopInv'
  BY <1>1, <1>2, <1>3, LoopsKept DEF PairsGoOn
<1>5. UNCHANGED <<setup, copy, running, hubs, address, push>> /\ UNCHANGED loop
  BY <1>2
<1>6. SyncTypes'
  BY <1>1, <1>2, <1>3, <1>5, TypesStay DEF SyncTypes, PairsGoOn, HandledJobs
<1>7. JobInv'
  <2> SUFFICES ASSUME NEW f \in Devices, NEW j \in jobs'[f], j.from \in Devices
               PROVE  peer'[f][j.from] # "none"
    BY DEF JobInv
  <2>1. peer[d][e] # "none"
    BY <1>2 DEF MayAnswer
  <2>2. j \in jobs[f] \/ (f = d /\ j.from = e)
    BY <1>2 DEF HandledJobs
  <2>3. peer[f][j.from] # "none"
    BY <1>1, <2>1, <2>2 DEF JobInv
  <2> QED BY <1>3, <2>3 DEF PairsGoOn
<1> QED BY <1>3, <1>4, <1>6, <1>7 DEF SyncInv, PairsGoOn

(* What is not expected would close a connection; it never comes.           *)
LEMMA NothingEarly ==
    ASSUME SyncInv, NEW d \in Devices, NEW e \in Devices, d # e, NEW i \in Due(net[e][d]),
           peer[d][e] # "none"
    PROVE  /\ net[e][d][i] = net[e][d][1] /\ net[e][d][1] \in Msgs
           /\ net[e][d][i].kind \in Proofs => peer[d][e] # "attached"
           /\ net[e][d][i].kind \in {"manifest", "want", "data"} => peer[d][e] = "authed"
<1>1. net[e][d] \in Seq(Msgs) /\ peer[d][e] \in Stands /\ Orderly(peer[d][e], peer[e][d], net[e][d], net[d][e])
  BY DEF SyncInv, SyncTypes, PairInv, Pair
<1>2. i = 1 /\ net[e][d][1] \in Msgs
  BY <1>1, Heard
<1>3. Early(net[e][d]) => net[e][d][1].kind \notin {"manifest", "want", "data"}
  BY <1>1, HeardFacts
<1> QED BY <1>1, <1>2, <1>3 DEF Orderly, Stands, Proofs

SomeHandled(d, e) ==
    \E i \in Due(net[e][d]), c \in {"greeted", "authed"}, m \in Msgs, S \in {{}, {e}} :
        Handled(d, e, i, c, m, S)

LEMMA MessageFacts ==
    /\ \A kind \in Kinds, v \in Nat :
          Message(kind, v) \in Msgs /\ Message(kind, v).kind = kind /\ Message(kind, v).version = v
    /\ Proofs \subseteq Kinds /\ News \subseteq Proofs
BY DEF Message, Msgs, Kinds, Proofs, News

LEMMA HelloStep ==
    ASSUME SyncInv, NEW d \in Devices, NEW e \in Devices, d # e, HandleHello(d, e)
    PROVE  SomeHandled(d, e)
<1>1. net \in Net /\ jobs \in [Devices -> SUBSET Job]
  BY DEF SyncInv, SyncTypes, Net
<1> DEFINE c == IF peer[d][e] = "authed" THEN "authed" ELSE "greeted"
           m == Message("auth", 0)
           S == {e}
<1>2. PICK i \in Due(net[e][d]) :
         /\ net[e][d][i].kind = "hello" /\ peer' = [peer EXCEPT ![d][e] = c]
         /\ net' = Sent([net EXCEPT ![e][d] = RemoveAt(@, i)], d, {e}, m)
  BY DEF HandleHello, Received
<1>3. /\ peer[d][e] # "none"
      /\ UNCHANGED <<setup, copy, running, hubs, address, loop, push, jobs, seen>>
  BY DEF HandleHello, Received
<1>4. net[e][d][1].kind = "hello"
  BY <1>1, <1>2, Heard DEF Net
<1>5. m \in Msgs /\ m.kind = "auth" /\ m.kind \in Proofs /\ m.kind \notin News
  BY DEF Message, Msgs, Kinds, Proofs, News
<1>6. c \in {"greeted", "authed"} /\ (c = "authed" <=> peer[d][e] = "authed")
  OBVIOUS
<1> HIDE DEF c, m, S
<1>7. Answers(d, e, i, c, m, S) /\ S = {e}
  BY <1>2 DEF S, Answers
<1>8. MayAnswer(d, e, c, m, S)
  BY <1>3, <1>4, <1>5, <1>6, <1>7 DEF MayAnswer
<1>9. HandledNews(d, e, c, m, S)
  BY <1>4, <1>5, <1>6 DEF HandledNews
<1>10. HandledJobs(d, e, m, S)
  <2>1. jobs' = jobs
    BY <1>3
  <2> QED BY <1>1, <1>4, <2>1 DEF HandledJobs, News
<1>11. UNCHANGED <<setup, copy, running, hubs, address, loop, push, seen>>
  BY <1>3
<1>12. Handled(d, e, i, c, m, S)
  BY <1>7, <1>8, <1>9, <1>10, <1>11 DEF Handled
<1> QED BY <1>5, <1>6, <1>7, <1>12 DEF SomeHandled

LEMMA AuthStep ==
    ASSUME SyncInv, NEW d \in Devices, NEW e \in Devices, d # e, HandleAuth(d, e)
    PROVE  SomeHandled(d, e)
<1>1. net \in Net /\ peer \in Peers /\ jobs \in [Devices -> SUBSET Job] /\ copy[d] \in Nat
  BY DEF SyncInv, SyncTypes, Net, Peers
<1>2. PICK i \in Due(net[e][d]) :
         /\ net[e][d][i].kind = "auth"
         /\ IF peer[d][e] = "attached" THEN Detach(d, e, TRUE)
            ELSE /\ peer' = [peer EXCEPT ![d][e] = "authed"]
                 /\ net' = Sent([net EXCEPT ![e][d] = RemoveAt(@, i)], d, {e}, Manifest(d))
                 /\ UNCHANGED <<jobs, loop>>
  BY DEF HandleAuth, Received
<1>3. peer[d][e] # "none" /\ UNCHANGED <<setup, copy, running, hubs, address, push, seen>>
  BY DEF HandleAuth, Received
<1>4. net[e][d][1].kind = "auth" /\ peer[d][e] \in {"greeted", "authed"}
  BY <1>1, <1>2, <1>3, NothingEarly DEF Proofs, Peers, Stands
<1> DEFINE m == Manifest(d)
           S == {e}
<1>5. m \in Msgs /\ m.kind = "manifest" /\ m.kind \in Proofs /\ m.version = copy[d]
  BY <1>1, MessageFacts DEF Manifest, Kinds, Proofs
<1>6. Answers(d, e, i, "authed", m, S)
  BY <1>2, <1>4 DEF Answers
<1>7. jobs' = jobs /\ loop' = loop
  BY <1>2, <1>4
<1>8. S = {e} /\ m = Manifest(d) /\ S \in {{}, {e}}
  OBVIOUS
<1> HIDE DEF m, S
<1>9. MayAnswer(d, e, "authed", m, S)
  BY <1>3, <1>4, <1>5, <1>8 DEF MayAnswer
<1>10. HandledNews(d, e, "authed", m, S)
  BY <1>4, <1>5, <1>8 DEF HandledNews
<1>11. HandledJobs(d, e, m, S)
  BY <1>1, <1>4, <1>7 DEF HandledJobs, News
<1>12. UNCHANGED <<setup, copy, running, hubs, address, loop, push, seen>>
  BY <1>3, <1>7
<1>13. Handled(d, e, i, "authed", m, S)
  BY <1>6, <1>9, <1>10, <1>11, <1>12 DEF Handled
<1> QED BY <1>5, <1>8, <1>13 DEF SomeHandled

(* Whoever sends what needs a proof has proved itself.                      *)
LEMMA Taken ==
    ASSUME SyncInv, NEW d \in Devices, NEW e \in Devices, d # e, NEW i \in Due(net[e][d]), peer[d][e] # "none",
           net[e][d][i].kind \in {"manifest", "want", "data"},
           NEW n, n = [net EXCEPT ![e][d] = RemoveAt(@, i)]
    PROVE  /\ peer[d][e] = "authed" /\ peer = [peer EXCEPT ![d][e] = "authed"]
           /\ n = Sent(n, d, {}, Message("data", 0))
<1>0. net \in Net /\ peer \in Peers
  BY DEF SyncInv, SyncTypes, Net, Peers
<1>1. peer[d][e] = "authed"
  BY NothingEarly
<1>2. n \in Net
  BY <1>0, TakenFacts
<1>3. peer = [peer EXCEPT ![d][e] = "authed"]
  BY <1>0, <1>1 DEF Peers
<1>4. [f \in Devices |-> IF f \in {} /\ Linked(d, f) THEN Append(n[d][f], Message("data", 0))
                         ELSE n[d][f]] = n[d]
  BY <1>2 DEF Net
<1>5. [n EXCEPT ![d] = n[d]] = n
  BY <1>2 DEF Net
<1>6. n = Sent(n, d, {}, Message("data", 0))
  BY <1>4, <1>5 DEF Sent
<1> QED BY <1>1, <1>3, <1>6

LEMMA ManifestStep ==
    ASSUME SyncInv, NEW d \in Devices, NEW e \in Devices, d # e, HandleManifest(d, e)
    PROVE  SomeHandled(d, e)
<1>1. net \in Net /\ peer \in Peers /\ jobs \in [Devices -> SUBSET Job] /\ copy[d] \in Nat
  BY DEF SyncInv, SyncTypes, Net, Peers
<1>2. PICK i \in Due(net[e][d]) :
         /\ net[e][d][i].kind = "manifest"
         /\ IF peer[d][e] # "authed" THEN Detach(d, e, TRUE)
            ELSE /\ net' = IF net[e][d][i].version > copy[d]
                           THEN Sent([net EXCEPT ![e][d] = RemoveAt(@, i)], d, {e}, Message("want", 0))
                           ELSE [net EXCEPT ![e][d] = RemoveAt(@, i)]
                 /\ UNCHANGED <<jobs, loop, peer>>
  BY DEF HandleManifest, Proven, Received
<1>3. peer[d][e] # "none" /\ UNCHANGED <<setup, copy, running, hubs, address, push, seen>>
  BY DEF HandleManifest, Proven, Received
<1> DEFINE n == [net EXCEPT ![e][d] = RemoveAt(@, i)]
           v == net[e][d][1].version
<1>4. peer[d][e] = "authed" /\ peer = [peer EXCEPT ![d][e] = "authed"] /\ n = Sent(n, d, {}, Message("data", 0))
  BY <1>2, <1>3, Taken
<1>5. UNCHANGED <<jobs, loop, peer>>
  BY <1>2, <1>4
<1>6. net[e][d][1].kind = "manifest" /\ v \in Nat /\ net[e][d][i].version = v
  BY <1>2, <1>3, NothingEarly DEF Msgs
<1>7. net' = IF v > copy[d] THEN Sent(n, d, {e}, Message("want", 0)) ELSE n
  BY <1>2, <1>4, <1>6
<1> DEFINE m == IF v > copy[d] THEN Message("want", 0) ELSE Message("data", 0)
           S == IF v > copy[d] THEN {e} ELSE {}
<1>8. /\ m \in Msgs /\ m.kind \in Proofs /\ S \in {{}, {e}}
      /\ v > copy[d] => S = {e} /\ m.kind = "want"
      /\ S = {e} => v > copy[d]
  BY MessageFacts DEF Kinds, Proofs
<1> HIDE DEF n, v
<1>9. net' = Sent(n, d, S, m)
  BY <1>4, <1>7
<1> HIDE DEF m, S
<1>10. Answers(d, e, i, "authed", m, S)
  BY <1>4, <1>5, <1>9 DEF Answers, n
<1>11. MayAnswer(d, e, "authed", m, S)
  BY <1>3, <1>4, <1>6, <1>8 DEF MayAnswer
<1>12. HandledNews(d, e, "authed", m, S)
  BY <1>4, <1>6, <1>8 DEF HandledNews, News
<1>13. HandledJobs(d, e, m, S)
  <2>1. v <= copy[d] \/ (S = {e} /\ m.kind = "want")
    BY <1>1, <1>6, <1>8
  <2> QED BY <1>1, <1>5, <1>6, <2>1 DEF HandledJobs, v
<1>14. UNCHANGED <<setup, copy, running, hubs, address, loop, push, seen>>
  BY <1>3, <1>5
<1>15. Handled(d, e, i, "authed", m, S)
  BY <1>10, <1>11, <1>12, <1>13, <1>14 DEF Handled
<1> QED BY <1>8, <1>15 DEF SomeHandled

LEMMA WantStep ==
    ASSUME SyncInv, NEW d \in Devices, NEW e \in Devices, d # e, HandleWant(d, e)
    PROVE  SomeHandled(d, e)
<1>1. net \in Net /\ peer \in Peers /\ jobs \in [Devices -> SUBSET Job] /\ copy[d] \in Nat
  BY DEF SyncInv, SyncTypes, Net, Peers
<1>2. PICK i \in Due(net[e][d]) :
         /\ net[e][d][i].kind = "want"
         /\ IF peer[d][e] # "authed" THEN Detach(d, e, TRUE)
            ELSE /\ net' = Sent([net EXCEPT ![e][d] = RemoveAt(@, i)], d, {e}, Message("data", copy[d]))
                 /\ UNCHANGED <<jobs, loop, peer>>
  BY DEF HandleWant, Proven, Received
<1>3. peer[d][e] # "none" /\ UNCHANGED <<setup, copy, running, hubs, address, push, seen>>
  BY DEF HandleWant, Proven, Received
<1>4. peer[d][e] = "authed" /\ peer = [peer EXCEPT ![d][e] = "authed"]
  BY <1>2, <1>3, Taken
<1>5. net[e][d][1].kind = "want" /\ UNCHANGED <<jobs, loop, peer>>
  BY <1>2, <1>3, <1>4, NothingEarly
<1> DEFINE m == Message("data", copy[d])
           S == {e}
<1>6. /\ m \in Msgs /\ m.kind \in Proofs /\ m.version = copy[d] /\ m = Message("data", copy[d])
      /\ S = {e} /\ S \in {{}, {e}}
  BY <1>1, MessageFacts DEF Kinds, Proofs
<1>7. Answers(d, e, i, "authed", m, S)
  BY <1>2, <1>4 DEF Answers
<1> HIDE DEF m, S
<1>8. MayAnswer(d, e, "authed", m, S)
  BY <1>3, <1>4, <1>5, <1>6 DEF MayAnswer
<1>9. HandledNews(d, e, "authed", m, S)
  BY <1>4, <1>6 DEF HandledNews
<1>10. HandledJobs(d, e, m, S)
  BY <1>1, <1>5 DEF HandledJobs, News
<1>11. UNCHANGED <<setup, copy, running, hubs, address, loop, push, seen>>
  BY <1>3, <1>5
<1>12. Handled(d, e, i, "authed", m, S)
  BY <1>7, <1>8, <1>9, <1>10, <1>11 DEF Handled
<1> QED BY <1>6, <1>12 DEF SomeHandled

LEMMA DataStep ==
    ASSUME SyncInv, NEW d \in Devices, NEW e \in Devices, d # e, HandleData(d, e)
    PROVE  SomeHandled(d, e)
<1>1. net \in Net /\ peer \in Peers /\ jobs \in [Devices -> SUBSET Job] /\ copy[d] \in Nat
  BY DEF SyncInv, SyncTypes, Net, Peers
<1>2. PICK i \in Due(net[e][d]) :
         /\ net[e][d][i].kind = "data"
         /\ IF peer[d][e] # "authed" THEN Detach(d, e, TRUE)
            ELSE /\ net' = [net EXCEPT ![e][d] = RemoveAt(@, i)]
                 /\ jobs' = [jobs EXCEPT ![d] = @ \cup
                      {[version |-> net[e][d][i].version, put |-> net[e][d][i].version > copy[d], from |-> e]}]
                 /\ UNCHANGED <<loop, peer>>
  BY DEF HandleData, Proven, Received
<1>3. peer[d][e] # "none" /\ UNCHANGED <<setup, copy, running, hubs, address, push, seen>>
  BY DEF HandleData, Proven, Received
<1> DEFINE n == [net EXCEPT ![e][d] = RemoveAt(@, i)]
           v == net[e][d][1].version
           j == [version |-> v, put |-> v > copy[d], from |-> e]
           m == Message("data", 0)
           S == {}
<1>4. peer[d][e] = "authed" /\ peer = [peer EXCEPT ![d][e] = "authed"] /\ n = Sent(n, d, S, m)
  BY <1>2, <1>3, Taken
<1>5. net[e][d][1].kind = "data" /\ v \in Nat /\ net[e][d][i].version = v
  BY <1>2, <1>3, NothingEarly DEF Msgs
<1>6. net' = n /\ UNCHANGED <<loop, peer>> /\ jobs' = [jobs EXCEPT ![d] = @ \cup {j}]
  BY <1>2, <1>4, <1>5
<1>7. m \in Msgs /\ m.kind \in Proofs /\ S \in {{}, {e}} /\ S # {e}
  BY MessageFacts DEF Kinds, Proofs
<1> HIDE DEF n, m, S
<1>8. Answers(d, e, i, "authed", m, S)
  <2>1. net' = Sent(n, d, S, m) /\ peer' = [peer EXCEPT ![d][e] = "authed"]
    BY <1>4, <1>6
  <2> QED BY <2>1 DEF Answers, n
<1>9. MayAnswer(d, e, "authed", m, S)
  BY <1>3, <1>4, <1>5, <1>7 DEF MayAnswer
<1>10. HandledNews(d, e, "authed", m, S)
  BY <1>4, <1>5, <1>7 DEF HandledNews
<1>11. HandledJobs(d, e, m, S)
  <2>1. j \in Job /\ j.version = v /\ j.from = e /\ (j.put <=> j.version > copy[d])
    <3>1. v \in Nat
      BY <1>5
    <3> HIDE DEF v
    <3>2. j.version = v /\ j.from = e /\ j.put = (v > copy[d])
      OBVIOUS
    <3>3. j \in Job
      BY <3>1 DEF Job
    <3> QED BY <3>2, <3>3
  <2> HIDE DEF j, v
  <2>2. jobs'[d] = jobs[d] \cup {j} /\ \A f \in Devices : f # d => jobs'[f] = jobs[f]
    BY <1>1, <1>6
  <2>3. jobs' \in [Devices -> SUBSET Job]
    BY <1>1, <1>6, <2>1
  <2>4. v <= copy[d] \/ Applies(jobs'[d], v)
    BY <1>1, <1>5, <2>1, <2>2 DEF Applies
  <2>5. net[e][d][1].version = v
    BY DEF v
  <2> QED BY <1>5, <2>1, <2>2, <2>3, <2>4, <2>5 DEF HandledJobs
<1>12. UNCHANGED <<setup, copy, running, hubs, address, loop, push, seen>>
  BY <1>3, <1>6
<1>13. Handled(d, e, i, "authed", m, S)
  BY <1>8, <1>9, <1>10, <1>11, <1>12 DEF Handled
<1> QED BY <1>7, <1>13 DEF SomeHandled

LEMMA SetupUsed ==
    ASSUME setup \in SyncConf, NEW bound \in {"breaks", "losses", "stops"}, Use(bound)
    PROVE  setup' \in SyncConf
<1>1. /\ setup.breaks \in Nat /\ setup.losses \in Nat /\ setup.stops \in Nat
  BY DEF SyncConf
<1>2. CASE bound = "breaks"
  <2>1. setup.breaks > 0 /\ setup' = [setup EXCEPT !.breaks = @ - 1]
    BY <1>2 DEF Use
  <2>2. setup.breaks - 1 \in Nat
    BY <1>1, <2>1
  <2> QED BY <2>1, <2>2 DEF SyncConf
<1>3. CASE bound = "losses"
  <2>1. setup.losses > 0 /\ setup' = [setup EXCEPT !.losses = @ - 1]
    BY <1>3 DEF Use
  <2>2. setup.losses - 1 \in Nat
    BY <1>1, <2>1
  <2> QED BY <2>1, <2>2 DEF SyncConf
<1>4. CASE bound = "stops"
  <2>1. setup.stops > 0 /\ setup' = [setup EXCEPT !.stops = @ - 1]
    BY <1>4 DEF Use
  <2>2. setup.stops - 1 \in Nat
    BY <1>1, <2>1
  <2> QED BY <2>1, <2>2 DEF SyncConf
<1> QED BY <1>2, <1>3, <1>4

(* Devices start, look for a hub, play, and push.                           *)
LEMMA AloneStep ==
    ASSUME SyncInv, NEW d \in Devices,
           \/ StartSync(d) \/ Host(d) \/ RetryTimer(d) \/ Change(d) \/ LoseAddress
    PROVE  SyncInv'
<1>1. net \in Net /\ peer \in Peers /\ SyncTypes /\ PairInv /\ LoopInv /\ JobInv
  BY DEF SyncInv, SyncTypes, Net, Peers
<1>2. UNCHANGED <<peer, net, jobs>>
  BY DEF StartSync, Host, RetryTimer, Change, LoseAddress
<1>3. PairInv' /\ JobInv'
  BY <1>1, <1>2 DEF PairInv, Pair, JobInv
<1>4. ASSUME NEW l \in Loops, loop' = [loop EXCEPT ![d] = l], l # "off", loop[d] # "connected",
             running' = running \cup {d}, hubs \subseteq hubs', hubs' \subseteq hubs \cup {d},
             l = "connected" <=> d \in hubs'
      PROVE  LoopInv'
  <2> SUFFICES ASSUME NEW f \in Devices PROVE LoopOk(f)'
    BY DEF LoopInv
  <2>1. LoopOk(f) /\ loop \in [Devices -> Loops] /\ peer' = peer
    BY <1>1, <1>2 DEF LoopInv, SyncTypes
  <2>2. CASE f = d
    <3>1. loop'[d] = l /\ \A g \in Devices : peer'[d][g] = "none"
      BY <1>4, <2>1, <2>2 DEF LoopOk
    <3> QED BY <1>4, <2>2, <3>1 DEF LoopOk
  <2>3. CASE f # d
    <3>1. loop'[f] = loop[f] /\ (f \in running' <=> f \in running) /\ (f \in hubs' <=> f \in hubs)
      BY <1>4, <2>1, <2>3
    <3> QED BY <2>1, <3>1 DEF LoopOk
  <2> QED BY <2>2, <2>3
<1>10. LoopOk(d) /\ hubs \subseteq running
  BY <1>1 DEF LoopInv, SyncTypes
<1>5. CASE StartSync(d)
  <2>1. /\ loop' = [loop EXCEPT ![d] = "host"] /\ running' = running \cup {d}
        /\ UNCHANGED <<setup, copy, hubs, address, push>>
    BY <1>5 DEF StartSync
  <2>2. LoopInv'
    <3>1. loop[d] = "off" /\ d \notin hubs
      BY <1>5, <1>10 DEF StartSync, LoopOk
    <3> QED BY <1>4, <2>1, <3>1 DEF Loops
  <2>3. SyncTypes'
    BY <1>1, <1>2, <2>1 DEF SyncTypes, Loops
  <2> QED BY <1>3, <2>2, <2>3 DEF SyncInv
<1>6. CASE RetryTimer(d)
  <2>1. /\ loop' = [loop EXCEPT ![d] = "host"] /\ loop[d] = "retry"
        /\ UNCHANGED <<setup, copy, running, hubs, address, push>>
    BY <1>6 DEF RetryTimer
  <2>2. d \in running
    BY <1>10, <2>1 DEF LoopOk
  <2>3. running' = running \cup {d} /\ d \notin hubs
    BY <1>10, <2>1, <2>2 DEF LoopOk
  <2>4. LoopInv'
    BY <1>4, <2>1, <2>3 DEF Loops
  <2>5. SyncTypes'
    BY <1>1, <1>2, <2>1 DEF SyncTypes, Loops
  <2> QED BY <1>3, <2>4, <2>5 DEF SyncInv
<1>7. CASE Host(d)
  <2>1. loop[d] = "host" /\ UNCHANGED <<setup, copy, running, push>>
    BY <1>7 DEF Host
  <2>2. d \in running /\ running' = running \cup {d} /\ d \notin hubs
    BY <1>10, <2>1 DEF LoopOk
  <2>3. PICK l \in {"connected", "join", "retry"} :
          /\ loop' = [loop EXCEPT ![d] = l]
          /\ \/ l = "connected" /\ address' = d /\ hubs' = hubs \cup {d}
             \/ l # "connected" /\ UNCHANGED <<address, hubs>>
    BY <1>7 DEF Host
  <2>4. LoopInv'
    BY <1>4, <2>1, <2>2, <2>3 DEF Loops
  <2>5. SyncTypes'
    BY <1>1, <1>2, <2>1, <2>2, <2>3 DEF SyncTypes, Loops
  <2> QED BY <1>3, <2>4, <2>5 DEF SyncInv
<1>8. CASE Change(d)
  <2>1. UNCHANGED <<setup, running, hubs, address, loop>>
    BY <1>8 DEF Change
  <2>2. push' = (IF d \in running /\ jobs[d] = {} THEN push \cup {d} ELSE push)
    BY <1>8 DEF Change
  <2>3. PICK version \in copy[d] + 1 .. setup.versions : copy' = [copy EXCEPT ![d] = version]
    BY <1>8 DEF Change
  <2>4. version \in Nat
    BY <1>1, <2>3 DEF SyncTypes, SyncConf
  <2>5. copy' \in [Devices -> Nat]
    BY <1>1, <2>3, <2>4 DEF SyncTypes
  <2>6. SyncTypes'
    BY <1>1, <1>2, <2>1, <2>2, <2>5 DEF SyncTypes
  <2>7. LoopInv'
    BY <1>1, <1>2, <2>1, LoopsKept
  <2> QED BY <1>3, <2>6, <2>7 DEF SyncInv
<1>9. CASE LoseAddress
  <2>1. address' = NoDevice /\ Use("losses") /\ UNCHANGED <<copy, running, hubs, loop, push>>
    BY <1>9 DEF LoseAddress
  <2>2. setup' \in SyncConf
    BY <1>1, <2>1, SetupUsed DEF SyncTypes
  <2>3. SyncTypes'
    BY <1>1, <1>2, <2>1, <2>2 DEF SyncTypes
  <2>4. LoopInv'
    BY <1>1, <1>2, <2>1, LoopsKept
  <2> QED BY <1>3, <2>3, <2>4 DEF SyncInv
<1> QED BY <1>5, <1>6, <1>7, <1>8, <1>9

LEMMA PushStep ==
    ASSUME SyncInv, NEW d \in Devices, FlushPush(d) \/ \E j \in jobs[d] : FinishJob(d, j)
    PROVE  SyncInv'
<1>1. SyncTypes /\ PairInv /\ LoopInv /\ JobInv
  BY DEF SyncInv
<1>2. \A v \in Nat : Message("data", v) \in Msgs /\ Message("data", v).kind = "data"
  BY DEF Message, Msgs, Kinds
<1>3. PICK S \in SUBSET AuthedBy(d), m \in Msgs :
         /\ m.kind = "data" /\ net' = Sent(net, d, S, m)
         /\ UNCHANGED <<setup, running, hubs, address, loop, peer>>
         /\ copy' \in [Devices -> Nat] /\ push' \subseteq push /\ jobs' \in [Devices -> SUBSET Job]
         /\ \A f \in Devices : jobs'[f] \subseteq jobs[f]
  <2>1. CASE FlushPush(d)
    <3>1. copy[d] \in Nat
      BY <1>1 DEF SyncTypes
    <3> QED BY <1>1, <1>2, <2>1, <3>1 DEF FlushPush, SyncTypes
  <2>2. ASSUME NEW j \in jobs[d], FinishJob(d, j)
        PROVE  /\ Message("data", j.version) \in Msgs /\ Forward(d, j) \in SUBSET AuthedBy(d)
               /\ copy' \in [Devices -> Nat] /\ jobs' \in [Devices -> SUBSET Job]
               /\ \A f \in Devices : jobs'[f] \subseteq jobs[f]
    <3>1. j \in Job
      BY <1>1 DEF SyncTypes
    <3>2. j.version \in Nat
      BY <3>1 DEF Job
    <3>3. copy' \in [Devices -> Nat]
      <4>1. copy' = IF j.put THEN [copy EXCEPT ![d] = j.version] ELSE copy
        BY <2>2 DEF FinishJob
      <4> QED BY <1>1, <3>2, <4>1 DEF SyncTypes
    <3>4. jobs' \in [Devices -> SUBSET Job] /\ \A f \in Devices : jobs'[f] \subseteq jobs[f]
      BY <1>1, <2>2 DEF FinishJob, SyncTypes
    <3> QED BY <1>2, <3>2, <3>3, <3>4 DEF Forward
  <2>3. ASSUME NEW j \in jobs[d], FinishJob(d, j)
        PROVE  /\ Message("data", j.version).kind = "data"
               /\ net' = Sent(net, d, Forward(d, j), Message("data", j.version))
               /\ UNCHANGED <<setup, running, hubs, address, loop, peer, push>>
    BY <2>3 DEF FinishJob, Message
  <2> QED BY <2>1, <2>2, <2>3
<1>4. PairInv' /\ net' \in Net
  BY <1>3, DataToAll
<1>5. LoopInv'
  BY <1>1, <1>3, LoopsKept
<1>6. SyncTypes'
  BY <1>1, <1>3, <1>4 DEF SyncTypes, Net
<1>7. JobInv'
  BY <1>1, <1>3 DEF JobInv
<1> QED BY <1>4, <1>5, <1>6, <1>7 DEF SyncInv

LEMMA BreakStep ==
    ASSUME SyncInv, NEW d \in Devices, NEW e \in Devices, d # e, Break(d, e) PROVE SyncInv'
<1>1. net \in Net /\ peer \in Peers /\ SyncTypes /\ PairInv /\ LoopInv /\ JobInv
  BY DEF SyncInv, SyncTypes, Net, Peers
<1>2. /\ Linked(d, e) /\ net' = [net EXCEPT ![d][e] = <<Closed>>, ![e][d] = <<Closed>>]
      /\ Use("breaks") /\ UNCHANGED <<copy, running, hubs, address, loop, peer, push, jobs>>
  BY DEF Break
<1>3. <<Closed>> \in Seq(Msgs)
  BY DEF Closed, Message, Msgs, Kinds
<1>4. /\ net' \in Net /\ net'[d][e] = <<Closed>> /\ net'[e][d] = <<Closed>>
      /\ \A f, g \in Devices : ~(f = d /\ g = e) /\ ~(f = e /\ g = d) => net'[f][g] = net[f][g]
  BY <1>1, <1>2, <1>3 DEF Net
<1>5. peer[d][e] # "none" /\ peer[e][d] # "none" /\ peer[d][e] \in Stands /\ peer[e][d] \in Stands
  BY <1>1, <1>2 DEF Linked, Peers
<1>6. Both(peer'[d][e], peer'[e][d], net'[e][d], net'[d][e])
  BY <1>2, <1>4, <1>5, Beginnings
<1>7. PairInv'
  <2>1. \A f, g \in Devices : ~(f = d /\ g = e) /\ ~(f = e /\ g = d) =>
            peer'[f][g] = peer[f][g] /\ net'[f][g] = net[f][g]
    BY <1>2, <1>4
  <2> QED BY <1>1, <1>6, <2>1, PairKept
<1>8. LoopInv'
  BY <1>1, <1>2, LoopsKept
<1>9. setup' \in SyncConf
  BY <1>1, <1>2, SetupUsed DEF SyncTypes
<1>10. SyncTypes'
  BY <1>1, <1>2, <1>4, <1>9 DEF SyncTypes, Net
<1>11. JobInv'
  BY <1>1, <1>2 DEF JobInv
<1> QED BY <1>7, <1>8, <1>10, <1>11 DEF SyncInv

LEMMA JoinStep ==
    ASSUME SyncInv, NEW d \in Devices, Join(d) PROVE SyncInv'
<1>1. net \in Net /\ peer \in Peers /\ SyncTypes /\ PairInv /\ LoopInv /\ JobInv
  BY DEF SyncInv, SyncTypes, Net, Peers
<1>2. loop[d] = "join" /\ UNCHANGED <<setup, copy, running, hubs, address, push, jobs>>
  BY DEF Join
<1>3. LoopOk(d) /\ d \in running /\ d \notin hubs /\ \A g \in Devices : peer[d][g] = "none"
  <2>1. LoopOk(d)
    BY <1>1 DEF LoopInv
  <2> QED BY <1>2, <2>1 DEF LoopOk
<1>4. CASE loop' = [loop EXCEPT ![d] = "retry"] /\ UNCHANGED <<peer, net>>
  <2>1. PairInv'
    BY <1>1, <1>4 DEF PairInv, Pair
  <2>2. SyncTypes'
    BY <1>1, <1>2, <1>4 DEF SyncTypes, Loops
  <2>3. LoopInv'
    <3> SUFFICES ASSUME NEW f \in Devices PROVE LoopOk(f)'
      BY DEF LoopInv
    <3>1. LoopOk(f) /\ loop \in [Devices -> Loops]
      BY <1>1 DEF LoopInv, SyncTypes
    <3>2. CASE f = d
      BY <1>2, <1>3, <1>4, <3>1, <3>2 DEF LoopOk
    <3>3. CASE f # d
      <4>1. loop'[f] = loop[f]
        BY <1>4, <3>1, <3>3
      <4> QED BY <1>2, <1>4, <3>1, <4>1 DEF LoopOk
    <3> QED BY <3>2, <3>3
  <2>4. JobInv'
    BY <1>1, <1>2, <1>4 DEF JobInv
  <2> QED BY <2>1, <2>2, <2>3, <2>4 DEF SyncInv
<1>5. ASSUME NEW full \in BOOLEAN, address \notin {NoDevice, d}, net[d][address] = << >>,
             loop' = [loop EXCEPT ![d] = "connected"],
             peer' = [peer EXCEPT ![d][address] = "attached",
                                  ![address][d] = IF full THEN "none" ELSE "attached"],
             net' = [net EXCEPT ![address][d] = IF full THEN <<Closed>> ELSE <<Hello>>,
                                ![d][address] = IF full THEN << >> ELSE <<Hello>>]
      PROVE  SyncInv'
  <2> DEFINE h == address
             b == IF full THEN "none" ELSE "attached"
             q == IF full THEN <<Closed>> ELSE <<Hello>>
             r == IF full THEN << >> ELSE <<Hello>>
  <2>1. h \in Devices /\ h # d /\ h \in hubs /\ h \in running
    BY <1>1, <1>5 DEF SyncTypes
  <2>2. b \in Stands /\ "attached" \in Stands /\ q \in Seq(Msgs) /\ r \in Seq(Msgs)
    <3>1. Closed \in Msgs /\ Hello \in Msgs
      BY DEF Closed, Hello, Message, Msgs, Kinds
    <3>2. <<Closed>> \in Seq(Msgs) /\ <<Hello>> \in Seq(Msgs)
      BY <3>1
    <3> QED BY <3>2 DEF Stands
  <2>3. Both("attached", b, q, r)
    BY Beginnings
  <2>4. peer' = [peer EXCEPT ![d][h] = "attached", ![h][d] = b] /\ net' = [net EXCEPT ![h][d] = q, ![d][h] = r]
    BY <1>5
  <2> HIDE DEF h, b, q, r
  <2>5. /\ peer' \in Peers /\ peer'[d][h] = "attached" /\ peer'[h][d] = b
        /\ \A f, g \in Devices : ~(f = d /\ g = h) /\ ~(f = h /\ g = d) => peer'[f][g] = peer[f][g]
    BY <1>1, <2>1, <2>2, <2>4 DEF Peers
  <2>6. /\ net' \in Net /\ net'[h][d] = q /\ net'[d][h] = r
        /\ \A f, g \in Devices : ~(f = d /\ g = h) /\ ~(f = h /\ g = d) => net'[f][g] = net[f][g]
    BY <1>1, <2>1, <2>2, <2>4 DEF Net
  <2>7. PairInv'
    <3>1. Both(peer'[d][h], peer'[h][d], net'[h][d], net'[d][h])
      BY <2>3, <2>5, <2>6
    <3> QED BY <1>1, <2>1, <2>5, <2>6, <3>1, PairKept
  <2>8. LoopInv'
    <3> SUFFICES ASSUME NEW f \in Devices PROVE LoopOk(f)'
      BY DEF LoopInv
    <3>1. LoopOk(f) /\ loop \in [Devices -> Loops]
      BY <1>1 DEF LoopInv, SyncTypes
    <3>2. CASE f = d
      <4>1. loop'[d] = "connected" /\ peer'[d][h] # "none" /\ d \in running'
        BY <1>2, <1>3, <1>5, <2>5, <3>1
      <4>2. \A g \in Devices : g # h => peer'[d][g] = "none"
        BY <1>3, <2>1, <2>5
      <4> QED BY <2>1, <3>2, <4>1, <4>2 DEF LoopOk
    <3>3. CASE f = h
      <4>1. loop'[h] = loop[h] /\ loop[h] = "connected" /\ h \in hubs' /\ h \in running'
        BY <1>2, <1>5, <2>1, <3>1, <3>3 DEF LoopOk
      <4> QED BY <3>3, <4>1 DEF LoopOk
    <3>4. CASE f # d /\ f # h
      <4>1. loop'[f] = loop[f] /\ \A g \in Devices : peer'[f][g] = peer[f][g]
        BY <1>5, <2>5, <3>1, <3>4
      <4> QED BY <1>2, <3>1, <4>1 DEF LoopOk
    <3> QED BY <3>2, <3>3, <3>4
  <2>9. SyncTypes'
    <3>1. loop' \in [Devices -> Loops]
      BY <1>1, <1>5 DEF SyncTypes, Loops
    <3> QED BY <1>1, <1>2, <2>5, <2>6, <3>1, TypesStay DEF SyncTypes
  <2>10. JobInv'
    <3> SUFFICES ASSUME NEW f \in Devices, NEW k \in jobs[f], k.from \in Devices
                 PROVE  peer'[f][k.from] # "none"
      BY <1>2 DEF JobInv
    <3>1. peer[f][k.from] # "none"
      BY <1>1 DEF JobInv
    <3>2. peer[h][d] = "none"
      <4>1. Orderly(peer[h][d], peer[d][h], net[d][h], net[h][d])
        BY <1>1, <2>1 DEF PairInv, Pair
      <4>2. peer[d][h] = "none" /\ net[d][h] = << >>
        BY <1>3, <1>5, <2>1 DEF h
      <4> QED BY <4>1, <4>2 DEF Orderly, Ends
    <3>3. f # d /\ ~(f = h /\ k.from = d)
      BY <1>3, <3>1, <3>2
    <3> QED BY <2>5, <3>1, <3>3
  <2> QED BY <2>7, <2>8, <2>9, <2>10 DEF SyncInv
<1>6. CASE ~(loop' = [loop EXCEPT ![d] = "retry"] /\ UNCHANGED <<peer, net>>)
  <2> DEFINE full == Cardinality(PeersOf(address)) >= setup.cap
  <2>1. /\ address \notin {NoDevice, d} /\ net[d][address] = << >> /\ loop' = [loop EXCEPT ![d] = "connected"]
        /\ peer' = [peer EXCEPT ![d][address] = "attached",
                                ![address][d] = IF full THEN "none" ELSE "attached"]
        /\ net' = [net EXCEPT ![address][d] = IF full THEN <<Closed>> ELSE <<Hello>>,
                              ![d][address] = IF full THEN << >> ELSE <<Hello>>]
    BY <1>6 DEF Join
  <2>2. CASE full
    BY <1>5, <2>1, <2>2
  <2>3. CASE ~full
    BY <1>5, <2>1, <2>3
  <2> QED BY <2>2, <2>3
<1> QED BY <1>4, <1>6

LEMMA TwoMore ==
    ASSUME NEW r \in Seq(Msgs)
    PROVE  r \o <<Message("bye", 0), Closed>> = Farewell(r, TRUE)
<1>1. Message("bye", 0) \in Msgs /\ Closed \in Msgs
  BY DEF Message, Closed, Msgs, Kinds
<1> DEFINE x == Message("bye", 0)
           y == Closed
           l == r \o <<x, y>>
           s == Append(Append(r, x), y)
<1> HIDE DEF x, y
<1>2. /\ <<x, y>> \in Seq(Msgs) /\ Len(<<x, y>>) = 2 /\ <<x, y>>[1] = x /\ <<x, y>>[2] = y
  BY <1>1 DEF x, y
<1>3. /\ l \in Seq(Msgs) /\ Len(l) = Len(r) + 2
      /\ \A i \in 1 .. Len(r) + 2 : l[i] = IF i <= Len(r) THEN r[i] ELSE <<x, y>>[i - Len(r)]
  BY <1>2, ConcatProperties
<1>4. /\ Append(r, x) \in Seq(Msgs) /\ Len(Append(r, x)) = Len(r) + 1
      /\ \A i \in 1 .. Len(r) : Append(r, x)[i] = r[i]
      /\ Append(r, x)[Len(r) + 1] = x
  BY <1>1, AppendProperties DEF x, y
<1>5. /\ s \in Seq(Msgs) /\ Len(s) = Len(r) + 2
      /\ \A i \in 1 .. Len(r) + 1 : s[i] = Append(r, x)[i]
      /\ s[Len(r) + 2] = y
  <2>1. y \in Msgs
    BY <1>1 DEF y
  <2>2. Len(r) \in Nat /\ (Len(r) + 1) + 1 = Len(r) + 2
    BY LenProperties
  <2> QED BY <1>4, <2>1, <2>2, AppendProperties
<1>6. Len(r) \in Nat
  BY LenProperties
<1> HIDE DEF l, s
<1>7. ASSUME NEW i \in 1 .. Len(l) PROVE l[i] = s[i]
  <2>1. CASE i <= Len(r)
    BY <1>3, <1>4, <1>5, <1>6, <1>7, <2>1
  <2>2. CASE i = Len(r) + 1
    <3>1. i - Len(r) = 1 /\ i \in 1 .. Len(r) + 2 /\ ~(i <= Len(r)) /\ i \in 1 .. Len(r) + 1
      BY <1>6, <2>2
    <3> QED BY <1>2, <1>3, <1>4, <1>5, <2>2, <3>1
  <2>3. CASE i = Len(r) + 2
    <3>1. i - Len(r) = 2 /\ i \in 1 .. Len(r) + 2 /\ ~(i <= Len(r))
      BY <1>6, <2>3
    <3> QED BY <1>2, <1>3, <1>5, <2>3, <3>1
  <2> QED BY <1>3, <1>6, <1>7, <2>1, <2>2, <2>3
<1>8. l = s
  BY <1>3, <1>5, <1>7, SeqEqual
<1> QED BY <1>8 DEF l, s, x, y, Farewell

LEMMA StopStep ==
    ASSUME SyncInv, NEW d \in Devices, StopSync(d) PROVE SyncInv'
<1>1. net \in Net /\ peer \in Peers /\ SyncTypes /\ PairInv /\ LoopInv /\ JobInv
  BY DEF SyncInv, SyncTypes, Net, Peers
<1>2. /\ d \in running /\ Use("stops") /\ running' = running \ {d} /\ hubs' = hubs \ {d} /\ push' = push \ {d}
      /\ address' = IF address = d THEN NoDevice ELSE address
      /\ loop' = [loop EXCEPT ![d] = "off"]
      /\ jobs' = [jobs EXCEPT ![d] = {[j EXCEPT !.from = NoDevice] : j \in @}]
      /\ UNCHANGED copy
  BY DEF StopSync
<1>3. peer' = [peer EXCEPT ![d] = [e \in Devices |-> "none"]]
  BY DEF StopSync
<1> DEFINE last(e) == IF Linked(d, e) THEN net[d][e] \o <<Message("bye", 0), Closed>>
                      ELSE IF peer[e][d] = "none" THEN << >> ELSE net[d][e]
<1>4. net' = [f \in Devices |-> [e \in Devices |->
                IF f = d THEN last(e) ELSE IF e = d THEN << >> ELSE net[f][e]]]
  BY DEF StopSync
<1>5. /\ peer' \in Peers /\ \A e \in Devices : peer'[d][e] = "none"
      /\ \A f, e \in Devices : f # d => peer'[f][e] = peer[f][e]
  BY <1>1, <1>3 DEF Peers, Stands
<1>6. ASSUME NEW e \in Devices, e # d
      PROVE  last(e) \in Seq(Msgs) /\ Both("none", peer[e][d], << >>, last(e))
  <2> DEFINE a == peer[d][e]
             b == peer[e][d]
             q == net[e][d]
             r == net[d][e]
             s == last(e)
  <2>1. /\ a \in Stands /\ b \in Stands /\ q \in Seq(Msgs) /\ r \in Seq(Msgs) /\ Both(a, b, q, r)
    BY <1>1, <1>6, PairBoth DEF Peers, Net
  <2>2. Linked(d, e) <=> a # "none" /\ b # "none" /\ ~Ends(q) /\ ~Ends(r)
    BY <1>1, LinkedEnds
  <2>3. r \o <<Message("bye", 0), Closed>> = Farewell(r, TRUE)
    BY <2>1, TwoMore
  <2>4. s = IF a # "none" /\ b # "none" /\ ~Ends(q) /\ ~Ends(r) THEN Farewell(r, TRUE)
            ELSE IF b = "none" THEN << >> ELSE r
    BY <2>2, <2>3
  <2> HIDE DEF a, b, q, r, s
  <2>5. Both("none", b, << >>, s) /\ s \in Seq(Msgs)
    BY <2>1, <2>4, Hangup
  <2> QED BY <2>5 DEF b, s
<1>7. last(d) = << >>
  <2>1. peer[d][d] = "none"
    BY <1>1 DEF PairInv
  <2>2. ~Linked(d, d)
    BY <2>1 DEF Linked
  <2> QED BY <2>1, <2>2
<1> HIDE DEF last
<1>8. /\ \A e \in Devices : net'[d][e] = last(e)
      /\ \A e \in Devices : e # d => net'[e][d] = << >>
      /\ \A f, e \in Devices : f # d /\ e # d => net'[f][e] = net[f][e]
  BY <1>4
<1>9. net' \in Net
  <2>1. << >> \in Seq(Msgs)
    OBVIOUS
  <2>2. \A f, e \in Devices : net'[f][e] \in Seq(Msgs)
    <3> SUFFICES ASSUME NEW f \in Devices, NEW e \in Devices PROVE net'[f][e] \in Seq(Msgs)
      OBVIOUS
    <3>1. CASE f = d /\ e = d
      BY <1>7, <1>8, <2>1, <3>1
    <3>2. CASE f = d /\ e # d
      BY <1>6, <1>8, <3>2
    <3>3. CASE f # d /\ e = d
      BY <1>8, <2>1, <3>3
    <3>4. CASE f # d /\ e # d
      BY <1>1, <1>8, <3>4 DEF Net
    <3> QED BY <3>1, <3>2, <3>3, <3>4
  <2>3. net' = [f \in Devices |-> [e \in Devices |-> net'[f][e]]]
    BY <1>4
  <2> QED BY <2>2, <2>3 DEF Net
<1>10. PairInv'
  <2>1. ASSUME NEW e \in Devices, e # d PROVE Both(peer'[d][e], peer'[e][d], net'[e][d], net'[d][e])
    BY <1>5, <1>6, <1>8, <2>1
  <2>2. \A f, g \in Devices : f # d /\ g # d => peer'[f][g] = peer[f][g] /\ net'[f][g] = net[f][g]
    BY <1>5, <1>8
  <2>3. peer'[d][d] = "none"
    BY <1>5
  <2> QED BY <1>1, <2>1, <2>2, <2>3, PairsKept
<1>11. LoopInv'
  <2> SUFFICES ASSUME NEW f \in Devices PROVE LoopOk(f)'
    BY DEF LoopInv
  <2>1. LoopOk(f) /\ loop \in [Devices -> Loops]
    BY <1>1 DEF LoopInv, SyncTypes
  <2>2. CASE f = d
    <3>1. f \notin running' /\ f \notin hubs' /\ loop'[f] = "off" /\ \A g \in Devices : peer'[f][g] = "none"
      BY <1>2, <1>5, <2>1, <2>2
    <3> QED BY <3>1 DEF LoopOk
  <2>3. CASE f # d
    <3>1. /\ loop'[f] = loop[f] /\ \A g \in Devices : peer'[f][g] = peer[f][g]
          /\ (f \in running' <=> f \in running) /\ (f \in hubs' <=> f \in hubs)
      BY <1>2, <1>5, <2>1, <2>3
    <3> QED BY <2>1, <3>1 DEF LoopOk
  <2> QED BY <2>2, <2>3
<1>13. JobInv'
  <2> SUFFICES ASSUME NEW f \in Devices, NEW j \in jobs'[f], j.from \in Devices
               PROVE  peer'[f][j.from] # "none"
    BY DEF JobInv
  <2>1. jobs \in [Devices -> SUBSET Job] /\ NoDevice \notin Devices
    BY <1>1, SyncConfsAssumption DEF SyncTypes
  <2>2. \A k \in Job : [k EXCEPT !.from = NoDevice].from = NoDevice
    BY DEF Job
  <2>3. f # d
    BY <1>2, <2>1, <2>2
  <2>4. jobs'[f] = jobs[f]
    BY <1>2, <2>1, <2>3
  <2> QED BY <1>1, <1>5, <2>3, <2>4 DEF JobInv
<1>12. SyncTypes'
  <2>1. setup' \in SyncConf
    BY <1>1, <1>2, SetupUsed DEF SyncTypes
  <2>2. jobs' \in [Devices -> SUBSET Job]
    <3>1. \A j \in Job : [j EXCEPT !.from = NoDevice] \in Job
      BY DEF Job
    <3>2. ASSUME NEW js \in SUBSET Job PROVE {[j EXCEPT !.from = NoDevice] : j \in js} \in SUBSET Job
      BY <3>1
    <3> HIDE DEF Job
    <3> QED BY <1>1, <1>2, <3>2 DEF SyncTypes
  <2>3. loop' \in [Devices -> Loops]
    BY <1>1, <1>2 DEF SyncTypes, Loops
  <2>4. running' \subseteq Devices /\ hubs' \subseteq running' /\ push' \subseteq running'
    BY <1>1, <1>2 DEF SyncTypes
  <2>5. address' \in hubs' \cup {NoDevice}
    BY <1>1, <1>2 DEF SyncTypes
  <2> QED BY <1>1, <1>2, <1>5, <1>9, <2>1, <2>2, <2>3, <2>4, <2>5 DEF SyncTypes, Net, Peers
<1> QED BY <1>10, <1>11, <1>12, <1>13 DEF SyncInv

LEMMA SyncStarts == SyncInit => SyncInv
<1> SUFFICES ASSUME SyncInit PROVE SyncInv
  OBVIOUS
<1>1. SyncTypes
  BY SyncConfsAssumption DEF SyncInit, SyncTypes, Loops, Stands
<1>2. PairInv
  BY DEF SyncInit, PairInv, Pair, Orderly
<1>3. LoopInv /\ JobInv
  BY DEF SyncInit, LoopInv, LoopOk, JobInv
<1> QED BY <1>1, <1>2, <1>3 DEF SyncInv

-----------------------------------------------------------------------------
(* What each device lacks is on its way. *)

(* A connection is as it was, or neither end relies on it; data being applied are
   as they were, but for where they came from.                              *)
JobsAlike(js, ks) ==
    /\ \A k \in ks : \E j \in js : /\ k.put = j.put /\ k.version = j.version
                                   /\ (k.from = j.from \/ k.from \notin Devices)
    /\ \A j \in js : \E k \in ks : k.put = j.put /\ k.version = j.version
PairLeft(f, g) ==
    \/ /\ peer'[f][g] = peer[f][g] /\ peer'[g][f] = peer[g][f]
       /\ net'[f][g] = net[f][g] /\ net'[g][f] = net[g][f] /\ (f \in push => f \in push')
    \/ ~Open(f, g)' /\ Truthful(net'[f][g], copy[f])

LEMMA NewsLeft ==
    ASSUME NewsInv, UNCHANGED <<copy, seen>>, \A f \in Devices : JobsAlike(jobs[f], jobs'[f]),
           \A f, g \in Devices : f # g => PairLeft(f, g)
    PROVE  NewsInv'
<1>1. ASSUME NEW f \in Devices PROVE seen'.best[f] = copy'[f] /\ JobsOk(f)'
  <2>1. JobsOk(f) /\ JobsAlike(jobs[f], jobs'[f]) /\ seen.best[f] = copy[f]
    BY DEF NewsInv
  <2>2. ASSUME NEW k \in jobs'[f]
        PROVE  (k.put <=> k.version > copy[f]) /\ (k.from \in Devices => k.version <= copy[k.from])
    <3>1. PICK j \in jobs[f] : /\ k.put = j.put /\ k.version = j.version
                               /\ (k.from = j.from \/ k.from \notin Devices)
      BY <2>1 DEF JobsAlike
    <3> QED BY <2>1, <3>1 DEF JobsOk
  <2> QED BY <2>1, <2>2 DEF JobsOk
<1>2. ASSUME NEW f \in Devices, NEW g \in Devices, f # g PROVE TellsOf(f, g)'
  <2>1. TellsOf(f, g) /\ PairLeft(f, g) /\ JobsAlike(jobs[g], jobs'[g])
    BY <1>2 DEF NewsInv
  <2>2. CASE ~Open(f, g)' /\ Truthful(net'[f][g], copy[f])
    BY <2>2 DEF TellsOf
  <2>3. CASE /\ peer'[f][g] = peer[f][g] /\ peer'[g][f] = peer[g][f]
             /\ net'[f][g] = net[f][g] /\ net'[g][f] = net[g][f] /\ (f \in push => f \in push')
    <3>1. Truthful(net[f][g], copy[f])' /\ (Open(f, g)' => Brings(f, g))
      BY <2>1, <2>3 DEF TellsOf, Open
    <3>2. Applies(jobs[g], copy[f]) => Applies(jobs'[g], copy[f])
      BY <2>1 DEF JobsAlike, Applies
    <3>3. Brings(f, g) => Brings(f, g)'
      BY <2>3, <3>2 DEF Brings
    <3> QED BY <3>1, <3>3 DEF TellsOf
  <2> QED BY <2>1, <2>2, <2>3 DEF PairLeft
<1> QED BY <1>1, <1>2 DEF NewsInv

LEMMA SameJobs == ASSUME NEW js PROVE JobsAlike(js, js)
BY DEF JobsAlike

LEMMA Orphaned ==
    ASSUME NEW js \in SUBSET Job, NEW e
    PROVE  JobsAlike(js, Orphan(js, e)) /\ JobsAlike(js, {[j EXCEPT !.from = NoDevice] : j \in js})
<1> DEFINE O(j) == [j EXCEPT !.from = NoDevice]
<1>1. \A j \in Job : O(j).put = j.put /\ O(j).version = j.version /\ O(j).from \notin Devices
  BY SyncConfsAssumption DEF Job
<1>2. JobsAlike(js, Orphan(js, e))
  <2>1. ASSUME NEW j \in js, NEW k, k = IF j.from = e THEN O(j) ELSE j
        PROVE  k.put = j.put /\ k.version = j.version /\ (k.from = j.from \/ k.from \notin Devices)
    BY <1>1, <2>1
  <2>2. Orphan(js, e) = {IF j.from = e THEN O(j) ELSE j : j \in js}
    BY DEF Orphan
  <2> HIDE DEF O
  <2>3. \A k \in Orphan(js, e) : \E j \in js : /\ k.put = j.put /\ k.version = j.version
                                               /\ (k.from = j.from \/ k.from \notin Devices)
    BY <2>1, <2>2
  <2>4. ASSUME NEW j \in js PROVE \E k \in Orphan(js, e) : k.put = j.put /\ k.version = j.version
    <3> DEFINE k == IF j.from = e THEN O(j) ELSE j
    <3>1. k \in Orphan(js, e)
      BY <2>2
    <3> QED BY <2>1, <3>1
  <2> QED BY <2>3, <2>4 DEF JobsAlike
<1>3. JobsAlike(js, {O(j) : j \in js})
  <2> HIDE DEF O
  <2> QED BY <1>1 DEF JobsAlike
<1> QED BY <1>2, <1>3

LEMMA TruthfulEnds ==
    ASSUME NEW r \in Seq(Msgs), NEW v \in Nat, Truthful(r, v)
    PROVE  \A bye \in BOOLEAN : Truthful(Farewell(r, bye), v)
<1>1. /\ Message("bye", 0) \in Msgs /\ Closed \in Msgs
      /\ Message("bye", 0).kind \notin News /\ Closed.kind \notin News
  BY DEF Message, Closed, Msgs, Kinds, News
<1> DEFINE s == Append(r, Message("bye", 0))
<1>2. s \in Seq(Msgs) /\ Truthful(s, v)
  BY <1>1, Queued, NewsQueued
<1> HIDE DEF s
<1>3. Truthful(Append(s, Closed), v) /\ Truthful(Append(r, Closed), v)
  BY <1>1, <1>2, NewsQueued
<1> QED BY <1>3 DEF Farewell, s

LEMMA Untold ==
    ASSUME NEW v
    PROVE  Truthful(<< >>, v) /\ Truthful(<<Closed>>, v) /\ Truthful(<<Hello>>, v)
<1>1. Hello \in Msgs /\ Closed \in Msgs /\ Hello.kind \notin News /\ Closed.kind \notin News
  BY DEF Hello, Closed, Message, Msgs, Kinds, News
<1>2. DOMAIN <<Hello>> = {1} /\ <<Hello>>[1] = Hello /\ DOMAIN <<Closed>> = {1} /\ <<Closed>>[1] = Closed
  BY <1>1, OneMessage
<1> QED BY <1>1, <1>2 DEF Truthful

(* A connection ends.                                                       *)
LEMMA ByeNews ==
    ASSUME SyncInv, NewsInv, NEW d \in Devices, NEW e \in Devices, d # e, HandleBye(d, e)
    PROVE  NewsInv'
<1>1. /\ Detach(d, e, FALSE) /\ d \in running /\ peer[d][e] # "none"
      /\ UNCHANGED <<setup, copy, running, hubs, address, push, seen>>
  BY DEF HandleBye, Received
<1>2. UNCHANGED <<setup, copy, running, hubs, address, push>> /\ UNCHANGED <<copy, seen>>
  BY <1>1
<1>3. /\ SyncInv' /\ peer'[d][e] = "none"
      /\ \A f, g \in Devices : f # d \/ g # e => peer'[f][g] = peer[f][g]
      /\ \A f, g \in Devices : ~(f = d /\ g = e) /\ ~(f = e /\ g = d) => net'[f][g] = net[f][g]
  BY <1>1, <1>2, DetachKeeps
<1>4. /\ net \in Net /\ peer \in Peers /\ copy \in [Devices -> Nat] /\ jobs \in [Devices -> SUBSET Job]
      /\ SyncTypes
  BY DEF SyncInv, SyncTypes, Net, Peers
<1>5. ASSUME NEW f \in Devices PROVE JobsAlike(jobs[f], jobs'[f])
  <2>1. jobs' = [jobs EXCEPT ![d] = Orphan(@, e)]
    BY <1>1 DEF Detach
  <2>2. jobs'[f] = IF f = d THEN Orphan(jobs[f], e) ELSE jobs[f]
    BY <1>4, <2>1
  <2>3. jobs[f] \in SUBSET Job
    BY <1>4
  <2> QED BY <2>2, <2>3, SameJobs, Orphaned
<1>6. Truthful(net'[d][e], copy[d]) /\ Truthful(net'[e][d], copy[e])
  <2>1. net[d][e] \in Seq(Msgs) /\ copy[d] \in Nat /\ Truthful(net[d][e], copy[d])
    BY <1>4 DEF NewsInv, TellsOf, Net
  <2> DEFINE s == IF peer[e][d] = "none" THEN << >>
                  ELSE IF ~Linked(d, e) THEN net[d][e] ELSE Append(net[d][e], Closed)
  <2>2. net' = [net EXCEPT ![e][d] = << >>, ![d][e] = s]
    BY <1>4, <1>1 DEF Detach, Net
  <2>3. Append(net[d][e], Closed) = Farewell(net[d][e], FALSE)
    BY DEF Farewell
  <2>4. Truthful(s, copy[d])
    BY <2>1, <2>3, TruthfulEnds, Untold
  <2>5. s \in Seq(Msgs)
    <3>1. Closed \in Msgs
      BY DEF Closed, Message, Msgs, Kinds
    <3> QED BY <2>1, <3>1, Queued
  <2> HIDE DEF s
  <2>6. net'[d][e] = s /\ net'[e][d] = << >>
    BY <1>4, <2>2, <2>5 DEF Net
  <2> QED BY <2>4, <2>6, Untold
<1>7. ASSUME NEW f \in Devices, NEW g \in Devices, f # g PROVE PairLeft(f, g)
  <2>1. CASE f = d /\ g = e
    BY <1>3, <1>6, <2>1 DEF PairLeft, Open
  <2>2. CASE f = e /\ g = d
    BY <1>3, <1>6, <2>2 DEF PairLeft, Open
  <2>3. CASE ~(f = d /\ g = e) /\ ~(f = e /\ g = d)
    <3>1. /\ peer'[f][g] = peer[f][g] /\ peer'[g][f] = peer[g][f]
          /\ net'[f][g] = net[f][g] /\ net'[g][f] = net[g][f]
      BY <1>3, <2>3
    <3> QED BY <1>1, <3>1 DEF PairLeft
  <2> QED BY <2>1, <2>2, <2>3
<1> QED BY <1>2, <1>5, <1>7, NewsLeft

LEMMA BreakNews ==
    ASSUME SyncInv, NewsInv, NEW d \in Devices, NEW e \in Devices, d # e, Break(d, e)
    PROVE  NewsInv'
<1>1. net \in Net
  BY DEF SyncInv, SyncTypes, Net
<1>2. /\ net' = [net EXCEPT ![d][e] = <<Closed>>, ![e][d] = <<Closed>>]
      /\ UNCHANGED <<copy, seen>> /\ UNCHANGED <<peer, push, jobs>>
  BY DEF Break
<1>3. Closed \in Msgs
  BY DEF Closed, Message, Msgs, Kinds
<1>4. <<Closed>> \in Seq(Msgs) /\ DOMAIN <<Closed>> = {1} /\ <<Closed>>[1] = Closed
  BY <1>3, OneMessage
<1>5. /\ net'[d][e] = <<Closed>> /\ net'[e][d] = <<Closed>>
      /\ \A f, g \in Devices : ~(f = d /\ g = e) /\ ~(f = e /\ g = d) => net'[f][g] = net[f][g]
  BY <1>1, <1>2, <1>4 DEF Net
<1>6. Ends(<<Closed>>)
  BY <1>4 DEF Ends
<1>7. ASSUME NEW f \in Devices, NEW g \in Devices, f # g PROVE PairLeft(f, g)
  <2>1. CASE (f = d /\ g = e) \/ (f = e /\ g = d)
    <3>1. net'[f][g] = <<Closed>>
      BY <1>5, <2>1
    <3> QED BY <1>6, <3>1, Untold DEF PairLeft, Open
  <2>2. CASE ~(f = d /\ g = e) /\ ~(f = e /\ g = d)
    <3>1. net'[f][g] = net[f][g] /\ net'[g][f] = net[g][f]
      BY <1>5, <2>2
    <3> QED BY <1>2, <3>1 DEF PairLeft
  <2> QED BY <2>1, <2>2
<1>8. \A f \in Devices : JobsAlike(jobs[f], jobs'[f])
  BY <1>2, SameJobs
<1> QED BY <1>2, <1>7, <1>8, NewsLeft

(* A device starts, looks for a hub, or loses the address.                  *)
LEMMA AloneNews ==
    ASSUME NewsInv, NEW d \in Devices, StartSync(d) \/ Host(d) \/ RetryTimer(d) \/ LoseAddress
    PROVE  NewsInv'
<1>1. UNCHANGED <<copy, seen>> /\ UNCHANGED <<peer, net, jobs, push>>
  BY DEF StartSync, Host, RetryTimer, LoseAddress
<1>2. \A f \in Devices : JobsAlike(jobs[f], jobs'[f])
  BY <1>1, SameJobs
<1>3. \A f, g \in Devices : PairLeft(f, g)
  BY <1>1 DEF PairLeft
<1> QED BY <1>1, <1>2, <1>3, NewsLeft

LEMMA JoinNews ==
    ASSUME SyncInv, NewsInv, NEW d \in Devices, Join(d) PROVE NewsInv'
<1>1. net \in Net /\ peer \in Peers /\ address \in Devices \cup {NoDevice}
  BY DEF SyncInv, SyncTypes, Net, Peers
<1>2. UNCHANGED <<copy, seen>> /\ UNCHANGED <<push, jobs>>
  BY DEF Join
<1>3. \A f \in Devices : JobsAlike(jobs[f], jobs'[f])
  BY <1>2, SameJobs
<1>4. CASE UNCHANGED <<peer, net>>
  <2>1. \A f, g \in Devices : PairLeft(f, g)
    BY <1>2, <1>4 DEF PairLeft
  <2> QED BY <1>2, <1>3, <2>1, NewsLeft
<1>5. CASE ~UNCHANGED <<peer, net>>
  <2> DEFINE h == address
             full == Cardinality(PeersOf(h)) >= setup.cap
             b == IF full THEN "none" ELSE "attached"
             q == IF full THEN <<Closed>> ELSE <<Hello>>
             r == IF full THEN << >> ELSE <<Hello>>
  <2>1. /\ address \notin {NoDevice, d}
        /\ peer' = [peer EXCEPT ![d][h] = "attached", ![h][d] = b]
        /\ net' = [net EXCEPT ![h][d] = q, ![d][h] = r]
    BY <1>5 DEF Join
  <2>2. h \in Devices /\ h # d
    BY <1>1, <2>1
  <2>3. b \in Stands /\ b # "authed" /\ "attached" \in Stands /\ q \in Seq(Msgs) /\ r \in Seq(Msgs)
    <3>1. Closed \in Msgs /\ Hello \in Msgs
      BY DEF Closed, Hello, Message, Msgs, Kinds
    <3>2. <<Closed>> \in Seq(Msgs) /\ <<Hello>> \in Seq(Msgs)
      BY <3>1
    <3> QED BY <3>2 DEF Stands
  <2>4. \A v \in Nat : Truthful(q, v) /\ Truthful(r, v)
    BY Untold
  <2> HIDE DEF h, b, q, r
  <2>5. /\ peer'[d][h] = "attached" /\ peer'[h][d] = b
        /\ \A f, g \in Devices : ~(f = d /\ g = h) /\ ~(f = h /\ g = d) => peer'[f][g] = peer[f][g]
    BY <1>1, <2>1, <2>2, <2>3 DEF Peers
  <2>6. /\ net'[h][d] = q /\ net'[d][h] = r
        /\ \A f, g \in Devices : ~(f = d /\ g = h) /\ ~(f = h /\ g = d) => net'[f][g] = net[f][g]
    BY <1>1, <2>1, <2>2, <2>3 DEF Net
  <2>7. copy \in [Devices -> Nat]
    BY DEF SyncInv, SyncTypes
  <2>8. ASSUME NEW f \in Devices, NEW g \in Devices, f # g PROVE PairLeft(f, g)
    <3>1. CASE f = d /\ g = h
      BY <2>4, <2>5, <2>6, <2>7, <3>1 DEF PairLeft, Open
    <3>2. CASE f = h /\ g = d
      BY <2>3, <2>4, <2>5, <2>6, <2>7, <3>2 DEF PairLeft, Open
    <3>3. CASE ~(f = d /\ g = h) /\ ~(f = h /\ g = d)
      <4>1. /\ peer'[f][g] = peer[f][g] /\ peer'[g][f] = peer[g][f]
            /\ net'[f][g] = net[f][g] /\ net'[g][f] = net[g][f]
        BY <2>5, <2>6, <3>3
      <4> QED BY <1>2, <4>1 DEF PairLeft
    <3> QED BY <3>1, <3>2, <3>3
  <2> QED BY <1>2, <1>3, <2>8, NewsLeft
<1> QED BY <1>4, <1>5

LEMMA StopNews ==
    ASSUME SyncInv, NewsInv, NEW d \in Devices, StopSync(d) PROVE NewsInv'
<1>1. /\ net \in Net /\ peer \in Peers /\ jobs \in [Devices -> SUBSET Job] /\ copy \in [Devices -> Nat]
      /\ SyncTypes /\ peer[d][d] = "none"
  BY DEF SyncInv, SyncTypes, Net, Peers, PairInv
<1>2. /\ push' = push \ {d} /\ jobs' = [jobs EXCEPT ![d] = {[j EXCEPT !.from = NoDevice] : j \in @}]
      /\ UNCHANGED <<copy, seen>> /\ peer' = [peer EXCEPT ![d] = [e \in Devices |-> "none"]]
  BY DEF StopSync
<1> DEFINE last(e) == IF Linked(d, e) THEN net[d][e] \o <<Message("bye", 0), Closed>>
                      ELSE IF peer[e][d] = "none" THEN << >> ELSE net[d][e]
<1>3. net' = [f \in Devices |-> [e \in Devices |->
                IF f = d THEN last(e) ELSE IF e = d THEN << >> ELSE net[f][e]]]
  BY DEF StopSync
<1>4. /\ \A e \in Devices : peer'[d][e] = "none"
      /\ \A f, e \in Devices : f # d => peer'[f][e] = peer[f][e]
  BY <1>1, <1>2 DEF Peers
<1>5. ASSUME NEW e \in Devices, e # d PROVE Truthful(last(e), copy[d])
  <2>1. net[d][e] \in Seq(Msgs) /\ copy[d] \in Nat /\ Truthful(net[d][e], copy[d])
    BY <1>1, <1>5 DEF NewsInv, TellsOf, Net
  <2>2. net[d][e] \o <<Message("bye", 0), Closed>> = Farewell(net[d][e], TRUE)
    BY <2>1, TwoMore
  <2>3. Truthful(Farewell(net[d][e], TRUE), copy[d])
    BY <2>1, TruthfulEnds
  <2> QED BY <2>1, <2>2, <2>3, Untold
<1> HIDE DEF last
<1>6. /\ \A e \in Devices : net'[d][e] = last(e)
      /\ \A e \in Devices : e # d => net'[e][d] = << >>
      /\ \A f, e \in Devices : f # d /\ e # d => net'[f][e] = net[f][e]
  BY <1>3
<1>7. ASSUME NEW f \in Devices PROVE JobsAlike(jobs[f], jobs'[f])
  <2>1. jobs'[f] = IF f = d THEN {[j EXCEPT !.from = NoDevice] : j \in jobs[f]} ELSE jobs[f]
    BY <1>1, <1>2
  <2>2. jobs[f] \in SUBSET Job
    BY <1>1
  <2>3. /\ JobsAlike(jobs[f], jobs[f])
        /\ JobsAlike(jobs[f], {[j EXCEPT !.from = NoDevice] : j \in jobs[f]})
    BY <2>2, SameJobs, Orphaned
  <2>4. CASE f = d
    <3>1. jobs'[f] = {[j EXCEPT !.from = NoDevice] : j \in jobs[f]}
      BY <2>1, <2>4
    <3> QED BY <2>3, <3>1
  <2>5. CASE f # d
    BY <2>1, <2>3, <2>5
  <2> QED BY <2>4, <2>5
<1>8. ASSUME NEW f \in Devices, NEW g \in Devices, f # g PROVE PairLeft(f, g)
  <2>1. CASE f = d
    <3>1. ~Open(f, g)' /\ Truthful(net'[f][g], copy[f])
      BY <1>4, <1>5, <1>6, <1>8, <2>1 DEF Open
    <3> QED BY <3>1 DEF PairLeft
  <2>2. CASE g = d
    <3>1. ~Open(f, g)' /\ Truthful(net'[f][g], copy[f])
      BY <1>4, <1>6, <1>8, <2>2, Untold DEF Open
    <3> QED BY <3>1 DEF PairLeft
  <2>3. CASE f # d /\ g # d
    <3>1. /\ peer'[f][g] = peer[f][g] /\ peer'[g][f] = peer[g][f]
          /\ net'[f][g] = net[f][g] /\ net'[g][f] = net[g][f]
      BY <1>4, <1>6, <2>3
    <3> QED BY <1>2, <2>3, <3>1 DEF PairLeft
  <2> QED BY <2>1, <2>2, <2>3
<1> QED BY <1>2, <1>7, <1>8, NewsLeft

(* A message that is handled: what it told is known, applied or asked for.  *)
LEMMA HandledTells ==
    ASSUME SyncInv, NewsInv, NEW d \in Devices, NEW e \in Devices, d # e, NEW i \in Due(net[e][d]),
           NEW c, NEW m, NEW S, Handled(d, e, i, c, m, S)
    PROVE  NewsInv'
<1>1. /\ net \in Net /\ peer \in Peers /\ copy \in [Devices -> Nat] /\ jobs \in [Devices -> SUBSET Job]
      /\ SyncTypes /\ PairInv
  BY DEF SyncInv, SyncTypes, Net, Peers
<1>2. /\ MayAnswer(d, e, c, m, S) /\ Answers(d, e, i, c, m, S)
      /\ UNCHANGED <<copy, push, seen>>
      /\ HandledJobs(d, e, m, S) /\ HandledNews(d, e, c, m, S)
  BY DEF Handled
<1> DEFINE q == net[e][d]
           r == net[d][e]
           u == q[1]
<1>3. /\ q \in Seq(Msgs) /\ r \in Seq(Msgs) /\ m \in Msgs /\ copy[d] \in Nat /\ copy[e] \in Nat
      /\ u \in Msgs /\ u.version \in Nat /\ m.version \in Nat
  <2>1. u \in Msgs
    BY <1>1, Heard DEF Net
  <2> QED BY <1>1, <1>2, <2>1 DEF Net, MayAnswer, Msgs
<1>4. /\ peer[d][e] # "none" /\ u.kind # "closed" /\ (S = {} \/ S = {e}) /\ c \in {"greeted", "authed"}
      /\ m.kind # "closed"
  BY <1>2 DEF MayAnswer, Proofs
<1> DEFINE n == [net EXCEPT ![e][d] = RemoveAt(@, i)]
<1>5. /\ n \in Net /\ n[e][d] = RemoveAt(q, i)
      /\ \A f, g \in Devices : f # e \/ g # d => n[f][g] = net[f][g]
  BY <1>1, TakenFacts
<1>6. net' = Sent(n, d, S, m)
  BY <1>2 DEF Answers
<1> HIDE DEF n
<1>7. /\ \A f \in Devices : net'[d][f] = IF f \in S /\ Linked(d, f) THEN Append(n[d][f], m) ELSE n[d][f]
      /\ \A g, f \in Devices : g # d => net'[g][f] = n[g][f]
  <2>1. /\ \A f \in Devices :
              Sent(n, d, S, m)[d][f] = IF f \in S /\ Linked(d, f) THEN Append(n[d][f], m) ELSE n[d][f]
        /\ \A g, f \in Devices : g # d => Sent(n, d, S, m)[g][f] = n[g][f]
    BY <1>3, <1>5, SentFacts
  <2> QED BY <1>6, <2>1
<1>8. peer'[d][e] = c /\ \A f, g \in Devices : f # d \/ g # e => peer'[f][g] = peer[f][g]
  <2>1. peer' = [peer EXCEPT ![d][e] = c]
    BY <1>2 DEF Answers
  <2> QED BY <1>1, <2>1 DEF Peers
<1>9. net'[e][d] = RemoveAt(q, i)
  BY <1>5, <1>7
<1>10. net'[d][e] = IF S = {e} /\ Linked(d, e) THEN Append(r, m) ELSE r
  <2>1. n[d][e] = r
    BY <1>5
  <2>2. e \in S <=> S = {e}
    BY <1>4
  <2> QED BY <1>7, <2>1, <2>2
<1>11. \A f, g \in Devices : ~(f = d /\ g = e) /\ ~(f = e /\ g = d) =>
          net'[f][g] = net[f][g] /\ peer'[f][g] = peer[f][g]
  <2> SUFFICES ASSUME NEW f \in Devices, NEW g \in Devices, ~(f = d /\ g = e), ~(f = e /\ g = d)
               PROVE  net'[f][g] = net[f][g] /\ peer'[f][g] = peer[f][g]
    OBVIOUS
  <2>1. n[f][g] = net[f][g] /\ peer'[f][g] = peer[f][g]
    BY <1>5, <1>8
  <2>2. CASE f = d
    <3>1. g \notin S
      BY <1>4, <2>2
    <3> QED BY <1>7, <2>1, <2>2, <3>1
  <2>3. CASE f # d
    BY <1>7, <2>1, <2>3
  <2> QED BY <2>2, <2>3
<1>12. Linked(d, e) <=> peer[e][d] # "none" /\ ~Ends(q) /\ ~Ends(r)
  BY <1>1, <1>4, LinkedEnds
<1>13. peer[e][d] # "none" => (Ends(q) <=> Ends(r))
  <2>1. Both(peer[d][e], peer[e][d], q, r)
    BY <1>1, PairBoth
  <2> QED BY <1>4, <2>1 DEF Both, Orderly
<1>14. /\ TellsOf(d, e) /\ TellsOf(e, d)
       /\ \A f \in Devices : seen.best[f] = copy[f] /\ JobsOk(f)
  BY DEF NewsInv
<1>15. /\ jobs[d] \subseteq jobs'[d] /\ \A f \in Devices : f # d => jobs'[f] = jobs[f]
       /\ \A j \in jobs'[d] \ jobs[d] :
             /\ u.kind = "data" /\ j.from = e /\ j.version = u.version
             /\ j.put <=> j.version > copy[d]
       /\ u.kind \in News =>
             u.version <= copy[d] \/ Applies(jobs'[d], u.version) \/ (S = {e} /\ m.kind = "want")
  BY <1>2 DEF HandledJobs
<1>16. /\ u.kind = "want" => S = {e} /\ m = Message("data", copy[d])
       /\ c = "authed" /\ peer[d][e] # "authed" => S = {e} /\ m = Manifest(d)
       /\ S = {e} /\ m.kind \in News => m.version = copy[d]
  BY <1>2 DEF HandledNews
<1>17. /\ Truthful(q, copy[e]) => Truthful(RemoveAt(q, i), copy[e]) /\ (u.kind \in News => u.version <= copy[e])
       /\ Carries(q, copy[e]) => Carries(RemoveAt(q, i), copy[e]) \/ (u.kind \in News /\ u.version >= copy[e])
       /\ Wants(q) => Wants(RemoveAt(q, i)) \/ u.kind = "want"
       /\ Ends(RemoveAt(q, i)) <=> Ends(q)
  BY <1>3, <1>4, NewsHeard, HeardFacts
<1>18. /\ Truthful(r, copy[d]) => Truthful(net'[d][e], copy[d])
       /\ Carries(r, copy[d]) => Carries(net'[d][e], copy[d])
       /\ Wants(r) => Wants(net'[d][e])
       /\ Ends(r) => Ends(net'[d][e])
       /\ S = {e} /\ Linked(d, e) /\ m.kind \in News => Carries(net'[d][e], copy[d])
       /\ S = {e} /\ Linked(d, e) /\ m.kind = "want" => Wants(net'[d][e])
  <2>1. CASE S = {e} /\ Linked(d, e)
    <3>1. net'[d][e] = Append(r, m)
      BY <1>10, <2>1
    <3>2. m.kind \in News => m.version = copy[d]
      BY <1>16, <2>1
    <3>3. /\ Truthful(r, copy[d]) => Truthful(Append(r, m), copy[d])
          /\ Carries(r, copy[d]) => Carries(Append(r, m), copy[d])
          /\ Wants(r) => Wants(Append(r, m))
          /\ m.kind \in News => Carries(Append(r, m), copy[d])
          /\ m.kind = "want" => Wants(Append(r, m))
      <4> HIDE DEF q, r, u
      <4>1. /\ m.kind \in News /\ m.version >= copy[d] => Carries(Append(r, m), copy[d])
            /\ Truthful(r, copy[d]) /\ (m.kind \in News => m.version <= copy[d]) =>
                  Truthful(Append(r, m), copy[d])
            /\ Carries(r, copy[d]) => Carries(Append(r, m), copy[d])
            /\ Wants(r) => Wants(Append(r, m))
            /\ m.kind = "want" => Wants(Append(r, m))
        BY <1>3, NewsQueued
      <4>2. m.kind \in News => m.version >= copy[d] /\ m.version <= copy[d]
        BY <1>3, <3>2
      <4> QED BY <4>1, <4>2
    <3>4. Ends(r) => Ends(Append(r, m))
      BY <1>3, QueuedFacts
    <3> HIDE DEF q, r, u
    <3> QED BY <3>1, <3>3, <3>4
  <2>2. CASE ~(S = {e} /\ Linked(d, e))
    <3>1. net'[d][e] = r
      BY <1>10, <2>2
    <3> QED BY <2>2, <3>1
  <2> QED BY <2>1, <2>2
<1>19. TellsOf(d, e)'
  <2>1. Truthful(net[d][e], copy[d])'
    BY <1>2, <1>14, <1>18 DEF TellsOf
  <2>2. ASSUME Open(d, e)' PROVE Brings(d, e)'
    <3>1. c = "authed" /\ peer[e][d] # "none" /\ ~Ends(r) /\ Linked(d, e)
      BY <1>8, <1>12, <1>13, <1>18, <2>2 DEF Open
    <3>2. CASE peer[d][e] # "authed"
      <4>1. S = {e} /\ m.kind \in News
        BY <1>3, <1>16, <3>1, <3>2, MessageFacts DEF Manifest, News, Kinds
      <4> QED BY <1>2, <1>18, <3>1, <4>1 DEF Brings
    <3>3. CASE peer[d][e] = "authed"
      <4>1. Brings(d, e)
        BY <1>14, <3>1, <3>3 DEF TellsOf, Open
      <4>2. CASE copy[d] <= copy[e] \/ d \in push
        BY <1>2, <4>2 DEF Brings
      <4>3. CASE Applies(jobs[e], copy[d])
        BY <1>2, <1>15, <4>3 DEF Brings
      <4>4. CASE Carries(r, copy[d])
        BY <1>2, <1>18, <4>4 DEF Brings
      <4>5. CASE Wants(q)
        <5>1. CASE Wants(RemoveAt(q, i))
          BY <1>9, <5>1 DEF Brings
        <5>2. CASE u.kind = "want"
          <6>1. S = {e} /\ m.kind \in News
            BY <1>3, <1>16, <5>2, MessageFacts DEF News, Kinds
          <6> QED BY <1>2, <1>18, <3>1, <6>1 DEF Brings
        <5> QED BY <1>17, <4>5, <5>1, <5>2
      <4> QED BY <4>1, <4>2, <4>3, <4>4, <4>5 DEF Brings
    <3> QED BY <3>2, <3>3
  <2> QED BY <2>1, <2>2 DEF TellsOf
<1>20. TellsOf(e, d)'
  <2>1. Truthful(net[e][d], copy[e])'
    BY <1>2, <1>9, <1>14, <1>17 DEF TellsOf
  <2>2. ASSUME Open(e, d)' PROVE Brings(e, d)'
    <3>1. peer[e][d] = "authed" /\ ~Ends(q)
      BY <1>8, <1>9, <1>17, <2>2 DEF Open
    <3>2. Linked(d, e) /\ Brings(e, d)
      BY <1>4, <1>12, <1>13, <1>14, <3>1 DEF TellsOf, Open
    <3>3. CASE copy[e] <= copy[d] \/ e \in push
      BY <1>2, <3>3 DEF Brings
    <3>4. CASE Applies(jobs[d], copy[e])
      BY <1>2, <1>15, <3>4 DEF Brings, Applies
    <3>5. CASE Wants(r)
      BY <1>18, <3>5 DEF Brings
    <3>6. CASE Carries(q, copy[e])
      <4>1. CASE Carries(RemoveAt(q, i), copy[e])
        BY <1>2, <1>9, <4>1 DEF Brings
      <4>2. CASE u.kind \in News /\ u.version >= copy[e]
        <5>1. CASE u.version <= copy[d]
          <6>1. copy[e] <= copy[d]
            BY <1>3, <4>2, <5>1
          <6> QED BY <1>2, <6>1 DEF Brings
        <5>2. CASE Applies(jobs'[d], u.version)
          <6>1. PICK j \in jobs'[d] : j.put /\ j.version >= u.version
            BY <5>2 DEF Applies
          <6>2. jobs' \in [Devices -> SUBSET Job]
            BY <1>2 DEF HandledJobs
          <6>3. j.version \in Nat
            BY <6>1, <6>2 DEF Job
          <6>4. j.version >= copy[e]
            BY <1>3, <4>2, <6>1, <6>3
          <6> QED BY <1>2, <6>1, <6>4 DEF Brings, Applies
        <5>3. CASE S = {e} /\ m.kind = "want"
          BY <1>18, <3>2, <5>3 DEF Brings
        <5> QED BY <1>15, <4>2, <5>1, <5>2, <5>3
      <4> QED BY <1>17, <3>6, <4>1, <4>2
    <3> QED BY <3>2, <3>3, <3>4, <3>5, <3>6 DEF Brings
  <2> QED BY <2>1, <2>2 DEF TellsOf
<1>21. ASSUME NEW f \in Devices, NEW g \in Devices, f # g, ~(f = d /\ g = e), ~(f = e /\ g = d)
       PROVE  TellsOf(f, g)'
  <2>1. /\ peer'[f][g] = peer[f][g] /\ peer'[g][f] = peer[g][f]
        /\ net'[f][g] = net[f][g] /\ net'[g][f] = net[g][f]
    BY <1>11, <1>21
  <2>2. TellsOf(f, g)
    BY <1>21 DEF NewsInv
  <2>3. Applies(jobs[g], copy[f]) => Applies(jobs'[g], copy[f])
    BY <1>15 DEF Applies
  <2>4. Brings(f, g) => Brings(f, g)'
    BY <1>2, <2>1, <2>3 DEF Brings
  <2> QED BY <1>2, <2>1, <2>2, <2>4 DEF TellsOf, Open
<1>22. ASSUME NEW f \in Devices PROVE seen'.best[f] = copy'[f] /\ JobsOk(f)'
  <2>1. ASSUME NEW j \in jobs'[f]
        PROVE  (j.put <=> j.version > copy[f]) /\ (j.from \in Devices => j.version <= copy[j.from])
    <3>1. CASE j \in jobs[f]
      BY <1>14, <3>1 DEF JobsOk
    <3>2. CASE j \notin jobs[f]
      <4>1. f = d /\ u.kind = "data" /\ j.from = e /\ j.version = u.version /\ (j.put <=> j.version > copy[d])
        BY <1>15, <2>1, <3>2
      <4>2. u.version <= copy[e]
        BY <1>14, <1>17, <4>1 DEF TellsOf, News
      <4> QED BY <4>1, <4>2
    <3> QED BY <3>1, <3>2
  <2> QED BY <1>2, <1>14, <2>1 DEF JobsOk
<1> QED BY <1>19, <1>20, <1>21, <1>22 DEF NewsInv

(* A change is pushed to every peer that proved itself.                     *)
LEMMA PushNews ==
    ASSUME SyncInv, NewsInv, NEW d \in Devices, FlushPush(d) PROVE NewsInv'
<1>1. net \in Net /\ copy \in [Devices -> Nat] /\ SyncTypes /\ PairInv
  BY DEF SyncInv, SyncTypes, Net
<1> DEFINE m == Message("data", copy[d])
           S == AuthedBy(d)
<1>2. /\ push' = push \ {d} /\ net' = Sent(net, d, S, m)
      /\ UNCHANGED <<copy, peer, jobs, seen>>
  BY DEF FlushPush
<1>3. m \in Msgs /\ m.kind \in News /\ m.version = copy[d] /\ copy[d] \in Nat
  BY <1>1, MessageFacts DEF Kinds, News
<1> HIDE DEF m
<1>4. /\ \A f \in Devices : net'[d][f] = IF f \in S /\ Linked(d, f) THEN Append(net[d][f], m) ELSE net[d][f]
      /\ \A g, f \in Devices : g # d => net'[g][f] = net[g][f]
  <2>1. /\ \A f \in Devices :
              Sent(net, d, S, m)[d][f] = IF f \in S /\ Linked(d, f) THEN Append(net[d][f], m) ELSE net[d][f]
        /\ \A g, f \in Devices : g # d => Sent(net, d, S, m)[g][f] = net[g][f]
    BY <1>1, <1>3, SentFacts
  <2> QED BY <1>2, <2>1
<1>5. ASSUME NEW g \in Devices, g # d
      PROVE  /\ Truthful(net[d][g], copy[d]) => Truthful(net'[d][g], copy[d])
             /\ Wants(net[d][g]) => Wants(net'[d][g])
             /\ Open(d, g)' => Carries(net'[d][g], copy[d])
  <2> DEFINE r == net[d][g]
  <2>1. r \in Seq(Msgs)
    BY <1>1 DEF Net
  <2>2. /\ Carries(Append(r, m), copy[d]) /\ (Truthful(r, copy[d]) => Truthful(Append(r, m), copy[d]))
        /\ Wants(r) => Wants(Append(r, m))
        /\ Ends(r) => Ends(Append(r, m))
    <3> HIDE DEF r
    <3>1. m.version >= copy[d] /\ m.version <= copy[d]
      BY <1>3
    <3> QED BY <1>3, <2>1, <3>1, NewsQueued, QueuedFacts
  <2>3. Open(d, g)' => g \in S /\ Linked(d, g)
    <3>1. ASSUME Open(d, g)' PROVE g \in S /\ Linked(d, g)
      <4>1. peer[d][g] = "authed" /\ peer[g][d] # "none" /\ ~Ends(r)
        BY <1>2, <1>4, <2>2, <3>1 DEF Open
      <4>2. Ends(net[g][d]) <=> Ends(r)
        BY <1>1, <1>5, <4>1, PairBoth DEF Both, Orderly
      <4> QED BY <1>1, <4>1, <4>2, LinkedEnds DEF AuthedBy
    <3> QED BY <3>1
  <2>4. net'[d][g] = IF g \in S /\ Linked(d, g) THEN Append(r, m) ELSE r
    BY <1>4
  <2> HIDE DEF r, S
  <2>5. CASE g \in S /\ Linked(d, g)
    BY <2>2, <2>4, <2>5 DEF r
  <2>6. CASE ~(g \in S /\ Linked(d, g))
    BY <2>3, <2>4, <2>6 DEF r
  <2> QED BY <2>5, <2>6
<1>6. ASSUME NEW f \in Devices, NEW g \in Devices, f # g PROVE TellsOf(f, g)'
  <2>1. TellsOf(f, g)
    BY <1>6 DEF NewsInv
  <2>2. CASE f = d
    BY <1>2, <1>5, <1>6, <2>1, <2>2 DEF TellsOf, Brings
  <2>3. CASE f # d
    <3>1. net'[f][g] = net[f][g] /\ (Wants(net[g][f]) => Wants(net'[g][f])) /\ (f \in push => f \in push')
      BY <1>2, <1>4, <1>5, <1>6, <2>3
    <3> QED BY <1>2, <2>1, <3>1 DEF TellsOf, Brings, Open
  <2> QED BY <2>2, <2>3
<1>7. \A f \in Devices : seen'.best[f] = copy'[f] /\ JobsOk(f)'
  BY <1>2 DEF NewsInv, JobsOk
<1> QED BY <1>6, <1>7 DEF NewsInv

LEMMA MaxOfTwo ==
    ASSUME NEW x \in Nat, NEW y \in Nat PROVE Max({x, y}) = IF x <= y THEN y ELSE x
<1>1. \A z : z \in {x, y} /\ (\A w \in {x, y} : z >= w) => z = IF x <= y THEN y ELSE x
  OBVIOUS
<1>2. \E z \in {x, y} : \A w \in {x, y} : z >= w
  <2>1. CASE x <= y
    BY <2>1
  <2>2. CASE ~(x <= y)
    BY <2>2
  <2> QED BY <2>1, <2>2
<1> QED BY <1>1, <1>2 DEF Max

LEMMA SeenNow ==
    ASSUME seen \in Seen, NEW d \in Devices, NEW v \in Nat, NEW o \in BOOLEAN,
           seen' = [Newest(d, v) EXCEPT !.overlap = @ \/ o]
    PROVE  /\ seen' \in Seen /\ (seen'.overlap <=> seen.overlap \/ o)
           /\ seen.best[d] <= v => seen'.best[d] = v
           /\ \A f \in Devices : f # d => seen'.best[f] = seen.best[f]
<1>1. seen.best[d] \in Nat
  BY DEF Seen
<1> DEFINE x == Max({seen.best[d], v})
<1>2. x \in Nat /\ (seen.best[d] <= v => x = v)
  BY <1>1, MaxOfTwo
<1>3. Newest(d, v) = [seen EXCEPT !.best[d] = x]
  BY DEF Newest
<1> HIDE DEF x
<1> DEFINE y == [seen EXCEPT !.best[d] = x]
<1>4. /\ y \in Seen /\ y.overlap = seen.overlap /\ y.best[d] = x
      /\ \A f \in Devices : f # d => y.best[f] = seen.best[f]
  BY <1>2 DEF Seen
<1>5. seen' = [y EXCEPT !.overlap = @ \/ o]
  BY <1>3
<1> HIDE DEF y
<1>6. (y.overlap \/ o) \in BOOLEAN
  OBVIOUS
<1>7. seen' \in Seen /\ seen'.best = y.best /\ (seen'.overlap <=> y.overlap \/ o)
  BY <1>4, <1>5, <1>6 DEF Seen
<1> QED BY <1>2, <1>4, <1>7

(* A device changes its copy: it is to be pushed.                           *)
LEMMA ChangeNews ==
    ASSUME SyncInv, ReachInv, NEW d \in Devices, Change(d) PROVE ReachInv'
<1>1. /\ SyncTypes /\ LoopInv /\ copy \in [Devices -> Nat] /\ net \in Net /\ seen \in Seen
      /\ jobs \in [Devices -> SUBSET Job]
  BY DEF SyncInv, SyncTypes, ReachInv, Net
<1>2. PICK version \in copy[d] + 1 .. setup.versions :
         /\ copy' = [copy EXCEPT ![d] = version]
         /\ seen' = [Newest(d, version) EXCEPT !.overlap = @ \/ jobs[d] # {}]
  BY DEF Change
<1>3. /\ push' = (IF d \in running /\ jobs[d] = {} THEN push \cup {d} ELSE push)
      /\ UNCHANGED <<setup, running, hubs, address, loop, peer, net, jobs>>
  BY DEF Change
<1>4. version \in Nat /\ copy[d] \in Nat /\ version > copy[d]
  BY <1>1, <1>2 DEF SyncTypes, SyncConf
<1>5. copy'[d] = version /\ \A f \in Devices : f # d => copy'[f] = copy[f]
  BY <1>1, <1>2
<1>6. /\ seen' \in Seen /\ (seen'.overlap <=> seen.overlap \/ jobs[d] # {})
      /\ seen.best[d] <= version => seen'.best[d] = version
      /\ \A f \in Devices : f # d => seen'.best[f] = seen.best[f]
  <2> DEFINE o == jobs[d] # {}
  <2>1. o \in BOOLEAN /\ seen' = [Newest(d, version) EXCEPT !.overlap = @ \/ o]
    BY <1>2
  <2> HIDE DEF o
  <2>2. /\ seen' \in Seen /\ (seen'.overlap <=> seen.overlap \/ o)
        /\ seen.best[d] <= version => seen'.best[d] = version
        /\ \A f \in Devices : f # d => seen'.best[f] = seen.best[f]
    BY <1>1, <1>4, <2>1, SeenNow
  <2> QED BY <2>2 DEF o
<1>7. ASSUME ~seen'.overlap PROVE NewsInv'
  <2>1. NewsInv /\ jobs[d] = {}
    BY <1>6, <1>7 DEF ReachInv
  <2>2. ASSUME NEW f \in Devices PROVE seen'.best[f] = copy'[f] /\ JobsOk(f)'
    <3>1. seen.best[f] = copy[f] /\ JobsOk(f)
      BY <2>1 DEF NewsInv
    <3>2. CASE f = d
      <4>1. seen.best[d] <= version
        BY <1>4, <3>1, <3>2
      <4> QED BY <1>3, <1>5, <1>6, <2>1, <3>2, <4>1 DEF JobsOk
    <3>3. CASE f # d
      <4>1. seen'.best[f] = copy'[f]
        BY <1>5, <1>6, <3>1, <3>3
      <4>2. ASSUME NEW j \in jobs[f]
            PROVE  (j.put <=> j.version > copy'[f]) /\ (j.from \in Devices => j.version <= copy'[j.from])
        <5>1. (j.put <=> j.version > copy[f]) /\ (j.from \in Devices => j.version <= copy[j.from])
          BY <3>1 DEF JobsOk
        <5>2. j.version \in Nat
          BY <1>1 DEF Job
        <5> QED BY <1>4, <1>5, <3>3, <5>1, <5>2
      <4> QED BY <1>3, <4>1, <4>2 DEF JobsOk
    <3> QED BY <3>2, <3>3
  <2>3. ASSUME NEW f \in Devices, NEW g \in Devices, f # g PROVE TellsOf(f, g)'
    <3>1. TellsOf(f, g) /\ net[f][g] \in Seq(Msgs) /\ copy[f] \in Nat /\ copy[g] \in Nat
      BY <1>1, <2>1, <2>3 DEF NewsInv, Net
    <3>2. CASE f = d
      <4>1. Truthful(net[f][g], version)
        BY <1>4, <3>1, <3>2, TruthfulLater DEF TellsOf
      <4>2. Open(f, g) => f \in push'
        <5>1. LoopOk(d)
          BY <1>1 DEF LoopInv
        <5>2. Open(d, g) => d \in running
          BY <5>1 DEF LoopOk, Open
        <5> QED BY <1>3, <2>1, <3>2, <5>2
      <4> QED BY <1>3, <1>5, <3>2, <4>1, <4>2 DEF TellsOf, Open, Brings
    <3>3. CASE f # d
      <4>1. copy'[f] = copy[f] /\ copy[g] <= copy'[g] /\ copy'[g] \in Nat
        BY <1>4, <1>5, <3>1, <3>3
      <4>2. f \in push => f \in push'
        BY <1>3
      <4>3. copy[f] <= copy[g] => copy'[f] <= copy'[g]
        BY <3>1, <4>1
      <4>4. Brings(f, g) => Brings(f, g)'
        BY <1>3, <4>1, <4>2, <4>3 DEF Brings
      <4> QED BY <1>3, <3>1, <4>1, <4>4 DEF TellsOf, Open
    <3> QED BY <3>2, <3>3
  <2> QED BY <2>2, <2>3 DEF NewsInv
<1> QED BY <1>6, <1>7 DEF ReachInv

(* Data are written; a hub passes them on.                                  *)
LEMMA FinishNews ==
    ASSUME SyncInv, ReachInv, NEW d \in Devices, NEW j \in jobs[d], FinishJob(d, j) PROVE ReachInv'
<1>1. /\ SyncTypes /\ LoopInv /\ PairInv /\ JobInv /\ copy \in [Devices -> Nat] /\ net \in Net /\ seen \in Seen
      /\ jobs \in [Devices -> SUBSET Job]
  BY DEF SyncInv, SyncTypes, ReachInv, Net
<1> DEFINE m == Message("data", j.version)
           S == Forward(d, j)
           o == j.put /\ (j.from = NoDevice \/ Writing(jobs[d] \ {j}))
<1>2. /\ jobs' = [jobs EXCEPT ![d] = @ \ {j}]
      /\ copy' = IF j.put THEN [copy EXCEPT ![d] = j.version] ELSE copy
      /\ seen' = [Newest(d, copy'[d]) EXCEPT !.overlap = @ \/ o]
      /\ net' = Sent(net, d, S, m)
      /\ UNCHANGED <<setup, running, hubs, address, loop, peer, push>>
  BY DEF FinishJob
<1>3. /\ j \in Job /\ j.version \in Nat /\ j.put \in BOOLEAN /\ j.from \in Devices \cup {NoDevice}
      /\ copy[d] \in Nat
  BY <1>1 DEF Job
<1>4. /\ copy'[d] = IF j.put THEN j.version ELSE copy[d]
      /\ \A f \in Devices : f # d => copy'[f] = copy[f]
      /\ copy'[d] \in Nat
  BY <1>1, <1>2, <1>3
<1>5. o \in BOOLEAN
  OBVIOUS
<1>6. m \in Msgs /\ m.kind \in News /\ m.version = j.version
  BY <1>3, MessageFacts DEF Kinds, News
<1> HIDE DEF m, S, o
<1>7. /\ seen' \in Seen /\ (seen'.overlap <=> seen.overlap \/ o)
      /\ seen.best[d] <= copy'[d] => seen'.best[d] = copy'[d]
      /\ \A f \in Devices : f # d => seen'.best[f] = seen.best[f]
  <2> DEFINE v == copy'[d]
  <2>1. v \in Nat /\ seen' = [Newest(d, v) EXCEPT !.overlap = @ \/ o]
    BY <1>2, <1>4
  <2> HIDE DEF v
  <2>2. /\ seen' \in Seen /\ (seen'.overlap <=> seen.overlap \/ o)
        /\ seen.best[d] <= v => seen'.best[d] = v
        /\ \A f \in Devices : f # d => seen'.best[f] = seen.best[f]
    BY <1>1, <1>5, <2>1, SeenNow
  <2> QED BY <2>2 DEF v
<1>8. /\ \A f \in Devices : net'[d][f] = IF f \in S /\ Linked(d, f) THEN Append(net[d][f], m) ELSE net[d][f]
      /\ \A g, f \in Devices : g # d => net'[g][f] = net[g][f]
  <2>1. /\ \A f \in Devices :
              Sent(net, d, S, m)[d][f] = IF f \in S /\ Linked(d, f) THEN Append(net[d][f], m) ELSE net[d][f]
        /\ \A g, f \in Devices : g # d => Sent(net, d, S, m)[g][f] = net[g][f]
    BY <1>1, <1>6, SentFacts
  <2> QED BY <1>2, <2>1
<1>9. jobs'[d] = jobs[d] \ {j} /\ \A f \in Devices : f # d => jobs'[f] = jobs[f]
  BY <1>1, <1>2
<1>10. ASSUME ~seen'.overlap PROVE NewsInv'
  <2>1. NewsInv /\ ~o
    BY <1>7, <1>10 DEF ReachInv
  <2>2. /\ j.put <=> j.version > copy[d]
        /\ j.from \in Devices => j.version <= copy[j.from]
        /\ j.put => j.from \in Devices /\ \A k \in jobs'[d] : ~k.put
    <3>1. JobsOk(d)
      BY <2>1 DEF NewsInv
    <3> QED BY <1>3, <1>9, <2>1, <3>1 DEF JobsOk, o, Writing
  <2>3. copy[d] <= copy'[d] /\ j.version <= copy'[d]
    BY <1>3, <1>4, <2>2
  <2>4. ASSUME NEW f \in Devices PROVE seen'.best[f] = copy'[f] /\ JobsOk(f)'
    <3>1. seen.best[f] = copy[f] /\ JobsOk(f)
      BY <2>1 DEF NewsInv
    <3>2. seen'.best[f] = copy'[f]
      BY <1>4, <1>7, <2>3, <3>1
    <3>3. ASSUME NEW k \in jobs'[f]
          PROVE  (k.put <=> k.version > copy'[f]) /\ (k.from \in Devices => k.version <= copy'[k.from])
      <4>1. k \in jobs[f]
        BY <1>9
      <4>2. /\ k.put <=> k.version > copy[f]
            /\ k.from \in Devices => k.version <= copy[k.from]
            /\ k.version \in Nat
        BY <1>1, <3>1, <4>1 DEF JobsOk, Job
      <4>3. k.from \in Devices => k.version <= copy'[k.from]
        BY <1>1, <1>4, <2>3, <4>2
      <4>4. k.put <=> k.version > copy'[f]
        <5>1. CASE f = d /\ j.put
          <6>1. ~k.put
            BY <2>2, <5>1
          <6> QED BY <1>3, <1>4, <2>3, <4>2, <5>1, <6>1
        <5>2. CASE ~(f = d /\ j.put)
          BY <1>4, <4>2, <5>2
        <5> QED BY <5>1, <5>2
      <4> QED BY <4>3, <4>4
    <3> QED BY <3>2, <3>3 DEF JobsOk
  <2>5. ASSUME NEW g \in Devices, g # d
        PROVE  /\ Truthful(net'[d][g], copy'[d])
               /\ Wants(net[d][g]) => Wants(net'[d][g])
               /\ \A v \in Nat : Carries(net[d][g], v) => Carries(net'[d][g], v)
               /\ Open(d, g)' => Open(d, g)
               /\ Open(d, g) /\ g \in S => Carries(net'[d][g], j.version)
    <3> DEFINE r == net[d][g]
    <3>1. r \in Seq(Msgs)
      BY <1>1 DEF Net
    <3>2. Truthful(r, copy'[d])
      <4>1. Truthful(r, copy[d])
        BY <2>1, <2>5 DEF NewsInv, TellsOf
      <4> HIDE DEF r
      <4> QED BY <1>3, <1>4, <2>3, <3>1, <4>1, TruthfulLater
    <3>3. /\ Truthful(Append(r, m), copy'[d]) /\ (Wants(r) => Wants(Append(r, m)))
          /\ \A v \in Nat : Carries(r, v) => Carries(Append(r, m), v)
          /\ Carries(Append(r, m), j.version)
          /\ Ends(r) => Ends(Append(r, m))
      <4> HIDE DEF r
      <4>1. m.version >= j.version /\ m.version <= copy'[d]
        BY <1>3, <1>6, <2>3
      <4>2. Truthful(Append(r, m), copy'[d]) /\ (Wants(r) => Wants(Append(r, m)))
        BY <1>4, <1>6, <3>1, <3>2, <4>1, NewsQueued
      <4>3. \A v \in Nat : Carries(r, v) => Carries(Append(r, m), v)
        BY <1>6, <3>1, NewsQueued
      <4>4. Carries(Append(r, m), j.version)
        BY <1>3, <1>6, <3>1, <4>1, NewsQueued
      <4>5. Ends(r) => Ends(Append(r, m))
        BY <1>6, <3>1, QueuedFacts
      <4> QED BY <4>2, <4>3, <4>4, <4>5
    <3>4. net'[d][g] = IF g \in S /\ Linked(d, g) THEN Append(r, m) ELSE r
      BY <1>8
    <3>5. Open(d, g) => Linked(d, g)
      <4>1. Linked(d, g) <=> peer[d][g] # "none" /\ peer[g][d] # "none" /\ ~Ends(net[g][d]) /\ ~Ends(r)
        BY <1>1, LinkedEnds
      <4>2. Both(peer[d][g], peer[g][d], net[g][d], r)
        BY <1>1, <2>5, PairBoth
      <4> QED BY <4>1, <4>2 DEF Both, Orderly, Open
    <3>6. Open(d, g)' => Open(d, g)
      <4>1. Ends(r) => Ends(net'[d][g])
        BY <3>3, <3>4
      <4> QED BY <1>2, <4>1 DEF Open
    <3>7. /\ Truthful(net'[d][g], copy'[d]) /\ (Wants(r) => Wants(net'[d][g]))
          /\ \A v \in Nat : Carries(r, v) => Carries(net'[d][g], v)
          /\ g \in S /\ Linked(d, g) => Carries(net'[d][g], j.version)
      <4> HIDE DEF r
      <4>1. CASE g \in S /\ Linked(d, g)
        BY <3>3, <3>4, <4>1
      <4>2. CASE ~(g \in S /\ Linked(d, g))
        BY <3>2, <3>4, <4>2
      <4> QED BY <4>1, <4>2
    <3> QED BY <3>5, <3>6, <3>7
  <2>6. ASSUME NEW g \in Devices, g # d PROVE TellsOf(d, g)'
    <3>1. TellsOf(d, g) /\ copy'[g] = copy[g] /\ jobs'[g] = jobs[g] /\ net'[g][d] = net[g][d]
      BY <1>4, <1>8, <1>9, <2>1, <2>6 DEF NewsInv
    <3>2. ASSUME Open(d, g)' PROVE Brings(d, g)'
      <4>1. Open(d, g) /\ Brings(d, g)
        BY <2>5, <2>6, <3>1, <3>2 DEF TellsOf
      <4>2. CASE ~j.put
        <5>1. copy'[d] = copy[d]
          BY <1>4, <4>2
        <5>2. Carries(net[d][g], copy[d]) => Carries(net'[d][g], copy[d])
          BY <1>3, <2>5, <2>6
        <5> QED BY <1>2, <3>1, <4>1, <5>1, <5>2 DEF Brings
      <4>3. CASE j.put /\ g = j.from
        <5>1. copy'[d] <= copy'[g]
          BY <1>4, <2>2, <3>1, <4>3
        <5> QED BY <5>1 DEF Brings
      <4>4. CASE j.put /\ g # j.from
        <5>1. j.from \in Devices /\ peer[d][j.from] # "none" /\ peer[d][g] = "authed"
          BY <1>1, <2>2, <4>1, <4>4 DEF JobInv, Open
        <5>2. d \in hubs
          <6>1. LoopOk(d)
            BY <1>1 DEF LoopInv
          <6>2. loop[d] = "connected"
            BY <5>1, <6>1 DEF LoopOk
          <6>3. ASSUME d \notin hubs PROVE FALSE
            <7>1. PICK e \in Devices : \A h \in Devices : h # e => peer[d][h] = "none"
              BY <6>1, <6>2, <6>3 DEF LoopOk
            <7>2. e = j.from /\ e = g
              BY <5>1, <7>1
            <7> QED BY <4>4, <7>2
          <6> QED BY <6>3
        <5>3. g \in S
          BY <4>4, <5>1, <5>2 DEF S, Forward, AuthedBy
        <5>4. Carries(net'[d][g], j.version)
          BY <2>5, <2>6, <4>1, <5>3
        <5>5. copy'[d] = j.version
          BY <1>4, <4>4
        <5> QED BY <5>4, <5>5 DEF Brings
      <4> QED BY <4>2, <4>3, <4>4
    <3> QED BY <2>5, <2>6, <3>2 DEF TellsOf
  <2>7. ASSUME NEW g \in Devices, g # d PROVE TellsOf(g, d)'
    <3>1. TellsOf(g, d) /\ copy'[g] = copy[g] /\ net'[g][d] = net[g][d] /\ copy[g] \in Nat
      BY <1>1, <1>4, <1>8, <2>1, <2>7 DEF NewsInv
    <3>2. copy[g] <= copy[d] => copy'[g] <= copy'[d]
      BY <1>3, <1>4, <2>3, <3>1
    <3>3. Applies(jobs[d], copy[g]) => Applies(jobs'[d], copy[g]) \/ copy'[g] <= copy'[d]
      <4>1. ASSUME NEW k \in jobs[d], k.put, k.version >= copy[g], ~Applies(jobs'[d], copy[g])
            PROVE  copy'[g] <= copy'[d]
        <5>1. k = j
          BY <1>9, <4>1 DEF Applies
        <5> QED BY <1>4, <3>1, <4>1, <5>1
      <4> QED BY <4>1 DEF Applies
    <3>4. Wants(net[d][g]) => Wants(net'[d][g])
      BY <2>5, <2>7
    <3>5. Brings(g, d) => Brings(g, d)'
      BY <1>2, <3>1, <3>2, <3>3, <3>4 DEF Brings
    <3> QED BY <1>2, <3>1, <3>5 DEF TellsOf, Open
  <2>8. ASSUME NEW f \in Devices, NEW g \in Devices, f # d, g # d, f # g PROVE TellsOf(f, g)'
    <3>1. /\ TellsOf(f, g) /\ copy'[f] = copy[f] /\ copy'[g] = copy[g] /\ jobs'[g] = jobs[g]
          /\ net'[f][g] = net[f][g] /\ net'[g][f] = net[g][f]
      BY <1>4, <1>8, <1>9, <2>1, <2>8 DEF NewsInv
    <3> QED BY <1>2, <3>1 DEF TellsOf, Brings, Open
  <2> QED BY <2>4, <2>6, <2>7, <2>8 DEF NewsInv
<1> QED BY <1>7, <1>10 DEF ReachInv

LEMMA ReachStays ==
    ASSUME ReachInv, UNCHANGED seen, NewsInv => NewsInv'
    PROVE  ReachInv'
BY DEF ReachInv

(* A message that is handled, whatever it is.                               *)
LEMMA HandleStep ==
    ASSUME SyncInv, ReachInv, NEW d \in Devices, NEW e \in Devices, d # e, Handle(d, e)
    PROVE  SyncInv' /\ ReachInv'
<1>1. CASE HandleBye(d, e)
  <2>1. UNCHANGED seen
    BY <1>1 DEF HandleBye
  <2> QED BY <1>1, <2>1, ByeStep, ByeNews, ReachStays
<1>2. CASE ~HandleBye(d, e)
  <2>1. SomeHandled(d, e)
    BY <1>2, HelloStep, AuthStep, ManifestStep, WantStep, DataStep DEF Handle
  <2>2. PICK i \in Due(net[e][d]), c \in {"greeted", "authed"}, m \in Msgs, S \in {{}, {e}} :
           Handled(d, e, i, c, m, S)
    BY <2>1 DEF SomeHandled
  <2>3. SyncInv'
    BY <2>2, HandledKeeps
  <2>4. NewsInv => NewsInv'
    BY <2>2, HandledTells
  <2>5. UNCHANGED seen
    BY <2>2 DEF Handled
  <2> QED BY <2>3, <2>4, <2>5, ReachStays
<1> QED BY <1>1, <1>2

LEMMA SyncSteps == SyncInv /\ ReachInv /\ [SyncNext]_syncVars => SyncInv' /\ ReachInv'
<1> SUFFICES ASSUME SyncInv, ReachInv, [SyncNext]_syncVars PROVE SyncInv' /\ ReachInv'
  OBVIOUS
<1>1. ASSUME NEW d \in Devices, StartSync(d) \/ Host(d) \/ RetryTimer(d) \/ LoseAddress
      PROVE  SyncInv' /\ ReachInv'
  <2>1. UNCHANGED seen
    BY <1>1 DEF StartSync, Host, RetryTimer, LoseAddress
  <2>2. NewsInv => NewsInv'
    BY <1>1, AloneNews
  <2> QED BY <1>1, <2>1, <2>2, AloneStep, ReachStays
<1>2. CASE LoseAddress
  <2>1. address \in Devices
    BY <1>2 DEF LoseAddress, SyncInv, SyncTypes
  <2> QED BY <1>1, <1>2, <2>1
<1>3. ASSUME NEW d \in Devices, StopSync(d) PROVE SyncInv' /\ ReachInv'
  <2>1. UNCHANGED seen
    BY <1>3 DEF StopSync
  <2>2. NewsInv => NewsInv'
    BY <1>3, StopNews
  <2> QED BY <1>3, <2>1, <2>2, StopStep, ReachStays
<1>4. ASSUME NEW d \in Devices, Join(d) PROVE SyncInv' /\ ReachInv'
  <2>1. UNCHANGED seen
    BY <1>4 DEF Join
  <2>2. NewsInv => NewsInv'
    BY <1>4, JoinNews
  <2> QED BY <1>4, <2>1, <2>2, JoinStep, ReachStays
<1>5. ASSUME NEW d \in Devices, FlushPush(d) PROVE SyncInv' /\ ReachInv'
  <2>1. UNCHANGED seen
    BY <1>5 DEF FlushPush
  <2>2. NewsInv => NewsInv'
    BY <1>5, PushNews
  <2> QED BY <1>5, <2>1, <2>2, PushStep, ReachStays
<1>6. ASSUME NEW d \in Devices, NEW j \in jobs[d], FinishJob(d, j) PROVE SyncInv' /\ ReachInv'
  BY <1>6, PushStep, FinishNews
<1>7. ASSUME NEW d \in Devices, Change(d) PROVE SyncInv' /\ ReachInv'
  BY <1>7, AloneStep, ChangeNews
<1>8. ASSUME NEW d \in Devices, NEW e \in Devices \ {d}, Handle(d, e) PROVE SyncInv' /\ ReachInv'
  BY <1>8, HandleStep
<1>9. ASSUME NEW d \in Devices, NEW e \in Devices \ {d}, Break(d, e) PROVE SyncInv' /\ ReachInv'
  <2>1. UNCHANGED seen
    BY <1>9 DEF Break
  <2>2. NewsInv => NewsInv'
    BY <1>9, BreakNews
  <2> QED BY <1>9, <2>1, <2>2, BreakStep, ReachStays
<1>10. CASE UNCHANGED syncVars
  <2>1. UNCHANGED <<setup, copy, running, hubs, address, loop, peer, net, push, jobs>> /\ UNCHANGED seen
    BY <1>10 DEF syncVars
  <2>2. SyncTypes' /\ PairInv' /\ LoopInv' /\ JobInv'
    BY <2>1 DEF SyncInv, SyncTypes, PairInv, Pair, LoopInv, LoopOk, JobInv
  <2>3. NewsInv => NewsInv'
    BY <2>1 DEF NewsInv, JobsOk, TellsOf, Open, Brings
  <2> QED BY <2>1, <2>2, <2>3, ReachStays DEF SyncInv
<1> QED BY <1>1, <1>2, <1>3, <1>4, <1>5, <1>6, <1>7, <1>8, <1>9, <1>10 DEF SyncNext

LEMMA ReachStarts == SyncInit => ReachInv
<1> SUFFICES ASSUME SyncInit PROVE ReachInv
  OBVIOUS
<1>1. seen = [best |-> [d \in Devices |-> 0], overlap |-> FALSE]
  BY DEF SyncInit
<1>2. seen \in Seen /\ \A d \in Devices : seen.best[d] = 0
  BY <1>1 DEF Seen
<1>3. \A d \in Devices : JobsOk(d) /\ copy[d] = 0
  BY DEF SyncInit, JobsOk
<1>4. \A d, e \in Devices : TellsOf(d, e)
  BY DEF SyncInit, TellsOf, Open, Truthful
<1> QED BY <1>2, <1>3, <1>4 DEF ReachInv, NewsInv

LEMMA SyncKept == SyncSpec => [](SyncInv /\ ReachInv)
<1>1. SyncInit => SyncInv /\ ReachInv
  BY SyncStarts, ReachStarts
<1> QED BY <1>1, SyncSteps, PTL DEF SyncSpec

LEMMA LooksOn == SyncInv => StillLooking
<1> SUFFICES ASSUME SyncInv, NEW d \in running
             PROVE  d \in hubs \/ PeersOf(d) # {} \/ loop[d] \in {"host", "join", "retry"}
  BY DEF StillLooking
<1>1. d \in Devices /\ loop[d] \in Loops /\ LoopOk(d)
  BY DEF SyncInv, SyncTypes, LoopInv
<1> QED BY <1>1 DEF LoopOk, Loops, PeersOf

LEMMA AllArrived == SyncInv /\ ReachInv => Converged
<1> SUFFICES ASSUME SyncInv, ReachInv, Quiet, ~seen.overlap, NEW d \in Devices, NEW e \in Devices,
                    peer[d][e] = "authed", peer[e][d] = "authed"
             PROVE  copy[d] = copy[e] /\ copy[d] = Max({seen.best[d], seen.best[e]})
  BY DEF Converged
<1>1. NewsInv /\ d # e /\ copy[d] \in Nat /\ copy[e] \in Nat
  BY DEF ReachInv, SyncInv, SyncTypes, PairInv
<1>2. push = {} /\ \A f, g \in Devices : jobs[f] = {} /\ net[f][g] = << >>
  BY DEF Quiet
<1>3. Open(d, e) /\ Open(e, d)
  BY <1>2 DEF Open, Ends
<1>4. Brings(d, e) /\ Brings(e, d)
  BY <1>1, <1>3 DEF NewsInv, TellsOf
<1>5. copy[d] <= copy[e] /\ copy[e] <= copy[d]
  BY <1>2, <1>4 DEF Brings, Applies, Carries, Wants
<1>6. seen.best[d] = copy[d] /\ seen.best[e] = copy[e]
  BY <1>1 DEF NewsInv
<1> QED BY <1>1, <1>5, <1>6, MaxOfTwo

(* However hubs stop, connections break and messages cross, a device that syncs is
   a hub, has a peer, or is about to try again.                             *)
THEOREM AlwaysLooking == SyncSpec => []StillLooking
BY SyncKept, LooksOn, PTL

(* Once everything sent has arrived, devices that proved themselves to each other
   have the same version of the match, the newest either of them ever had.  *)
THEOREM Converges == SyncSpec => []Converged
BY SyncKept, AllArrived, PTL
=============================================================================
