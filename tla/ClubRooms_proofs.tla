-------------------------- MODULE ClubRooms_proofs --------------------------
(***************************************************************************)
(* Proofs about what a club's rooms are for.  The door: what is stored is  *)
(* legal, whoever writes meanwhile, and devices and requests are in order. *)
(* The open-face poker table: cards are kept and last, the table goes on,  *)
(* and its ledger tells the scores.                                        *)
(***************************************************************************)
EXTENDS ClubDoor, OfcTable, ProofLemmas, FiniteSetTheorems

(* Types. *)
Kinds     == {"mint", "welcome", "request"}
Subjects  == Certificates \cup Persons \cup ChipRequests
Paid      == [kind : Kinds, for : Subjects]
Statuses  == {"none", "pending", "granted", "declined"}
Invite    == [issued : BOOLEAN, revoked : BOOLEAN, uses : Nat]
Asked     == [who : Persons \cup {NoMember}, status : Statuses]
Books     == [members : [Persons -> Member \cup {NoMember}], invites : [Invites -> Invite],
              requests : [ChipRequests -> Asked], ledger : Seq(Paid)]
Phases    == {"off", "asked", "verifying", "joining", "in", "closed"}
Entrances == [phase : Phases, who : Visitors \cup {NoVisitor}, invite : Invites \cup {NoInvite}]
Jobs      == [kind : Kinds, for : Subjects, payee : Persons \cup {NoMember},
              at : Doors \cup {NoEntrance}, base : Books \cup {NoBook}]

Known(b, m)  == b.members[m] # NoMember
Owns(b, m)   == Known(b, m) /\ b.members[m].role = "owner"
Guests(b, i) == {m \in Persons : Known(b, m) /\ b.members[m].by = i}

OneOwner(b)   == \E o \in Persons : \A m \in Persons : Owns(b, m) <=> m = o
MintedOnce(b) == \A n, k \in DOMAIN b.ledger :
                    (/\ b.ledger[n].kind = "mint" /\ b.ledger[k].kind = "mint"
                     /\ b.ledger[n].for = b.ledger[k].for) => n = k
InReserve(b)  == EntriesOf(b, {"welcome", "request"}) <= EntriesOf(b, {"mint"})
InvitesUsed(b, most) ==
    \A i \in Invites : Cardinality(Guests(b, i)) = b.invites[i].uses /\ b.invites[i].uses <= most

(* A state of the club by itself; most: the uses an invite allows.          *)
Legal(b, most) ==
    b \in Books /\ OneOwner(b) /\ MintedOnce(b) /\ InReserve(b) /\ InvitesUsed(b, most)

(* What validateDraft found, of the state it was asked about.               *)
May(job, b) ==
    IF job.kind = "mint"
    THEN \A n \in DOMAIN b.ledger : ~(b.ledger[n].kind = "mint" /\ b.ledger[n].for = job.for)
    ELSE Covered(b)

(* What may be stored later is legal, too.                                  *)
JobLegal(job, most) == job.base # NoBook => Legal(job.base, most) /\ May(job, job.base)

(* A newcomer's connection waits for its welcome.                           *)
Present == {"asked", "verifying", "joining", "in"}
Awaited(job, e) == job.kind = "welcome" => job.at \in Doors /\ e[job.at].who \in Visitors

TypeInv ==
    /\ door \in DoorConf
    /\ entrance \in [Doors -> Entrances]
    /\ \A c \in Doors : entrance[c].phase \in Present => entrance[c].who \in Visitors
    /\ ledgerLine \in Seq(Jobs)
    /\ \A j \in DOMAIN ledgerLine : Awaited(ledgerLine[j], entrance)
    /\ inviting \in Books \cup {NoBook}

LegalInv ==
    /\ Legal(book, door.uses)
    /\ \A j \in DOMAIN ledgerLine : JobLegal(ledgerLine[j], door.uses)
    /\ inviting # NoBook => Legal(inviting, door.uses)

(* Nobody has two welcomes, nor one on the way to a second.                 *)
Welcomed(b, line) ==
    /\ \A n \in DOMAIN b.ledger : b.ledger[n].kind = "welcome" =>
          b.ledger[n].for \in Persons /\ Known(b, b.ledger[n].for)
    /\ \A n, k \in DOMAIN b.ledger :
          (/\ b.ledger[n].kind = "welcome" /\ b.ledger[k].kind = "welcome"
           /\ b.ledger[n].for = b.ledger[k].for) => n = k
    /\ \A j \in DOMAIN line : line[j].kind = "welcome" =>
          /\ line[j].for \in Persons /\ Known(b, line[j].for)
          /\ \A n \in DOMAIN b.ledger :
                ~(b.ledger[n].kind = "welcome" /\ b.ledger[n].for = line[j].for)

(* Without overlap one thing is signed at a time, from the state of now.     *)
AloneInv ==
    ~door.overlap =>
        /\ ledgerLine # << >> => /\ Len(ledgerLine) = 1
                                 /\ ledgerLine[1].base \in {NoBook, book}
                                 /\ granting = {} /\ inviting = NoBook
        /\ granting # {} => inviting = NoBook
        /\ inviting \in {NoBook, book}
        /\ Welcomed(book, ledgerLine)

DoorInv == TypeInv /\ LegalInv /\ AloneInv

-----------------------------------------------------------------------------
(* Legal states. *)

(* What does not touch the ledger, the owner, or who came by which invite.   *)
LEMMA LikeLegal ==
    ASSUME NEW most, NEW b, Legal(b, most), NEW b2 \in Books, b2.ledger = b.ledger,
           \A m \in Persons : /\ Known(b2, m) <=> Known(b, m)
                              /\ Known(b, m) => /\ b2.members[m].role = b.members[m].role
                                                /\ b2.members[m].by = b.members[m].by,
           \A i \in Invites : b2.invites[i].uses = b.invites[i].uses
    PROVE  Legal(b2, most)
<1>1. \A m \in Persons : Owns(b2, m) <=> Owns(b, m)
  BY DEF Owns
<1>2. \A i : Guests(b2, i) = Guests(b, i)
  BY DEF Guests
<1>3. OneOwner(b2)
  BY <1>1 DEF Legal, OneOwner
<1>4. MintedOnce(b2)
  BY DEF Legal, MintedOnce
<1>5. \A k : EntriesOf(b2, k) = EntriesOf(b, k)
  BY DEF EntriesOf
<1>6. InReserve(b2)
  BY <1>5 DEF Legal, InReserve
<1>7. InvitesUsed(b2, most)
  BY <1>2 DEF Legal, InvitesUsed
<1> QED BY <1>3, <1>4, <1>6, <1>7 DEF Legal

(* How many entries of some kinds there are, with one more.                 *)
LEMMA EntriesAppended ==
    ASSUME NEW b \in Books, NEW e \in Paid, NEW b2, b2.ledger = Append(b.ledger, e), NEW kinds
    PROVE  /\ EntriesOf(b, kinds) \in Nat
           /\ e.kind \in kinds => EntriesOf(b2, kinds) = EntriesOf(b, kinds) + 1
           /\ e.kind \notin kinds => EntriesOf(b2, kinds) = EntriesOf(b, kinds)
<1> DEFINE s == b.ledger
           t == Append(s, e)
           S == {n \in DOMAIN s : s[n].kind \in kinds}
           T == {n \in DOMAIN t : t[n].kind \in kinds}
<1>1. s \in Seq(Paid)
  BY DEF Books
<1>2. /\ Len(s) \in Nat /\ DOMAIN s = 1 .. Len(s) /\ DOMAIN t = 1 .. Len(s) + 1
      /\ \A i \in DOMAIN s : i \in DOMAIN t /\ t[i] = s[i]
      /\ Len(s) + 1 \in DOMAIN t /\ t[Len(s) + 1] = e
      /\ \A i \in DOMAIN t : i \in DOMAIN s \/ i = Len(s) + 1
  <2> HIDE DEF s, t
  <2>0. t = Append(s, e)
    BY DEF t
  <2> QED BY <1>1, <2>0, AppendFacts
<1>3. EntriesOf(b, kinds) = Cardinality(S) /\ EntriesOf(b2, kinds) = Cardinality(T)
  BY DEF EntriesOf
<1> HIDE DEF s, t
<1>4. Len(s) + 1 \notin S
  BY <1>2
<1>5. T = IF e.kind \in kinds THEN S \cup {Len(s) + 1} ELSE S
  BY <1>2
<1>6. IsFiniteSet(S)
  <2>1. IsFiniteSet(1 .. Len(s))
    BY <1>2, FS_Interval
  <2>2. S \in SUBSET (1 .. Len(s))
    BY <1>2
  <2> QED BY <2>1, <2>2, FS_Subset
<1> HIDE DEF S, T
<1>7. Cardinality(S) \in Nat
  BY <1>6, FS_CardinalityType
<1>8. Cardinality(S \cup {Len(s) + 1}) = Cardinality(S) + 1
  BY <1>4, <1>6, FS_AddElement
<1> QED BY <1>3, <1>5, <1>7, <1>8

(* What the reserve covers keeps within it.                                 *)
LEMMA ReserveKept ==
    ASSUME NEW b \in Books, NEW e \in Paid, NEW b2, b2.ledger = Append(b.ledger, e),
           InReserve(b), e.kind # "mint" => Covered(b)
    PROVE  InReserve(b2)
<1>1. ASSUME NEW k
      PROVE  /\ EntriesOf(b, k) \in Nat
             /\ e.kind \in k => EntriesOf(b2, k) = EntriesOf(b, k) + 1
             /\ e.kind \notin k => EntriesOf(b2, k) = EntriesOf(b, k)
  BY EntriesAppended
<1>2. PICK minted, paid : minted = {"mint"} /\ paid = {"welcome", "request"}
  OBVIOUS
<1>3. /\ EntriesOf(b, minted) \in Nat /\ EntriesOf(b, paid) \in Nat
      /\ e.kind \in minted => EntriesOf(b2, minted) = EntriesOf(b, minted) + 1
      /\ e.kind \notin minted => EntriesOf(b2, minted) = EntriesOf(b, minted)
      /\ e.kind \in paid => EntriesOf(b2, paid) = EntriesOf(b, paid) + 1
      /\ e.kind \notin paid => EntriesOf(b2, paid) = EntriesOf(b, paid)
  BY <1>1
<1>4. EntriesOf(b, paid) <= EntriesOf(b, minted)
  BY <1>2 DEF InReserve
<1>5. e.kind # "mint" => EntriesOf(b, minted) > EntriesOf(b, paid)
  BY <1>2 DEF Covered
<1>6. e.kind \in {"mint", "welcome", "request"}
  BY DEF Paid, Kinds
<1>7. EntriesOf(b2, paid) <= EntriesOf(b2, minted)
  BY <1>2, <1>3, <1>4, <1>5, <1>6
<1> QED BY <1>2, <1>7 DEF InReserve

(* What is signed is stored with its entry.                                 *)
LEMMA AppendedLegal ==
    ASSUME NEW most, NEW b, Legal(b, most), NEW job \in Jobs, May(job, b), NEW b2,
           b2 = [b EXCEPT !.ledger = Append(@, [kind |-> job.kind, for |-> job.for])]
    PROVE  /\ Legal(b2, most) /\ b2.members = b.members
           /\ b2.ledger = Append(b.ledger, [kind |-> job.kind, for |-> job.for])
<1> DEFINE e == [kind |-> job.kind, for |-> job.for]
<1>1. e \in Paid /\ e.kind = job.kind /\ e.for = job.for /\ e.kind \in Kinds
  BY DEF Jobs, Paid
<1>2. b \in Books /\ b.ledger \in Seq(Paid)
  BY DEF Legal, Books
<1> HIDE DEF e
<1>3. PICK l : l = Append(b.ledger, e)
  OBVIOUS
<1>4. l \in Seq(Paid)
  BY <1>1, <1>2, <1>3, AppendFacts
<1>5. b2 = [b EXCEPT !.ledger = l]
  BY <1>3 DEF e
<1>6. /\ b2 \in Books /\ b2.ledger = l /\ b2.members = b.members /\ b2.invites = b.invites
  BY <1>2, <1>4, <1>5 DEF Books
<1>7. OneOwner(b2)
  BY <1>6 DEF Legal, OneOwner, Owns, Known
<1>8. InvitesUsed(b2, most)
  <2>1. \A i : Guests(b2, i) = Guests(b, i)
    BY <1>6 DEF Guests, Known
  <2> QED BY <1>6, <2>1 DEF Legal, InvitesUsed
<1>9. MintedOnce(b2)
  <2>1. /\ \A i \in DOMAIN l : (i \in DOMAIN b.ledger /\ l[i] = b.ledger[i])
                               \/ (i = Len(b.ledger) + 1 /\ l[i] = e)
    BY <1>1, <1>2, <1>3, AppendFacts
  <2> SUFFICES ASSUME NEW n \in DOMAIN l, NEW k \in DOMAIN l, l[n].kind = "mint",
                      l[k].kind = "mint", l[n].for = l[k].for
               PROVE  n = k
    BY <1>6 DEF MintedOnce
  <2>2. \A i \in DOMAIN b.ledger : e.kind = "mint" =>
           ~(b.ledger[i].kind = "mint" /\ b.ledger[i].for = e.for)
    BY <1>1 DEF May
  <2> QED BY <2>1, <2>2 DEF Legal, MintedOnce
<1>10. InReserve(b2)
  <2>1. b2.ledger = Append(b.ledger, e) /\ InReserve(b) /\ (e.kind # "mint" => Covered(b))
    BY <1>1, <1>3, <1>6 DEF May, Legal
  <2> QED BY <1>1, <1>2, <2>1, ReserveKept
<1> QED BY <1>3, <1>6, <1>7, <1>8, <1>9, <1>10 DEF Legal, e

(* A newcomer on the roster, by an invite that is not used up, or by none.   *)
LEMMA EnrolledLegal ==
    ASSUME NEW most \in Nat, NEW b, Legal(b, most), NEW p \in Persons, ~Known(b, p),
           NEW i \in Invites \cup {NoInvite}, i # NoInvite => b.invites[i].uses < most,
           NEW b2 \in Books, b2.ledger = b.ledger,
           b2.members[p] \in Member, b2.members[p].role = "member", b2.members[p].by = i,
           \A m \in Persons : m # p => b2.members[m] = b.members[m],
           \A j \in Invites : b2.invites[j].uses = b.invites[j].uses + IF j = i THEN 1 ELSE 0
    PROVE  Legal(b2, most)
<1>1. b \in Books /\ b.invites \in [Invites -> Invite]
  BY DEF Legal, Books
<1>2. Known(b2, p)
  BY RosterAssumption DEF Known
<1>3. \A m \in Persons : /\ Owns(b2, m) <=> Owns(b, m)
                         /\ Known(b2, m) <=> (Known(b, m) \/ m = p)
  BY <1>2 DEF Owns, Known
<1>4. OneOwner(b2)
  BY <1>3 DEF Legal, OneOwner
<1>5. MintedOnce(b2)
  BY DEF Legal, MintedOnce
<1>6. InReserve(b2)
  BY DEF Legal, InReserve, EntriesOf
<1>7. InvitesUsed(b2, most)
  <2> SUFFICES ASSUME NEW j \in Invites
               PROVE  /\ Cardinality(Guests(b2, j)) = b2.invites[j].uses
                      /\ b2.invites[j].uses <= most
    BY DEF InvitesUsed
  <2>1. IsFiniteSet(Guests(b, j))
    BY RosterAssumption, FS_Subset DEF Guests
  <2>2. Cardinality(Guests(b, j)) = b.invites[j].uses /\ b.invites[j].uses <= most
    BY DEF Legal, InvitesUsed
  <2>3. p \notin Guests(b, j)
    BY DEF Guests
  <2>4. j = i => Guests(b2, j) = Guests(b, j) \cup {p}
    BY <1>3 DEF Guests
  <2>5. j # i => Guests(b2, j) = Guests(b, j)
    BY <1>3 DEF Guests
  <2>6. b.invites[j].uses \in Nat
    BY <1>1 DEF Invite
  <2>7. CASE j = i
    <3>1. Cardinality(Guests(b2, j)) = Cardinality(Guests(b, j)) + 1
      BY <2>1, <2>3, <2>4, <2>7, FS_AddElement
    <3>2. b.invites[j].uses < most /\ b2.invites[j].uses = b.invites[j].uses + 1
      BY <2>7, RosterAssumption
    <3> QED BY <2>2, <2>6, <3>1, <3>2
  <2>8. CASE j # i
    <3>1. b2.invites[j].uses = b.invites[j].uses
      BY <2>6, <2>8
    <3> QED BY <2>2, <2>5, <2>8, <3>1
  <2> QED BY <2>7, <2>8
<1> QED BY <1>4, <1>5, <1>6, <1>7 DEF Legal

(* Another role: ownership only changes hands.                              *)
LEMMA RolesLegal ==
    ASSUME NEW most, NEW b, Legal(b, most), NEW by \in Persons, NEW m \in Persons,
           Known(b, by), Known(b, m), ~Owns(b, m), NEW role,
           NEW b2 \in Books, b2.ledger = b.ledger, b2.invites = b.invites,
           b2.members[m] \in Member, b2.members[m].role = role,
           b2.members[m].by = b.members[m].by,
           role = "owner" => /\ Owns(b, by)
                             /\ b2.members[by] \in Member /\ b2.members[by].role = "admin"
                             /\ b2.members[by].by = b.members[by].by,
           \A p \in Persons : (p # m /\ (role = "owner" => p # by))
                                 => b2.members[p] = b.members[p]
    PROVE  /\ Legal(b2, most)
           /\ \A p \in Persons : Known(b2, p) <=> Known(b, p)
<1>1. \A p \in Persons : Known(b2, p) <=> Known(b, p)
  BY RosterAssumption DEF Known
<1>2. \A p \in Persons : b2.members[p] # b.members[p] => b2.members[p].by = b.members[p].by
  OBVIOUS
<1>3. OneOwner(b2)
  <2>1. PICK o \in Persons : \A p \in Persons : Owns(b, p) <=> p = o
    BY DEF Legal, OneOwner
  <2>2. CASE role = "owner"
    <3>1. by = o
      BY <2>1, <2>2
    <3>2. m # by
      BY <2>2
    <3>3. ~Owns(b2, by) /\ Owns(b2, m)
      BY <1>1, <2>2 DEF Owns
    <3>4. \A p \in Persons \ {m, by} : Owns(b2, p) <=> Owns(b, p)
      BY DEF Owns, Known
    <3>5. \A p \in Persons : Owns(b2, p) <=> p = m
      BY <2>1, <3>1, <3>3, <3>4
    <3> QED BY <3>5 DEF OneOwner
  <2>3. CASE role # "owner"
    <3>1. \A p \in Persons : p # m => (Owns(b2, p) <=> Owns(b, p))
      BY <2>3 DEF Owns, Known
    <3>2. ~Owns(b2, m)
      BY <2>3 DEF Owns
    <3>3. \A p \in Persons : Owns(b2, p) <=> p = o
      BY <2>1, <3>1, <3>2
    <3> QED BY <3>3 DEF OneOwner
  <2> QED BY <2>2, <2>3
<1>4. \A i : Guests(b2, i) = Guests(b, i)
  BY <1>1, <1>2 DEF Guests
<1>5. InvitesUsed(b2, most)
  BY <1>4 DEF Legal, InvitesUsed
<1>6. MintedOnce(b2) /\ InReserve(b2)
  BY DEF Legal, MintedOnce, InReserve, EntriesOf
<1> QED BY <1>1, <1>3, <1>5, <1>6 DEF Legal
-----------------------------------------------------------------------------
(* What the actions are made of. *)

(* A bound being used up is all that changes of the situation.              *)
LEMMA BoundTaken ==
    ASSUME door \in DoorConf, NEW bound \in {"acts", "breaks", "restarts"}, TakesOne(bound)
    PROVE  door' \in DoorConf /\ door'.uses = door.uses /\ door'.overlap = door.overlap
BY DEF TakesOne, DoorConf

(* Connections that are closed stay entrances.                              *)
LEMMA Closing ==
    ASSUME entrance \in [Doors -> Entrances], NEW gone, CloseAll(gone)
    PROVE  /\ entrance' \in [Doors -> Entrances]
           /\ \A x \in Doors : entrance'[x].who = entrance[x].who
           /\ \A x \in Doors : entrance'[x].phase \in Present =>
                                  entrance'[x].phase = entrance[x].phase
BY DEF CloseAll, Leave, Entrances, Phases, Present

(* And so do those that are let in.                                         *)
LEMMA Admitting ==
    ASSUME entrance \in [Doors -> Entrances], NEW c, Admit(c)
    PROVE  /\ entrance' \in [Doors -> Entrances]
           /\ \A x \in Doors : entrance'[x].who = entrance[x].who
           /\ \A x \in Doors : entrance'[x].phase \in Present =>
                                  x = c \/ entrance'[x].phase = entrance[x].phase
<1>1. PICK gone, came :
         /\ came = [entrance EXCEPT ![c].phase = IF @ = "closed" THEN @ ELSE "in"]
         /\ entrance' = Leave(came, gone)
  BY Zenon DEF Admit
<1>2. /\ came \in [Doors -> Entrances]
      /\ \A x \in Doors : came[x].who = entrance[x].who
      /\ \A x \in Doors : x = c \/ came[x].phase = entrance[x].phase
  BY <1>1, ZenonT(60) DEF Entrances, Phases
<1> QED BY <1>1, <1>2 DEF Leave, Entrances, Phases, Present

(* Who was there is there still, and what waits waits for the same.         *)
LEMMA Entered ==
    ASSUME TypeInv, door' \in DoorConf, entrance' \in [Doors -> Entrances],
           \A x \in Doors : entrance'[x].who = entrance[x].who,
           \A x \in Doors : entrance'[x].phase \in Present =>
              entrance'[x].phase = entrance[x].phase \/ entrance[x].who \in Visitors,
           ledgerLine' = ledgerLine, inviting' \in Books \cup {NoBook}
    PROVE  TypeInv'
BY DEF TypeInv, Awaited

(* The first state is legal.                                                *)
LEMMA NewBookLegal ==
    ASSUME NEW most \in Nat
    PROVE  Legal(NewBook, most)
<1>1. Founder.id \in Persons /\ Founded \in Member
  BY DoorAssumption DEF Persons, Founded, Member
<1>2. NewBook \in Books
  BY <1>1 DEF NewBook, Books, Invite, Asked, Statuses
<1>3. /\ \A m \in Persons : NewBook.members[m] = IF m = Founder.id THEN Founded ELSE NoMember
      /\ \A i \in Invites : NewBook.invites[i].uses = 0
      /\ NewBook.ledger = << >>
  BY DEF NewBook
<1>4. OneOwner(NewBook)
  <2>1. \A m \in Persons : Owns(NewBook, m) <=> m = Founder.id
    BY <1>1, <1>3, RosterAssumption DEF Owns, Known, Founded
  <2> QED BY <1>1, <2>1 DEF OneOwner
<1>5. MintedOnce(NewBook)
  BY <1>3 DEF MintedOnce
<1>6. InReserve(NewBook)
  <2>1. \A k : EntriesOf(NewBook, k) = 0
    <3> SUFFICES ASSUME NEW k PROVE EntriesOf(NewBook, k) = 0
      OBVIOUS
    <3>1. {n \in DOMAIN NewBook.ledger : NewBook.ledger[n].kind \in k} = {}
      BY <1>3
    <3> QED BY <3>1, FS_EmptySet DEF EntriesOf
  <2> QED BY <2>1 DEF InReserve
<1>7. InvitesUsed(NewBook, most)
  <2>1. ASSUME NEW i \in Invites PROVE Guests(NewBook, i) = {}
    <3>1. \A m \in Persons : Known(NewBook, m) => NewBook.members[m].by = NoInvite
      BY <1>3 DEF Known, Founded
    <3> QED BY <3>1, RosterAssumption DEF Guests
  <2>2. Cardinality({}) = 0
    BY FS_EmptySet
  <2>3. \A i \in Invites : Cardinality(Guests(NewBook, i)) = NewBook.invites[i].uses
                          /\ NewBook.invites[i].uses <= most
    <3> SUFFICES ASSUME NEW i \in Invites
                 PROVE  Cardinality(Guests(NewBook, i)) = NewBook.invites[i].uses
                        /\ NewBook.invites[i].uses <= most
      OBVIOUS
    <3>1. Guests(NewBook, i) = {} /\ NewBook.invites[i].uses = 0 /\ 0 <= most
      BY <1>3, <2>1
    <3>2. Cardinality(Guests(NewBook, i)) = 0
      BY <2>2, <3>1, Zenon
    <3> QED BY <3>1, <3>2
  <2> QED BY <2>3 DEF InvitesUsed
<1> QED BY <1>2, <1>4, <1>5, <1>6, <1>7 DEF Legal

(* The clubs that are considered start legal.                              *)
LEMMA Opens == DoorInit => DoorInv
<1> SUFFICES ASSUME DoorInit PROVE DoorInv
  OBVIOUS
<1>1. door \in DoorConf /\ door.uses \in Nat
  BY DoorAssumption DEF DoorInit, DoorConf
<1>2. TypeInv
  BY <1>1 DEF DoorInit, TypeInv, NoEntrance, Entrances, Phases, Present, Awaited
<1>3. LegalInv
  BY <1>1, NewBookLegal DEF DoorInit, LegalInv
<1>4. AloneInv
  BY DEF DoorInit, AloneInv, Welcomed, NewBook
<1> QED BY <1>2, <1>3, <1>4 DEF DoorInv
-----------------------------------------------------------------------------
(* What the members do, with nothing being signed, leaves the ledger alone.  *)
LEMMA Quiet ==
    ASSUME DoorInv, NothingSigned, TypeInv', door'.uses = door.uses,
           door'.overlap = door.overlap, Legal(book', door.uses), book'.ledger = book.ledger,
           \A m \in Persons : Known(book, m) => Known(book', m),
           ledgerLine' = ledgerLine, granting' = granting, inviting' = inviting
    PROVE  DoorInv'
<1>1. LegalInv'
  BY DEF DoorInv, LegalInv
<1>2. AloneInv'
  <2> SUFFICES ASSUME ~door.overlap PROVE AloneInv'
    BY DEF AloneInv
  <2>1. ledgerLine' = << >> /\ granting' = {} /\ inviting' = NoBook
    BY DEF NothingSigned
  <2>2. Welcomed(book, ledgerLine)
    BY DEF DoorInv, AloneInv
  <2>3. Welcomed(book', ledgerLine')
    BY <2>1, <2>2 DEF Welcomed
  <2> QED BY <2>1, <2>3 DEF AloneInv
<1> QED BY <1>1, <1>2 DEF DoorInv

(* What is to be written joins the line.                                    *)
LEMMA Written ==
    ASSUME DoorInv, NothingSigned, NEW job \in Jobs, job.base = NoBook,
           ledgerLine' = Append(ledgerLine, job), Awaited(job, entrance'),
           door' \in DoorConf, door'.uses = door.uses, door'.overlap = door.overlap,
           entrance' \in [Doors -> Entrances],
           \A x \in Doors : entrance'[x].who = entrance[x].who,
           \A x \in Doors : entrance'[x].phase \in Present =>
              entrance'[x].phase = entrance[x].phase \/ entrance[x].who \in Visitors,
           Legal(book', door.uses), book'.ledger = book.ledger,
           \A m \in Persons : Known(book, m) => Known(book', m),
           (~door.overlap /\ job.kind = "welcome") =>
              /\ job.for \in Persons /\ Known(book', job.for)
              /\ \A n \in DOMAIN book.ledger :
                    ~(book.ledger[n].kind = "welcome" /\ book.ledger[n].for = job.for),
           granting' = granting, inviting' = inviting
    PROVE  DoorInv'
<1>1. /\ ledgerLine \in Seq(Jobs) /\ ledgerLine' \in Seq(Jobs)
      /\ Len(ledgerLine') = Len(ledgerLine) + 1 /\ Len(ledgerLine) \in Nat
      /\ DOMAIN ledgerLine' = 1 .. Len(ledgerLine) + 1
      /\ \A j \in DOMAIN ledgerLine' :
            \/ j \in DOMAIN ledgerLine /\ ledgerLine'[j] = ledgerLine[j]
            \/ j = Len(ledgerLine) + 1 /\ ledgerLine'[j] = job
  <2>1. ledgerLine \in Seq(Jobs)
    BY DEF DoorInv, TypeInv
  <2>2. PICK line : line = Append(ledgerLine, job)
    OBVIOUS
  <2> QED BY <2>1, <2>2, AppendFacts
<1>2. TypeInv'
  BY <1>1 DEF DoorInv, TypeInv, Awaited
<1>3. LegalInv'
  BY <1>1 DEF DoorInv, LegalInv, JobLegal
<1>4. AloneInv'
  <2> SUFFICES ASSUME ~door.overlap PROVE AloneInv'
    BY DEF AloneInv
  <2>1. ledgerLine = << >> /\ granting' = {} /\ inviting' = NoBook
    BY DEF NothingSigned
  <2>2. Len(ledgerLine') = 1 /\ DOMAIN ledgerLine' = {1} /\ ledgerLine'[1] = job
    BY <1>1, <2>1
  <2>3. Welcomed(book, ledgerLine)
    BY DEF DoorInv, AloneInv
  <2>4. Welcomed(book', ledgerLine')
    BY <2>2, <2>3 DEF Welcomed
  <2> QED BY <2>1, <2>2, <2>4 DEF AloneInv
<1> QED BY <1>2, <1>3, <1>4 DEF DoorInv

-----------------------------------------------------------------------------
(* The actions, one by one. *)

(* A hello changes one connection, and nothing that is stored.             *)
LEMMA IntroducesKeeps ==
    ASSUME DoorInv, NEW c \in Doors, NEW v \in Visitors, NEW i \in Invites \cup {NoInvite},
           Introduces(c, v, i)
    PROVE  DoorInv'
<1>1. entrance' \in [Doors -> Entrances] /\ \A x \in Doors :
         IF x = c THEN entrance'[x].who \in Visitors ELSE entrance'[x] = entrance[x]
  BY DEF Introduces, DoorInv, TypeInv, Entrances, Phases
<1>2. TypeInv'
  BY <1>1 DEF Introduces, DoorInv, TypeInv, Awaited
<1>3. /\ NothingSigned /\ Legal(book, door.uses)
      /\ UNCHANGED <<door, book, ledgerLine, granting, inviting>>
  BY DEF Introduces, DoorInv, LegalInv
<1> QED BY <1>2, <1>3, Quiet

(* Neither does the answer to the challenge.                               *)
LEMMA AuthKeeps ==
    ASSUME DoorInv, NEW c \in Doors, Auth(c)
    PROVE  DoorInv'
<1>1. /\ entrance' \in [Doors -> Entrances]
      /\ \A x \in Doors : entrance'[x].who = entrance[x].who
      /\ \A x \in Doors : entrance'[x].phase \in Present =>
            entrance'[x].phase = entrance[x].phase \/ entrance[x].who \in Visitors
  BY DEF Auth, DoorInv, TypeInv, Entrances, Phases, Present
<1>2. /\ NothingSigned /\ Legal(book, door.uses)
      /\ UNCHANGED <<door, book, ledgerLine, granting, inviting>>
  BY DEF Auth, DoorInv, LegalInv
<1>3. TypeInv'
  BY <1>1, <1>2, Entered DEF DoorInv, TypeInv
<1> QED BY <1>2, <1>3, Quiet

(* Nor a connection that goes.                                             *)
LEMMA DisconnectsKeeps ==
    ASSUME DoorInv, NEW c \in Doors, Disconnects(c)
    PROVE  DoorInv'
<1>1. /\ NothingSigned /\ Legal(book, door.uses)
      /\ UNCHANGED <<book, ledgerLine, granting, inviting>>
  BY DEF Disconnects, DoorInv, LegalInv
<1>2. door' \in DoorConf /\ door'.uses = door.uses /\ door'.overlap = door.overlap
  BY BoundTaken DEF Disconnects, DoorInv, TypeInv
<1>3. TypeInv'
  BY <1>1, <1>2, Closing, Entered DEF Disconnects, DoorInv, TypeInv
<1> QED BY <1>1, <1>2, <1>3, Quiet

(* A member that was asked about is one still, and has a name.              *)
LEMMA RequestingKeeps ==
    ASSUME DoorInv, NEW c \in Doors, NEW r \in ChipRequests, Requesting(c, r)
    PROVE  DoorInv'
<1>1. /\ NothingSigned /\ Legal(book, door.uses)
      /\ UNCHANGED <<door, ledgerLine, granting, inviting>>
  BY DEF Requesting, DoorInv, LegalInv
<1>2. entrance[c].who.id \in Persons
  BY DEF Requesting, DoorInv, TypeInv, Present, Persons
<1>3. CASE Active(book, entrance[c].who.id)
  <2>1. book' = [book EXCEPT !.requests[r] = [who |-> entrance[c].who.id, status |-> "pending"]]
        /\ UNCHANGED entrance
    BY <1>3 DEF Requesting
  <2>2. book \in Books
    BY <1>1 DEF Legal
  <2>3. book' \in Books /\ book'.members = book.members /\ book'.invites = book.invites
        /\ book'.ledger = book.ledger
    BY <1>2, <2>1, <2>2 DEF Books, Asked, Statuses
  <2>4. Legal(book', door.uses)
    BY <1>1, <2>3, LikeLegal DEF Known
  <2>5. TypeInv'
    BY <1>1, <2>1 DEF DoorInv, TypeInv
  <2> QED BY <1>1, <2>3, <2>4, <2>5, Quiet DEF Known
<1>4. CASE ~Active(book, entrance[c].who.id)
  <2>1. CloseAll({c}) /\ UNCHANGED book
    BY <1>4 DEF Requesting
  <2>2. TypeInv'
    BY <1>1, <2>1, Closing, Entered DEF DoorInv, TypeInv
  <2> QED BY <1>1, <2>1, <2>2, Quiet
<1> QED BY <1>3, <1>4

(* A newcomer is on the roster before anything waits for its grant.         *)
LEMMA VerifiedKeeps ==
    ASSUME DoorInv, NEW c \in Doors, Verified(c)
    PROVE  DoorInv'
<1> DEFINE p == entrance[c].who.id
           i == entrance[c].invite
<1>1. NothingSigned /\ Legal(book, door.uses) /\ UNCHANGED <<door, granting, inviting>>
  BY DEF Verified, DoorInv, LegalInv
<1>2. /\ entrance[c].who \in Visitors /\ p \in Persons /\ i \in Invites \cup {NoInvite}
      /\ door \in DoorConf /\ door.uses \in Nat /\ book \in Books
  BY <1>1 DEF Verified, DoorInv, TypeInv, Present, Persons, Entrances, DoorConf, Legal
<1>3. /\ Legal(book', door.uses) /\ book'.ledger = book.ledger
      /\ \A m \in Persons : Known(book, m) => Known(book', m)
      /\ Newcomer(c) /\ ~Refused(c) => Known(book', p)
  <2>1. CASE Newcomer(c) /\ ~Refused(c)
    <3> DEFINE entry == [key |-> entrance[c].who.key, role |-> "member", by |-> i,
                         status |-> IF (IF i = NoInvite THEN door.membership = "open"
                                        ELSE door.auto) THEN "active" ELSE "pending"]
    <3>0. entry \in Member /\ entry.role = "member" /\ entry.by = i
      BY <1>2 DEF Member
    <3>1. book' = [book EXCEPT !.members[p] = entry,
                               !.invites = [j \in Invites |->
                                    [book.invites[j] EXCEPT
                                        !.uses = IF j = i THEN @ + 1 ELSE @]]]
      BY <2>1 DEF Verified, Enrolled
    <3> HIDE DEF entry, p, i
    <3>2. /\ book' \in Books /\ book'.ledger = book.ledger
          /\ book'.members[p] = entry
          /\ \A m \in Persons : m # p => book'.members[m] = book.members[m]
          /\ \A j \in Invites :
                book'.invites[j].uses = book.invites[j].uses + IF j = i THEN 1 ELSE 0
      <4> DEFINE used == [j \in Invites |-> [book.invites[j] EXCEPT
                                               !.uses = IF j = i THEN @ + 1 ELSE @]]
      <4>1. /\ book.members \in [Persons -> Member \cup {NoMember}]
            /\ book.invites \in [Invites -> Invite]
            /\ book.requests \in [ChipRequests -> Asked] /\ book.ledger \in Seq(Paid)
            /\ book = [members |-> book.members, invites |-> book.invites,
                       requests |-> book.requests, ledger |-> book.ledger]
        BY <1>2 DEF Books
      <4>2. /\ used \in [Invites -> Invite]
            /\ \A j \in Invites : used[j].uses = book.invites[j].uses + IF j = i THEN 1 ELSE 0
        BY <4>1 DEF Invite
      <4>3. book' = [book EXCEPT !.members[p] = entry, !.invites = used]
        BY <3>1
      <4> HIDE DEF used
      <4>4. /\ book'.members = [book.members EXCEPT ![p] = entry]
            /\ book'.invites = used /\ book'.ledger = book.ledger
            /\ book' = [members |-> [book.members EXCEPT ![p] = entry], invites |-> used,
                        requests |-> book.requests, ledger |-> book.ledger]
        BY <4>1, <4>3
      <4>5. [book.members EXCEPT ![p] = entry] \in [Persons -> Member \cup {NoMember}]
        BY <1>2, <3>0, <4>1
      <4>6. p \in Persons
        BY <1>2
      <4>7. book' \in Books
        BY <4>1, <4>2, <4>4, <4>5 DEF Books
      <4> QED BY <4>1, <4>2, <4>4, <4>6, <4>7
    <3>3. ~Known(book, p)
      BY <2>1 DEF Newcomer, Known, p
    <3>4. i # NoInvite => book.invites[i].uses < door.uses
      <4>1. i # NoInvite => ~UsedUp(i)
        BY <2>1 DEF Refused, i
      <4>2. i # NoInvite => book.invites[i].uses \in Nat
        BY <1>2 DEF Books, Invite
      <4> QED BY <1>2, <4>1, <4>2 DEF UsedUp
    <3>5. Legal(book', door.uses)
      BY <1>1, <1>2, <3>0, <3>2, <3>3, <3>4, EnrolledLegal
    <3>6. Known(book', p)
      BY <3>0, <3>2, RosterAssumption DEF Known
    <3> QED BY <3>2, <3>5, <3>6 DEF Known
  <2>2. CASE ~(Newcomer(c) /\ ~Refused(c))
    <3>1. UNCHANGED book
      BY <2>2 DEF Verified
    <3> QED BY <1>1, <2>2, <3>1
  <2> QED BY <2>1, <2>2
<1>4. CASE CloseAll({c}) /\ UNCHANGED ledgerLine
  <2>1. TypeInv'
    BY <1>1, <1>4, Closing, Entered DEF DoorInv, TypeInv
  <2> QED BY <1>1, <1>3, <1>4, <2>1, Quiet
<1>5. CASE Admit(c) /\ UNCHANGED ledgerLine
  <2>1. TypeInv'
    BY <1>1, <1>2, <1>5, Admitting, Entered DEF DoorInv, TypeInv
  <2> QED BY <1>1, <1>3, <1>5, <2>1, Quiet
<1>6. CASE /\ Newcomer(c) /\ ~Refused(c)
           /\ entrance' = [entrance EXCEPT ![c].phase = "joining"]
           /\ Write("welcome", p, p, c)
  <2> DEFINE job == [kind |-> "welcome", for |-> p, payee |-> p, at |-> c, base |-> NoBook]
  <2>1. /\ entrance' \in [Doors -> Entrances]
        /\ \A x \in Doors : entrance'[x].who = entrance[x].who
        /\ \A x \in Doors : entrance'[x].phase \in Present =>
              entrance'[x].phase = entrance[x].phase \/ entrance[x].who \in Visitors
    BY <1>2, <1>6 DEF DoorInv, TypeInv, Entrances, Phases, Present
  <2>2. /\ job \in Jobs /\ job.base = NoBook /\ job.kind = "welcome" /\ job.for = p
        /\ Awaited(job, entrance') /\ ledgerLine' = Append(ledgerLine, job)
    BY <1>2, <1>6, <2>1 DEF Jobs, Kinds, Subjects, Awaited, Write
  <2>3. ~door.overlap => \A n \in DOMAIN book.ledger :
                            ~(book.ledger[n].kind = "welcome" /\ book.ledger[n].for = p)
    <3>1. ~Known(book, p)
      BY <1>6 DEF Newcomer, Known
    <3> QED BY <3>1 DEF DoorInv, AloneInv, Welcomed
  <2> HIDE DEF job, p
  <2> QED BY <1>1, <1>2, <1>3, <1>6, <2>1, <2>2, <2>3, Written
<1> QED BY <1>4, <1>5, <1>6 DEF Verified

-----------------------------------------------------------------------------
(* The first in line, when there is one.                                    *)
LEMMA FirstInLine ==
    ASSUME DoorInv, ledgerLine # << >>
    PROVE  /\ ledgerLine \in Seq(Jobs) /\ 1 \in DOMAIN ledgerLine
           /\ Head(ledgerLine) = ledgerLine[1] /\ Head(ledgerLine) \in Jobs
           /\ Tail(ledgerLine) \in Seq(Jobs)
           /\ Len(Tail(ledgerLine)) = Len(ledgerLine) - 1 /\ Len(ledgerLine) \in Nat
           /\ \A j \in DOMAIN Tail(ledgerLine) :
                 j + 1 \in DOMAIN ledgerLine /\ Tail(ledgerLine)[j] = ledgerLine[j + 1]
<1>1. ledgerLine \in Seq(Jobs)
  BY DEF DoorInv, TypeInv
<1>2. /\ Head(ledgerLine) = ledgerLine[1] /\ Head(ledgerLine) \in Jobs
      /\ Tail(ledgerLine) \in Seq(Jobs) /\ Len(Tail(ledgerLine)) = Len(ledgerLine) - 1
      /\ \A j \in 1 .. Len(Tail(ledgerLine)) : Tail(ledgerLine)[j] = ledgerLine[j + 1]
  BY <1>1, HeadTailProperties
<1>3. /\ Len(ledgerLine) \in Nat /\ DOMAIN ledgerLine = 1 .. Len(ledgerLine)
      /\ DOMAIN Tail(ledgerLine) = 1 .. Len(Tail(ledgerLine)) /\ Len(ledgerLine) # 0
  BY <1>1, <1>2, LenProperties, EmptySeq
<1> QED BY <1>1, <1>2, <1>3

(* What is signed from now on was read now, and found valid now.           *)
LEMMA SignsKeeps ==
    ASSUME DoorInv, Signs
    PROVE  DoorInv'
<1> DEFINE job == ledgerLine[1]
           signed == [job EXCEPT !.base = book]
<1>1. /\ ledgerLine \in Seq(Jobs) /\ 1 \in DOMAIN ledgerLine /\ job \in Jobs
      /\ job.base = NoBook /\ Valid(job) /\ Len(ledgerLine) \in Nat
  BY FirstInLine DEF Signs
<1>2. UNCHANGED <<door, book, entrance, granting, inviting>>
  BY DEF Signs
<1>3. Legal(book, door.uses) /\ book \in Books
  BY DEF DoorInv, LegalInv, Legal
<1>4. /\ signed \in Jobs /\ signed.kind = job.kind /\ signed.for = job.for
      /\ signed.at = job.at /\ signed.base = book
  BY <1>1, <1>3 DEF Jobs
<1>5. May(signed, book)
  BY <1>1, <1>4 DEF May, Valid
<1>6. ledgerLine' = [ledgerLine EXCEPT ![1] = signed]
  BY <1>1 DEF Signs
<1> HIDE DEF job, signed
<1>7. /\ ledgerLine' \in Seq(Jobs) /\ Len(ledgerLine') = Len(ledgerLine)
      /\ DOMAIN ledgerLine' = DOMAIN ledgerLine /\ ledgerLine'[1] = signed
      /\ \A j \in DOMAIN ledgerLine : j # 1 => ledgerLine'[j] = ledgerLine[j]
  BY <1>1, <1>4, <1>6, ExceptFacts
<1>8. \A j \in DOMAIN ledgerLine : /\ ledgerLine'[j].kind = ledgerLine[j].kind
                                  /\ ledgerLine'[j].for = ledgerLine[j].for
                                  /\ ledgerLine'[j].at = ledgerLine[j].at
  BY <1>4, <1>7 DEF job
<1>9. TypeInv'
  BY <1>2, <1>7, <1>8 DEF DoorInv, TypeInv, Awaited
<1>10. LegalInv'
  BY <1>2, <1>3, <1>4, <1>5, <1>7 DEF DoorInv, LegalInv, JobLegal
<1>11. AloneInv'
  BY <1>1, <1>2, <1>4, <1>7, <1>8 DEF DoorInv, AloneInv, Welcomed
<1> QED BY <1>9, <1>10, <1>11 DEF DoorInv

(* What is stored is what was read, with the entry.                         *)
LEMMA SignedKeeps ==
    ASSUME DoorInv, Signed
    PROVE  DoorInv'
<1> DEFINE job == ledgerLine[1]
           e == [kind |-> job.kind, for |-> job.for]
<1>1. /\ ledgerLine # << >> /\ ledgerLine \in Seq(Jobs) /\ 1 \in DOMAIN ledgerLine
      /\ job \in Jobs /\ Head(ledgerLine) = job /\ Len(ledgerLine) \in Nat
      /\ ledgerLine' \in Seq(Jobs) /\ Len(ledgerLine') = Len(ledgerLine) - 1
      /\ \A j \in DOMAIN ledgerLine' :
            j + 1 \in DOMAIN ledgerLine /\ ledgerLine'[j] = ledgerLine[j + 1]
  BY FirstInLine DEF Signed
<1>2. UNCHANGED <<door, inviting>>
  BY DEF Signed
<1>3. job.base # NoBook =>
         book' = [job.base EXCEPT !.ledger = Append(@, [kind |-> job.kind, for |-> job.for])]
  BY <1>1 DEF Signed
<1>4. job.base = NoBook => UNCHANGED book
  BY <1>1 DEF Signed
<1>5. JobLegal(job, door.uses)
  BY <1>1 DEF DoorInv, LegalInv
<1>6. job.base # NoBook => /\ Legal(book', door.uses) /\ book'.members = job.base.members
                           /\ book'.ledger = Append(job.base.ledger, e)
  <2> SUFFICES ASSUME job.base # NoBook
               PROVE  /\ Legal(book', door.uses) /\ book'.members = job.base.members
                      /\ book'.ledger = Append(job.base.ledger, e)
    OBVIOUS
  <2>1. Legal(job.base, door.uses) /\ May(job, job.base)
    BY <1>5 DEF JobLegal
  <2>2. PICK b, b2, x : b = job.base /\ b2 = book' /\ x = job
    OBVIOUS
  <2>3. /\ x \in Jobs /\ Legal(b, door.uses) /\ May(x, b)
        /\ b2 = [b EXCEPT !.ledger = Append(@, [kind |-> x.kind, for |-> x.for])]
    BY <1>1, <1>3, <2>1, <2>2
  <2>4. /\ Legal(b2, door.uses) /\ b2.members = b.members
        /\ b2.ledger = Append(b.ledger, [kind |-> x.kind, for |-> x.for])
    BY <2>3, AppendedLegal
  <2> QED BY <2>2, <2>4
<1>7. Legal(book', door.uses)
  BY <1>4, <1>6 DEF DoorInv, LegalInv
<1>8. /\ entrance' \in [Doors -> Entrances]
      /\ \A x \in Doors : entrance'[x].who = entrance[x].who
      /\ \A x \in Doors : entrance'[x].phase \in Present =>
            entrance'[x].phase = entrance[x].phase \/ entrance[x].who \in Visitors
  <2>1. entrance \in [Doors -> Entrances]
    BY DEF DoorInv, TypeInv
  <2>2. CASE job.kind = "welcome"
    <3>1. Admit(job.at)
      BY <1>1, <2>2 DEF Signed
    <3>2. job.at \in Doors /\ entrance[job.at].who \in Visitors
      BY <1>1, <2>2 DEF DoorInv, TypeInv, Awaited
    <3> HIDE DEF job
    <3> QED BY <2>1, <3>1, <3>2, Admitting
  <2>3. CASE job.kind # "welcome"
    <3>1. UNCHANGED entrance
      BY <1>1, <2>3 DEF Signed
    <3> QED BY <2>1, <3>1
  <2> QED BY <2>2, <2>3
<1>9. TypeInv'
  BY <1>1, <1>2, <1>8 DEF DoorInv, TypeInv, Awaited
<1>10. LegalInv'
  BY <1>1, <1>2, <1>7 DEF DoorInv, LegalInv
<1>11. AloneInv'
  <2> SUFFICES ASSUME ~door.overlap PROVE AloneInv'
    BY <1>2 DEF AloneInv
  <2>1. /\ Len(ledgerLine) = 1 /\ job.base \in {NoBook, book} /\ inviting = NoBook
        /\ Welcomed(book, ledgerLine)
    BY <1>1 DEF DoorInv, AloneInv
  <2>2. ledgerLine' = << >>
    BY <1>1, <2>1, EmptySeq
  <2>3. inviting' = NoBook
    BY <1>2, <2>1
  <2>4. Welcomed(book', ledgerLine')
    <3>1. CASE job.base = NoBook
      BY <1>4, <2>1, <2>2, <3>1 DEF Welcomed
    <3>2. CASE job.base # NoBook
      <4>1. book \in Books /\ book.ledger \in Seq(Paid)
        BY DEF DoorInv, LegalInv, Legal, Books
      <4>2. e \in Paid /\ e.kind = job.kind /\ e.for = job.for
        BY <1>1 DEF Jobs, Paid
      <4>3. book'.members = book.members /\ book'.ledger = Append(book.ledger, e)
        BY <1>6, <2>1, <3>2
      <4>4. \A n \in DOMAIN book'.ledger :
               \/ n \in DOMAIN book.ledger /\ book'.ledger[n] = book.ledger[n]
               \/ n = Len(book.ledger) + 1 /\ book'.ledger[n] = e
        <5> HIDE DEF e
        <5>1. PICK l : l = book'.ledger
          OBVIOUS
        <5> QED BY <4>1, <4>2, <4>3, <5>1, AppendFacts
      <4>5. job.kind = "welcome" =>
               /\ job.for \in Persons /\ Known(book, job.for)
               /\ \A n \in DOMAIN book.ledger :
                     ~(book.ledger[n].kind = "welcome" /\ book.ledger[n].for = job.for)
        BY <1>1, <2>1 DEF Welcomed
      <4> HIDE DEF job, e
      <4>6. \A m : Known(book', m) <=> Known(book, m)
        BY <4>3 DEF Known
      <4>7. \A n \in DOMAIN book'.ledger : book'.ledger[n].kind = "welcome" =>
               book'.ledger[n].for \in Persons /\ Known(book', book'.ledger[n].for)
        BY <2>1, <4>2, <4>4, <4>5, <4>6 DEF Welcomed
      <4>8. \A n, k \in DOMAIN book'.ledger :
               (/\ book'.ledger[n].kind = "welcome" /\ book'.ledger[k].kind = "welcome"
                /\ book'.ledger[n].for = book'.ledger[k].for) => n = k
        BY <2>1, <4>2, <4>4, <4>5 DEF Welcomed
      <4> QED BY <2>2, <4>7, <4>8 DEF Welcomed
    <3> QED BY <3>1, <3>2
  <2> QED BY <2>2, <2>3, <2>4 DEF AloneInv
<1> QED BY <1>9, <1>10, <1>11 DEF DoorInv

-----------------------------------------------------------------------------
(* Whatever an admin does, nothing is being signed, and one act is used up.  *)
LEMMA Acts ==
    ASSUME DoorInv, NEW by, NEW kind, Acting(by, kind)
    PROVE  /\ NothingSigned /\ Legal(book, door.uses) /\ book \in Books /\ Known(book, by)
           /\ door' \in DoorConf /\ door'.uses = door.uses /\ door'.overlap = door.overlap
           /\ (UNCHANGED <<entrance, ledgerLine, inviting>> => TypeInv')
<1>1. /\ NothingSigned /\ Known(book, by) /\ TakesOne("acts")
      /\ Legal(book, door.uses) /\ book \in Books
  BY DEF Acting, Administers, Active, Known, DoorInv, LegalInv, Legal
<1>2. door' \in DoorConf /\ door'.uses = door.uses /\ door'.overlap = door.overlap
  BY <1>1, BoundTaken DEF DoorInv, TypeInv
<1> QED BY <1>1, <1>2 DEF DoorInv, TypeInv, Awaited

(* A certificate joins the line; it is asked about when it is signed.      *)
LEMMA MintKeeps ==
    ASSUME DoorInv, NEW by, NEW certificate \in Certificates, Mint(by, certificate)
    PROVE  DoorInv'
<1> DEFINE job == [kind |-> "mint", for |-> certificate, payee |-> NoMember, at |-> NoEntrance,
                   base |-> NoBook]
<1>1. /\ job \in Jobs /\ job.base = NoBook /\ job.kind = "mint"
      /\ Awaited(job, entrance') /\ ledgerLine' = Append(ledgerLine, job)
  BY DEF Mint, Write, Jobs, Kinds, Subjects, Awaited
<1>2. UNCHANGED <<book, entrance, inside, granting, inviting>> /\ Acting(by, "mint")
  BY DEF Mint
<1>3. entrance \in [Doors -> Entrances]
  BY DEF DoorInv, TypeInv
<1> HIDE DEF job
<1> QED BY <1>1, <1>2, <1>3, Acts, Written

(* Only one request is another.                                             *)
LEMMA RequestMarked ==
    ASSUME NEW b \in Books, NEW r \in ChipRequests, NEW standing \in Statuses, NEW b2,
           b2 = [b EXCEPT !.requests[r].status = standing]
    PROVE  /\ b2 \in Books /\ b2.ledger = b.ledger
           /\ b2.members = b.members /\ b2.invites = b.invites
<1>1. PICK asking : asking = [b.requests[r] EXCEPT !.status = standing]
  OBVIOUS
<1>2. asking \in Asked
  BY <1>1 DEF Books, Asked
<1>3. PICK f : f = [b.requests EXCEPT ![r] = asking]
  OBVIOUS
<1>4. f \in [ChipRequests -> Asked]
  BY <1>2, <1>3 DEF Books
<1>5. b2 = [b EXCEPT !.requests = f]
  BY <1>1, <1>3 DEF Books
<1> QED BY <1>4, <1>5 DEF Books

(* A request that is granted joins the line; one that is declined does not. *)
LEMMA ResolveKeeps ==
    ASSUME DoorInv, NEW by, NEW r \in ChipRequests, NEW decision, Resolve(by, r, decision)
    PROVE  DoorInv'
<1>1. UNCHANGED <<entrance, inside, granting, inviting>> /\ Acting(by, "resolve")
  BY DEF Resolve
<1>2. /\ NothingSigned /\ Legal(book, door.uses) /\ book \in Books
      /\ door' \in DoorConf /\ door'.uses = door.uses /\ door'.overlap = door.overlap
      /\ UNCHANGED ledgerLine => TypeInv'
  BY <1>1, Acts
<1>3. CASE decision = "granted"
  <2> DEFINE job == [kind |-> "request", for |-> r, payee |-> book.requests[r].who,
                     at |-> NoEntrance, base |-> NoBook]
  <2>1. /\ job \in Jobs /\ job.base = NoBook /\ job.kind = "request"
        /\ Awaited(job, entrance') /\ ledgerLine' = Append(ledgerLine, job)
    BY <1>2, <1>3 DEF Resolve, Write, Jobs, Kinds, Subjects, Awaited, Books, Asked
  <2>2. UNCHANGED book
    BY <1>3 DEF Resolve
  <2>3. entrance \in [Doors -> Entrances]
    BY DEF DoorInv, TypeInv
  <2> HIDE DEF job
  <2> QED BY <1>1, <1>2, <2>1, <2>2, <2>3, Written
<1>4. CASE decision # "granted"
  <2>1. book' = [book EXCEPT !.requests[r].status = "declined"] /\ UNCHANGED ledgerLine
    BY <1>4 DEF Resolve
  <2>2. book' \in Books /\ book'.members = book.members /\ book'.invites = book.invites
        /\ book'.ledger = book.ledger
    BY <1>2, <2>1, RequestMarked DEF Statuses
  <2>3. Legal(book', door.uses)
    BY <1>2, <2>2, LikeLegal DEF Known
  <2> QED BY <1>1, <1>2, <2>1, <2>2, <2>3, Quiet DEF Known
<1> QED BY <1>3, <1>4

(* A request is marked whatever the state is by then.                      *)
LEMMA ResolvedKeeps ==
    ASSUME DoorInv, NEW r \in ChipRequests, Resolved(r)
    PROVE  DoorInv'
<1>1. /\ UNCHANGED <<door, entrance, inside, ledgerLine, inviting>> /\ r \in granting
      /\ granting' = granting \ {r}
      /\ book' = [book EXCEPT !.requests[r].status = IF @ = "none" THEN @ ELSE "granted"]
  BY DEF Resolved
<1>2. Legal(book, door.uses) /\ book \in Books
  BY DEF DoorInv, LegalInv, Legal
<1>3. book' \in Books /\ book'.members = book.members /\ book'.invites = book.invites
      /\ book'.ledger = book.ledger
  <2>1. PICK standing : standing = IF book.requests[r].status = "none" THEN "none" ELSE "granted"
    OBVIOUS
  <2>2. standing \in Statuses
    BY <2>1 DEF Statuses
  <2>3. book' = [book EXCEPT !.requests[r].status = standing]
    BY <1>1, <2>1
  <2> QED BY <1>2, <2>2, <2>3, RequestMarked
<1>4. Legal(book', door.uses)
  BY <1>2, <1>3, LikeLegal DEF Known
<1>5. TypeInv'
  BY <1>1 DEF DoorInv, TypeInv, Awaited
<1>6. LegalInv'
  BY <1>1, <1>4 DEF DoorInv, LegalInv
<1>7. AloneInv'
  BY <1>1, <1>3 DEF DoorInv, AloneInv, Welcomed, Known
<1> QED BY <1>5, <1>6, <1>7 DEF DoorInv

(* What the invite will be added to is the state of now.                   *)
LEMMA CreateInviteKeeps ==
    ASSUME DoorInv, NEW by, CreateInvite(by)
    PROVE  DoorInv'
<1>1. /\ UNCHANGED <<book, entrance, inside, ledgerLine, granting>> /\ Acting(by, "invite")
      /\ inviting' = book
  BY DEF CreateInvite
<1>2. /\ NothingSigned /\ Legal(book, door.uses) /\ book \in Books
      /\ door' \in DoorConf /\ door'.uses = door.uses /\ door'.overlap = door.overlap
  BY <1>1, Acts
<1>3. TypeInv'
  BY <1>1, <1>2 DEF DoorInv, TypeInv, Awaited
<1>4. LegalInv'
  BY <1>1, <1>2 DEF DoorInv, LegalInv
<1>5. AloneInv'
  BY <1>1, <1>2 DEF DoorInv, AloneInv, NothingSigned
<1> QED BY <1>3, <1>4, <1>5 DEF DoorInv

(* The state that was read before the invite was signed was legal.          *)
LEMMA InviteSignedKeeps ==
    ASSUME DoorInv, NEW i \in Invites, InviteSigned(i)
    PROVE  DoorInv'
<1>1. /\ UNCHANGED <<door, entrance, inside, ledgerLine, granting>> /\ inviting # NoBook
      /\ book' = [inviting EXCEPT !.invites[i].issued = TRUE] /\ inviting' = NoBook
  BY DEF InviteSigned
<1>2. Legal(inviting, door.uses) /\ inviting \in Books
  BY <1>1 DEF DoorInv, LegalInv, Legal
<1>3. /\ book' \in Books /\ book'.members = inviting.members /\ book'.ledger = inviting.ledger
      /\ \A j \in Invites : book'.invites[j].uses = inviting.invites[j].uses
  BY <1>1, <1>2, ZenonT(60) DEF Books, Invite
<1>4. Legal(book', door.uses)
  BY <1>2, <1>3, LikeLegal DEF Known
<1>5. TypeInv'
  BY <1>1 DEF DoorInv, TypeInv, Awaited
<1>6. LegalInv'
  BY <1>1, <1>4 DEF DoorInv, LegalInv
<1>7. AloneInv'
  BY <1>1, <1>3 DEF DoorInv, AloneInv, Welcomed, Known
<1> QED BY <1>5, <1>6, <1>7 DEF DoorInv

(* A revoked invite has as many uses as before.                            *)
LEMMA RevokeInviteKeeps ==
    ASSUME DoorInv, NEW by, NEW i \in Invites, RevokeInvite(by, i)
    PROVE  DoorInv'
<1>1. /\ UNCHANGED <<entrance, inside, ledgerLine, granting, inviting>> /\ Acting(by, "revoke")
      /\ book' = [book EXCEPT !.invites[i].revoked = TRUE]
  BY DEF RevokeInvite
<1>2. /\ NothingSigned /\ Legal(book, door.uses) /\ book \in Books /\ TypeInv'
      /\ door'.uses = door.uses /\ door'.overlap = door.overlap
  BY <1>1, Acts
<1>3. /\ book' \in Books /\ book'.members = book.members /\ book'.ledger = book.ledger
      /\ \A j \in Invites : book'.invites[j].uses = book.invites[j].uses
  BY <1>1, <1>2, ZenonT(60) DEF Books, Invite
<1>4. Legal(book', door.uses)
  BY <1>2, <1>3, LikeLegal DEF Known
<1> QED BY <1>1, <1>2, <1>3, <1>4, Quiet DEF Known

(* Another standing of one member.                                          *)
LEMMA StandingLegal ==
    ASSUME NEW most, NEW b, Legal(b, most), NEW m \in Persons, Known(b, m),
           NEW standing \in {"active", "pending", "banned"}, NEW b2,
           b2 = [b EXCEPT !.members[m].status = standing]
    PROVE  /\ Legal(b2, most) /\ b2.ledger = b.ledger
           /\ \A p \in Persons : Known(b2, p) <=> Known(b, p)
<1>1. b \in Books
  BY DEF Legal
<1>2. b.members[m] \in Member
  BY <1>1 DEF Books, Known
<1>3. PICK entry : entry = [b.members[m] EXCEPT !.status = standing]
  OBVIOUS
<1>4. entry \in Member /\ entry.role = b.members[m].role /\ entry.by = b.members[m].by
  BY <1>2, <1>3 DEF Member
<1>5. b2 = [b EXCEPT !.members[m] = entry]
  BY <1>1, <1>3 DEF Books
<1>6. /\ b2 \in Books /\ b2.ledger = b.ledger /\ b2.invites = b.invites
      /\ b2.members[m] = entry /\ \A p \in Persons : p # m => b2.members[p] = b.members[p]
  <2>1. /\ b.members \in [Persons -> Member \cup {NoMember}]
        /\ b2 = [b EXCEPT !.members = [b.members EXCEPT ![m] = entry]]
    BY <1>1, <1>5 DEF Books
  <2>2. [b.members EXCEPT ![m] = entry] \in [Persons -> Member \cup {NoMember}]
    BY <1>4, <2>1
  <2>3. PICK f \in [Persons -> Member \cup {NoMember}] : f = [b.members EXCEPT ![m] = entry]
    BY <2>2
  <2>4. b2 = [b EXCEPT !.members = f]
    BY <2>1, <2>3
  <2>5. b2 \in Books /\ b2.ledger = b.ledger /\ b2.invites = b.invites /\ b2.members = f
    BY <1>1, <2>4 DEF Books
  <2> QED BY <2>1, <2>3, <2>5
<1>7. \A p \in Persons : /\ Known(b2, p) <=> Known(b, p)
                         /\ b2.members[p].role = b.members[p].role
                         /\ b2.members[p].by = b.members[p].by
  BY <1>4, <1>6, RosterAssumption DEF Known
<1> QED BY <1>6, <1>7, LikeLegal

(* Approval changes the standing of a member.                              *)
LEMMA ApproveKeeps ==
    ASSUME DoorInv, NEW by, NEW m \in Persons, Approve(by, m)
    PROVE  DoorInv'
<1>1. /\ UNCHANGED <<entrance, inside, ledgerLine, granting, inviting>> /\ Acting(by, "approve")
      /\ Known(book, m) /\ book' = [book EXCEPT !.members[m].status = "active"]
  BY DEF Approve, Known
<1>2. /\ NothingSigned /\ Legal(book, door.uses) /\ TypeInv'
      /\ door'.uses = door.uses /\ door'.overlap = door.overlap
  BY <1>1, Acts
<1>3. /\ Legal(book', door.uses) /\ book'.ledger = book.ledger
      /\ \A p \in Persons : Known(book', p) <=> Known(book, p)
  BY <1>1, <1>2, StandingLegal
<1> QED BY <1>1, <1>2, <1>3, Quiet

(* So does a ban, which closes connections too.                            *)
LEMMA BanKeeps ==
    ASSUME DoorInv, NEW by, NEW m \in Persons, Ban(by, m)
    PROVE  DoorInv'
<1>1. /\ UNCHANGED <<ledgerLine, granting, inviting>> /\ Acting(by, "ban")
      /\ Known(book, m) /\ book' = [book EXCEPT !.members[m].status = "banned"]
      /\ CloseAll(DevicesOf(m))
  BY DEF Ban, MayBan, Known
<1>2. /\ NothingSigned /\ Legal(book, door.uses) /\ door' \in DoorConf
      /\ door'.uses = door.uses /\ door'.overlap = door.overlap
  BY <1>1, Acts
<1>3. /\ Legal(book', door.uses) /\ book'.ledger = book.ledger
      /\ \A p \in Persons : Known(book', p) <=> Known(book, p)
  BY <1>1, <1>2, StandingLegal
<1>4. TypeInv'
  BY <1>1, <1>2, Closing, Entered DEF DoorInv, TypeInv
<1> QED BY <1>1, <1>2, <1>3, <1>4, Quiet

(* Ownership is handed over whole, by the owner.                            *)
LEMMA SetRoleKeeps ==
    ASSUME DoorInv, NEW by \in Persons, NEW m \in Persons,
           NEW role \in {"owner", "admin", "member"}, SetRole(by, m, role)
    PROVE  DoorInv'
<1>1. /\ UNCHANGED <<entrance, inside, ledgerLine, granting, inviting>> /\ Acting(by, "role")
      /\ Known(book, m) /\ book.members[m].role # "owner"
      /\ role = "owner" => book.members[by].role = "owner"
      /\ book' = IF role = "owner"
                 THEN [book EXCEPT !.members[m].role = "owner", !.members[by].role = "admin"]
                 ELSE [book EXCEPT !.members[m].role = role]
  BY DEF SetRole, Known
<1>2. /\ NothingSigned /\ Legal(book, door.uses) /\ TypeInv' /\ book \in Books
      /\ Known(book, by) /\ door'.uses = door.uses /\ door'.overlap = door.overlap
  BY <1>1, Acts
<1>3. book.members[m] \in Member /\ book.members[by] \in Member
  BY <1>1, <1>2 DEF Books, Known
<1>4. PICK named, passed : /\ named = [book.members[m] EXCEPT !.role = role]
                           /\ passed = [book.members[by] EXCEPT !.role = "admin"]
  OBVIOUS
<1>5. /\ named \in Member /\ named.role = role /\ named.by = book.members[m].by
      /\ passed \in Member /\ passed.role = "admin" /\ passed.by = book.members[by].by
  BY <1>3, <1>4 DEF Member
<1>6. /\ book' \in Books /\ book'.ledger = book.ledger /\ book'.invites = book.invites
      /\ book'.members[m] = named /\ (role = "owner" => book'.members[by] = passed)
      /\ \A p \in Persons : (p # m /\ (role = "owner" => p # by))
                               => book'.members[p] = book.members[p]
  <2>1. CASE role = "owner"
    <3>1. m # by
      BY <1>1, <2>1
    <3>2. book' = [book EXCEPT !.members[m] = named, !.members[by] = passed]
      BY <1>1, <1>2, <1>4, <2>1, <3>1 DEF Books
    <3> QED BY <1>2, <1>5, <2>1, <3>1, <3>2 DEF Books
  <2>2. CASE role # "owner"
    <3>1. book' = [book EXCEPT !.members[m] = named]
      BY <1>1, <1>2, <1>4, <2>2 DEF Books
    <3> QED BY <1>2, <1>5, <2>2, <3>1 DEF Books
  <2> QED BY <2>1, <2>2
<1>7. /\ Legal(book', door.uses)
      /\ \A p \in Persons : Known(book', p) <=> Known(book, p)
  <2>1. ~Owns(book, m) /\ (role = "owner" => Owns(book, by))
    BY <1>1, <1>2 DEF Owns
  <2>2. /\ book'.members[m] \in Member /\ book'.members[m].role = role
        /\ book'.members[m].by = book.members[m].by
    BY <1>5, <1>6
  <2>3. role = "owner" => /\ Owns(book, by)
                          /\ book'.members[by] \in Member /\ book'.members[by].role = "admin"
                          /\ book'.members[by].by = book.members[by].by
    BY <1>5, <1>6, <2>1
  <2>4. PICK b2 : b2 = book'
    OBVIOUS
  <2>5. PICK b, most : b = book /\ most = door.uses
    OBVIOUS
  <2>6. /\ Legal(b, most) /\ Known(b, by) /\ Known(b, m) /\ ~Owns(b, m)
        /\ b2 \in Books /\ b2.ledger = b.ledger /\ b2.invites = b.invites
        /\ b2.members[m] \in Member /\ b2.members[m].role = role
        /\ b2.members[m].by = b.members[m].by
        /\ role = "owner" => /\ Owns(b, by)
                             /\ b2.members[by] \in Member /\ b2.members[by].role = "admin"
                             /\ b2.members[by].by = b.members[by].by
        /\ \A p \in Persons : (p # m /\ (role = "owner" => p # by))
                               => b2.members[p] = b.members[p]
    BY <1>1, <1>2, <1>6, <2>1, <2>2, <2>3, <2>4, <2>5, SMTT(30)
  <2>7. Legal(b2, most) /\ \A p \in Persons : Known(b2, p) <=> Known(b, p)
    BY <2>6, RolesLegal
  <2> QED BY <2>4, <2>5, <2>7
<1> QED BY <1>1, <1>2, <1>6, <1>7, Quiet

(* A restart forgets who was there and what waited.                         *)
LEMMA RestartsKeeps ==
    ASSUME DoorInv, Restarts
    PROVE  DoorInv'
<1>1. /\ NothingSigned /\ UNCHANGED book /\ ledgerLine' = << >> /\ granting' = {}
      /\ inviting' = NoBook
      /\ entrance' = Leave(entrance, {c \in Doors : entrance[c].phase # "off"})
  BY DEF Restarts
<1>2. door' \in DoorConf /\ door'.uses = door.uses /\ door'.overlap = door.overlap
  BY BoundTaken DEF Restarts, DoorInv, TypeInv
<1>3. TypeInv'
  BY <1>1, <1>2 DEF Leave, DoorInv, TypeInv, Entrances, Phases, Present, Awaited
<1>4. LegalInv'
  BY <1>1, <1>2 DEF DoorInv, LegalInv
<1>5. AloneInv'
  BY <1>1, <1>2 DEF DoorInv, AloneInv, Welcomed
<1> QED BY <1>3, <1>4, <1>5 DEF DoorInv

-----------------------------------------------------------------------------
(* Every step keeps the invariant.                                         *)
LEMMA DoorInductive == DoorInv /\ [DoorNext]_doorVars => DoorInv'
<1> SUFFICES ASSUME DoorInv, [DoorNext]_doorVars PROVE DoorInv'
  OBVIOUS
<1>1. ASSUME NEW c \in Doors, NEW v \in Visitors, NEW i \in Invites \cup {NoInvite},
             Introduces(c, v, i)
      PROVE  DoorInv'
  BY <1>1, IntroducesKeeps
<1>2. ASSUME NEW c \in Doors, Auth(c) \/ Disconnects(c) \/ Verified(c) PROVE DoorInv'
  BY <1>2, AuthKeeps, DisconnectsKeeps, VerifiedKeeps
<1>3. ASSUME NEW c \in Doors, NEW r \in ChipRequests, Requesting(c, r) PROVE DoorInv'
  BY <1>3, RequestingKeeps
<1>4. CASE Signs \/ Signed \/ Restarts
  BY <1>4, SignsKeeps, SignedKeeps, RestartsKeeps
<1>5. ASSUME NEW r \in ChipRequests, Resolved(r) PROVE DoorInv'
  BY <1>5, ResolvedKeeps
<1>6. ASSUME NEW i \in Invites, InviteSigned(i) PROVE DoorInv'
  BY <1>6, InviteSignedKeeps
<1>7. ASSUME NEW by \in Persons, CreateInvite(by) PROVE DoorInv'
  BY <1>7, CreateInviteKeeps
<1>8. ASSUME NEW by \in Persons, NEW x \in Certificates, Mint(by, x) PROVE DoorInv'
  BY <1>8, MintKeeps
<1>9. ASSUME NEW by \in Persons, NEW r \in ChipRequests, NEW d \in {"granted", "declined"},
             Resolve(by, r, d)
      PROVE  DoorInv'
  BY <1>9, ResolveKeeps
<1>10. ASSUME NEW by \in Persons, NEW i \in Invites, RevokeInvite(by, i) PROVE DoorInv'
  BY <1>10, RevokeInviteKeeps
<1>11. ASSUME NEW by \in Persons, NEW m \in Persons, Approve(by, m) \/ Ban(by, m) PROVE DoorInv'
  BY <1>11, ApproveKeeps, BanKeeps
<1>12. ASSUME NEW by \in Persons, NEW m \in Persons,
              NEW role \in {"owner", "admin", "member"}, SetRole(by, m, role)
       PROVE  DoorInv'
  BY <1>12, SetRoleKeeps
<1>13. CASE UNCHANGED doorVars
  <2>1. UNCHANGED <<door, book, entrance, ledgerLine, granting, inviting>>
    BY <1>13 DEF doorVars
  <2>2. TypeInv'
    BY <2>1 DEF DoorInv, TypeInv, Awaited
  <2>3. LegalInv'
    BY <2>1 DEF DoorInv, LegalInv
  <2>4. AloneInv'
    BY <2>1 DEF DoorInv, AloneInv
  <2> QED BY <2>2, <2>3, <2>4 DEF DoorInv
<1> QED
  BY <1>1, <1>2, <1>3, <1>4, <1>5, <1>6, <1>7, <1>8, <1>9, <1>10, <1>11, <1>12, <1>13
  DEF DoorNext

(* What the invariant says of the books, said as the runs check it.         *)
LEMMA LegalBooks == DoorInv => BooksLegal
<1> SUFFICES ASSUME DoorInv PROVE BooksLegal
  OBVIOUS
<1>1. Legal(book, door.uses) /\ (~door.overlap => Welcomed(book, ledgerLine))
  BY DEF DoorInv, LegalInv, AloneInv
<1>2. Cardinality({m \in Persons : book.members[m] # NoMember
                                     /\ book.members[m].role = "owner"}) = 1
  <2>1. PICK o \in Persons : \A m \in Persons : Owns(book, m) <=> m = o
    BY <1>1 DEF Legal, OneOwner
  <2>2. {m \in Persons : book.members[m] # NoMember /\ book.members[m].role = "owner"} = {o}
    BY <2>1 DEF Owns, Known
  <2> QED BY <2>2, FS_Singleton
<1>3. \A n, k \in DOMAIN book.ledger :
         (/\ book.ledger[n] = book.ledger[k]
          /\ book.ledger[n].kind \in (IF door.overlap THEN {"mint"} ELSE {"mint", "welcome"}))
            => n = k
  BY <1>1 DEF Legal, MintedOnce, Welcomed
<1>4. EntriesOf(book, {"welcome", "request"}) <= EntriesOf(book, {"mint"})
  BY <1>1 DEF Legal, InReserve
<1>5. \A i \in Invites :
         /\ Cardinality({m \in Persons : book.members[m] # NoMember
                                           /\ book.members[m].by = i}) = book.invites[i].uses
         /\ book.invites[i].uses <= door.uses
  BY <1>1 DEF Legal, InvitesUsed, Guests, Known
<1> QED BY <1>2, <1>3, <1>4, <1>5 DEF BooksLegal

(* What a club stores is legal in every state, for any visitors, connections,
   invites and certificates, whatever other writers lose: it has one owner, a
   certificate is minted once, what is granted is within what was minted, and an
   invite has as many members as uses and no more than it allows; and nobody is
   welcomed twice, when nothing happens during a signature.                 *)
THEOREM LegalAlways == DoorSpec => []BooksLegal
<1>1. DoorInit => DoorInv
  BY Opens
<1>2. DoorInv /\ [DoorNext]_doorVars => DoorInv'
  BY DoorInductive
<1>3. DoorInv => BooksLegal
  BY LegalBooks
<1> QED BY <1>1, <1>2, <1>3, PTL DEF DoorSpec
-----------------------------------------------------------------------------
(* Devices and requests. *)

(* The key that a connection proved is the one on the roster, of an active member. *)
Belongs(c) == LET v == entrance[c].who
              IN  Active(book, v.id) /\ book.members[v.id].key = v.key

(* Who is in is one of its member's devices.                                *)
HeldInv ==
    \A c \in Doors : entrance[c].phase = "in" =>
        \E a \in inside[entrance[c].who.id] : a.conn = c

(* A member's devices are its connections that are in, each once, within the limit. *)
RoomInv ==
    \A m \in Persons :
        /\ IsFiniteSet(inside[m]) /\ Cardinality(inside[m]) <= door.cap
        /\ \A a, b \in inside[m] : a.conn = b.conn => a = b
        /\ \A a \in inside[m] : LET e == entrance[a.conn]
                                IN  e.phase = "in" /\ e.who.id = m /\ Belongs(a.conn)

(* Whose welcome is being written is a member, and waits.                    *)
WaitInv ==
    \A j \in DOMAIN ledgerLine : ledgerLine[j].kind = "welcome" =>
        entrance[ledgerLine[j].at].phase = "joining" /\ Belongs(ledgerLine[j].at)

(* A request is paid once, and then it is granted, or about to be marked as that;
   what is being written is for one that still waits.                       *)
Payments(b, r) == {n \in DOMAIN b.ledger : b.ledger[n] = [kind |-> "request", for |-> r]}
PaidInv ==
    \A r \in ChipRequests :
        /\ \A n, k \in Payments(book, r) : n = k
        /\ Payments(book, r) # {} <=> book.requests[r].status = "granted" \/ r \in granting
        /\ r \in granting => book.requests[r].status = "pending"
        /\ \A j \in DOMAIN ledgerLine :
              ledgerLine[j].kind = "request" /\ ledgerLine[j].for = r =>
                 book.requests[r].status = "pending" /\ r \notin granting

InsideType == inside \in [Persons -> SUBSET [conn : Doors, age : Nat]]
KeptInv ==
    InsideType /\ HeldInv /\ (~door.overlap => RoomInv /\ WaitInv /\ PaidInv)

(* A finite set of ages has an oldest.                                      *)
LEMMA OldestThere ==
    ASSUME NEW S, IsFiniteSet(S), S # {}, \A a \in S : a.age \in Nat
    PROVE  Oldest(S) \in S
<1> DEFINE Older(a) == {b \in S : b.age > a.age}
           T == {Cardinality(Older(a)) : a \in S}
<1>1. \A a \in S : IsFiniteSet(Older(a)) /\ Cardinality(Older(a)) \in Nat
  BY FS_Subset, FS_CardinalityType
<1>2. T \subseteq Nat /\ T # {}
  BY <1>1
<1>3. PICK n \in T : \A k \in T : n <= k
  <2> HIDE DEF T
  <2> QED BY <1>2, LeastNat
<1>4. PICK a \in S : n = Cardinality(Older(a))
  BY <1>3
<1>5. \A b \in S : b.age <= a.age
  <2> SUFFICES ASSUME NEW b \in S, b.age > a.age PROVE FALSE
    OBVIOUS
  <2>1. Older(b) \subseteq Older(a) /\ b \in Older(a) /\ b \notin Older(b)
    OBVIOUS
  <2>2. IsFiniteSet(Older(a)) /\ IsFiniteSet(Older(b))
    BY <1>1
  <2> HIDE DEF Older
  <2>3. Cardinality(Older(b)) < Cardinality(Older(a))
    <3>1. Older(b) # Older(a)
      BY <2>1
    <3>2. Cardinality(Older(b)) <= Cardinality(Older(a))
      BY <2>1, <2>2, FS_Subset
    <3>3. Cardinality(Older(b)) # Cardinality(Older(a))
      BY <2>1, <2>2, <3>1, FS_Subset
    <3> QED BY <1>1, <3>2, <3>3
  <2>4. Cardinality(Older(a)) <= Cardinality(Older(b))
    BY <1>3, <1>4
  <2> QED BY <1>1, <2>3, <2>4
<1> QED BY <1>5 DEF Oldest

(* What an admission makes of the member's devices.                         *)
Aged(m, c) == {[a EXCEPT !.age = @ + 1] : a \in inside[m]} \cup {[conn |-> c, age |-> 0]}

(* They are as many as before and one more, each connection once.            *)
LEMMA AgedFacts ==
    ASSUME InsideType, NEW m \in Persons, NEW c \in Doors
    PROVE  /\ Aged(m, c) \subseteq [conn : Doors, age : Nat]
           /\ \A b \in Aged(m, c) : b.conn = c \/ \E a \in inside[m] :
                 a.conn = b.conn /\ b.age = a.age + 1
           /\ \A a \in inside[m] : \E b \in Aged(m, c) : b.conn = a.conn
           /\ \E b \in Aged(m, c) : b.conn = c
           /\ IsFiniteSet(inside[m]) =>
                 /\ IsFiniteSet(Aged(m, c)) /\ Cardinality(inside[m]) \in Nat
                 /\ Cardinality(Aged(m, c)) <= Cardinality(inside[m]) + 1
           /\ (/\ \A a, b \in inside[m] : a.conn = b.conn => a = b
               /\ \A a \in inside[m] : a.conn # c)
                 => \A a, b \in Aged(m, c) : a.conn = b.conn => a = b
<1> DEFINE A == [conn : Doors, age : Nat]
           f(a) == [a EXCEPT !.age = @ + 1]
           S == {f(a) : a \in inside[m]}
           new == [conn |-> c, age |-> 0]
<1>1. inside[m] \subseteq A
  BY DEF InsideType
<1>2. \A a \in inside[m] : f(a) \in A /\ f(a).conn = a.conn /\ f(a).age = a.age + 1
  BY <1>1
<1>3. new \in A /\ new.conn = c
  OBVIOUS
<1>4. Aged(m, c) = S \cup {new}
  BY DEF Aged
<1>5. IsFiniteSet(inside[m]) =>
         /\ IsFiniteSet(Aged(m, c)) /\ Cardinality(inside[m]) \in Nat
         /\ Cardinality(Aged(m, c)) <= Cardinality(inside[m]) + 1
  <2> SUFFICES ASSUME IsFiniteSet(inside[m])
               PROVE  /\ IsFiniteSet(Aged(m, c)) /\ Cardinality(inside[m]) \in Nat
                      /\ Cardinality(Aged(m, c)) <= Cardinality(inside[m]) + 1
    OBVIOUS
  <2>1. /\ IsFiniteSet(S) /\ Cardinality(S) <= Cardinality(inside[m])
        /\ Cardinality(inside[m]) \in Nat /\ Cardinality(S) \in Nat
    <3>1. PICK g : g = [a \in inside[m] |-> f(a)]
      OBVIOUS
    <3>2. \A a \in inside[m] : g[a] = f(a)
      BY <3>1
    <3>3. g \in Surjection(inside[m], S)
      BY <3>1 DEF Surjection
    <3> HIDE DEF S
    <3> QED BY <3>3, FS_Surjection, FS_CardinalityType
  <2> HIDE DEF S, new
  <2>2. Cardinality(S \cup {new}) = IF new \in S THEN Cardinality(S) ELSE Cardinality(S) + 1
    BY <2>1, FS_AddElement
  <2>3. IsFiniteSet(S \cup {new})
    BY <2>1, FS_AddElement
  <2> QED BY <1>4, <2>1, <2>2, <2>3
<1>6. (/\ \A a, b \in inside[m] : a.conn = b.conn => a = b
       /\ \A a \in inside[m] : a.conn # c)
         => \A a, b \in Aged(m, c) : a.conn = b.conn => a = b
  <2>1. \A b \in Aged(m, c) : b = new \/ \E a \in inside[m] : b = f(a)
    BY <1>4
  <2> HIDE DEF f, new
  <2> QED BY <1>2, <1>3, <2>1
<1>7. \A b \in Aged(m, c) : b \in A /\ (b.conn = c \/ \E a \in inside[m] :
                                           a.conn = b.conn /\ b.age = a.age + 1)
  <2>1. \A b \in Aged(m, c) : b = new \/ \E a \in inside[m] : b = f(a)
    BY <1>4
  <2> HIDE DEF f, new, A
  <2> QED BY <1>2, <1>3, <2>1
<1>8. \A a \in inside[m] : \E b \in Aged(m, c) : b.conn = a.conn
  <2>1. \A a \in inside[m] : f(a) \in Aged(m, c)
    BY <1>4
  <2> HIDE DEF f
  <2> QED BY <1>2, <2>1
<1>9. \E b \in Aged(m, c) : b.conn = c
  BY <1>3, <1>4
<1> QED BY <1>5, <1>6, <1>7, <1>8, <1>9

(* What becomes of an entrance that is let in, and of the member's devices.  *)
LEMMA AdmitFacts ==
    ASSUME InsideType, entrance \in [Doors -> Entrances], NEW c \in Doors,
           entrance[c].who \in Visitors, Admit(c)
    PROVE  \E gone :
              LET m == entrance[c].who.id
                  now == Aged(m, c)
              IN  /\ m \in Persons
                  /\ gone = IF Cardinality(now) > door.cap THEN {Oldest(now)} ELSE {}
                  /\ inside' = [inside EXCEPT ![m] = now \ gone]
                  /\ \A x \in Doors :
                        /\ entrance'[x].who = entrance[x].who
                        /\ entrance'[x].phase =
                              IF x \in {a.conn : a \in gone} THEN "closed"
                              ELSE IF x = c /\ entrance[x].phase # "closed" THEN "in"
                              ELSE entrance[x].phase
<1> DEFINE m == entrance[c].who.id
           now == Aged(m, c)
<1>1. m \in Persons
  BY DEF Persons
<1>2. PICK gone : gone = IF Cardinality(now) > door.cap THEN {Oldest(now)} ELSE {}
  OBVIOUS
<1>3. PICK came : came = [entrance EXCEPT ![c].phase = IF @ = "closed" THEN @ ELSE "in"]
  OBVIOUS
<1>4. /\ entrance' = Leave(came, {a.conn : a \in gone})
      /\ inside' = [inside EXCEPT ![m] = now \ gone]
  BY <1>2, <1>3 DEF Admit, Aged
<1>5. \A x \in Doors :
         /\ came[x] \in Entrances /\ came[x].who = entrance[x].who
         /\ came[x].phase = IF x = c /\ entrance[x].phase # "closed" THEN "in"
                            ELSE entrance[x].phase
  <2>1. entrance[c] \in Entrances
    OBVIOUS
  <2>2. PICK e : e = [entrance[c] EXCEPT !.phase = IF @ = "closed" THEN @ ELSE "in"]
    OBVIOUS
  <2>3. /\ e \in Entrances /\ e.who = entrance[c].who
        /\ e.phase = IF entrance[c].phase # "closed" THEN "in" ELSE entrance[c].phase
    BY <2>1, <2>2 DEF Entrances, Phases
  <2>4. came = [entrance EXCEPT ![c] = e]
    BY <1>3, <2>2
  <2> QED BY <2>3, <2>4
<1>6. \A x \in Doors :
         /\ entrance'[x].who = entrance[x].who
         /\ entrance'[x].phase =
               IF x \in {a.conn : a \in gone} THEN "closed"
               ELSE IF x = c /\ entrance[x].phase # "closed" THEN "in"
               ELSE entrance[x].phase
  <2> SUFFICES ASSUME NEW x \in Doors
               PROVE  /\ entrance'[x].who = entrance[x].who
                      /\ entrance'[x].phase =
                            IF x \in {a.conn : a \in gone} THEN "closed"
                            ELSE came[x].phase
    BY <1>5
  <2>1. came[x] \in Entrances /\ came[x].who = entrance[x].who
    BY <1>5
  <2>2. entrance'[x] = IF x \in {a.conn : a \in gone} THEN [came[x] EXCEPT !.phase = "closed"]
                       ELSE came[x]
    BY <1>4 DEF Leave
  <2> QED BY <2>1, <2>2 DEF Entrances
<1> QED BY <1>1, <1>2, <1>4, <1>6

(* Connections that are closed are nobody's devices.                        *)
LEMMA ClosingHeld ==
    ASSUME TypeInv, InsideType, HeldInv, NEW gone, CloseAll(gone)
    PROVE  /\ InsideType' /\ HeldInv'
           /\ \A m \in Persons : inside'[m] \subseteq inside[m]
           /\ \A m \in Persons : \A a \in inside'[m] :
                 a.conn \notin gone \/ entrance[a.conn].phase = "closed"
           /\ \A x \in Doors \ gone : entrance'[x] = entrance[x]
<1>1. PICK open : /\ open = {c \in gone : entrance[c].phase # "closed"}
                  /\ entrance' = Leave(entrance, open)
                  /\ inside' = [m \in Persons |-> {a \in inside[m] : a.conn \notin open}]
  BY DEF CloseAll
<1>2. InsideType'
  BY <1>1 DEF InsideType
<1>3. ASSUME NEW c \in Doors, entrance'[c].phase = "in"
      PROVE  \E a \in inside'[entrance'[c].who.id] : a.conn = c
  <2>1. c \notin open /\ entrance'[c] = entrance[c]
    BY <1>1, <1>3 DEF Leave, TypeInv, Entrances
  <2>2. entrance[c].who.id \in Persons
    BY <1>3, <2>1 DEF TypeInv, Present, Persons
  <2>3. PICK a \in inside[entrance[c].who.id] : a.conn = c
    BY <1>3, <2>1 DEF HeldInv
  <2> QED BY <1>1, <2>1, <2>2, <2>3
<1>4. /\ \A m \in Persons : inside'[m] \subseteq inside[m]
      /\ \A m \in Persons : \A a \in inside'[m] :
            a.conn \notin gone \/ entrance[a.conn].phase = "closed"
      /\ \A x \in Doors \ gone : entrance'[x] = entrance[x]
  BY <1>1 DEF Leave
<1> QED BY <1>2, <1>3, <1>4 DEF HeldInv

(* And who is let in is a device of its member, unless it is gone at once.   *)
LEMMA AdmittingHeld ==
    ASSUME TypeInv, InsideType, HeldInv, NEW c \in Doors, entrance[c].who \in Visitors, Admit(c)
    PROVE  InsideType' /\ HeldInv'
<1> DEFINE m == entrance[c].who.id
           now == Aged(m, c)
<1>1. PICK gone :
         /\ m \in Persons
         /\ gone = IF Cardinality(now) > door.cap THEN {Oldest(now)} ELSE {}
         /\ inside' = [inside EXCEPT ![m] = now \ gone]
         /\ \A x \in Doors :
               /\ entrance'[x].who = entrance[x].who
               /\ entrance'[x].phase =
                     IF x \in {a.conn : a \in gone} THEN "closed"
                     ELSE IF x = c /\ entrance[x].phase # "closed" THEN "in"
                     ELSE entrance[x].phase
  BY AdmitFacts DEF TypeInv
<1>2. /\ now \subseteq [conn : Doors, age : Nat]
      /\ \A a \in inside[m] : \E b \in now : b.conn = a.conn
      /\ \E b \in now : b.conn = c
  BY <1>1, AgedFacts
<1> HIDE DEF now, m
<1>3. InsideType'
  BY <1>1, <1>2 DEF InsideType
<1>4. ASSUME NEW x \in Doors, entrance'[x].phase = "in"
      PROVE  \E a \in inside'[entrance'[x].who.id] : a.conn = x
  <2>1. /\ x \notin {a.conn : a \in gone} /\ entrance'[x].who = entrance[x].who
        /\ x = c \/ entrance[x].phase = "in"
    BY <1>1, <1>4
  <2>2. CASE x = c
    <3>1. entrance'[x].who.id = m
      BY <2>1, <2>2 DEF m
    <3>2. PICK b \in now : b.conn = x
      BY <1>2, <2>2
    <3>3. b \in inside'[m]
      BY <1>1, <2>1, <3>2 DEF InsideType
    <3> QED BY <3>1, <3>2, <3>3
  <2>3. CASE x # c
    <3>1. PICK a \in inside[entrance[x].who.id] : a.conn = x
      BY <2>1, <2>3 DEF HeldInv
    <3>2. CASE entrance[x].who.id = m
      <4>1. PICK b \in now : b.conn = x
        BY <1>2, <3>1, <3>2
      <4>2. b \in inside'[m]
        BY <1>1, <2>1, <4>1 DEF InsideType
      <4> QED BY <2>1, <3>2, <4>1, <4>2
    <3>3. CASE entrance[x].who.id # m
      <4>1. inside'[entrance[x].who.id] = inside[entrance[x].who.id]
        BY <1>1, <3>3 DEF InsideType
      <4> QED BY <2>1, <3>1, <4>1
    <3> QED BY <3>2, <3>3
  <2> QED BY <2>2, <2>3
<1> QED BY <1>3, <1>4 DEF HeldInv

-----------------------------------------------------------------------------
(* Devices, when nothing happens during a signature. *)

(* Members keep what makes their connections theirs.                        *)
StandsAs(m) == Active(book, m) => Active(book', m) /\ book'.members[m].key = book.members[m].key

(* Devices of members who keep their standing, or some of them.             *)
LEMMA RoomStays ==
    ASSUME InsideType, RoomInv, door'.cap = door.cap, door.cap \in Nat,
           \A m \in Persons : inside'[m] \subseteq inside[m],
           \A m \in Persons : inside'[m] # {} => StandsAs(m),
           \A m \in Persons : \A a \in inside'[m] : entrance'[a.conn] = entrance[a.conn]
    PROVE  RoomInv'
<1> SUFFICES ASSUME NEW m \in Persons
             PROVE  /\ IsFiniteSet(inside'[m]) /\ Cardinality(inside'[m]) <= door'.cap
                    /\ \A a, b \in inside'[m] : a.conn = b.conn => a = b
                    /\ \A a \in inside'[m] :
                          /\ entrance'[a.conn].phase = "in" /\ entrance'[a.conn].who.id = m
                          /\ Belongs(a.conn)'
  BY DEF RoomInv, Belongs
<1>1. /\ IsFiniteSet(inside[m]) /\ Cardinality(inside[m]) <= door.cap
      /\ \A a, b \in inside[m] : a.conn = b.conn => a = b
      /\ \A a \in inside[m] : entrance[a.conn].phase = "in" /\ entrance[a.conn].who.id = m
                              /\ Belongs(a.conn)
  BY DEF RoomInv
<1>2. IsFiniteSet(inside'[m]) /\ Cardinality(inside'[m]) <= door.cap
  <2>1. /\ IsFiniteSet(inside'[m]) /\ Cardinality(inside'[m]) <= Cardinality(inside[m])
    BY <1>1, FS_Subset
  <2>2. Cardinality(inside'[m]) \in Nat /\ Cardinality(inside[m]) \in Nat
    BY <1>1, <2>1, FS_CardinalityType
  <2> QED BY <1>1, <2>1, <2>2
<1>3. ASSUME NEW a \in inside'[m] PROVE Belongs(a.conn)'
  <2>1. Belongs(a.conn) /\ entrance'[a.conn] = entrance[a.conn] /\ entrance[a.conn].who.id = m
    BY <1>1, <1>3
  <2>2. StandsAs(m)
    BY <1>3
  <2> QED BY <2>1, <2>2 DEF Belongs, StandsAs, Active
<1> QED BY <1>1, <1>2, <1>3

(* One device more, and the oldest gone when that is one too many.          *)
LEMMA RoomAdmits ==
    ASSUME TypeInv, InsideType, RoomInv, door'.cap = door.cap, door.cap \in Nat \ {0},
           NEW c \in Doors, entrance[c].who \in Visitors,
           entrance[c].phase \in {"verifying", "joining"},
           \A m \in Persons : inside[m] # {} => StandsAs(m),
           /\ Active(book', entrance[c].who.id)
           /\ book'.members[entrance[c].who.id].key = entrance[c].who.key,
           Admit(c)
    PROVE  RoomInv'
<1> DEFINE m == entrance[c].who.id
           now == Aged(m, c)
<1>1. PICK gone :
         /\ m \in Persons
         /\ gone = IF Cardinality(now) > door.cap THEN {Oldest(now)} ELSE {}
         /\ inside' = [inside EXCEPT ![m] = now \ gone]
         /\ \A x \in Doors :
               /\ entrance'[x].who = entrance[x].who
               /\ entrance'[x].phase =
                     IF x \in {a.conn : a \in gone} THEN "closed"
                     ELSE IF x = c /\ entrance[x].phase # "closed" THEN "in"
                     ELSE entrance[x].phase
  BY AdmitFacts DEF TypeInv
<1>2. \A p \in Persons :
         /\ IsFiniteSet(inside[p]) /\ Cardinality(inside[p]) <= door.cap
         /\ inside[p] \subseteq [conn : Doors, age : Nat]
         /\ \A a, b \in inside[p] : a.conn = b.conn => a = b
         /\ \A a \in inside[p] : /\ entrance[a.conn].phase = "in" /\ entrance[a.conn].who.id = p
                                 /\ a.conn # c /\ a.conn \in Doors
                                 /\ Active(book, p) /\ book.members[p].key = entrance[a.conn].who.key
  BY DEF RoomInv, Belongs, InsideType
<1>3. /\ now \subseteq [conn : Doors, age : Nat] /\ IsFiniteSet(now)
      /\ Cardinality(now) <= Cardinality(inside[m]) + 1 /\ Cardinality(inside[m]) \in Nat
      /\ \A b \in now : b.conn = c \/ \E a \in inside[m] : a.conn = b.conn
      /\ \A a, b \in now : a.conn = b.conn => a = b
      /\ \E b \in now : b.conn = c
  BY <1>1, <1>2, AgedFacts
<1>4. /\ gone \subseteq now /\ IsFiniteSet(now \ gone) /\ Cardinality(now \ gone) <= door.cap
  <2> HIDE DEF now
  <2>1. CASE Cardinality(now) > door.cap
    <3>1. Oldest(now) \in now
      <4>1. now # {} /\ \A a \in now : a.age \in Nat
        BY <1>3
      <4> QED BY <1>3, <4>1, OldestThere
    <3>2. /\ IsFiniteSet(now \ {Oldest(now)})
          /\ Cardinality(now \ {Oldest(now)}) = Cardinality(now) - 1
      BY <1>3, <3>1, FS_RemoveElement
    <3>3. Cardinality(now) \in Nat
      BY <1>3, FS_CardinalityType
    <3>4. gone = {Oldest(now)} /\ now \ gone = now \ {Oldest(now)}
      BY <1>1, <2>1
    <3>5. Cardinality(now) - 1 <= door.cap
      BY <1>1, <1>2, <1>3, <3>3
    <3> QED BY <3>1, <3>2, <3>4, <3>5
  <2>2. CASE ~(Cardinality(now) > door.cap)
    <3>1. gone = {} /\ now \ gone = now
      BY <1>1, <2>2
    <3>2. Cardinality(now) \in Nat
      BY <1>3, FS_CardinalityType
    <3> QED BY <1>3, <2>2, <3>1, <3>2
  <2> QED BY <2>1, <2>2
<1> HIDE DEF now, m
<1>5. \A a \in gone : a.conn = c \/ entrance[a.conn].who.id = m
  BY <1>1, <1>2, <1>3, <1>4
<1>6. ASSUME NEW p \in Persons
      PROVE  /\ IsFiniteSet(inside'[p]) /\ Cardinality(inside'[p]) <= door.cap
             /\ \A a, b \in inside'[p] : a.conn = b.conn => a = b
             /\ \A a \in inside'[p] :
                   /\ entrance'[a.conn].phase = "in" /\ entrance'[a.conn].who.id = p
                   /\ Active(book', p) /\ book'.members[p].key = entrance'[a.conn].who.key
  <2>1. CASE p = m
    <3>1. inside'[p] = now \ gone
      BY <1>1, <2>1 DEF InsideType
    <3>2. \A a, b \in inside'[p] : a.conn = b.conn => a = b
      BY <1>3, <3>1
    <3>3. ASSUME NEW a \in inside'[p]
          PROVE  /\ entrance'[a.conn].phase = "in" /\ entrance'[a.conn].who.id = p
                 /\ Active(book', p) /\ book'.members[p].key = entrance'[a.conn].who.key
      <4>1. a \in now /\ a \notin gone /\ a.conn \in Doors
        BY <1>3, <3>1, <3>3
      <4>2. a.conn \notin {g.conn : g \in gone}
        BY <1>3, <1>4, <4>1
      <4>3. CASE a.conn = c
        <5>1. entrance'[c].phase = "in" /\ entrance'[c].who = entrance[c].who
          BY <1>1, <4>2, <4>3
        <5> QED BY <2>1, <4>3, <5>1 DEF m
      <4>4. CASE a.conn # c
        <5>1. PICK b \in inside[m] : b.conn = a.conn
          BY <1>3, <4>1, <4>4
        <5>2. /\ entrance[a.conn].phase = "in" /\ entrance[a.conn].who.id = m
              /\ Active(book, m) /\ book.members[m].key = entrance[a.conn].who.key
          BY <1>1, <1>2, <5>1
        <5>3. entrance'[a.conn].phase = "in" /\ entrance'[a.conn].who = entrance[a.conn].who
          BY <1>1, <4>1, <4>2, <4>4, <5>2
        <5>4. Active(book', m) /\ book'.members[m].key = book.members[m].key
          BY <1>1, <5>1, <5>2 DEF StandsAs
        <5> QED BY <2>1, <5>2, <5>3, <5>4
      <4> QED BY <4>3, <4>4
    <3> QED BY <1>4, <3>1, <3>2, <3>3
  <2>2. CASE p # m
    <3>1. inside'[p] = inside[p]
      BY <1>1, <2>2 DEF InsideType
    <3>2. ASSUME NEW a \in inside'[p]
          PROVE  /\ entrance'[a.conn].phase = "in" /\ entrance'[a.conn].who.id = p
                 /\ Active(book', p) /\ book'.members[p].key = entrance'[a.conn].who.key
      <4>1. /\ entrance[a.conn].phase = "in" /\ entrance[a.conn].who.id = p /\ a.conn # c
            /\ a.conn \in Doors /\ Active(book, p)
            /\ book.members[p].key = entrance[a.conn].who.key
        BY <1>2, <3>1, <3>2
      <4>2. a.conn \notin {g.conn : g \in gone}
        BY <1>5, <2>2, <4>1
      <4>3. entrance'[a.conn].phase = "in" /\ entrance'[a.conn].who = entrance[a.conn].who
        BY <1>1, <4>1, <4>2
      <4>4. Active(book', p) /\ book'.members[p].key = book.members[p].key
        BY <3>1, <3>2, <4>1 DEF StandsAs
      <4> QED BY <4>1, <4>3, <4>4
    <3> QED BY <1>2, <3>1, <3>2
  <2> QED BY <2>1, <2>2
<1>7. \A p \in Persons : \A a \in inside'[p] :
         entrance'[a.conn].phase = "in" /\ entrance'[a.conn].who.id = p /\ Belongs(a.conn)'
  <2> SUFFICES ASSUME NEW p \in Persons, NEW a \in inside'[p]
               PROVE  /\ entrance'[a.conn].phase = "in" /\ entrance'[a.conn].who.id = p
                      /\ Belongs(a.conn)'
    OBVIOUS
  <2>1. /\ entrance'[a.conn].phase = "in" /\ entrance'[a.conn].who.id = p
        /\ Active(book', p) /\ book'.members[p].key = entrance'[a.conn].who.key
    BY <1>6
  <2> QED BY <2>1 DEF Belongs, Active
<1> QED BY <1>6, <1>7 DEF RoomInv

-----------------------------------------------------------------------------
(* Requests for chips, when nothing happens during a signature. *)

(* What is said of requests depends on the ledger and their standing; a newcomer is
   a request that becomes pending.                                          *)
LEMMA PaidStays ==
    ASSUME PaidInv, book'.ledger = book.ledger, granting' = granting,
           ledgerLine = << >>, granting = {},
           \A j \in DOMAIN ledgerLine' : ledgerLine'[j].kind = "request" =>
              book'.requests[ledgerLine'[j].for].status = "pending",
           \A r \in ChipRequests :
              book'.requests[r].status = "granted" <=> book.requests[r].status = "granted"
    PROVE  PaidInv'
BY DEF PaidInv, Payments

-----------------------------------------------------------------------------
(* What the actions keep of it, one by one. *)

CapKept == door'.cap = door.cap /\ door'.overlap = door.overlap

(* The limits are those of the situation.                                   *)
LEMMA CapTaken ==
    ASSUME DoorInv, NEW bound \in {"acts", "breaks", "restarts"}, TakesOne(bound)
    PROVE  CapKept
BY DEF CapKept, TakesOne, DoorInv, TypeInv, DoorConf

(* Nobody comes or goes, and who is a member remains one.                    *)
LEMMA NobodyMoves ==
    ASSUME DoorInv, KeptInv, CapKept, UNCHANGED <<entrance, inside>>,
           \A m \in Persons : ~door.overlap => StandsAs(m)
    PROVE  InsideType' /\ HeldInv' /\ (~door.overlap => RoomInv')
<1>1. InsideType' /\ HeldInv'
  BY DEF KeptInv, InsideType, HeldInv
<1>2. door.cap \in Nat
  BY DEF DoorInv, TypeInv, DoorConf
<1>3. ~door.overlap => RoomInv'
  BY <1>2, RoomStays DEF KeptInv, CapKept
<1> QED BY <1>1, <1>3

(* Who goes is a device no more.                                            *)
LEMMA SomeGo ==
    ASSUME DoorInv, KeptInv, CapKept, NEW gone, CloseAll(gone),
           \A m \in Persons : ~door.overlap =>
              StandsAs(m) \/ \A a \in inside[m] : a.conn \in gone
    PROVE  InsideType' /\ HeldInv' /\ (~door.overlap => RoomInv')
<1>1. /\ InsideType' /\ HeldInv'
      /\ \A m \in Persons : inside'[m] \subseteq inside[m]
      /\ \A m \in Persons : \A a \in inside'[m] :
            a.conn \notin gone \/ entrance[a.conn].phase = "closed"
      /\ \A x \in Doors \ gone : entrance'[x] = entrance[x]
  BY ClosingHeld DEF DoorInv, KeptInv
<1>2. door.cap \in Nat
  BY DEF DoorInv, TypeInv, DoorConf
<1>3. ASSUME ~door.overlap PROVE RoomInv'
  <2>1. RoomInv /\ InsideType
    BY <1>3 DEF KeptInv
  <2>2. \A m \in Persons : \A a \in inside'[m] : a.conn \in Doors \ gone
    <3>1. \A m \in Persons : \A a \in inside[m] :
             a.conn \in Doors /\ entrance[a.conn].phase # "closed"
      BY <2>1 DEF RoomInv, InsideType
    <3> QED BY <1>1, <3>1
  <2>3. \A m \in Persons : inside'[m] # {} => StandsAs(m)
    BY <1>1, <1>3, <2>2
  <2> QED BY <1>1, <1>2, <2>1, <2>2, <2>3, RoomStays DEF CapKept
<1> QED BY <1>1, <1>3

(* A connection changes that was not in, and is not let in.                  *)
LEMMA OneWaits ==
    ASSUME DoorInv, KeptInv, CapKept, UNCHANGED inside, NEW c \in Doors,
           entrance[c].phase # "in", entrance'[c].phase # "in",
           \A x \in Doors : x # c => entrance'[x] = entrance[x],
           \A m \in Persons : ~door.overlap => (inside[m] # {} => StandsAs(m))
    PROVE  InsideType' /\ HeldInv' /\ (~door.overlap => RoomInv')
<1>1. InsideType'
  BY DEF KeptInv, InsideType
<1>2. HeldInv'
  BY DEF KeptInv, HeldInv
<1>3. door.cap \in Nat
  BY DEF DoorInv, TypeInv, DoorConf
<1>4. ASSUME ~door.overlap PROVE RoomInv'
  <2>1. RoomInv /\ InsideType
    BY <1>4 DEF KeptInv
  <2>2. \A m \in Persons : \A a \in inside'[m] : a.conn \in Doors /\ a.conn # c
    BY <2>1 DEF RoomInv, InsideType
  <2> QED BY <1>3, <1>4, <2>1, <2>2, RoomStays DEF CapKept
<1> QED BY <1>1, <1>2, <1>4

(* Nothing is being signed, and nothing joins the line.                     *)
LEMMA NothingWritten ==
    ASSUME DoorInv, KeptInv, NothingSigned, CapKept,
           InsideType' /\ HeldInv' /\ (~door.overlap => RoomInv'),
           UNCHANGED <<ledgerLine, granting>>, book'.ledger = book.ledger,
           \A r \in ChipRequests :
              book'.requests[r].status = "granted" <=> book.requests[r].status = "granted"
    PROVE  KeptInv'
<1>1. ASSUME ~door.overlap PROVE WaitInv' /\ PaidInv'
  <2>1. ledgerLine = << >> /\ granting = {} /\ PaidInv
    BY <1>1 DEF NothingSigned, KeptInv
  <2>2. PaidInv'
    BY <2>1, PaidStays
  <2> QED BY <2>1, <2>2 DEF WaitInv
<1> QED BY <1>1 DEF KeptInv, CapKept

(* Who says hello is not in yet.                                            *)
LEMMA IntroducesKept ==
    ASSUME DoorInv, KeptInv, NEW c \in Doors, NEW v \in Visitors, NEW i \in Invites \cup {NoInvite},
           Introduces(c, v, i)
    PROVE  KeptInv'
<1>1. /\ NothingSigned /\ UNCHANGED <<door, book, inside, ledgerLine, granting>>
      /\ entrance[c].phase = "off"
  BY DEF Introduces
<1>2. entrance'[c].phase # "in" /\ \A x \in Doors : x # c => entrance'[x] = entrance[x]
  BY DEF Introduces, DoorInv, TypeInv
<1>3. InsideType' /\ HeldInv' /\ (~door.overlap => RoomInv')
  BY <1>1, <1>2, OneWaits DEF StandsAs, CapKept
<1> QED BY <1>1, <1>3, NothingWritten DEF CapKept

(* Nor is who answers the challenge.                                        *)
LEMMA AuthKept ==
    ASSUME DoorInv, KeptInv, NEW c \in Doors, Auth(c)
    PROVE  KeptInv'
<1>1. /\ NothingSigned /\ UNCHANGED <<door, book, inside, ledgerLine, granting>>
      /\ entrance[c].phase = "asked"
  BY DEF Auth
<1>2. entrance'[c].phase # "in" /\ \A x \in Doors : x # c => entrance'[x] = entrance[x]
  BY DEF Auth, DoorInv, TypeInv, Entrances
<1>3. InsideType' /\ HeldInv' /\ (~door.overlap => RoomInv')
  BY <1>1, <1>2, OneWaits DEF StandsAs, CapKept
<1> QED BY <1>1, <1>3, NothingWritten DEF CapKept

(* Whoever goes is no device any more.                                      *)
LEMMA DisconnectsKept ==
    ASSUME DoorInv, KeptInv, NEW c \in Doors, Disconnects(c)
    PROVE  KeptInv'
<1>1. /\ NothingSigned /\ UNCHANGED <<book, ledgerLine, granting>> /\ CloseAll({c})
  BY DEF Disconnects
<1>2. CapKept
  BY CapTaken DEF Disconnects
<1>3. InsideType' /\ HeldInv' /\ (~door.overlap => RoomInv')
  BY <1>1, <1>2, SomeGo DEF StandsAs
<1> QED BY <1>1, <1>2, <1>3, NothingWritten

(* A new request was never paid: it was none before.                        *)
LEMMA RequestingKept ==
    ASSUME DoorInv, KeptInv, NEW c \in Doors, NEW r \in ChipRequests, Requesting(c, r)
    PROVE  KeptInv'
<1>1. /\ NothingSigned /\ UNCHANGED <<door, ledgerLine, granting>>
      /\ book.requests[r].status = "none" /\ book \in Books
  BY DEF Requesting, DoorInv, LegalInv, Legal
<1>2. CASE Active(book, entrance[c].who.id)
  <2>1. /\ book' = [book EXCEPT !.requests[r] = [who |-> entrance[c].who.id, status |-> "pending"]]
        /\ UNCHANGED <<entrance, inside>>
    BY <1>2 DEF Requesting
  <2>2. /\ book'.members = book.members /\ book'.ledger = book.ledger
        /\ \A q \in ChipRequests : book'.requests[q].status = "granted"
                                     <=> book.requests[q].status = "granted"
    BY <1>1, <2>1 DEF Books
  <2>3. InsideType' /\ HeldInv' /\ (~door.overlap => RoomInv')
    BY <1>1, <2>1, <2>2, NobodyMoves DEF StandsAs, CapKept, Active
  <2> QED BY <1>1, <2>2, <2>3, NothingWritten DEF CapKept
<1>3. CASE ~Active(book, entrance[c].who.id)
  <2>1. CloseAll({c}) /\ UNCHANGED book
    BY <1>3 DEF Requesting
  <2>2. InsideType' /\ HeldInv' /\ (~door.overlap => RoomInv')
    BY <1>1, <2>1, SomeGo DEF StandsAs, CapKept
  <2> QED BY <1>1, <2>1, <2>2, NothingWritten DEF CapKept
<1> QED BY <1>2, <1>3

(* A newcomer's entry has its key, and nobody else's changes.                *)
LEMMA EnrolledBook ==
    ASSUME book \in Books, NEW c \in Doors, entrance[c].who \in Visitors,
           entrance[c].invite \in Invites \cup {NoInvite}, NEW b, b = Enrolled(c)
    PROVE  /\ b.ledger = book.ledger /\ b.requests = book.requests
           /\ b.members[entrance[c].who.id].key = entrance[c].who.key
           /\ \A m \in Persons : m # entrance[c].who.id => b.members[m] = book.members[m]
<1> DEFINE p == entrance[c].who.id
           i == entrance[c].invite
           entry == [key |-> entrance[c].who.key, role |-> "member", by |-> i,
                     status |-> IF (IF i = NoInvite THEN door.membership = "open"
                                    ELSE door.auto) THEN "active" ELSE "pending"]
           used == [j \in Invites |-> [book.invites[j] EXCEPT !.uses = IF j = i THEN @ + 1 ELSE @]]
<1>1. p \in Persons /\ entry.key = entrance[c].who.key
  BY DEF Persons
<1>2. b = [book EXCEPT !.members[p] = entry, !.invites = used]
  BY DEF Enrolled
<1>3. /\ book.members \in [Persons -> Member \cup {NoMember}]
      /\ book = [members |-> book.members, invites |-> book.invites,
                 requests |-> book.requests, ledger |-> book.ledger]
  BY DEF Books
<1> HIDE DEF entry, used, p, i
<1>4. /\ b.members = [book.members EXCEPT ![p] = entry]
      /\ b.ledger = book.ledger /\ b.requests = book.requests
  BY <1>2, <1>3
<1>5. b.members[p] = entry /\ \A m \in Persons : m # p => b.members[m] = book.members[m]
  BY <1>1, <1>3, <1>4
<1> QED BY <1>1, <1>4, <1>5 DEF p

(* Who is let in at once, or waits for a welcome, is a member by then.       *)
LEMMA VerifiedKept ==
    ASSUME DoorInv, KeptInv, NEW c \in Doors, Verified(c)
    PROVE  KeptInv'
<1> DEFINE p == entrance[c].who.id
<1>1. /\ NothingSigned /\ UNCHANGED <<door, granting>> /\ CapKept
      /\ entrance[c].phase = "verifying"
  BY DEF Verified, CapKept
<1>2. /\ entrance[c].who \in Visitors /\ entrance[c].invite \in Invites \cup {NoInvite}
      /\ book \in Books /\ p \in Persons /\ door.cap \in Nat \ {0}
  BY <1>1 DEF DoorInv, TypeInv, LegalInv, Legal, Present, Persons, Entrances, DoorConf
<1>3. /\ book'.ledger = book.ledger /\ book'.requests = book.requests
      /\ ~Refused(c) => book'.members[p].key = entrance[c].who.key
      /\ \A m \in Persons : StandsAs(m)
  <2>1. CASE Newcomer(c) /\ ~Refused(c)
    <3>1. book' = Enrolled(c)
      BY <2>1 DEF Verified
    <3>2. PICK b : b = book'
      OBVIOUS
    <3>3. /\ b.ledger = book.ledger /\ b.requests = book.requests
          /\ b.members[p].key = entrance[c].who.key
          /\ \A m \in Persons : m # p => b.members[m] = book.members[m]
      BY <1>2, <3>1, <3>2, EnrolledBook
    <3>4. ~Active(book, p)
      BY <2>1 DEF Newcomer, Active
    <3> QED BY <3>2, <3>3, <3>4 DEF StandsAs, Active
  <2>2. CASE ~(Newcomer(c) /\ ~Refused(c))
    <3>1. UNCHANGED book
      BY <2>2 DEF Verified
    <3>2. ~Refused(c) => book.members[p].key = entrance[c].who.key
      BY <2>2 DEF Refused
    <3> QED BY <3>1, <3>2 DEF StandsAs
  <2> QED BY <2>1, <2>2
<1>4. CASE CloseAll({c}) /\ UNCHANGED ledgerLine
  <2>1. InsideType' /\ HeldInv' /\ (~door.overlap => RoomInv')
    BY <1>1, <1>3, <1>4, SomeGo
  <2> QED BY <1>1, <1>3, <1>4, <2>1, NothingWritten
<1>5. CASE ~Refused(c) /\ Active(book', p) /\ Admit(c) /\ UNCHANGED ledgerLine
  <2>1. InsideType' /\ HeldInv'
    BY <1>2, <1>5, AdmittingHeld DEF DoorInv, KeptInv
  <2>2. ASSUME ~door.overlap PROVE RoomInv'
    <3>1. TypeInv /\ InsideType /\ RoomInv /\ door'.cap = door.cap
      BY <1>1, <2>2 DEF DoorInv, KeptInv
    <3> QED BY <1>1, <1>2, <1>3, <1>5, <3>1, RoomAdmits
  <2> QED BY <1>1, <1>3, <1>5, <2>1, <2>2, NothingWritten
<1>6. CASE /\ ~Refused(c) /\ Active(book', p) /\ UNCHANGED inside
           /\ entrance' = [entrance EXCEPT ![c].phase = "joining"]
           /\ Write("welcome", p, p, c)
  <2>1. /\ entrance'[c].phase = "joining" /\ entrance'[c].who = entrance[c].who
        /\ \A x \in Doors : x # c => entrance'[x] = entrance[x]
    BY <1>6 DEF DoorInv, TypeInv, Entrances
  <2>2. InsideType' /\ HeldInv' /\ (~door.overlap => RoomInv')
    BY <1>1, <1>3, <1>6, <2>1, OneWaits
  <2>3. ASSUME ~door.overlap PROVE WaitInv' /\ PaidInv'
    <3>1. ledgerLine = << >> /\ granting = {} /\ PaidInv
      BY <1>1, <2>3 DEF NothingSigned, KeptInv
    <3>2. /\ DOMAIN ledgerLine' = {1} /\ ledgerLine'[1].kind = "welcome"
          /\ ledgerLine'[1].at = c
      BY <1>6, <3>1 DEF Write
    <3>3. Belongs(c)'
      BY <1>3, <1>6, <2>1 DEF Belongs, Active
    <3>4. WaitInv'
      BY <2>1, <3>2, <3>3 DEF WaitInv, Belongs
    <3>5. PaidInv'
      BY <1>1, <1>3, <3>1, <3>2, PaidStays
    <3> QED BY <3>4, <3>5
  <2> QED BY <1>1, <2>2, <2>3 DEF KeptInv, CapKept
<1> QED BY <1>4, <1>5, <1>6 DEF Verified

(* What is being signed is for whom it was for.                             *)
LEMMA SignsKept ==
    ASSUME DoorInv, KeptInv, Signs
    PROVE  KeptInv'
<1>1. /\ UNCHANGED <<door, book, entrance, inside, granting>>
      /\ ledgerLine' = [ledgerLine EXCEPT ![1].base = book]
  BY DEF Signs
<1>2. ledgerLine \in Seq(Jobs) /\ 1 \in DOMAIN ledgerLine
  BY FirstInLine DEF Signs
<1>3. /\ DOMAIN ledgerLine' = DOMAIN ledgerLine
      /\ \A j \in DOMAIN ledgerLine : /\ ledgerLine'[j].kind = ledgerLine[j].kind
                                      /\ ledgerLine'[j].for = ledgerLine[j].for
                                      /\ ledgerLine'[j].at = ledgerLine[j].at
  <2>1. ledgerLine[1] \in Jobs
    BY <1>2, ElementOfSeq, LenProperties
  <2>2. PICK job : job = [ledgerLine[1] EXCEPT !.base = book]
    OBVIOUS
  <2>3. /\ job.kind = ledgerLine[1].kind /\ job.for = ledgerLine[1].for
        /\ job.at = ledgerLine[1].at
    BY <2>1, <2>2 DEF Jobs
  <2>4. ledgerLine' = [ledgerLine EXCEPT ![1] = job]
    BY <1>1, <2>2
  <2> QED BY <2>3, <2>4
<1>4. InsideType' /\ HeldInv' /\ (~door.overlap => RoomInv')
  BY <1>1, NobodyMoves DEF CapKept, StandsAs
<1>5. ASSUME ~door.overlap PROVE WaitInv' /\ PaidInv'
  <2>1. WaitInv /\ PaidInv
    BY <1>5 DEF KeptInv
  <2>2. WaitInv'
    BY <1>1, <1>3, <2>1 DEF WaitInv, Belongs
  <2>3. PaidInv'
    BY <1>1, <1>3, <2>1 DEF PaidInv
  <2> QED BY <2>2, <2>3
<1> QED BY <1>1, <1>4, <1>5 DEF KeptInv

(* A request that is paid waited until then; it is marked next.             *)
LEMMA SignedPaid ==
    ASSUME DoorInv, KeptInv, ~door.overlap, Signed
    PROVE  PaidInv' /\ book'.members = book.members /\ ledgerLine' = << >>
<1> DEFINE job == ledgerLine[1]
           e == [kind |-> job.kind, for |-> job.for]
<1>1. /\ ledgerLine # << >> /\ ledgerLine \in Seq(Jobs) /\ 1 \in DOMAIN ledgerLine
      /\ job \in Jobs /\ Head(ledgerLine) = job /\ Len(ledgerLine) \in Nat
      /\ ledgerLine' \in Seq(Jobs) /\ Len(ledgerLine') = Len(ledgerLine) - 1
  BY FirstInLine DEF Signed
<1>2. Len(ledgerLine) = 1 /\ job.base \in {NoBook, book} /\ granting = {}
  BY <1>1 DEF DoorInv, AloneInv
<1>3. ledgerLine' = << >>
  BY <1>1, <1>2, EmptySeq
<1>4. PaidInv /\ book \in Books /\ book.ledger \in Seq(Paid) /\ e \in Paid
  BY <1>1 DEF KeptInv, DoorInv, LegalInv, Legal, Books, Jobs, Paid
<1>5. /\ job.base # NoBook => /\ book' = [book EXCEPT !.ledger = Append(@, e)]
                              /\ granting' = IF job.kind = "request" THEN {job.for} ELSE {}
      /\ job.base = NoBook => book' = book /\ granting' = {}
  BY <1>1, <1>2 DEF Signed
<1>6. \A q \in ChipRequests :
         /\ \A n, k \in Payments(book, q) : n = k
         /\ Payments(book, q) # {} <=> book.requests[q].status = "granted"
         /\ job.kind = "request" /\ job.for = q => book.requests[q].status = "pending"
  BY <1>1, <1>2, <1>4 DEF PaidInv
<1>7. CASE job.base = NoBook
  <2>1. book' = book /\ granting' = {}
    BY <1>5, <1>7
  <2> HIDE DEF job, e
  <2>2. PaidInv'
    BY <1>3, <1>6, <2>1 DEF PaidInv, Payments
  <2> QED BY <1>3, <2>1, <2>2
<1>8. CASE job.base # NoBook
  <2> HIDE DEF e
  <2>1. PICK l : l = Append(book.ledger, e)
    OBVIOUS
  <2>2. /\ book'.ledger = l /\ book'.requests = book.requests /\ book'.members = book.members
        /\ granting' = IF job.kind = "request" THEN {job.for} ELSE {}
    BY <1>4, <1>5, <1>8, <2>1 DEF Books
  <2>3. /\ Len(book.ledger) + 1 \in DOMAIN l /\ l[Len(book.ledger) + 1] = e
        /\ \A n \in DOMAIN book.ledger : n \in DOMAIN l /\ l[n] = book.ledger[n]
        /\ \A n \in DOMAIN l : \/ n \in DOMAIN book.ledger
                               \/ n = Len(book.ledger) + 1
    BY <1>4, <2>1, AppendFacts
  <2>4. e.kind = job.kind /\ e.for = job.for /\ (e = [kind |-> job.kind, for |-> job.for])
    BY DEF e
  <2> HIDE DEF job
  <2>5. ASSUME NEW q \in ChipRequests
        PROVE  /\ \A n, k \in Payments(book', q) : n = k
               /\ Payments(book', q) # {} <=>
                     book'.requests[q].status = "granted" \/ q \in granting'
               /\ q \in granting' => book'.requests[q].status = "pending"
    <3>1. CASE job.kind = "request" /\ job.for = q
      <4>1. book.requests[q].status = "pending" /\ Payments(book, q) = {} /\ q \in granting'
        BY <1>6, <2>2, <3>1
      <4>2. Payments(book', q) = {Len(book.ledger) + 1}
        <5>1. e = [kind |-> "request", for |-> q]
          BY <2>4, <3>1
        <5>2. \A n \in DOMAIN l : l[n] = [kind |-> "request", for |-> q]
                                    => n = Len(book.ledger) + 1
          BY <2>3, <4>1 DEF Payments
        <5> QED BY <2>2, <2>3, <5>1, <5>2 DEF Payments
      <4> QED BY <2>2, <4>1, <4>2
    <3>2. CASE ~(job.kind = "request" /\ job.for = q)
      <4>1. e # [kind |-> "request", for |-> q]
        BY <2>4, <3>2
      <4>2. Payments(book', q) = Payments(book, q)
        BY <2>2, <2>3, <4>1 DEF Payments
      <4>3. q \notin granting'
        BY <2>2, <3>2
      <4> QED BY <1>6, <2>2, <4>2, <4>3
    <3> QED BY <3>1, <3>2
  <2>6. PaidInv'
    BY <1>3, <2>5 DEF PaidInv, Payments
  <2> QED BY <1>3, <2>2, <2>6
<1> QED BY <1>7, <1>8

(* A newcomer is let in after its welcome; nothing happened meanwhile.      *)
LEMMA SignedKept ==
    ASSUME DoorInv, KeptInv, Signed
    PROVE  KeptInv'
<1> DEFINE job == ledgerLine[1]
<1>1. /\ UNCHANGED door /\ 1 \in DOMAIN ledgerLine
      /\ job.kind = "welcome" => Admit(job.at)
      /\ job.kind # "welcome" => UNCHANGED <<entrance, inside>>
  BY FirstInLine DEF Signed
<1>2. job.kind = "welcome" => job.at \in Doors /\ entrance[job.at].who \in Visitors
  BY <1>1 DEF DoorInv, TypeInv, Awaited
<1>3. ~door.overlap => PaidInv' /\ book'.members = book.members /\ ledgerLine' = << >>
  BY SignedPaid
<1>4. \A m \in Persons : ~door.overlap => StandsAs(m)
  BY <1>3 DEF StandsAs, Active
<1>5. CapKept
  BY <1>1 DEF CapKept
<1>6. CASE job.kind = "welcome"
  <2> DEFINE c == job.at
  <2>1. c \in Doors /\ entrance[c].who \in Visitors /\ Admit(c)
    BY <1>1, <1>2, <1>6
  <2>2. ~door.overlap => entrance[c].phase = "joining" /\ Belongs(c)
    BY <1>1, <1>6 DEF KeptInv, WaitInv
  <2> HIDE DEF job, c
  <2>3. InsideType' /\ HeldInv'
    BY <2>1, AdmittingHeld DEF DoorInv, KeptInv
  <2>4. ASSUME ~door.overlap PROVE RoomInv'
    <3>1. TypeInv /\ InsideType /\ RoomInv /\ door'.cap = door.cap /\ door.cap \in Nat \ {0}
      BY <1>1, <2>4 DEF DoorInv, KeptInv, TypeInv, DoorConf
    <3>2. /\ Active(book', entrance[c].who.id)
          /\ book'.members[entrance[c].who.id].key = entrance[c].who.key
      BY <1>3, <2>2, <2>4 DEF Belongs, Active
    <3> QED BY <1>4, <2>1, <2>2, <2>4, <3>1, <3>2, RoomAdmits
  <2> QED BY <1>1, <1>3, <2>3, <2>4 DEF KeptInv, WaitInv
<1>7. CASE job.kind # "welcome"
  <2>1. InsideType' /\ HeldInv' /\ (~door.overlap => RoomInv')
    BY <1>1, <1>4, <1>5, <1>7, NobodyMoves
  <2> QED BY <1>1, <1>3, <2>1 DEF KeptInv, WaitInv
<1> QED BY <1>6, <1>7

(* What admins do to members and invites, with nothing being signed.        *)
LEMMA ActsKept ==
    ASSUME DoorInv, NEW by, NEW kind, Acting(by, kind)
    PROVE  NothingSigned /\ CapKept /\ book \in Books
BY CapTaken DEF Acting, DoorInv, LegalInv, Legal

(* A certificate pays nobody's request.                                     *)
LEMMA MintKept ==
    ASSUME DoorInv, KeptInv, NEW by, NEW x \in Certificates, Mint(by, x)
    PROVE  KeptInv'
<1>1. /\ UNCHANGED <<book, entrance, inside, granting, inviting>> /\ NothingSigned /\ CapKept
  BY ActsKept DEF Mint
<1>2. InsideType' /\ HeldInv' /\ (~door.overlap => RoomInv')
  BY <1>1, NobodyMoves DEF StandsAs
<1>3. ASSUME ~door.overlap PROVE WaitInv' /\ PaidInv'
  <2>1. ledgerLine = << >> /\ granting = {} /\ PaidInv
    BY <1>1, <1>3 DEF NothingSigned, KeptInv
  <2>2. DOMAIN ledgerLine' = {1} /\ ledgerLine'[1].kind = "mint"
    BY <2>1 DEF Mint, Write
  <2>3. PaidInv'
    BY <1>1, <2>1, <2>2, PaidStays
  <2> QED BY <2>2, <2>3 DEF WaitInv
<1> QED BY <1>1, <1>2, <1>3 DEF KeptInv, CapKept

(* What joins the line is for a request that waits; a declined one was not paid. *)
LEMMA ResolveKept ==
    ASSUME DoorInv, KeptInv, NEW by, NEW r \in ChipRequests, NEW decision, Resolve(by, r, decision)
    PROVE  KeptInv'
<1>1. /\ UNCHANGED <<entrance, inside, granting, inviting>> /\ NothingSigned /\ CapKept
      /\ book.requests[r].status = "pending" /\ book \in Books
  BY ActsKept DEF Resolve
<1>2. CASE decision = "granted"
  <2>1. UNCHANGED book /\ Write("request", r, book.requests[r].who, NoEntrance)
    BY <1>2 DEF Resolve
  <2>2. InsideType' /\ HeldInv' /\ (~door.overlap => RoomInv')
    BY <1>1, <2>1, NobodyMoves DEF StandsAs
  <2>3. ASSUME ~door.overlap PROVE WaitInv' /\ PaidInv'
    <3>1. ledgerLine = << >> /\ granting = {} /\ PaidInv
      BY <1>1, <2>3 DEF NothingSigned, KeptInv
    <3>2. DOMAIN ledgerLine' = {1} /\ ledgerLine'[1].kind = "request" /\ ledgerLine'[1].for = r
      BY <2>1, <3>1 DEF Write
    <3>3. PaidInv'
      BY <1>1, <2>1, <3>1, <3>2, PaidStays
    <3> QED BY <3>2, <3>3 DEF WaitInv
  <2> QED BY <1>1, <2>2, <2>3 DEF KeptInv, CapKept
<1>3. CASE decision # "granted"
  <2>1. book' = [book EXCEPT !.requests[r].status = "declined"] /\ UNCHANGED ledgerLine
    BY <1>3 DEF Resolve
  <2>2. book'.ledger = book.ledger /\ book'.members = book.members
    BY <1>1, <2>1, RequestMarked DEF Statuses
  <2>3. \A q \in ChipRequests : book'.requests[q].status = "granted"
                                  <=> book.requests[q].status = "granted"
    BY <1>1, <2>1, ZenonT(30) DEF Books, Asked
  <2>4. InsideType' /\ HeldInv' /\ (~door.overlap => RoomInv')
    BY <1>1, <2>2, NobodyMoves DEF StandsAs, Active
  <2> QED BY <1>1, <2>1, <2>2, <2>3, <2>4, NothingWritten
<1> QED BY <1>2, <1>3

(* A request was paid before it is marked.                                  *)
LEMMA ResolvedKept ==
    ASSUME DoorInv, KeptInv, NEW r \in ChipRequests, Resolved(r)
    PROVE  KeptInv'
<1>1. /\ UNCHANGED <<door, entrance, inside, ledgerLine, inviting>> /\ r \in granting
      /\ granting' = granting \ {r} /\ book \in Books
      /\ book' = [book EXCEPT !.requests[r].status = IF @ = "none" THEN @ ELSE "granted"]
  BY DEF Resolved, DoorInv, LegalInv, Legal
<1>2. PICK standing : standing = IF book.requests[r].status = "none" THEN "none" ELSE "granted"
  OBVIOUS
<1>3. book' = [book EXCEPT !.requests[r].status = standing] /\ standing \in Statuses
  BY <1>1, <1>2 DEF Statuses
<1>4. book'.ledger = book.ledger /\ book'.members = book.members
  BY <1>1, <1>3, RequestMarked
<1>5. /\ book'.requests[r].status = standing
      /\ \A q \in ChipRequests : q # r => book'.requests[q] = book.requests[q]
  BY <1>1, <1>3, ZenonT(30) DEF Books, Asked
<1>6. InsideType' /\ HeldInv' /\ (~door.overlap => RoomInv')
  BY <1>1, <1>4, NobodyMoves DEF StandsAs, Active, CapKept
<1>7. ASSUME ~door.overlap PROVE WaitInv' /\ PaidInv'
  <2>1. ledgerLine' = << >> /\ PaidInv /\ inviting = NoBook
    BY <1>1, <1>7 DEF DoorInv, AloneInv, KeptInv
  <2>2. standing = "granted"
    BY <1>1, <1>2, <2>1 DEF PaidInv
  <2>3. PaidInv'
    BY <1>1, <1>4, <1>5, <2>1, <2>2 DEF PaidInv, Payments
  <2> QED BY <2>1, <2>3 DEF WaitInv
<1> QED BY <1>1, <1>6, <1>7 DEF KeptInv

(* An invite that is to be signed changes nothing yet.                      *)
LEMMA CreateInviteKept ==
    ASSUME DoorInv, KeptInv, NEW by, CreateInvite(by)
    PROVE  KeptInv'
<1>1. /\ UNCHANGED <<book, entrance, inside, ledgerLine, granting>> /\ NothingSigned /\ CapKept
  BY ActsKept DEF CreateInvite
<1>2. InsideType' /\ HeldInv' /\ (~door.overlap => RoomInv')
  BY <1>1, NobodyMoves DEF StandsAs
<1> QED BY <1>1, <1>2, NothingWritten

(* The state an invite is added to is that of now.                          *)
LEMMA InviteSignedKept ==
    ASSUME DoorInv, KeptInv, NEW i \in Invites, InviteSigned(i)
    PROVE  KeptInv'
<1>1. /\ UNCHANGED <<door, entrance, inside, ledgerLine, granting>> /\ inviting # NoBook
      /\ book' = [inviting EXCEPT !.invites[i].issued = TRUE] /\ inviting \in Books
  BY DEF InviteSigned, DoorInv, TypeInv
<1>2. /\ book'.members = inviting.members /\ book'.ledger = inviting.ledger
      /\ book'.requests = inviting.requests
  BY <1>1 DEF Books
<1>3. ~door.overlap => inviting = book /\ ledgerLine = << >> /\ granting = {}
  BY <1>1 DEF DoorInv, AloneInv
<1>4. InsideType' /\ HeldInv' /\ (~door.overlap => RoomInv')
  BY <1>1, <1>2, <1>3, NobodyMoves DEF StandsAs, Active, CapKept
<1>5. ASSUME ~door.overlap PROVE WaitInv' /\ PaidInv'
  <2>1. PaidInv'
    BY <1>1, <1>2, <1>3, <1>5, PaidStays DEF KeptInv
  <2> QED BY <1>1, <1>3, <1>5, <2>1 DEF WaitInv
<1> QED BY <1>1, <1>4, <1>5 DEF KeptInv

(* A revoked invite changes nobody's standing.                              *)
LEMMA RevokeInviteKept ==
    ASSUME DoorInv, KeptInv, NEW by, NEW i \in Invites, RevokeInvite(by, i)
    PROVE  KeptInv'
<1>1. /\ UNCHANGED <<entrance, inside, ledgerLine, granting, inviting>> /\ NothingSigned /\ CapKept
      /\ book' = [book EXCEPT !.invites[i].revoked = TRUE] /\ book \in Books
  BY ActsKept DEF RevokeInvite
<1>2. /\ book'.members = book.members /\ book'.ledger = book.ledger
      /\ book'.requests = book.requests
  BY <1>1 DEF Books
<1>3. InsideType' /\ HeldInv' /\ (~door.overlap => RoomInv')
  BY <1>1, <1>2, NobodyMoves DEF StandsAs, Active
<1> QED BY <1>1, <1>2, <1>3, NothingWritten

(* One member's entry changes, and nothing else.                            *)
LEMMA EntryChanged ==
    ASSUME book \in Books, NEW m \in Persons, NEW entry, NEW b,
           b = [book EXCEPT !.members[m] = entry]
    PROVE  /\ b.ledger = book.ledger /\ b.requests = book.requests
           /\ b.members[m] = entry
           /\ \A p \in Persons : p # m => b.members[p] = book.members[p]
<1>1. PICK f : f = [book.members EXCEPT ![m] = entry]
  OBVIOUS
<1>2. f[m] = entry /\ \A p \in Persons : p # m => f[p] = book.members[p]
  BY <1>1 DEF Books
<1>3. b = [book EXCEPT !.members = f]
  BY <1>1 DEF Books
<1>4. b.members = f /\ b.ledger = book.ledger /\ b.requests = book.requests
  BY <1>3 DEF Books
<1> QED BY <1>2, <1>4

(* Another standing of a member is nobody else's.                           *)
LEMMA StandingChanged ==
    ASSUME book \in Books, NEW m \in Persons, Known(book, m), NEW standing,
           book' = [book EXCEPT !.members[m].status = standing]
    PROVE  /\ book'.ledger = book.ledger /\ book'.requests = book.requests
           /\ \A p \in Persons : p # m \/ ~Active(book, m) => StandsAs(p)
<1>1. PICK entry, b : entry = [book.members[m] EXCEPT !.status = standing] /\ b = book'
  OBVIOUS
<1>2. b = [book EXCEPT !.members[m] = entry]
  BY <1>1 DEF Books
<1>3. /\ b.ledger = book.ledger /\ b.requests = book.requests
      /\ \A p \in Persons : p # m => b.members[p] = book.members[p]
  BY <1>2, EntryChanged
<1> QED BY <1>1, <1>3 DEF StandsAs, Active

(* Who is approved was not active, and had no devices.                      *)
LEMMA ApproveKept ==
    ASSUME DoorInv, KeptInv, NEW by, NEW m \in Persons, Approve(by, m)
    PROVE  KeptInv'
<1>1. /\ UNCHANGED <<entrance, inside, ledgerLine, granting, inviting>> /\ NothingSigned /\ CapKept
      /\ Known(book, m) /\ ~Active(book, m) /\ book \in Books
      /\ book' = [book EXCEPT !.members[m].status = "active"]
  BY ActsKept DEF Approve, Known
<1>2. /\ book'.ledger = book.ledger /\ book'.requests = book.requests
      /\ \A p \in Persons : StandsAs(p)
  BY <1>1, StandingChanged
<1>3. InsideType' /\ HeldInv' /\ (~door.overlap => RoomInv')
  BY <1>1, <1>2, NobodyMoves
<1> QED BY <1>1, <1>2, <1>3, NothingWritten

(* A ban closes all the devices of who is banned.                           *)
LEMMA BanKept ==
    ASSUME DoorInv, KeptInv, NEW by, NEW m \in Persons, Ban(by, m)
    PROVE  KeptInv'
<1>1. /\ UNCHANGED <<ledgerLine, granting, inviting>> /\ NothingSigned /\ CapKept
      /\ Known(book, m) /\ book \in Books
      /\ book' = [book EXCEPT !.members[m].status = "banned"] /\ CloseAll(DevicesOf(m))
  BY ActsKept DEF Ban, MayBan, Known
<1>2. /\ book'.ledger = book.ledger /\ book'.requests = book.requests
      /\ \A p \in Persons : p # m => StandsAs(p)
  BY <1>1, StandingChanged
<1>3. \A a \in inside[m] : a.conn \in DevicesOf(m)
  BY DEF DevicesOf
<1>4. InsideType' /\ HeldInv' /\ (~door.overlap => RoomInv')
  BY <1>1, <1>2, <1>3, SomeGo
<1> QED BY <1>1, <1>2, <1>4, NothingWritten

(* A role is neither a standing nor a key.                                  *)
LEMMA SetRoleKept ==
    ASSUME DoorInv, KeptInv, NEW by \in Persons, NEW m \in Persons,
           NEW role \in {"owner", "admin", "member"}, SetRole(by, m, role)
    PROVE  KeptInv'
<1>1. /\ UNCHANGED <<entrance, inside, ledgerLine, granting, inviting>> /\ NothingSigned /\ CapKept
      /\ Known(book, m) /\ book.members[m].role # "owner" /\ Known(book, by) /\ book \in Books
      /\ role = "owner" => book.members[by].role = "owner"
      /\ book' = IF role = "owner"
                 THEN [book EXCEPT !.members[m].role = "owner", !.members[by].role = "admin"]
                 ELSE [book EXCEPT !.members[m].role = role]
  BY ActsKept DEF SetRole, Known, Acting, Administers, Active
<1>2. book.members[m] \in Member /\ book.members[by] \in Member
  BY <1>1 DEF Books, Known
<1>3. PICK named, passed : /\ named = [book.members[m] EXCEPT !.role = role]
                           /\ passed = [book.members[by] EXCEPT !.role = "admin"]
  OBVIOUS
<1>4. /\ named.key = book.members[m].key /\ named.status = book.members[m].status
      /\ passed.key = book.members[by].key /\ passed.status = book.members[by].status
      /\ named \in Member /\ passed \in Member
  BY <1>2, <1>3 DEF Member
<1>5. /\ book'.ledger = book.ledger /\ book'.requests = book.requests
      /\ book'.members[m] = named
      /\ \A p \in Persons : p # m => book'.members[p] = book.members[p]
                                     \/ (p = by /\ book'.members[p] = passed)
  <2>1. CASE role = "owner"
    <3>1. m # by
      BY <1>1, <2>1
    <3>2. book' = [book EXCEPT !.members[m] = named, !.members[by] = passed]
      BY <1>1, <1>3, <2>1, <3>1 DEF Books
    <3> QED BY <1>1, <3>1, <3>2 DEF Books
  <2>2. CASE role # "owner"
    <3>1. book' = [book EXCEPT !.members[m] = named]
      BY <1>1, <1>3, <2>2 DEF Books
    <3> QED BY <1>1, <3>1 DEF Books
  <2> QED BY <2>1, <2>2
<1>6. \A p \in Persons : StandsAs(p)
  BY <1>4, <1>5, RosterAssumption DEF StandsAs, Active
<1>7. InsideType' /\ HeldInv' /\ (~door.overlap => RoomInv')
  BY <1>1, <1>6, NobodyMoves
<1> QED BY <1>1, <1>5, <1>7, NothingWritten

(* After a restart nobody is in.                                            *)
LEMMA RestartsKept ==
    ASSUME DoorInv, KeptInv, Restarts
    PROVE  KeptInv'
<1>1. /\ NothingSigned /\ UNCHANGED book /\ ledgerLine' = << >> /\ granting' = {}
      /\ inside' = [m \in Persons |-> {}]
      /\ entrance' = Leave(entrance, {c \in Doors : entrance[c].phase # "off"})
  BY DEF Restarts
<1>2. CapKept /\ door.cap \in Nat
  BY CapTaken DEF Restarts, DoorInv, TypeInv, DoorConf
<1>3. \A c \in Doors : entrance'[c].phase # "in"
  BY <1>1 DEF Leave, DoorInv, TypeInv, Entrances
<1>4. InsideType' /\ HeldInv'
  BY <1>1, <1>3 DEF InsideType, HeldInv
<1>5. RoomInv'
  <2>1. IsFiniteSet({}) /\ Cardinality({}) <= door'.cap
    BY <1>2, FS_EmptySet DEF CapKept
  <2> QED BY <1>1, <2>1 DEF RoomInv
<1>6. ASSUME ~door.overlap PROVE WaitInv' /\ PaidInv'
  <2>1. ledgerLine = << >> /\ granting = {} /\ PaidInv
    BY <1>1, <1>6 DEF NothingSigned, KeptInv
  <2>2. PaidInv'
    BY <1>1, <2>1, PaidStays
  <2> QED BY <1>1, <2>2 DEF WaitInv
<1> QED BY <1>2, <1>4, <1>5, <1>6 DEF KeptInv, CapKept

(* A club opens with nobody in and nothing asked for.                       *)
LEMMA KeptAtFirst == DoorInit => KeptInv
<1> SUFFICES ASSUME DoorInit PROVE KeptInv
  OBVIOUS
<1>1. door.cap \in Nat
  BY DoorAssumption DEF DoorInit, DoorConf
<1>2. InsideType /\ HeldInv
  BY DEF DoorInit, InsideType, HeldInv, NoEntrance
<1>3. RoomInv
  <2>1. IsFiniteSet({}) /\ Cardinality({}) <= door.cap
    BY <1>1, FS_EmptySet
  <2> QED BY <2>1 DEF RoomInv, DoorInit
<1>4. WaitInv /\ PaidInv
  BY DEF WaitInv, PaidInv, Payments, DoorInit, NewBook
<1> QED BY <1>2, <1>3, <1>4 DEF KeptInv

(* Every step keeps devices and requests in order.                          *)
LEMMA KeptInductive == DoorInv /\ KeptInv /\ [DoorNext]_doorVars => KeptInv'
<1> SUFFICES ASSUME DoorInv, KeptInv, [DoorNext]_doorVars PROVE KeptInv'
  OBVIOUS
<1>1. ASSUME NEW c \in Doors, NEW v \in Visitors, NEW i \in Invites \cup {NoInvite},
             Introduces(c, v, i)
      PROVE  KeptInv'
  BY <1>1, IntroducesKept
<1>2. ASSUME NEW c \in Doors, Auth(c) \/ Disconnects(c) \/ Verified(c) PROVE KeptInv'
  BY <1>2, AuthKept, DisconnectsKept, VerifiedKept
<1>3. ASSUME NEW c \in Doors, NEW r \in ChipRequests, Requesting(c, r) PROVE KeptInv'
  BY <1>3, RequestingKept
<1>4. CASE Signs \/ Signed \/ Restarts
  BY <1>4, SignsKept, SignedKept, RestartsKept
<1>5. ASSUME NEW r \in ChipRequests, Resolved(r) PROVE KeptInv'
  BY <1>5, ResolvedKept
<1>6. ASSUME NEW i \in Invites, InviteSigned(i) PROVE KeptInv'
  BY <1>6, InviteSignedKept
<1>7. ASSUME NEW by \in Persons, CreateInvite(by) PROVE KeptInv'
  BY <1>7, CreateInviteKept
<1>8. ASSUME NEW by \in Persons, NEW x \in Certificates, Mint(by, x) PROVE KeptInv'
  BY <1>8, MintKept
<1>9. ASSUME NEW by \in Persons, NEW r \in ChipRequests, NEW d \in {"granted", "declined"},
             Resolve(by, r, d)
      PROVE  KeptInv'
  BY <1>9, ResolveKept
<1>10. ASSUME NEW by \in Persons, NEW i \in Invites, RevokeInvite(by, i) PROVE KeptInv'
  BY <1>10, RevokeInviteKept
<1>11. ASSUME NEW by \in Persons, NEW m \in Persons, Approve(by, m) \/ Ban(by, m) PROVE KeptInv'
  BY <1>11, ApproveKept, BanKept
<1>12. ASSUME NEW by \in Persons, NEW m \in Persons,
              NEW role \in {"owner", "admin", "member"}, SetRole(by, m, role)
       PROVE  KeptInv'
  BY <1>12, SetRoleKept
<1>13. CASE UNCHANGED doorVars
  <2>1. UNCHANGED <<door, book, entrance, inside, ledgerLine, granting>>
    BY <1>13 DEF doorVars
  <2>2. InsideType' /\ HeldInv' /\ (~door.overlap => RoomInv')
    BY <2>1, NobodyMoves DEF StandsAs, CapKept
  <2>3. ~door.overlap => WaitInv' /\ PaidInv'
    BY <2>1 DEF KeptInv, WaitInv, PaidInv, Belongs
  <2> QED BY <2>1, <2>2, <2>3 DEF KeptInv
<1> QED
  BY <1>1, <1>2, <1>3, <1>4, <1>5, <1>6, <1>7, <1>8, <1>9, <1>10, <1>11, <1>12, <1>13
  DEF DoorNext

(* What it says of devices and requests, said as the runs check it.         *)
LEMMA DevicesKept == DoorInv /\ KeptInv => DoorKept
<1> SUFFICES ASSUME DoorInv, KeptInv PROVE DoorKept
  OBVIOUS
<1>1. \A c \in Doors : entrance[c].phase = "in" => c \in DevicesOf(entrance[c].who.id)
  BY DEF KeptInv, HeldInv, DevicesOf
<1>2. ASSUME ~door.overlap, NEW m \in Persons
      PROVE  /\ Cardinality(inside[m]) <= door.cap
             /\ \A c \in DevicesOf(m) :
                   /\ entrance[c].phase = "in" /\ entrance[c].who.id = m
                   /\ Active(book, m) /\ book.members[m].key = entrance[c].who.key
  BY <1>2 DEF KeptInv, RoomInv, Belongs, DevicesOf
<1>3. ASSUME ~door.overlap, NothingSigned, NEW r \in ChipRequests
      PROVE  Cardinality({n \in DOMAIN book.ledger :
                            book.ledger[n] = [kind |-> "request", for |-> r]})
                = IF book.requests[r].status = "granted" THEN 1 ELSE 0
  <2>1. /\ \A n, k \in Payments(book, r) : n = k
        /\ Payments(book, r) # {} <=> book.requests[r].status = "granted"
    BY <1>3 DEF KeptInv, PaidInv, NothingSigned
  <2>2. CASE book.requests[r].status = "granted"
    <3>1. PICK n : Payments(book, r) = {n}
      BY <2>1, <2>2
    <3> QED BY <2>2, <3>1, FS_Singleton DEF Payments
  <2>3. CASE book.requests[r].status # "granted"
    <3>1. Payments(book, r) = {}
      BY <2>1, <2>3
    <3> QED BY <2>3, <3>1, FS_EmptySet DEF Payments
  <2> QED BY <2>2, <2>3
<1> QED BY <1>1, <1>2, <1>3 DEF DoorKept

(* handleAuth, closeConnection and requests.resolve: when nothing happens while
   something is being signed, a member's devices are the open connections it was
   admitted on, within the limit, each of which proved the key on the roster, and
   nobody who is banned has one; and a request is paid once, exactly if it is
   granted.                                                                 *)
THEOREM OnlyTheirDevices == DoorSpec => []DoorKept
<1>1. DoorInit => DoorInv /\ KeptInv
  BY Opens, KeptAtFirst
<1>2. DoorInv /\ KeptInv /\ [DoorNext]_doorVars => (DoorInv /\ KeptInv)'
  BY DoorInductive, KeptInductive
<1>3. DoorInv /\ KeptInv => DoorKept
  BY DevicesKept
<1> QED BY <1>1, <1>2, <1>3, PTL DEF DoorSpec

(* Members, devices and connections are what they are said to be, whatever happens
   during a signature.                                                      *)
THEOREM DoorTyped == DoorSpec => []DoorTypeOK
<1>1. DoorInit => DoorInv /\ KeptInv
  BY Opens, KeptAtFirst
<1>2. DoorInv /\ KeptInv /\ [DoorNext]_doorVars => (DoorInv /\ KeptInv)'
  BY DoorInductive, KeptInductive
<1>3. DoorInv /\ KeptInv => DoorTypeOK
  <2> SUFFICES ASSUME DoorInv, KeptInv PROVE DoorTypeOK
    OBVIOUS
  <2>1. \A m \in Persons : book.members[m] \in Member \cup {NoMember}
    BY DEF DoorInv, LegalInv, Legal, Books
  <2>2. \A m \in Persons : DevicesOf(m) \subseteq Doors
    BY DEF KeptInv, InsideType, DevicesOf
  <2>3. \A c \in Doors : entrance[c].phase \in
                            {"off", "asked", "verifying", "joining", "in", "closed"}
    BY DEF DoorInv, TypeInv, Entrances, Phases
  <2> QED BY <2>1, <2>2, <2>3 DEF DoorTypeOK
<1> QED BY <1>1, <1>2, <1>3, PTL DEF DoorSpec

-----------------------------------------------------------------------------
(* Open-face Chinese poker: the rules. *)

(* What the rules of a table may be.                                        *)
LEMMA RulesFacts ==
    ASSUME rules \in OfcConfs
    PROVE  /\ rules.n \in {2, 3} /\ Seats = 0 .. rules.n - 1 /\ 0 \in Seats /\ 1 \in Seats
           /\ rules.n = 3 => 2 \in Seats
           /\ \A s \in Seats : s = 0 \/ s = 1 \/ (s = 2 /\ rules.n = 3)
           /\ rules.cards \in 13 .. 17
           /\ Largest(rules) \in 13 .. 18
           /\ \/ PlacedPerTurn = 2 /\ CardsPerTurn = 3
              \/ PlacedPerTurn = 1 /\ CardsPerTurn = 1
           /\ rules.owed \in Seq(Nat) /\ Len(rules.owed) = rules.n
           /\ \A k \in 1 .. rules.n : rules.owed[k] \in Owable(rules)
<1>1. /\ rules \in OfcConf /\ Len(rules.owed) = rules.n
      /\ \A k \in 1 .. rules.n : rules.owed[k] \in Owable(rules)
  BY OfcConfsAssumption
<1>2. /\ rules.n \in {2, 3} /\ rules.cards \in 13 .. 17 /\ rules.owed \in Seq(Nat)
  BY <1>1 DEF OfcConf
<1>3. Largest(rules) \in 13 .. 18
  BY <1>2 DEF Largest
<1>4. \/ PlacedPerTurn = 2 /\ CardsPerTurn = 3
      \/ PlacedPerTurn = 1 /\ CardsPerTurn = 1
  BY DEF PlacedPerTurn, CardsPerTurn
<1>5. /\ Seats = 0 .. rules.n - 1 /\ 0 \in Seats /\ 1 \in Seats
      /\ rules.n = 3 => 2 \in Seats
      /\ \A s \in Seats : s = 0 \/ s = 1 \/ (s = 2 /\ rules.n = 3)
  BY <1>2 DEF Seats
<1> QED BY <1>1, <1>2, <1>3, <1>4, <1>5

(* The first of a set of seats is one of them, unless there is none.        *)
LEMMA FirstFacts ==
    ASSUME rules \in OfcConfs, NEW from \in Seats, NEW fit \in SUBSET Seats
    PROVE  /\ FirstAfter(from, fit) \in Seats \cup {NoSeat}
           /\ fit # {} => FirstAfter(from, fit) \in fit
           /\ fit = {} => FirstAfter(from, fit) = NoSeat
<1> DEFINE turns(s) == (s + rules.n - from - 1) % rules.n
           T == {turns(s) : s \in fit}
<1>1. \A s \in Seats : turns(s) \in Nat
  <2>1. rules.n \in {2, 3} /\ Seats = 0 .. rules.n - 1
    BY RulesFacts
  <2>2. CASE rules.n = 2
    BY <2>1, <2>2
  <2>3. CASE rules.n = 3
    BY <2>1, <2>3
  <2> QED BY <2>1, <2>2, <2>3
<1>2. CASE fit = {}
  BY <1>2 DEF FirstAfter
<1>3. CASE fit # {}
  <2>1. T \subseteq Nat /\ T # {}
    BY <1>1, <1>3
  <2>2. PICK k \in T : \A j \in T : k <= j
    <3> HIDE DEF T
    <3> QED BY <2>1, LeastNat
  <2>3. PICK s \in fit : k = turns(s)
    OBVIOUS
  <2>4. \A t \in fit : turns(s) <= turns(t)
    BY <2>2, <2>3
  <2>5. FirstAfter(from, fit) = CHOOSE x \in fit : \A t \in fit : turns(x) <= turns(t)
    BY <1>3 DEF FirstAfter
  <2> HIDE DEF turns
  <2>6. (CHOOSE x \in fit : \A t \in fit : turns(x) <= turns(t)) \in fit
    BY <2>4
  <2> QED BY <2>5, <2>6, <1>3
<1> QED BY <1>2, <1>3

(* A sum in which one seat's part changed.                                  *)
LEMMA SumFacts ==
    ASSUME rules \in OfcConfs, NEW f \in [Seats -> Int], NEW g \in [Seats -> Int],
           NEW s \in Seats, \A t \in Seats : t # s => g[t] = f[t]
    PROVE  /\ OverSeats(LAMBDA t : f[t]) \in Int
           /\ OverSeats(LAMBDA t : g[t]) = OverSeats(LAMBDA t : f[t]) - f[s] + g[s]
<1>1. /\ rules.n \in {2, 3} /\ 0 \in Seats /\ 1 \in Seats /\ (rules.n = 3 => 2 \in Seats)
      /\ s = 0 \/ s = 1 \/ (s = 2 /\ rules.n = 3)
  BY RulesFacts
<1>2. /\ f[0] \in Int /\ f[1] \in Int /\ (rules.n = 3 => f[2] \in Int)
      /\ g[0] \in Int /\ g[1] \in Int /\ (rules.n = 3 => g[2] \in Int)
  BY <1>1
<1> QED BY <1>1, <1>2 DEF OverSeats

-----------------------------------------------------------------------------
(* What a hand is worth. *)

(* The hands a showdown ends with.                                          *)
Rowed == [Rows -> Eval]

(* A row has a category and a first rank.                                   *)
LEMMA EvalFacts ==
    ASSUME NEW h \in Rowed, NEW r \in Rows
    PROVE  /\ h[r].cat \in 1 .. 9 /\ h[r].ranks \in Seq(2 .. 14) /\ h[r].ranks[1] \in 2 .. 14
           /\ h.top = h["top"] /\ h.middle = h["middle"] /\ h.bottom = h["bottom"]
<1>1. h[r] \in Eval
  BY DEF Rowed
<1>2. h[r].cat \in 1 .. 9 /\ h[r].ranks \in Seq(2 .. 14) /\ h[r].ranks # << >>
  BY <1>1 DEF Eval
<1>3. h[r].ranks[1] \in 2 .. 14
  BY <1>2
<1> QED BY <1>2, <1>3

(* The points a seat wins from another are an integer.                      *)
LEMMA PointsFacts ==
    ASSUME NEW a \in Rowed, NEW b \in Rowed
    PROVE  NetOf(a, b) \in Int
<1>1. \A h \in Rowed : Royalties(h) \in Int
  <2> TAKE h \in Rowed
  <2>1. /\ h.top.cat \in 1 .. 9 /\ h.top.ranks[1] \in 2 .. 14
        /\ h.middle.cat \in 1 .. 9 /\ h.middle.ranks[1] \in 2 .. 14
        /\ h.bottom.cat \in 1 .. 9
    BY EvalFacts DEF Rows
  <2>2. TopRoyalty(h.top) \in Int
    BY <2>1 DEF TopRoyalty
  <2>3. BottomRoyalty(h.bottom) \in Int
    BY <2>1 DEF BottomRoyalty
  <2>4. MiddleRoyalty(h.middle) \in Int
    BY <2>1 DEF MiddleRoyalty
  <2> QED BY <2>2, <2>3, <2>4 DEF Royalties
<1>2. \A S \in SUBSET Rows : Count(S) \in Nat
  <2>1. IsFiniteSet({"top"}) /\ IsFiniteSet({"top"} \cup {"middle"})
        /\ IsFiniteSet({"top"} \cup {"middle"} \cup {"bottom"})
    BY FS_Singleton, FS_Union
  <2>2. Rows = {"top"} \cup {"middle"} \cup {"bottom"}
    BY DEF Rows
  <2>3. IsFiniteSet(Rows)
    BY <2>1, <2>2
  <2> QED BY <2>3, FS_Subset, FS_CardinalityType DEF Count
<1> DEFINE low(r) == r = "middle" /\ MiddleIsLow
           W == {r \in Rows : IF low(r) THEN Beats(b[r], a[r]) ELSE Beats(a[r], b[r])}
           L == {r \in Rows : IF low(r) THEN Beats(a[r], b[r]) ELSE Beats(b[r], a[r])}
<1>3. Count(W) \in Nat /\ Count(L) \in Nat
  BY <1>2
<1>4. NetOf(a, b) = IF Fouled(a) /\ Fouled(b) THEN 0
                    ELSE IF Fouled(a) THEN -(6 + Royalties(b))
                    ELSE IF Fouled(b) THEN 6 + Royalties(a)
                    ELSE Count(W) - Count(L)
                         + (IF Count(W) = 3 THEN 3 ELSE IF Count(L) = 3 THEN -3 ELSE 0)
                         + Royalties(a) - Royalties(b)
  BY DEF NetOf
<1> HIDE DEF W, L
<1> QED BY <1>1, <1>3, <1>4

(* What one seat wins from another, the other loses.                        *)
LEMMA WonFacts ==
    ASSUME rules \in OfcConfs, NEW result \in Showdowns, Len(result) = rules.n,
           NEW s \in Seats, NEW t \in Seats
    PROVE  Won(result, s, t) \in Int /\ Won(result, t, s) = -Won(result, s, t)
<1>1. result \in Seq(Rowed)
  BY ShowdownsAssumption DEF Rowed
<1>2. s \in Nat /\ t \in Nat /\ s + 1 \in 1 .. Len(result) /\ t + 1 \in 1 .. Len(result)
  BY RulesFacts
<1>3. result[s + 1] \in Rowed /\ result[t + 1] \in Rowed
  BY <1>1, <1>2
<1>4. NetOf(result[s + 1], result[t + 1]) \in Int /\ NetOf(result[t + 1], result[s + 1]) \in Int
  BY <1>3, PointsFacts
<1> QED BY <1>2, <1>4 DEF Won

(* What a seat qualifies for may be owed to it.                             *)
LEMMA QualifiesFacts ==
    ASSUME rules \in OfcConfs, NEW h \in Rowed, NEW fantasy \in BOOLEAN
    PROVE  Qualifies(h, fantasy) \in Owable(rules)
<1>1. h.top.cat \in 1 .. 9 /\ h.top.ranks[1] \in 2 .. 14
  BY EvalFacts DEF Rows
<1>2. rules.cards \in 13 .. 17 /\ rules.super \in BOOLEAN
  BY OfcConfsAssumption DEF OfcConf
<1>3. FantasylandCards(h.top) \in 13 .. (IF rules.variant # "ofc" /\ rules.progressive
                                         THEN 17 ELSE rules.cards)
  BY <1>1, <1>2 DEF FantasylandCards
<1> DEFINE extra(x) == IF x THEN 1 ELSE 0
<1>4. \/ Qualifies(h, fantasy) = 0
      \/ Qualifies(h, fantasy) = FantasylandCards(h.top)
      \/ Qualifies(h, fantasy) = FantasylandCards(h.top) + 1 /\ rules.super
  BY <1>1, <1>2, <1>3 DEF Qualifies
<1> QED BY <1>2, <1>3, <1>4 DEF Owable, Largest

-----------------------------------------------------------------------------
(* The invariant. *)

(* A seat in a hand: in Fantasyland it holds all its cards or has set its hand;
   in turn it holds its opening, or has set some cards, as many as turns allow. *)
SeatState == [rows : [Rows -> 0 .. 5], discards : Nat, pending : 0 .. 18, fl : BOOLEAN]
DealtSeat(seat) ==
    IF seat.fl THEN \/ SetCards(seat) = 0 /\ seat.pending \in HandSize .. Largest(rules)
                    \/ Done(seat) /\ seat.pending = 0
    ELSE \/ SetCards(seat) = 0 /\ seat.pending = 5
         \/ /\ SetCards(seat) \in 5 .. HandSize
            /\ seat.pending = 0 \/ (seat.pending = CardsPerTurn /\ ~Done(seat))
            /\ (HandSize - SetCards(seat)) % PlacedPerTurn = 0
CardsOf(seat) == SetCards(seat) + seat.pending + seat.discards

(* A hand that is being set: whose turn it is can act, and when it is nobody's
   turn, only seats in Fantasyland have something left to do, and one has.  *)
Setting ==
    /\ \A s \in Seats : DealtSeat(hand.seats[s])
    /\ \E s \in Seats : ~Done(hand.seats[s])
    /\ hand.toAct # NoSeat => ~hand.seats[hand.toAct].fl /\ hand.seats[hand.toAct].pending > 0
    /\ hand.toAct = NoSeat => \A s \in Seats : hand.seats[s].fl \/ Done(hand.seats[s])

Tabled == [phase : {"setting", "showdown", "complete"}, button : Seats,
           seats : [Seats -> SeatState], toAct : Seats \cup {NoSeat}, deck : 0 .. DeckSize]
HandInv ==
    \/ hand = NoHand
    \/ hand \in Tabled /\ DeckSize = hand.deck + OverSeats(LAMBDA s : CardsOf(hand.seats[s]))
PlayInv ==
    /\ rules \in OfcConfs /\ status \in {"lobby", "playing", "over"} /\ button \in Seats
    /\ owed \in [Seats -> Owable(rules)] /\ scores \in [Seats -> Int] /\ asked \in [Seats -> BOOLEAN]
    /\ HandInv
    /\ hand.phase = "complete" => status = "over"
    /\ hand.phase = "setting" => Setting

(* The cards of a seat's rows.                                              *)
LEMMA SetFacts ==
    ASSUME NEW seat \in SeatState
    PROVE  /\ SetCards(seat) \in 0 .. 15 /\ seat.rows \in [Rows -> 0 .. 5]
           /\ \A r \in Rows : seat.rows[r] \in 0 .. 5
           /\ seat.discards \in Nat /\ seat.pending \in 0 .. 18 /\ seat.fl \in BOOLEAN
           /\ CardsOf(seat) \in Nat
<1>1. /\ seat.rows \in [Rows -> 0 .. 5] /\ \A r \in Rows : seat.rows[r] \in 0 .. 5
      /\ seat.discards \in Nat /\ seat.pending \in 0 .. 18 /\ seat.fl \in BOOLEAN
  BY DEF SeatState
<1>2. seat.rows["top"] \in 0 .. 5 /\ seat.rows["middle"] \in 0 .. 5 /\ seat.rows["bottom"] \in 0 .. 5
  BY <1>1 DEF Rows
<1> QED BY <1>1, <1>2 DEF SetCards, CardsOf

(* A seat that has placed the cards it has to.                              *)
Put(seat, put) ==
    [seat EXCEPT !.rows = [r \in Rows |-> @[r] + put[r]], !.pending = 0,
                 !.discards = @ + seat.pending - Places(seat)]
Fits(seat, put) == /\ put \in [Rows -> 0 .. 5]
                   /\ put["top"] + put["middle"] + put["bottom"] = Places(seat)
                   /\ \A r \in Rows : Put(seat, put).rows[r] <= Capacity[r]

(* What a seat is after it placed cards.                                    *)
LEMMA PutFacts ==
    ASSUME rules \in OfcConfs, NEW seat \in SeatState, DealtSeat(seat), ~Done(seat),
           seat.pending > 0, NEW put, Fits(seat, put), NEW set, set = Put(seat, put)
    PROVE  /\ set \in SeatState /\ DealtSeat(set) /\ set.fl = seat.fl /\ set.pending = 0
           /\ CardsOf(set) = CardsOf(seat) /\ ToCome(set) = ToCome(seat)
           /\ set.fl => Done(set)
<1>1. /\ SetCards(seat) \in 0 .. 15 /\ seat.rows \in [Rows -> 0 .. 5]
      /\ \A r \in Rows : seat.rows[r] \in 0 .. 5
      /\ seat.discards \in Nat /\ seat.pending \in 0 .. 18 /\ seat.fl \in BOOLEAN
  BY SetFacts
<1>2. /\ put["top"] \in 0 .. 5 /\ put["middle"] \in 0 .. 5 /\ put["bottom"] \in 0 .. 5
      /\ put["top"] + put["middle"] + put["bottom"] = Places(seat)
  BY DEF Fits, Rows
<1>3. /\ set.rows = [r \in Rows |-> seat.rows[r] + put[r]] /\ set.pending = 0
      /\ set.discards = seat.discards + seat.pending - Places(seat) /\ set.fl = seat.fl
      /\ set = [rows |-> set.rows, discards |-> set.discards, pending |-> set.pending, fl |-> set.fl]
  BY DEF Put, SeatState
<1>4. \A r \in Rows : set.rows[r] \in 0 .. 5
  <2> TAKE r \in Rows
  <2>1. put[r] \in 0 .. 5 /\ set.rows[r] = seat.rows[r] + put[r] /\ set.rows[r] <= Capacity[r]
    BY <1>3 DEF Fits
  <2>2. Capacity[r] \in 0 .. 5
    BY DEF Capacity, Rows
  <2> QED BY <1>1, <2>1, <2>2
<1>5. SetCards(set) = SetCards(seat) + Places(seat)
  <2> DEFINE a == seat.rows["top"]
             b == seat.rows["middle"]
             c == seat.rows["bottom"]
             d == put["top"]
             e == put["middle"]
             g == put["bottom"]
  <2>1. SetCards(set) = (a + d) + (b + e) + (c + g) /\ SetCards(seat) = a + b + c
    BY <1>3 DEF SetCards, Rows
  <2>2. a \in 0 .. 5 /\ b \in 0 .. 5 /\ c \in 0 .. 5
    BY <1>1 DEF Rows
  <2>3. d \in 0 .. 5 /\ e \in 0 .. 5 /\ g \in 0 .. 5 /\ d + e + g = Places(seat)
    BY <1>2
  <2> HIDE DEF a, b, c, d, e, g
  <2> QED BY <2>1, <2>2, <2>3
<1>6. \/ PlacedPerTurn = 2 /\ CardsPerTurn = 3
      \/ PlacedPerTurn = 1 /\ CardsPerTurn = 1
  BY RulesFacts
<1>7. Largest(rules) \in 13 .. 18
  BY RulesFacts
<1>8. \/ /\ SetCards(seat) = 0 /\ seat.fl /\ seat.pending \in 13 .. 18 /\ Places(seat) = 13
      \/ /\ SetCards(seat) = 0 /\ ~seat.fl /\ seat.pending = 5 /\ Places(seat) = 5
      \/ /\ SetCards(seat) \in 5 .. 12 /\ ~seat.fl /\ seat.pending = CardsPerTurn
         /\ (13 - SetCards(seat)) % PlacedPerTurn = 0 /\ Places(seat) = PlacedPerTurn
  BY <1>1, <1>6, <1>7 DEF DealtSeat, Done, Places, Smaller, HandSize
<1>9. set.discards \in Nat
  BY <1>1, <1>3, <1>6, <1>8
<1>10. set \in SeatState
  BY <1>3, <1>4, <1>9, <1>1 DEF SeatState
<1>11. DealtSeat(set) /\ (set.fl => Done(set))
  BY <1>3, <1>5, <1>6, <1>8 DEF DealtSeat, Done, HandSize
<1>12. CardsOf(set) = CardsOf(seat)
  BY <1>1, <1>3, <1>5, <1>6, <1>8 DEF CardsOf
<1>13. ToCome(set) = ToCome(seat)
  BY <1>3, <1>5, <1>6, <1>8 DEF ToCome, Done, HandSize
<1> QED BY <1>3, <1>10, <1>11, <1>12, <1>13

(* A seat that is dealt the cards of a turn.                                *)
LEMMA DealtFacts ==
    ASSUME rules \in OfcConfs, NEW seat \in SeatState, DealtSeat(seat), ~Done(seat),
           ~seat.fl, seat.pending = 0, NEW set, set = [seat EXCEPT !.pending = CardsPerTurn]
    PROVE  /\ set \in SeatState /\ DealtSeat(set) /\ set.fl = seat.fl /\ set.pending > 0
           /\ ~Done(set) /\ CardsOf(set) = CardsOf(seat) + CardsPerTurn
           /\ ToCome(set) + CardsPerTurn = ToCome(seat)
<1>1. /\ SetCards(seat) \in 0 .. 15 /\ seat.rows \in [Rows -> 0 .. 5]
      /\ seat.discards \in Nat /\ seat.fl \in BOOLEAN
  BY SetFacts
<1>2. /\ set.rows = seat.rows /\ set.pending = CardsPerTurn /\ set.discards = seat.discards
      /\ set.fl = seat.fl
      /\ set = [rows |-> set.rows, discards |-> set.discards, pending |-> set.pending, fl |-> set.fl]
  BY DEF SeatState
<1>3. SetCards(set) = SetCards(seat)
  BY <1>2 DEF SetCards
<1>4. \/ PlacedPerTurn = 2 /\ CardsPerTurn = 3
      \/ PlacedPerTurn = 1 /\ CardsPerTurn = 1
  BY RulesFacts
<1>5. /\ SetCards(seat) \in 5 .. 12 /\ (13 - SetCards(seat)) % PlacedPerTurn = 0
  BY <1>1 DEF DealtSeat, Done, HandSize
<1>6. set \in SeatState
  BY <1>1, <1>2, <1>4 DEF SeatState
<1>7. DealtSeat(set) /\ ~Done(set) /\ set.pending > 0
  BY <1>2, <1>3, <1>4, <1>5 DEF DealtSeat, Done, HandSize
<1>8. CardsOf(set) = CardsOf(seat) + CardsPerTurn
  BY <1>1, <1>2, <1>3, <1>4 DEF CardsOf
<1>9. Places(set) = PlacedPerTurn
  BY <1>2, <1>3, <1>4, <1>5 DEF Places, Smaller, HandSize
<1>10. ToCome(set) + CardsPerTurn = ToCome(seat)
  BY <1>2, <1>3, <1>4, <1>5, <1>9 DEF ToCome, Done, HandSize
<1> QED BY <1>2, <1>6, <1>7, <1>8, <1>10

(* The cards on the table, and those to come, after one seat changed.       *)
CardsOn(seats) == OverSeats(LAMBDA s : CardsOf(seats[s]))
ComingTo(seats) == OverSeats(LAMBDA s : ToCome(seats[s]))

(* A seat that still draws cards draws a turn's at least.                   *)
LEMMA ComingFacts ==
    ASSUME rules \in OfcConfs, NEW seat \in SeatState, DealtSeat(seat)
    PROVE  ToCome(seat) \in Nat /\ (ToCome(seat) = 0 \/ ToCome(seat) >= CardsPerTurn)
<1>1. SetCards(seat) \in 0 .. 15 /\ seat.fl \in BOOLEAN /\ seat.pending \in 0 .. 18
  BY SetFacts
<1>2. \/ PlacedPerTurn = 2 /\ CardsPerTurn = 3
      \/ PlacedPerTurn = 1 /\ CardsPerTurn = 1
  BY RulesFacts
<1>3. CASE seat.fl
  BY <1>3 DEF ToCome
<1>4. CASE ~seat.fl /\ SetCards(seat) = 0 /\ seat.pending = 5
  BY <1>2, <1>4 DEF ToCome, Done, Places, Smaller, HandSize
<1>5. CASE ~seat.fl /\ SetCards(seat) \in 5 .. 13 /\ seat.pending = 0
  BY <1>2, <1>5 DEF ToCome, Done, Places, Smaller, HandSize
<1>6. CASE ~seat.fl /\ SetCards(seat) \in 5 .. 12 /\ seat.pending = CardsPerTurn
           /\ (HandSize - SetCards(seat)) % PlacedPerTurn = 0
  BY <1>2, <1>6 DEF ToCome, Done, Places, Smaller, HandSize
<1> QED BY <1>1, <1>3, <1>4, <1>5, <1>6 DEF DealtSeat, Done, HandSize

(* The seats, one of which is another now, and what that does to the sums.  *)
OneChange(seats, s, set, now) ==
    /\ now \in [Seats -> SeatState] /\ now[s] = set /\ \A t \in Seats : DealtSeat(now[t])
    /\ \A t \in Seats : t # s => now[t] = seats[t]
    /\ CardsOn(seats) \in Int /\ ComingTo(seats) \in Int
    /\ CardsOn(now) = CardsOn(seats) - CardsOf(seats[s]) + CardsOf(set)
    /\ ComingTo(now) = ComingTo(seats) - ToCome(seats[s]) + ToCome(set)

(* Replacing a seat does that.                                              *)
LEMMA OneChanged ==
    ASSUME rules \in OfcConfs, NEW seats \in [Seats -> SeatState], NEW s \in Seats,
           NEW set \in SeatState, NEW now, now = [seats EXCEPT ![s] = set],
           \A t \in Seats : DealtSeat(seats[t]), DealtSeat(set)
    PROVE  OneChange(seats, s, set, now)
<1>1. /\ now \in [Seats -> SeatState] /\ now[s] = set /\ \A t \in Seats : DealtSeat(now[t])
      /\ \A t \in Seats : t # s => now[t] = seats[t]
  OBVIOUS
<1> DEFINE f == [t \in Seats |-> CardsOf(seats[t])]
           g == [t \in Seats |-> CardsOf(now[t])]
           p == [t \in Seats |-> ToCome(seats[t])]
           q == [t \in Seats |-> ToCome(now[t])]
<1>2. f \in [Seats -> Int] /\ g \in [Seats -> Int] /\ \A t \in Seats : t # s => g[t] = f[t]
  <2>1. \A t \in Seats : CardsOf(seats[t]) \in Int /\ CardsOf(now[t]) \in Int
    <3> TAKE t \in Seats
    <3>1. seats[t] \in SeatState /\ now[t] \in SeatState
      BY <1>1
    <3> QED BY <3>1, SetFacts
  <2> QED BY <1>1, <2>1
<1>3. p \in [Seats -> Int] /\ q \in [Seats -> Int] /\ \A t \in Seats : t # s => q[t] = p[t]
  <2>1. \A t \in Seats : ToCome(seats[t]) \in Int /\ ToCome(now[t]) \in Int
    <3> TAKE t \in Seats
    <3>1. /\ seats[t] \in SeatState /\ now[t] \in SeatState
          /\ DealtSeat(seats[t]) /\ DealtSeat(now[t])
      BY <1>1
    <3>2. ToCome(seats[t]) \in Nat /\ ToCome(now[t]) \in Nat
      BY <3>1, ComingFacts
    <3> QED BY <3>2
  <2> QED BY <1>1, <2>1
<1>4. rules.n \in {2, 3} /\ 0 \in Seats /\ 1 \in Seats /\ (rules.n = 3 => 2 \in Seats)
  BY RulesFacts
<1>5. /\ CardsOn(seats) = OverSeats(LAMBDA t : f[t]) /\ CardsOn(now) = OverSeats(LAMBDA t : g[t])
      /\ ComingTo(seats) = OverSeats(LAMBDA t : p[t]) /\ ComingTo(now) = OverSeats(LAMBDA t : q[t])
  BY <1>4 DEF CardsOn, ComingTo, OverSeats
<1>6. f[s] = CardsOf(seats[s]) /\ g[s] = CardsOf(set) /\ p[s] = ToCome(seats[s]) /\ q[s] = ToCome(set)
  BY <1>1
<1> HIDE DEF f, g, p, q
<1>7. /\ OverSeats(LAMBDA t : f[t]) \in Int
      /\ OverSeats(LAMBDA t : g[t]) = OverSeats(LAMBDA t : f[t]) - f[s] + g[s]
  BY <1>2, SumFacts
<1>8. /\ OverSeats(LAMBDA t : p[t]) \in Int
      /\ OverSeats(LAMBDA t : q[t]) = OverSeats(LAMBDA t : p[t]) - p[s] + q[s]
  BY <1>3, SumFacts
<1> QED BY <1>1, <1>5, <1>6, <1>7, <1>8 DEF OneChange

-----------------------------------------------------------------------------
(* Dealing. *)

Deal(s) == [rows |-> [r \in Rows |-> 0], discards |-> 0,
            pending |-> Opening(owed[s]), fl |-> owed[s] > 0]

(* What everybody is dealt at the start of a hand.                          *)
LEMMA OpeningFacts ==
    ASSUME rules \in OfcConfs, owed \in [Seats -> Owable(rules)], NEW s \in Seats
    PROVE  /\ Deal(s) \in SeatState /\ DealtSeat(Deal(s)) /\ ~Done(Deal(s))
           /\ Deal(s).fl <=> owed[s] > 0
           /\ Deal(s).pending > 0
           /\ CardsOf(Deal(s)) = Opening(owed[s]) /\ Opening(owed[s]) \in 5 .. 18
           /\ Opening(owed[s]) = 5 \/ Opening(owed[s]) \in 13 .. Largest(rules)
           /\ Opening(owed[s]) + ToCome(Deal(s)) =
                 IF owed[s] > 0 THEN owed[s] ELSE IF PlacedPerTurn = 2 THEN 17 ELSE 13
<1>1. Largest(rules) \in 13 .. 18 /\ owed[s] \in {0} \cup 13 .. Largest(rules)
  BY RulesFacts DEF Owable
<1>2. Opening(owed[s]) = IF owed[s] > 0 THEN owed[s] ELSE 5
  BY DEF Opening
<1>3. SetCards(Deal(s)) = 0
  BY DEF SetCards, Deal, Rows
<1>4. /\ Deal(s).pending = Opening(owed[s]) /\ Deal(s).discards = 0
      /\ Deal(s).rows = [r \in Rows |-> 0]
  BY DEF Deal
<1>10. Deal(s).fl <=> owed[s] > 0
  BY Zenon DEF Deal
<1>5. Deal(s) \in SeatState
  BY <1>1, <1>2 DEF SeatState, Deal
<1>6. \/ PlacedPerTurn = 2 /\ CardsPerTurn = 3
      \/ PlacedPerTurn = 1 /\ CardsPerTurn = 1
  BY RulesFacts
<1>7. DealtSeat(Deal(s)) /\ ~Done(Deal(s))
  <2>1. ~Done(Deal(s))
    BY <1>3 DEF Done, HandSize
  <2>2. CASE owed[s] > 0
    <3>1. Deal(s).fl /\ Deal(s).pending \in HandSize .. Largest(rules)
      BY <1>1, <1>2, <1>4, <1>10, <2>2 DEF HandSize
    <3> QED BY <1>3, <2>1, <3>1 DEF DealtSeat
  <2>3. CASE owed[s] = 0
    <3>1. ~Deal(s).fl /\ Deal(s).pending = 5
      BY <1>2, <1>4, <1>10, <2>3
    <3> QED BY <1>3, <2>1, <3>1 DEF DealtSeat
  <2> QED BY <1>1, <2>2, <2>3
<1>8. CardsOf(Deal(s)) = Opening(owed[s])
  BY <1>1, <1>2, <1>3, <1>4 DEF CardsOf
<1>9. Opening(owed[s]) + ToCome(Deal(s)) =
         IF owed[s] > 0 THEN owed[s] ELSE IF PlacedPerTurn = 2 THEN 17 ELSE 13
  <2>1. CASE owed[s] > 0
    <3>1. ToCome(Deal(s)) = 0
      BY <1>10, <2>1 DEF ToCome
    <3> QED BY <1>1, <1>2, <2>1, <3>1
  <2>2. CASE owed[s] = 0
    <3>1. Places(Deal(s)) = 5
      BY <1>2, <1>3, <1>4, <2>2 DEF Places, Smaller, HandSize
    <3>3. ~Deal(s).fl /\ Deal(s).pending = 5
      BY <1>2, <1>4, <1>10, <2>2
    <3>2. ToCome(Deal(s)) = (8 \div PlacedPerTurn) * CardsPerTurn
      BY <1>3, <1>7, <3>1, <3>3 DEF ToCome, HandSize
    <3> QED BY <1>1, <1>2, <1>6, <2>2, <3>2
  <2> QED BY <1>1, <2>1, <2>2
<1> QED BY <1>1, <1>2, <1>4, <1>5, <1>7, <1>8, <1>9, <1>10

(* What is dealt together.                                                  *)
LEMMA ToDealFacts ==
    ASSUME rules \in OfcConfs, owed \in [Seats -> Owable(rules)],
           NEW seats, seats = [s \in Seats |-> Deal(s)]
    PROVE  /\ seats \in [Seats -> SeatState] /\ CardsOn(seats) = ToDeal /\ ToDeal \in Nat
           /\ rules.n * Largest(rules) <= DeckSize =>
                ToDeal <= DeckSize /\ ToDeal + ComingTo(seats) <= DeckSize
<1>1. /\ rules.n \in {2, 3} /\ 0 \in Seats /\ 1 \in Seats /\ (rules.n = 3 => 2 \in Seats)
      /\ Largest(rules) \in 13 .. 18
  BY RulesFacts
<1>2. \A s \in Seats :
         /\ seats[s] = Deal(s) /\ Deal(s) \in SeatState
         /\ CardsOf(Deal(s)) = Opening(owed[s]) /\ Opening(owed[s]) \in 5 .. 18
         /\ Opening(owed[s]) = 5 \/ Opening(owed[s]) \in 13 .. Largest(rules)
         /\ ToCome(Deal(s)) \in Nat
         /\ Opening(owed[s]) + ToCome(Deal(s)) <= 17
              \/ Opening(owed[s]) + ToCome(Deal(s)) <= Largest(rules)
  <2> TAKE s \in Seats
  <2>1. /\ Deal(s) \in SeatState /\ DealtSeat(Deal(s))
        /\ CardsOf(Deal(s)) = Opening(owed[s]) /\ Opening(owed[s]) \in 5 .. 18
        /\ Opening(owed[s]) = 5 \/ Opening(owed[s]) \in 13 .. Largest(rules)
        /\ Opening(owed[s]) + ToCome(Deal(s)) =
              IF owed[s] > 0 THEN owed[s] ELSE IF PlacedPerTurn = 2 THEN 17 ELSE 13
    BY OpeningFacts
  <2>2. owed[s] \in {0} \cup 13 .. Largest(rules)
    BY DEF Owable
  <2>3. ToCome(Deal(s)) \in Nat
    BY <2>1, ComingFacts
  <2> QED BY <1>1, <2>1, <2>2, <2>3
<1>3. seats \in [Seats -> SeatState]
  BY <1>2
<1>4. CardsOn(seats) = ToDeal
  BY <1>1, <1>2 DEF CardsOn, ToDeal, OverSeats
<1> DEFINE o(s) == Opening(owed[s])
           c(s) == ToCome(Deal(s))
<1>5. /\ ToDeal = o(0) + o(1) + IF rules.n = 3 THEN o(2) ELSE 0
      /\ ComingTo(seats) = c(0) + c(1) + IF rules.n = 3 THEN c(2) ELSE 0
  BY <1>1, <1>2 DEF ToDeal, ComingTo, OverSeats
<1>6. \A s \in Seats :
         /\ o(s) \in 5 .. 18 /\ c(s) \in Nat
         /\ o(s) = 5 \/ o(s) <= Largest(rules)
         /\ o(s) + c(s) <= 17 \/ o(s) + c(s) <= Largest(rules)
  BY <1>1, <1>2
<1> HIDE DEF o, c
<1>7. ToDeal \in Nat
  BY <1>1, <1>5, <1>6
<1>8. ASSUME rules.n * Largest(rules) <= DeckSize
      PROVE  ToDeal <= DeckSize /\ ToDeal + ComingTo(seats) <= DeckSize
  <2>1. CASE rules.n = 2
    BY <1>1, <1>5, <1>6, <2>1 DEF DeckSize
  <2>2. CASE rules.n = 3
    <3>1. Largest(rules) <= 17
      BY <1>1, <1>8, <2>2 DEF DeckSize
    <3> QED BY <1>1, <1>5, <1>6, <2>2, <3>1 DEF DeckSize
  <2> QED BY <1>1, <2>1, <2>2
<1> QED BY <1>3, <1>4, <1>7, <1>8

-----------------------------------------------------------------------------
(* The actions. *)

(* The first state.                                                         *)
LEMMA PlayBegins ==
    OfcInit => PlayInv
<1> SUFFICES ASSUME OfcInit PROVE PlayInv
  OBVIOUS
<1>1. rules \in OfcConfs
  BY DEF OfcInit
<1>2. \A s \in Seats : s + 1 \in 1 .. rules.n
  BY <1>1, RulesFacts
<1>3. owed \in [Seats -> Owable(rules)]
  BY <1>1, <1>2, RulesFacts DEF OfcInit
<1>4. hand = NoHand /\ hand.phase = "none"
  BY DEF OfcInit, NoHand
<1>5. scores \in [Seats -> Int] /\ asked \in [Seats -> BOOLEAN] /\ button \in Seats
  BY <1>1, RulesFacts DEF OfcInit, Zero
<1> QED BY <1>1, <1>3, <1>4, <1>5 DEF OfcInit, PlayInv, HandInv

(* Nothing of the hand changes, or of the table.                            *)
LEMMA PlayStays ==
    ASSUME PlayInv, UNCHANGED <<rules, status, button, owed, hand>>,
           scores' \in [Seats -> Int], asked' \in [Seats -> BOOLEAN]
    PROVE  PlayInv'
BY Zenon DEF PlayInv, HandInv, Setting, Tabled, CardsOf, DealtSeat, SetCards, Done, OverSeats, Seats,
       Owable, Largest, CardsPerTurn, PlacedPerTurn, Pineapple, SeatState

(* A hand is dealt.                                                         *)
LEMMA StartPlays ==
    ASSUME PlayInv, Start
    PROVE  PlayInv'
<1> DEFINE seats == [s \in Seats |-> Deal(s)]
           first == FirstAfter(button, {s \in Seats : owed[s] = 0})
<1>1. /\ rules \in OfcConfs /\ button \in Seats /\ owed \in [Seats -> Owable(rules)]
      /\ scores \in [Seats -> Int] /\ asked \in [Seats -> BOOLEAN]
  BY DEF PlayInv
<1>2. /\ hand' = [phase |-> "setting", button |-> button, seats |-> seats, toAct |-> first,
                  deck |-> DeckSize - ToDeal]
      /\ status' = "playing" /\ owed' = Zero /\ ToDeal <= DeckSize
      /\ UNCHANGED <<rules, button, scores, asked>>
  BY DEF Start, Deal
<1>3. seats \in [Seats -> SeatState] /\ CardsOn(seats) = ToDeal /\ ToDeal \in Nat
  BY <1>1, ToDealFacts
<1>4. /\ first \in Seats \cup {NoSeat}
      /\ first # NoSeat => first \in Seats /\ owed[first] = 0
      /\ first = NoSeat => \A s \in Seats : owed[s] # 0
  <2>1. {s \in Seats : owed[s] = 0} \in SUBSET Seats
    OBVIOUS
  <2>2. NoSeat \notin Seats
    BY <1>1, RulesFacts DEF NoSeat
  <2> QED BY <1>1, <2>1, <2>2, FirstFacts
<1>5. \A s \in Seats : /\ seats[s] = Deal(s) /\ DealtSeat(seats[s]) /\ ~Done(seats[s])
                       /\ (seats[s].fl <=> owed[s] > 0) /\ seats[s].pending > 0
                       /\ owed[s] \in Nat
  BY <1>1, OpeningFacts, RulesFacts DEF Owable
<1>6. /\ hand'.phase = "setting" /\ hand'.seats = seats /\ hand'.toAct = first
      /\ hand'.deck = DeckSize - ToDeal /\ hand' \in Tabled
  BY <1>1, <1>2, <1>3, <1>4 DEF Tabled, DeckSize
<1>7. Setting'
  <2>1. \A s \in Seats : DealtSeat(hand'.seats[s])
    BY <1>5, <1>6
  <2>2. \E s \in Seats : ~Done(hand'.seats[s])
    BY <1>1, <1>5, <1>6, RulesFacts
  <2>3. first # NoSeat => ~hand'.seats[first].fl /\ hand'.seats[first].pending > 0
    <3> HIDE DEF seats, first
    <3> QED BY <1>4, <1>5, <1>6
  <2>4. first = NoSeat => \A s \in Seats : hand'.seats[s].fl
    <3> HIDE DEF seats, first
    <3> QED BY <1>4, <1>5, <1>6
  <2> QED BY <1>2, <1>6, <2>1, <2>2, <2>3, <2>4
          DEF Setting, DealtSeat, Seats, Done, Largest, CardsPerTurn, PlacedPerTurn, Pineapple
<1>8. HandInv'
  <2>1. DeckSize = (DeckSize - ToDeal) + CardsOn(seats)
    BY <1>3 DEF DeckSize
  <2> QED BY <1>2, <1>6, <2>1 DEF HandInv, Tabled, CardsOn, OverSeats, Seats
<1>9. owed' \in [Seats -> Owable(rules)]
  BY <1>2 DEF Zero, Owable
<1> QED BY <1>1, <1>2, <1>6, <1>7, <1>8, <1>9 DEF PlayInv, Seats, Owable, Largest

(* A hand that is shown.                                                    *)
LEMMA ShownFacts ==
    ASSUME rules \in OfcConfs, scores \in [Seats -> Int],
           NEW next \in Tabled, NEW result \in Showdowns, Len(result) = rules.n,
           Showdown(next, result)
    PROVE  /\ hand' \in Tabled /\ hand'.phase \in {"showdown", "complete"}
           /\ hand'.seats = next.seats /\ hand'.deck = next.deck
           /\ hand'.phase = "complete" => status' = "over"
           /\ status' = "over" \/ status' = status
           /\ scores' \in [Seats -> Int] /\ owed' \in [Seats -> Owable(rules)] /\ button' \in Seats
<1>1. rules.n \in {2, 3} /\ Seats = 0 .. rules.n - 1 /\ 0 \in Seats /\ 1 \in Seats
      /\ (rules.n = 3 => 2 \in Seats)
  BY RulesFacts
<1>2. /\ next.phase \in {"setting", "showdown", "complete"} /\ next.button \in Seats
      /\ next.seats \in [Seats -> SeatState] /\ next.deck \in 0 .. DeckSize
      /\ next = [phase |-> next.phase, button |-> next.button, seats |-> next.seats,
                 toAct |-> next.toAct, deck |-> next.deck]
  BY DEF Tabled
<1>3. PICK over \in BOOLEAN :
         /\ hand' = [next EXCEPT !.phase = IF over THEN "complete" ELSE "showdown",
                                 !.toAct = NoSeat]
         /\ status' = IF over THEN "over" ELSE status
  BY Zenon DEF Showdown, Bust
<1>4. /\ hand'.phase = IF over THEN "complete" ELSE "showdown"
      /\ hand'.seats = next.seats /\ hand'.deck = next.deck /\ hand'.button = next.button
      /\ hand'.toAct = NoSeat
      /\ hand' = [phase |-> hand'.phase, button |-> next.button, seats |-> next.seats,
                  toAct |-> NoSeat, deck |-> next.deck]
  BY <1>2, <1>3
<1>5. hand' \in Tabled
  BY <1>2, <1>4 DEF Tabled
<1>6. scores' \in [Seats -> Int]
  <2>1. scores' = ScoredUp(result)
    BY DEF Showdown
  <2>2. \A s, t \in Seats : Won(result, s, t) \in Int
    BY WonFacts
  <2>3. \A s \in Seats : scores[s] + OverSeats(LAMBDA t : Won(result, s, t)) \in Int
    <3> TAKE s \in Seats
    <3>1. /\ Won(result, s, 0) \in Int /\ Won(result, s, 1) \in Int /\ scores[s] \in Int
          /\ rules.n = 3 => Won(result, s, 2) \in Int
      BY <1>1, <2>2
    <3> QED BY <1>1, <3>1 DEF OverSeats
  <2> DEFINE v(s) == scores[s] + OverSeats(LAMBDA t : Won(result, s, t))
  <2>4. scores' = [s \in Seats |-> v(s)] /\ \A s \in Seats : v(s) \in Int
    BY <2>1, <2>3 DEF ScoredUp
  <2> HIDE DEF v
  <2> QED BY <2>4
<1>7. owed' \in [Seats -> Owable(rules)]
  <2>1. owed' = [s \in Seats |-> Qualifies(result[s + 1], next.seats[s].fl)]
    BY DEF Showdown
  <2>2. \A s \in Seats : Qualifies(result[s + 1], next.seats[s].fl) \in Owable(rules)
    <3> TAKE s \in Seats
    <3>1. result \in Seq(Rowed)
      BY ShowdownsAssumption DEF Rowed
    <3>2. result[s + 1] \in Rowed
      BY <1>1, <3>1
    <3>3. next.seats[s].fl \in BOOLEAN
      BY <1>2, SetFacts
    <3> QED BY <3>2, <3>3, QualifiesFacts
  <2> QED BY <2>1, <2>2
<1>8. button' \in Seats
  <2>1. button' = (next.button + 1) % rules.n
    BY DEF Showdown
  <2>2. CASE rules.n = 2
    BY <1>1, <1>2, <2>1, <2>2
  <2>3. CASE rules.n = 3
    BY <1>1, <1>2, <2>1, <2>3
  <2> QED BY <1>1, <2>2, <2>3
<1> QED BY <1>3, <1>4, <1>5, <1>6, <1>7, <1>8

(* A seat may place: what the hand is like.                                 *)
LEMMA PlacingFacts ==
    ASSUME PlayInv, NEW s \in Seats, CanPlace(s)
    PROVE  /\ rules \in OfcConfs /\ hand \in Tabled /\ hand.phase = "setting" /\ Setting
           /\ DeckSize = hand.deck + CardsOn(hand.seats)
           /\ hand.seats[s] \in SeatState /\ DealtSeat(hand.seats[s])
           /\ ~Done(hand.seats[s]) /\ hand.seats[s].pending > 0
           /\ hand.seats[s].fl \/ hand.toAct = s
BY DEF PlayInv, HandInv, NoHand, CanPlace, Tabled, Setting, CardsOn

(* Whose turn it is after a seat placed cards, and how the hand is then.     *)
Passed(s, seats) == IF hand.toAct = s THEN NextTurn(seats, s, TRUE) ELSE hand.toAct
PassedRight(seats, turn, dealt) ==
    /\ seats \in [Seats -> SeatState] /\ \A t \in Seats : DealtSeat(seats[t])
    /\ DeckSize = hand.deck + CardsOn(seats)
    /\ ComingTo(seats) = ComingTo(hand.seats) /\ ComingTo(seats) \in Int
    /\ turn \in Seats \cup {NoSeat} /\ dealt \in Seats \cup {NoSeat}
    /\ turn # NoSeat => ~seats[turn].fl /\ seats[turn].pending > 0
    /\ turn = NoSeat /\ dealt = NoSeat => \A t \in Seats : seats[t].fl \/ Done(seats[t])
    /\ turn = NoSeat /\ dealt # NoSeat =>
          /\ dealt \in Seats /\ ~seats[dealt].fl /\ ~Done(seats[dealt])
          /\ seats[dealt].pending = 0
          /\ \A t \in Seats : seats[t].fl \/ Done(seats[t]) \/ seats[t].pending = 0

(* What placing cards does, the seat being set and the turn passed on.      *)
LEMMA PassedFacts ==
    ASSUME PlayInv, NEW s \in Seats, CanPlace(s), NEW put, Fits(hand.seats[s], put),
           NEW seats, seats = [hand.seats EXCEPT ![s] = Put(hand.seats[s], put)],
           NEW turn, turn = Passed(s, seats), NEW dealt, dealt = NextTurn(seats, s, FALSE)
    PROVE  PassedRight(seats, turn, dealt)
<1>1. /\ rules \in OfcConfs /\ hand \in Tabled /\ Setting
      /\ DeckSize = hand.deck + CardsOn(hand.seats)
      /\ hand.seats[s] \in SeatState /\ DealtSeat(hand.seats[s])
      /\ ~Done(hand.seats[s]) /\ hand.seats[s].pending > 0
      /\ hand.seats[s].fl \/ hand.toAct = s
  BY PlacingFacts
<1>2. /\ hand.seats \in [Seats -> SeatState] /\ \A t \in Seats : DealtSeat(hand.seats[t])
      /\ hand.toAct \in Seats \cup {NoSeat}
  BY <1>1 DEF Tabled, Setting
<1> DEFINE set == Put(hand.seats[s], put)
<1>3. /\ set \in SeatState /\ DealtSeat(set) /\ set.fl = hand.seats[s].fl /\ set.pending = 0
      /\ CardsOf(set) = CardsOf(hand.seats[s]) /\ ToCome(set) = ToCome(hand.seats[s])
      /\ set.fl => Done(set)
  <2> HIDE DEF set
  <2>1. set = Put(hand.seats[s], put)
    BY DEF set
  <2> QED BY <1>1, <2>1, PutFacts
<1> HIDE DEF set
<1>4. seats = [hand.seats EXCEPT ![s] = set]
  BY DEF set
<1>5. /\ seats \in [Seats -> SeatState] /\ seats[s] = set /\ \A t \in Seats : DealtSeat(seats[t])
      /\ \A t \in Seats : t # s => seats[t] = hand.seats[t]
      /\ CardsOn(hand.seats) \in Int /\ ComingTo(hand.seats) \in Int
      /\ CardsOn(seats) = CardsOn(hand.seats) - CardsOf(hand.seats[s]) + CardsOf(set)
      /\ ComingTo(seats) = ComingTo(hand.seats) - ToCome(hand.seats[s]) + ToCome(set)
  BY <1>1, <1>2, <1>3, <1>4, OneChanged DEF OneChange
<1>6. CardsOf(hand.seats[s]) \in Int /\ ToCome(hand.seats[s]) \in Int /\ hand.deck \in Int
  <2>1. hand.deck \in Int
    BY <1>1 DEF Tabled, DeckSize
  <2> QED BY <1>1, <2>1, SetFacts, ComingFacts
<1>7. CardsOn(seats) = CardsOn(hand.seats) /\ ComingTo(seats) = ComingTo(hand.seats)
  BY <1>3, <1>5, <1>6
<1> DEFINE holds(t) == ~seats[t].fl /\ ~Done(seats[t]) /\ (TRUE <=> seats[t].pending > 0)
           waits(t) == ~seats[t].fl /\ ~Done(seats[t]) /\ (FALSE <=> seats[t].pending > 0)
           H == {t \in Seats : holds(t)}
           W == {t \in Seats : waits(t)}
<1>8. NoSeat \notin Seats
  BY <1>1, RulesFacts DEF NoSeat
<1>9. /\ NextTurn(seats, s, TRUE) \in H \cup {NoSeat}
      /\ NextTurn(seats, s, TRUE) = NoSeat => H = {}
      /\ NextTurn(seats, s, FALSE) \in W \cup {NoSeat}
      /\ NextTurn(seats, s, FALSE) = NoSeat => W = {}
  <2>1. NextTurn(seats, s, TRUE) = FirstAfter(s, H) /\ NextTurn(seats, s, FALSE) = FirstAfter(s, W)
    BY DEF NextTurn
  <2>2. H \in SUBSET Seats /\ W \in SUBSET Seats
    OBVIOUS
  <2> HIDE DEF H, W
  <2> QED BY <1>1, <1>8, <2>1, <2>2, FirstFacts
<1>10. \A t \in Seats : seats[t].pending \in Nat /\ seats[t].fl \in BOOLEAN
  <2> TAKE t \in Seats
  <2>1. seats[t] \in SeatState
    BY <1>5
  <2> QED BY <2>1, SetFacts
<1>11. \A t \in Seats : /\ t \in H => ~seats[t].fl /\ ~Done(seats[t]) /\ seats[t].pending > 0
                        /\ t \in W => ~seats[t].fl /\ ~Done(seats[t]) /\ ~(seats[t].pending > 0)
                        /\ t \notin H /\ t \notin W => seats[t].fl \/ Done(seats[t])
                        /\ t \notin H => seats[t].fl \/ Done(seats[t]) \/ ~(seats[t].pending > 0)
  <2>1. \A t \in Seats :
           /\ t \in H <=> ~seats[t].fl /\ ~Done(seats[t]) /\ seats[t].pending > 0
           /\ t \in W <=> ~seats[t].fl /\ ~Done(seats[t]) /\ ~(seats[t].pending > 0)
    OBVIOUS
  <2> HIDE DEF H, W
  <2> QED BY <2>1, Zenon
<1>14. H \subseteq Seats /\ W \subseteq Seats
  OBVIOUS
<1> HIDE DEF H, W
<1>12. CASE hand.toAct = s
  <2>1. turn = NextTurn(seats, s, TRUE)
    BY <1>12 DEF Passed
  <2>2. /\ turn \in Seats \cup {NoSeat} /\ dealt \in Seats \cup {NoSeat}
        /\ turn # NoSeat => turn \in H
        /\ turn = NoSeat => H = {}
        /\ dealt # NoSeat => dealt \in W
        /\ dealt = NoSeat => W = {}
    BY <1>8, <1>9, <1>14, <2>1
  <2>3. turn # NoSeat => ~seats[turn].fl /\ seats[turn].pending > 0
    BY <1>11, <1>14, <2>2
  <2>4. turn = NoSeat /\ dealt = NoSeat => \A t \in Seats : seats[t].fl \/ Done(seats[t])
    BY <1>11, <2>2
  <2>5. turn = NoSeat /\ dealt # NoSeat =>
           /\ dealt \in Seats /\ ~seats[dealt].fl /\ ~Done(seats[dealt])
           /\ seats[dealt].pending = 0
           /\ \A t \in Seats : seats[t].fl \/ Done(seats[t]) \/ seats[t].pending = 0
    <3> SUFFICES ASSUME turn = NoSeat, dealt # NoSeat
                 PROVE  /\ dealt \in Seats /\ ~seats[dealt].fl /\ ~Done(seats[dealt])
                        /\ seats[dealt].pending = 0
                        /\ \A t \in Seats : seats[t].fl \/ Done(seats[t]) \/ seats[t].pending = 0
      OBVIOUS
    <3>1. dealt \in W /\ dealt \in Seats
      BY <1>14, <2>2
    <3>2. ~seats[dealt].fl /\ ~Done(seats[dealt]) /\ ~(seats[dealt].pending > 0)
      BY <1>11, <3>1
    <3>3. \A t \in Seats : seats[t].fl \/ Done(seats[t]) \/ ~(seats[t].pending > 0)
      BY <1>11, <2>2
    <3>4. \A t \in Seats : ~(seats[t].pending > 0) => seats[t].pending = 0
      BY <1>10
    <3> QED BY <3>1, <3>2, <3>3, <3>4
  <2> QED BY <1>1, <1>5, <1>7, <2>2, <2>3, <2>4, <2>5 DEF PassedRight
<1>13. CASE hand.toAct # s
  <2>1. turn = hand.toAct
    BY <1>13 DEF Passed
  <2>2. seats[s].fl /\ Done(seats[s])
    BY <1>1, <1>3, <1>5, <1>13
  <2>3. turn # NoSeat => turn \in Seats /\ ~seats[turn].fl /\ seats[turn].pending > 0
    BY <1>1, <1>2, <1>5, <1>13, <2>1 DEF Setting
  <2>4. turn = NoSeat => \A t \in Seats : seats[t].fl \/ Done(seats[t])
    BY <1>1, <1>2, <1>5, <2>1, <2>2 DEF Setting
  <2>5. turn = NoSeat => dealt = NoSeat
    BY <1>9, <1>11, <1>14, <2>4
  <2>6. dealt \in Seats \cup {NoSeat}
    BY <1>9, <1>14
  <2> QED BY <1>1, <1>2, <1>5, <1>7, <2>1, <2>3, <2>4, <2>5, <2>6 DEF PassedRight
<1> QED BY <1>12, <1>13

(* What placing cards leads to: the hand is shown, or cards are dealt, or the turn
   passed on.                                                               *)
Shows(next, seats) ==
    /\ \A t \in Seats : Done(seats[t])
    /\ \E result \in Showdowns : Len(result) = rules.n /\ Showdown(next, result)
Deals(next, seats, turn, dealt) ==
    /\ \E t \in Seats : ~Done(seats[t])
    /\ turn = NoSeat /\ dealt # NoSeat /\ hand.deck >= CardsPerTurn
    /\ hand' = [next EXCEPT !.seats[dealt].pending = CardsPerTurn,
                            !.toAct = dealt, !.deck = @ - CardsPerTurn]
    /\ UNCHANGED <<status, button, owed, scores, ledger>>
Passes(next, seats, turn, dealt) ==
    /\ \E t \in Seats : ~Done(seats[t])
    /\ turn # NoSeat \/ dealt = NoSeat
    /\ hand' = next
    /\ UNCHANGED <<status, button, owed, scores, ledger>>
LeadsTo(next, seats, turn, dealt) ==
    Shows(next, seats) \/ Deals(next, seats, turn, dealt) \/ Passes(next, seats, turn, dealt)

(* A seat that places leads to one of these.                                *)
LEMMA PlaceCases ==
    ASSUME PlayInv, NEW s \in Seats, Place(s)
    PROVE  /\ CanPlace(s) /\ rules' = rules /\ asked' = asked
           /\ \E put, seats, turn, dealt :
                 /\ Fits(hand.seats[s], put)
                 /\ seats = [hand.seats EXCEPT ![s] = Put(hand.seats[s], put)]
                 /\ turn = Passed(s, seats) /\ dealt = NextTurn(seats, s, FALSE)
                 /\ LeadsTo([hand EXCEPT !.seats = seats, !.toAct = turn], seats, turn, dealt)
<1>1. CanPlace(s) /\ rules' = rules /\ asked' = asked
  BY Zenon DEF Place
<1>2. PICK put \in [Rows -> 0 .. 5] :
         LET seat  == hand.seats[s]
             set   == [seat EXCEPT !.rows = [r \in Rows |-> @[r] + put[r]], !.pending = 0,
                                   !.discards = @ + seat.pending - Places(seat)]
             seats == [hand.seats EXCEPT ![s] = set]
             turn  == IF hand.toAct = s THEN NextTurn(seats, s, TRUE) ELSE hand.toAct
             next  == [hand EXCEPT !.seats = seats, !.toAct = turn]
             dealt == NextTurn(seats, s, FALSE)
         IN  /\ put["top"] + put["middle"] + put["bottom"] = Places(seat)
             /\ \A r \in Rows : set.rows[r] <= Capacity[r]
             /\ \/ /\ \A t \in Seats : Done(seats[t])
                   /\ \E result \in {r \in Showdowns : Len(r) = rules.n} : Showdown(next, result)
                \/ /\ \E t \in Seats : ~Done(seats[t])
                   /\ turn = NoSeat /\ dealt # NoSeat /\ hand.deck >= CardsPerTurn
                   /\ hand' = [next EXCEPT !.seats[dealt].pending = CardsPerTurn,
                                           !.toAct = dealt, !.deck = @ - CardsPerTurn]
                   /\ UNCHANGED <<status, button, owed, scores, ledger>>
                \/ /\ \E t \in Seats : ~Done(seats[t])
                   /\ turn # NoSeat \/ dealt = NoSeat
                   /\ hand' = next
                   /\ UNCHANGED <<status, button, owed, scores, ledger>>
  BY Zenon DEF Place
<1> DEFINE seats == [hand.seats EXCEPT ![s] = Put(hand.seats[s], put)]
           turn == Passed(s, seats)
           dealt == NextTurn(seats, s, FALSE)
           next == [hand EXCEPT !.seats = seats, !.toAct = turn]
<1>3. Fits(hand.seats[s], put)
  BY Zenon, <1>2 DEF Fits, Put
<1>4. LeadsTo(next, seats, turn, dealt)
  <2>1. \/ /\ \A t \in Seats : Done(seats[t])
           /\ \E result \in {r \in Showdowns : Len(r) = rules.n} : Showdown(next, result)
        \/ /\ \E t \in Seats : ~Done(seats[t])
           /\ turn = NoSeat /\ dealt # NoSeat /\ hand.deck >= CardsPerTurn
           /\ hand' = [next EXCEPT !.seats[dealt].pending = CardsPerTurn,
                                   !.toAct = dealt, !.deck = @ - CardsPerTurn]
           /\ UNCHANGED <<status, button, owed, scores, ledger>>
        \/ /\ \E t \in Seats : ~Done(seats[t])
           /\ turn # NoSeat \/ dealt = NoSeat
           /\ hand' = next
           /\ UNCHANGED <<status, button, owed, scores, ledger>>
    BY <1>2, Zenon DEF Put, Passed
  <2> HIDE DEF next, seats, turn, dealt
  <2>2. (\E result \in {r \in Showdowns : Len(r) = rules.n} : Showdown(next, result))
           => \E result \in Showdowns : Len(result) = rules.n /\ Showdown(next, result)
    BY Zenon
  <2> QED BY <2>1, <2>2, Zenon DEF LeadsTo, Shows, Deals, Passes
<1> HIDE DEF seats, turn, dealt
<1>5. /\ seats = [hand.seats EXCEPT ![s] = Put(hand.seats[s], put)]
      /\ turn = Passed(s, seats) /\ dealt = NextTurn(seats, s, FALSE)
  BY DEF seats, turn, dealt
<1> QED BY <1>1, <1>3, <1>4, <1>5, Zenon

(* The hand, with the seats and the turn as they are then.                  *)
LEMMA TurnedFacts ==
    ASSUME NEW h \in Tabled, NEW seats, NEW turn, NEW next,
           next = [h EXCEPT !.seats = seats, !.toAct = turn]
    PROVE  next = [phase |-> h.phase, button |-> h.button, seats |-> seats,
                   toAct |-> turn, deck |-> h.deck]
<1>1. h = [phase |-> h.phase, button |-> h.button, seats |-> h.seats,
           toAct |-> h.toAct, deck |-> h.deck]
  BY DEF Tabled
<1>2. /\ next.phase = h.phase /\ next.button = h.button /\ next.seats = seats
      /\ next.toAct = turn /\ next.deck = h.deck
  BY <1>1
<1>3. next = [phase |-> next.phase, button |-> next.button, seats |-> next.seats,
              toAct |-> next.toAct, deck |-> next.deck]
  BY <1>1
<1> QED BY <1>2, <1>3

(* A seat that places: the hand goes on, or is shown.                       *)
LEMMA PlacePlays ==
    ASSUME PlayInv, NEW s \in Seats, Place(s)
    PROVE  /\ PlayInv'
           /\ hand'.phase = "setting" =>
                 /\ hand'.seats \in [Seats -> SeatState] /\ hand.phase = "setting"
                 /\ hand'.deck - ComingTo(hand'.seats) = hand.deck - ComingTo(hand.seats)
<1>1. PICK put, seats, turn, dealt :
         /\ Fits(hand.seats[s], put)
         /\ seats = [hand.seats EXCEPT ![s] = Put(hand.seats[s], put)]
         /\ turn = Passed(s, seats) /\ dealt = NextTurn(seats, s, FALSE)
         /\ LeadsTo([hand EXCEPT !.seats = seats, !.toAct = turn], seats, turn, dealt)
  BY PlaceCases, Zenon
<1>2. CanPlace(s) /\ rules' = rules /\ asked' = asked
  BY Zenon, PlaceCases
<1>3. /\ rules \in OfcConfs /\ hand \in Tabled /\ hand.phase = "setting" /\ Setting
  BY <1>2, PlacingFacts
<1>4. /\ seats \in [Seats -> SeatState] /\ \A t \in Seats : DealtSeat(seats[t])
      /\ DeckSize = hand.deck + CardsOn(seats)
      /\ ComingTo(seats) = ComingTo(hand.seats) /\ ComingTo(seats) \in Int
      /\ turn \in Seats \cup {NoSeat} /\ dealt \in Seats \cup {NoSeat}
      /\ turn # NoSeat => ~seats[turn].fl /\ seats[turn].pending > 0
      /\ turn = NoSeat /\ dealt = NoSeat => \A t \in Seats : seats[t].fl \/ Done(seats[t])
      /\ turn = NoSeat /\ dealt # NoSeat =>
            /\ dealt \in Seats /\ ~seats[dealt].fl /\ ~Done(seats[dealt])
            /\ seats[dealt].pending = 0
            /\ \A t \in Seats : seats[t].fl \/ Done(seats[t]) \/ seats[t].pending = 0
  <2>1. PassedRight(seats, turn, dealt)
    BY <1>1, <1>2, PassedFacts, Zenon
  <2> QED BY <2>1 DEF PassedRight
<1>5. /\ status \in {"lobby", "playing", "over"} /\ button \in Seats
      /\ owed \in [Seats -> Owable(rules)] /\ scores \in [Seats -> Int]
      /\ asked \in [Seats -> BOOLEAN]
  BY DEF PlayInv
<1>6. /\ hand.deck \in 0 .. DeckSize /\ hand.button \in Seats
      /\ hand = [phase |-> "setting", button |-> hand.button, seats |-> hand.seats,
                 toAct |-> hand.toAct, deck |-> hand.deck]
  BY <1>3 DEF Tabled
<1> DEFINE next == [hand EXCEPT !.seats = seats, !.toAct = turn]
<1>7. /\ next = [phase |-> "setting", button |-> hand.button, seats |-> seats,
                 toAct |-> turn, deck |-> hand.deck]
      /\ next \in Tabled
  <2>1. next = [phase |-> "setting", button |-> hand.button, seats |-> seats,
                toAct |-> turn, deck |-> hand.deck]
    <3>1. /\ hand \in Tabled /\ hand.phase = "setting"
      BY <1>3
    <3>2. next = [hand EXCEPT !.seats = seats, !.toAct = turn]
      OBVIOUS
    <3> HIDE DEF next
    <3>3. next = [phase |-> hand.phase, button |-> hand.button, seats |-> seats,
                  toAct |-> turn, deck |-> hand.deck]
      BY Zenon, <3>1, <3>2, TurnedFacts
    <3> QED BY <3>1, <3>3
  <2> HIDE DEF next
  <2>2. [phase |-> "setting", button |-> hand.button, seats |-> seats,
         toAct |-> turn, deck |-> hand.deck] \in Tabled
    BY <1>4, <1>6 DEF Tabled
  <2> QED BY <2>1, <2>2
<1>8. next.seats = seats /\ next.deck = hand.deck
  BY <1>7
<1>9. ASSUME \A t \in Seats : Done(seats[t]),
             NEW result \in Showdowns, Len(result) = rules.n, Showdown(next, result)
      PROVE  PlayInv' /\ hand'.phase # "setting"
  <2> HIDE DEF next
  <2>1. /\ hand' \in Tabled /\ hand'.phase \in {"showdown", "complete"}
        /\ hand'.seats = next.seats /\ hand'.deck = next.deck
        /\ hand'.phase = "complete" => status' = "over"
        /\ status' = "over" \/ status' = status
        /\ scores' \in [Seats -> Int] /\ owed' \in [Seats -> Owable(rules)] /\ button' \in Seats
    BY <1>3, <1>5, <1>7, <1>9, ShownFacts
  <2>2. HandInv'
    <3>1. DeckSize = hand'.deck + CardsOn(hand'.seats)
      BY <1>4, <1>8, <2>1
    <3> QED BY <1>2, <2>1, <3>1 DEF HandInv, CardsOn, OverSeats, Tabled, Seats
  <2> QED BY <1>2, <1>3, <1>5, <2>1, <2>2 DEF PlayInv, Seats, Owable, Largest
<1>10. ASSUME \E t \in Seats : ~Done(seats[t]), turn = NoSeat, dealt # NoSeat,
              hand.deck >= CardsPerTurn,
              hand' = [next EXCEPT !.seats[dealt].pending = CardsPerTurn,
                                   !.toAct = dealt, !.deck = @ - CardsPerTurn],
              UNCHANGED <<status, button, owed, scores, ledger>>
       PROVE  /\ PlayInv' /\ hand'.seats \in [Seats -> SeatState]
              /\ hand'.deck - ComingTo(hand'.seats) = hand.deck - ComingTo(hand.seats)
  <2> DEFINE set == [seats[dealt] EXCEPT !.pending = CardsPerTurn]
             now == [seats EXCEPT ![dealt] = set]
  <2>1. /\ dealt \in Seats /\ ~seats[dealt].fl /\ ~Done(seats[dealt]) /\ seats[dealt].pending = 0
        /\ \A t \in Seats : seats[t].fl \/ Done(seats[t]) \/ seats[t].pending = 0
    BY <1>4, <1>10
  <2>2. seats[dealt] \in SeatState /\ DealtSeat(seats[dealt])
    BY <1>4, <2>1
  <2>3. /\ set \in SeatState /\ DealtSeat(set) /\ set.fl = seats[dealt].fl /\ set.pending > 0
        /\ ~Done(set) /\ CardsOf(set) = CardsOf(seats[dealt]) + CardsPerTurn
        /\ ToCome(set) + CardsPerTurn = ToCome(seats[dealt])
    BY <1>3, <2>1, <2>2, DealtFacts
  <2>4. /\ hand' = [phase |-> "setting", button |-> hand.button, seats |-> now,
                    toAct |-> dealt, deck |-> hand.deck - CardsPerTurn]
    BY <1>4, <1>7, <1>10, <2>1
  <2> HIDE DEF set
  <2>5. /\ now \in [Seats -> SeatState] /\ now[dealt] = set /\ \A t \in Seats : DealtSeat(now[t])
        /\ \A t \in Seats : t # dealt => now[t] = seats[t]
        /\ CardsOn(seats) \in Int /\ ComingTo(seats) \in Int
        /\ CardsOn(now) = CardsOn(seats) - CardsOf(seats[dealt]) + CardsOf(set)
        /\ ComingTo(now) = ComingTo(seats) - ToCome(seats[dealt]) + ToCome(set)
    <3>1. now = [seats EXCEPT ![dealt] = set]
      OBVIOUS
    <3> HIDE DEF now
    <3>2. /\ seats \in [Seats -> SeatState] /\ \A t \in Seats : DealtSeat(seats[t])
          /\ dealt \in Seats /\ set \in SeatState /\ DealtSeat(set)
      BY <1>4, <2>1, <2>3
    <3>3. rules \in OfcConfs
      BY <1>3
    <3>4. OneChange(seats, dealt, set, now)
      BY <3>1, <3>2, <3>3, OneChanged
    <3> QED BY <3>4 DEF OneChange
  <2> HIDE DEF now, next
  <2>6. /\ hand'.phase = "setting" /\ hand'.seats = now /\ hand'.toAct = dealt
        /\ hand'.deck = hand.deck - CardsPerTurn
    BY <2>4
  <2>7. CardsPerTurn \in {1, 3} /\ hand.deck \in 0 .. 52 /\ DeckSize = 52
    BY <1>3, <1>6, RulesFacts DEF DeckSize
  <2>8. CardsOf(seats[dealt]) \in Int /\ ToCome(seats[dealt]) \in Int /\ ToCome(set) \in Int
    BY <1>3, <2>2, <2>3, SetFacts, ComingFacts
  <2>9. /\ DeckSize = hand'.deck + CardsOn(now)
        /\ hand'.deck - ComingTo(now) = hand.deck - ComingTo(hand.seats)
    BY <1>4, <2>3, <2>5, <2>6, <2>7, <2>8
  <2>10. hand' \in Tabled
    BY <1>6, <1>10, <2>1, <2>4, <2>5, <2>7 DEF Tabled
  <2>11. HandInv'
    BY <1>2, <2>6, <2>9, <2>10 DEF HandInv, CardsOn, OverSeats, Tabled, Seats
  <2>12. Setting'
    <3>1. /\ \A t \in Seats : DealtSeat(hand'.seats[t])
          /\ \E t \in Seats : ~Done(hand'.seats[t])
          /\ ~hand'.seats[hand'.toAct].fl /\ hand'.seats[hand'.toAct].pending > 0
          /\ hand'.toAct # NoSeat
      BY <1>10, <2>1, <2>3, <2>5, <2>6
    <3> QED BY <1>2, <3>1 DEF Setting, DealtSeat, Seats, Done, Largest, CardsPerTurn,
               PlacedPerTurn, Pineapple
  <2> QED BY <1>2, <1>3, <1>5, <1>10, <2>5, <2>6, <2>9, <2>11, <2>12
          DEF PlayInv, Seats, Owable, Largest
<1>11. ASSUME \E t \in Seats : ~Done(seats[t]), turn # NoSeat \/ dealt = NoSeat,
              hand' = next, UNCHANGED <<status, button, owed, scores, ledger>>
       PROVE  /\ PlayInv' /\ hand'.seats \in [Seats -> SeatState]
              /\ hand'.deck - ComingTo(hand'.seats) = hand.deck - ComingTo(hand.seats)
  <2>1. /\ hand'.phase = "setting" /\ hand'.seats = seats /\ hand'.toAct = turn
        /\ hand'.deck = hand.deck /\ hand' \in Tabled
    BY <1>7, <1>11
  <2> HIDE DEF next
  <2>2. HandInv'
    BY <1>2, <1>4, <2>1 DEF HandInv, CardsOn, OverSeats, Tabled, Seats
  <2>3. Setting'
    <3>1. /\ \A t \in Seats : DealtSeat(hand'.seats[t])
          /\ \E t \in Seats : ~Done(hand'.seats[t])
          /\ hand'.toAct # NoSeat =>
                ~hand'.seats[hand'.toAct].fl /\ hand'.seats[hand'.toAct].pending > 0
          /\ hand'.toAct = NoSeat => \A t \in Seats : hand'.seats[t].fl \/ Done(hand'.seats[t])
      BY <1>4, <1>11, <2>1
    <3> QED BY <1>2, <3>1 DEF Setting, DealtSeat, Seats, Done, Largest, CardsPerTurn,
               PlacedPerTurn, Pineapple
  <2> QED BY <1>2, <1>3, <1>4, <1>5, <1>11, <2>1, <2>2, <2>3
          DEF PlayInv, Seats, Owable, Largest
<1> HIDE DEF next
<1>12. Shows(next, seats) \/ Deals(next, seats, turn, dealt) \/ Passes(next, seats, turn, dealt)
  BY <1>1, Zenon DEF next, LeadsTo
<1>13. CASE Shows(next, seats)
  <2>1. PICK result \in Showdowns : Len(result) = rules.n /\ Showdown(next, result)
    BY <1>13 DEF Shows
  <2> QED BY <1>9, <1>13, <2>1 DEF Shows
<1>14. CASE Deals(next, seats, turn, dealt)
  BY <1>3, <1>10, <1>14, Zenon DEF Deals
<1>15. CASE Passes(next, seats, turn, dealt)
  BY <1>3, <1>11, <1>15, Zenon DEF Passes
<1> QED BY <1>12, <1>13, <1>14, <1>15

(* Every step keeps the invariant.                                          *)
LEMMA PlayKept ==
    PlayInv /\ [OfcNext]_ofcVars => PlayInv'
<1> SUFFICES ASSUME PlayInv, [OfcNext]_ofcVars PROVE PlayInv'
  OBVIOUS
<1>1. scores \in [Seats -> Int] /\ asked \in [Seats -> BOOLEAN] /\ rules \in OfcConfs
  BY DEF PlayInv
<1>2. CASE Start
  BY <1>2, StartPlays
<1>3. CASE Settle
  BY <1>1, <1>3, PlayStays DEF Settle
<1>4. ASSUME NEW s \in Seats, Place(s) PROVE PlayInv'
  BY <1>4, PlacePlays
<1>5. ASSUME NEW s \in Seats, Adjust(s) PROVE PlayInv'
  <2>1. scores' \in [Seats -> Int]
    BY <1>1, <1>5 DEF Adjust
  <2> QED BY <1>1, <1>5, <2>1, PlayStays DEF Adjust
<1>6. ASSUME NEW s \in Seats, SettleRequest(s) PROVE PlayInv'
  <2>1. asked' \in [Seats -> BOOLEAN]
    BY <1>1, <1>6 DEF SettleRequest
  <2> QED BY <1>1, <1>6, <2>1, PlayStays DEF SettleRequest
<1>7. CASE UNCHANGED ofcVars
  BY <1>1, <1>7, PlayStays DEF ofcVars
<1> QED BY <1>2, <1>3, <1>4, <1>5, <1>6, <1>7 DEF OfcNext

(* The invariant holds, always.                                             *)
LEMMA PlayAlways ==
    OfcSpec => []PlayInv
<1>1. OfcInit => PlayInv
  BY PlayBegins
<1>2. PlayInv /\ [OfcNext]_ofcVars => PlayInv'
  BY PlayKept
<1> QED BY <1>1, <1>2, PTL DEF OfcSpec

(* The types of a poker table, and every card is somewhere, always.         *)
THEOREM TableTyped ==
    OfcSpec => []OfcTypeOK
<1>1. PlayInv => OfcTypeOK
  <2> SUFFICES ASSUME PlayInv PROVE OfcTypeOK
    OBVIOUS
  <2>1. /\ rules \in OfcConfs /\ status \in {"lobby", "playing", "over"} /\ button \in Seats
        /\ owed \in [Seats -> Owable(rules)] /\ scores \in [Seats -> Int]
        /\ asked \in [Seats -> BOOLEAN] /\ HandInv
    BY DEF PlayInv
  <2>2. owed \in [Seats -> 0 .. 18]
    <3>1. \A x \in Owable(rules) : x \in 0 .. 18
      BY <2>1, RulesFacts DEF Owable
    <3> QED BY <2>1, <3>1
  <2>3. /\ hand.phase \in {"none", "setting", "showdown", "complete"}
        /\ hand.toAct \in Seats \cup {NoSeat} /\ hand.deck \in 0 .. DeckSize
        /\ hand.phase # "none" =>
              DeckSize = hand.deck + OverSeats(LAMBDA s : CardsOf(hand.seats[s]))
    <3>1. CASE hand = NoHand
      BY <3>1 DEF NoHand, DeckSize
    <3>2. CASE hand \in Tabled /\ DeckSize = hand.deck + OverSeats(LAMBDA s : CardsOf(hand.seats[s]))
      BY <3>2 DEF Tabled
    <3> QED BY <2>1, <3>1, <3>2 DEF HandInv
  <2> QED BY Zenon, <2>1, <2>2, <2>3 DEF OfcTypeOK, CardsOf
<1> QED BY <1>1, PlayAlways, PTL

(* One deck is enough for everybody in Fantasyland.  The rules allow it not to be:
   three seats that are owed 18 cards each are more than 52.                *)
DeckHolds == \A c \in OfcConfs : c.n * Largest(c) <= DeckSize

(* With a deck that is enough, a table goes on: while a hand is set some seat may
   place cards, whoever is in Fantasyland, and a hand the autopilot decides to deal
   can be dealt.                                                            *)
THEOREM GoesOn ==
    DeckHolds => (OfcSpec => []TableGoesOn)
<1> SUFFICES ASSUME DeckHolds PROVE OfcSpec => []TableGoesOn
  OBVIOUS
<1>1. PlayInv => TableGoesOn
  <2> SUFFICES ASSUME PlayInv PROVE TableGoesOn
    OBVIOUS
  <2>1. /\ rules \in OfcConfs /\ owed \in [Seats -> Owable(rules)]
        /\ hand.phase = "complete" => status = "over"
        /\ hand.phase \in {"none", "setting", "showdown", "complete"}
    BY DEF PlayInv, HandInv, Tabled, NoHand
  <2>2. ASSUME hand.phase = "setting" PROVE \E s \in Seats : CanPlace(s)
    <3>1. hand \in Tabled /\ Setting
      BY <2>2 DEF PlayInv, HandInv, NoHand
    <3>2. \A s \in Seats : hand.seats[s] \in SeatState
      BY <3>1 DEF Tabled
    <3>3. CASE hand.toAct # NoSeat
      <4>1. /\ hand.toAct \in Seats /\ ~hand.seats[hand.toAct].fl
            /\ hand.seats[hand.toAct].pending > 0 /\ DealtSeat(hand.seats[hand.toAct])
        BY <3>1, <3>3 DEF Tabled, Setting
      <4>2. ~Done(hand.seats[hand.toAct])
        BY <2>1, <3>2, <4>1, RulesFacts DEF DealtSeat, Done, HandSize
      <4> QED BY <2>2, <4>1, <4>2 DEF CanPlace
    <3>4. CASE hand.toAct = NoSeat
      <4>1. PICK s \in Seats : ~Done(hand.seats[s])
        BY <3>1 DEF Setting
      <4>2. hand.seats[s].fl /\ DealtSeat(hand.seats[s])
        BY <3>1, <3>4, <4>1 DEF Setting
      <4>3. hand.seats[s].pending > 0
        BY <2>1, <4>1, <4>2, RulesFacts DEF DealtSeat, HandSize
      <4> QED BY <2>2, <4>1, <4>2, <4>3 DEF CanPlace
    <3> QED BY <3>3, <3>4
  <2>3. ToDeal <= DeckSize
    <3>1. rules.n * Largest(rules) <= DeckSize
      BY <2>1 DEF DeckHolds
    <3> DEFINE seats == [s \in Seats |-> Deal(s)]
    <3> QED BY <2>1, <3>1, ToDealFacts
  <2>4. ASSUME NEW room \in BOOLEAN, NEW ready \in BOOLEAN, Autopilot(room, ready) = "start"
        PROVE  CanStart
    BY <2>1, <2>4 DEF Autopilot, CanStart
  <2> QED BY <2>2, <2>3, <2>4 DEF TableGoesOn
<1> QED BY <1>1, PlayAlways, PTL

(* With a deck that is enough, it lasts: for every hand that may start, and to the
   last turn of it.                                                         *)
THEOREM LastsToTheEnd ==
    DeckHolds => (OfcSpec => []DeckLasts)
<1> SUFFICES ASSUME DeckHolds PROVE OfcSpec => []DeckLasts
  OBVIOUS
<1> DEFINE Enough == hand.phase = "setting" => hand.deck - ComingTo(hand.seats) >= 0
<1>1. OfcInit => Enough
  BY DEF OfcInit, NoHand
<1>2. PlayInv /\ Enough /\ [OfcNext]_ofcVars => Enough'
  <2> SUFFICES ASSUME PlayInv, Enough, [OfcNext]_ofcVars PROVE Enough'
    OBVIOUS
  <2>1. rules \in OfcConfs /\ owed \in [Seats -> Owable(rules)]
    BY DEF PlayInv
  <2>2. ASSUME UNCHANGED <<rules, hand>> PROVE Enough'
    BY <2>2 DEF ComingTo, OverSeats, ToCome, Done, Places, SetCards, CardsPerTurn, PlacedPerTurn,
              Pineapple
  <2>3. CASE Start
    <3> DEFINE seats == [s \in Seats |-> Deal(s)]
    <3>1. hand'.seats = seats /\ hand'.deck = DeckSize - ToDeal /\ rules' = rules
      BY <2>3 DEF Start, Deal
    <3>2. /\ seats \in [Seats -> SeatState] /\ ToDeal \in Nat
          /\ ToDeal + ComingTo(seats) <= DeckSize
      <4>1. rules.n * Largest(rules) <= DeckSize
        BY <2>1 DEF DeckHolds
      <4> QED BY <2>1, <4>1, ToDealFacts
    <3>3. ComingTo(seats) \in Int
      <4>1. \A s \in Seats : ToCome(seats[s]) \in Nat
        <5> TAKE s \in Seats
        <5>1. seats[s] = Deal(s) /\ Deal(s) \in SeatState /\ DealtSeat(Deal(s))
          BY <2>1, OpeningFacts
        <5> QED BY <2>1, <5>1, ComingFacts
      <4> HIDE DEF seats
      <4> QED BY <2>1, <4>1, RulesFacts DEF ComingTo, OverSeats
    <3> HIDE DEF seats
    <3>4. hand'.deck - ComingTo(hand'.seats) >= 0
      BY <3>1, <3>2, <3>3 DEF DeckSize
    <3> QED BY <3>1, <3>4 DEF ComingTo, OverSeats, ToCome, Done, Places, SetCards, CardsPerTurn,
               PlacedPerTurn, Pineapple
  <2>4. CASE Settle
    BY <2>2, <2>4 DEF Settle
  <2>5. ASSUME NEW s \in Seats, Place(s) PROVE Enough'
    <3>1. /\ hand'.phase = "setting" =>
                hand.phase = "setting"
                  /\ hand'.deck - ComingTo(hand'.seats) = hand.deck - ComingTo(hand.seats)
          /\ rules' = rules
      BY Zenon, <2>5, PlacePlays DEF Place
    <3>2. hand'.phase = "setting" => hand'.deck - ComingTo(hand'.seats) >= 0
      BY <3>1
    <3>3. (ComingTo(hand.seats))' = ComingTo(hand'.seats)
      <4>1. rules' = rules /\ CardsPerTurn' = CardsPerTurn /\ PlacedPerTurn' = PlacedPerTurn
        BY <3>1 DEF CardsPerTurn, PlacedPerTurn, Pineapple
      <4> QED BY <4>1 DEF ComingTo, OverSeats, ToCome, Done, Places, SetCards
    <3> QED BY <3>2, <3>3
  <2>6. ASSUME NEW s \in Seats, Adjust(s) PROVE Enough'
    BY <2>2, <2>6 DEF Adjust
  <2>7. ASSUME NEW s \in Seats, SettleRequest(s) PROVE Enough'
    BY <2>2, <2>7 DEF SettleRequest
  <2>8. CASE UNCHANGED ofcVars
    BY <2>2, <2>8 DEF ofcVars
  <2> QED BY <2>3, <2>4, <2>5, <2>6, <2>7, <2>8 DEF OfcNext
<1>3. PlayInv /\ Enough => DeckLasts
  <2> SUFFICES ASSUME PlayInv, Enough PROVE DeckLasts
    OBVIOUS
  <2>1. rules \in OfcConfs /\ owed \in [Seats -> Owable(rules)]
    BY DEF PlayInv
  <2>2. ToDeal <= DeckSize
    <3>1. rules.n * Largest(rules) <= DeckSize
      BY <2>1 DEF DeckHolds
    <3> QED BY <2>1, <3>1, ToDealFacts
  <2>3. ASSUME hand.phase = "setting" PROVE hand.deck >= ComingTo(hand.seats)
    <3>1. hand \in Tabled /\ Setting
      BY <2>3 DEF PlayInv, HandInv, NoHand
    <3>2. \A s \in Seats : ToCome(hand.seats[s]) \in Nat
      <4> TAKE s \in Seats
      <4>1. hand.seats[s] \in SeatState /\ DealtSeat(hand.seats[s])
        BY <3>1 DEF Tabled, Setting
      <4> QED BY <2>1, <4>1, ComingFacts
    <3>3. ComingTo(hand.seats) \in Int
      BY <2>1, <3>2, RulesFacts DEF ComingTo, OverSeats
    <3>4. hand.deck \in Int
      BY <3>1 DEF Tabled, DeckSize
    <3> QED BY <2>3, <3>3, <3>4
  <2> QED BY <2>2, <2>3 DEF DeckLasts, ComingTo
<1> HIDE DEF Enough
<1> QED BY <1>1, <1>2, <1>3, PlayAlways, PTL DEF OfcSpec

-----------------------------------------------------------------------------
(* The ledger. *)

Balances == [Seats -> Int]
PairPoints == [Seats \X Seats -> Int]
Entry == [type : {"hand", "adjust", "settlement"}, transfers : PairPoints, seat : Seats,
          points : Int]
Total(balances) == OverSeats(LAMBDA s : balances[s])
Reversed(transfers) == [p \in Seats \X Seats |-> transfers[p[2], p[1]]]

(* The balances after each of some entries.                                 *)
RunOf(f, entries) ==
    /\ f \in [0 .. Len(entries) -> Balances] /\ f[0] = Zero
    /\ \A k \in 1 .. Len(entries) : f[k] = Book(f[k - 1], entries[k])

(* PairPoints between seats move points, and make or destroy none.            *)
LEMMA PayFacts ==
    ASSUME rules \in OfcConfs, NEW balances \in Balances, NEW paid \in PairPoints
    PROVE  /\ Pay(balances, paid) \in Balances
           /\ Total(Pay(balances, paid)) = Total(balances) /\ Total(balances) \in Int
<1>1. /\ rules.n \in {2, 3} /\ 0 \in Seats /\ 1 \in Seats /\ (rules.n = 3 => 2 \in Seats)
  BY RulesFacts
<1>2. \A s, t \in Seats : paid[s, t] \in Int
  BY Zenon DEF PairPoints
<1>3. \A s \in Seats : balances[s] \in Int
  BY DEF Balances
<1> DEFINE v(s) == balances[s] + OverSeats(LAMBDA t : paid[t, s] - paid[s, t])
<1>4. \A s \in Seats : v(s) \in Int
  <2> SUFFICES ASSUME NEW s \in Seats PROVE v(s) \in Int
    BY Zenon
  <2> DEFINE w(t) == paid[t, s] - paid[s, t]
  <2>1. /\ balances[s] \in Int /\ \A t \in Seats : w(t) \in Int
    <3>1. ASSUME NEW t \in Seats PROVE w(t) \in Int
      <4> DEFINE a == paid[t, s]
                 b == paid[s, t]
      <4>1. a \in Int /\ b \in Int
        BY Zenon, <1>2
      <4>2. w(t) = a - b
        OBVIOUS
      <4> HIDE DEF a, b, w
      <4> QED BY <4>1, <4>2
    <3> QED BY Zenon, <1>3, <3>1
  <2>2. v(s) = balances[s] + (w(0) + w(1) + IF rules.n = 3 THEN w(2) ELSE 0)
    BY DEF OverSeats
  <2>3. w(0) \in Int /\ w(1) \in Int /\ (rules.n = 3 => w(2) \in Int)
    <3> HIDE DEF w
    <3> QED BY <1>1, <2>1
  <2> DEFINE b == balances[s]
  <2>4. b \in Int /\ v(s) = b + (w(0) + w(1) + IF rules.n = 3 THEN w(2) ELSE 0)
    BY Zenon, <2>1, <2>2
  <2> HIDE DEF w, v, b
  <2> QED BY <2>3, <2>4
<1>5. Pay(balances, paid) = [s \in Seats |-> v(s)]
  BY Zenon DEF Pay
<1>6. Pay(balances, paid) \in Balances
  <2> HIDE DEF v
  <2> QED BY <1>4, <1>5 DEF Balances
<1>7. Total(Pay(balances, paid)) = v(0) + v(1) + IF rules.n = 3 THEN v(2) ELSE 0
  <2> HIDE DEF v
  <2> QED BY <1>1, <1>5 DEF Total, OverSeats
<1>8. Total(balances) = balances[0] + balances[1] + IF rules.n = 3 THEN balances[2] ELSE 0
  BY DEF Total, OverSeats
<1>9. CASE rules.n = 2
  <2>1. /\ v(0) = balances[0] + ((paid[0, 0] - paid[0, 0]) + (paid[1, 0] - paid[0, 1]) + 0)
        /\ v(1) = balances[1] + ((paid[0, 1] - paid[1, 0]) + (paid[1, 1] - paid[1, 1]) + 0)
    BY <1>9 DEF OverSeats
  <2>2. /\ paid[0, 0] \in Int /\ paid[1, 0] \in Int /\ paid[0, 1] \in Int /\ paid[1, 1] \in Int
        /\ balances[0] \in Int /\ balances[1] \in Int
    BY Zenon, <1>1, <1>2, <1>3
  <2> DEFINE p00 == paid[0, 0]
             p01 == paid[0, 1]
             p10 == paid[1, 0]
             p11 == paid[1, 1]
             b0 == balances[0]
             b1 == balances[1]
  <2>3. /\ v(0) = b0 + ((p00 - p00) + (p10 - p01) + 0)
        /\ v(1) = b1 + ((p01 - p10) + (p11 - p11) + 0)
    BY Zenon, <2>1
  <2>4. p00 \in Int /\ p01 \in Int /\ p10 \in Int /\ p11 \in Int /\ b0 \in Int /\ b1 \in Int
    BY Zenon, <2>2
  <2>5. /\ Total(balances) = b0 + b1 + 0
        /\ Total(Pay(balances, paid)) = v(0) + v(1) + 0
    <3> HIDE DEF v
    <3>1. rules.n # 3
      BY <1>9
    <3> QED BY <1>7, <1>8, <3>1
  <2> HIDE DEF v, p00, p01, p10, p11, b0, b1
  <2>6. Total(Pay(balances, paid)) = Total(balances) /\ Total(balances) \in Int
    BY <2>3, <2>4, <2>5
  <2> QED BY <1>6, <2>6
<1>10. CASE rules.n = 3
  <2>1. /\ v(0) = balances[0] + ((paid[0, 0] - paid[0, 0]) + (paid[1, 0] - paid[0, 1])
                                 + (paid[2, 0] - paid[0, 2]))
        /\ v(1) = balances[1] + ((paid[0, 1] - paid[1, 0]) + (paid[1, 1] - paid[1, 1])
                                 + (paid[2, 1] - paid[1, 2]))
        /\ v(2) = balances[2] + ((paid[0, 2] - paid[2, 0]) + (paid[1, 2] - paid[2, 1])
                                 + (paid[2, 2] - paid[2, 2]))
    BY <1>10 DEF OverSeats
  <2>2. /\ paid[0, 0] \in Int /\ paid[1, 0] \in Int /\ paid[0, 1] \in Int /\ paid[1, 1] \in Int
        /\ paid[0, 2] \in Int /\ paid[1, 2] \in Int /\ paid[2, 0] \in Int /\ paid[2, 1] \in Int
        /\ paid[2, 2] \in Int
        /\ balances[0] \in Int /\ balances[1] \in Int /\ balances[2] \in Int
    BY Zenon, <1>1, <1>2, <1>3, <1>10
  <2> DEFINE p00 == paid[0, 0]
             p01 == paid[0, 1]
             p02 == paid[0, 2]
             p10 == paid[1, 0]
             p11 == paid[1, 1]
             p12 == paid[1, 2]
             p20 == paid[2, 0]
             p21 == paid[2, 1]
             p22 == paid[2, 2]
             b0 == balances[0]
             b1 == balances[1]
             b2 == balances[2]
  <2>3. /\ v(0) = b0 + ((p00 - p00) + (p10 - p01) + (p20 - p02))
        /\ v(1) = b1 + ((p01 - p10) + (p11 - p11) + (p21 - p12))
        /\ v(2) = b2 + ((p02 - p20) + (p12 - p21) + (p22 - p22))
    BY Zenon, <2>1
  <2>4. /\ p00 \in Int /\ p01 \in Int /\ p02 \in Int /\ p10 \in Int /\ p11 \in Int /\ p12 \in Int
        /\ p20 \in Int /\ p21 \in Int /\ p22 \in Int /\ b0 \in Int /\ b1 \in Int /\ b2 \in Int
    BY Zenon, <2>2
  <2>5. /\ Total(balances) = b0 + b1 + b2
        /\ Total(Pay(balances, paid)) = v(0) + v(1) + v(2)
    BY Zenon, <1>7, <1>8, <1>10
  <2> HIDE DEF v, p00, p01, p02, p10, p11, p12, p20, p21, p22, b0, b1, b2
  <2>6. Total(Pay(balances, paid)) = Total(balances) /\ Total(balances) \in Int
    BY <2>3, <2>4, <2>5
  <2> QED BY <1>6, <2>6
<1> QED BY <1>1, <1>6, <1>9, <1>10

(* An entry, booked.                                                        *)
LEMMA BookFacts ==
    ASSUME rules \in OfcConfs, NEW balances \in Balances, NEW e \in Entry
    PROVE  /\ Book(balances, e) \in Balances /\ Total(balances) \in Int
           /\ e.type # "adjust" => Total(Book(balances, e)) = Total(balances)
<1>1. e.transfers \in PairPoints /\ e.seat \in Seats /\ e.points \in Int
  BY DEF Entry
<1>2. /\ Pay(balances, e.transfers) \in Balances
      /\ Total(Pay(balances, e.transfers)) = Total(balances) /\ Total(balances) \in Int
  BY <1>1, PayFacts
<1>3. [balances EXCEPT ![e.seat] = @ + e.points] \in Balances
  BY <1>1 DEF Balances
<1> QED BY <1>2, <1>3 DEF Book

(* There are balances after each of some entries.                           *)
LEMMA RunExists ==
    ASSUME rules \in OfcConfs, NEW entries \in Seq(Entry)
    PROVE  \E f : RunOf(f, entries)
<1> DEFINE step == [k \in 1 .. Len(entries) |-> [b \in Balances |-> Book(b, entries[k])]]
<1>1. Len(entries) \in Nat /\ \A k \in 1 .. Len(entries) : entries[k] \in Entry
  OBVIOUS
<1>2. Zero \in Balances
  BY DEF Zero, Balances
<1>3. step \in [1 .. Len(entries) -> [Balances -> Balances]]
  BY <1>1, BookFacts
<1>4. \A k \in 1 .. Len(entries) : \A b \in Balances : step[k][b] = Book(b, entries[k])
  OBVIOUS
<1> HIDE DEF step
<1>5. PICK f : Iterates(f, Len(entries), Balances, Zero, step)
  BY <1>1, <1>2, <1>3, Iterated
<1>6. \A k \in 1 .. Len(entries) : f[k] = Book(f[k - 1], entries[k])
  <2> TAKE k \in 1 .. Len(entries)
  <2>1. f[k - 1] \in Balances /\ f[k] = step[k][f[k - 1]]
    BY <1>1, <1>5 DEF Iterates
  <2> QED BY <1>4, <2>1
<1> QED BY <1>5, <1>6 DEF RunOf, Iterates

(* Balances of entries the first n of which are the same.                   *)
Alike(n, f, g, s, t) ==
    /\ f[0] = g[0]
    /\ \A k \in 1 .. n : /\ f[k] = Book(f[k - 1], s[k]) /\ g[k] = Book(g[k - 1], t[k])
                         /\ s[k] = t[k]

(* Entries that begin alike have balances that begin alike.                 *)
LEMMA RunsAgree ==
    ASSUME NEW n \in Nat, NEW f, NEW g, NEW s, NEW t, Alike(n, f, g, s, t)
    PROVE  \A k \in 0 .. n : f[k] = g[k]
<1> DEFINE T == {k \in 0 .. n : f[k] # g[k]}
<1>1. SUFFICES ASSUME T # {} PROVE FALSE
  OBVIOUS
<1>2. PICK k \in T : \A m \in T : k <= m
  <2>1. T \subseteq Nat
    OBVIOUS
  <2> HIDE DEF T
  <2> QED BY <1>1, <2>1, LeastNat
<1>3. k \in 1 .. n /\ f[k] # g[k]
  BY DEF Alike
<1>4. k - 1 \in 0 .. n /\ k - 1 \notin T
  BY <1>2, <1>3
<1>5. f[k - 1] = g[k - 1]
  BY <1>4
<1> HIDE DEF T
<1> QED BY <1>3, <1>5 DEF Alike

(* What is booked are the balances after the last entry.                    *)
LEMMA BookedFacts ==
    ASSUME rules \in OfcConfs, NEW entries \in Seq(Entry), NEW f, RunOf(f, entries)
    PROVE  Booked(entries) = f[Len(entries)]
<1>1. Len(entries) \in Nat
  OBVIOUS
<1> DEFINE Fits1(h) == h = [k \in 0 .. Len(entries) |->
                              IF k = 0 THEN Zero ELSE Book(h[k - 1], entries[k])]
           g == CHOOSE h : Fits1(h)
<1>2. Booked(entries) = g[Len(entries)]
  BY DEF Booked
<1>3. Fits1(f)
  <2> DEFINE h == [k \in 0 .. Len(entries) |-> IF k = 0 THEN Zero ELSE Book(f[k - 1], entries[k])]
  <2>1. \A k \in 0 .. Len(entries) : f[k] = h[k]
    BY <1>1 DEF RunOf
  <2>2. f \in [0 .. Len(entries) -> Balances]
    BY DEF RunOf
  <2> QED BY <2>1, <2>2
<1>4. Fits1(g)
  <2> HIDE DEF Fits1
  <2> QED BY <1>3
<1>5. g[0] = Zero /\ \A k \in 1 .. Len(entries) : g[k] = Book(g[k - 1], entries[k])
  <2> HIDE DEF g
  <2> QED BY <1>1, <1>4
<1> HIDE DEF g
<1>6. \A k \in 0 .. Len(entries) : f[k] = g[k]
  <2>1. Alike(Len(entries), f, g, entries, entries)
    BY <1>5 DEF RunOf, Alike
  <2> QED BY <1>1, <2>1, RunsAgree
<1> QED BY <1>1, <1>2, <1>6

(* What is booked, entry by entry.                                          *)
LEMMA BookedAll ==
    ASSUME rules \in OfcConfs, NEW entries \in Seq(Entry)
    PROVE  \E f : /\ RunOf(f, entries) /\ Booked(entries) = f[Len(entries)]
                  /\ Booked(entries) \in Balances
<1>1. PICK f : RunOf(f, entries)
  BY RunExists
<1>2. Booked(entries) = f[Len(entries)]
  BY <1>1, BookedFacts
<1>3. Len(entries) \in 0 .. Len(entries)
  OBVIOUS
<1>4. f[Len(entries)] \in Balances
  BY <1>1, <1>3 DEF RunOf
<1> QED BY <1>1, <1>2, <1>4

(* One more entry, booked on the balances after the others.                 *)
LEMMA RunMore ==
    ASSUME rules \in OfcConfs, NEW entries \in Seq(Entry), NEW e \in Entry, NEW f,
           RunOf(f, entries)
    PROVE  \E g : /\ RunOf(g, Append(entries, e))
                  /\ g[Len(Append(entries, e))] = Book(f[Len(entries)], e)
<1> DEFINE n == Len(entries)
           more == Append(entries, e)
           g == [k \in 0 .. n + 1 |-> IF k = n + 1 THEN Book(f[n], e) ELSE f[k]]
<1>1. /\ more \in Seq(Entry) /\ Len(more) = n + 1 /\ n \in Nat /\ more[n + 1] = e
      /\ \A k \in 1 .. n : more[k] = entries[k]
  <2>1. more = Append(entries, e)
    OBVIOUS
  <2> HIDE DEF more
  <2>2. /\ more \in Seq(Entry) /\ Len(more) = n + 1 /\ n \in Nat /\ more[n + 1] = e
        /\ DOMAIN entries = 1 .. n /\ \A k \in DOMAIN entries : more[k] = entries[k]
    BY <2>1, AppendFacts
  <2> QED BY <2>2
<1> HIDE DEF more
<1>2. /\ f \in [0 .. n -> Balances] /\ f[0] = Zero
      /\ \A k \in 1 .. n : f[k] = Book(f[k - 1], entries[k])
  BY DEF RunOf
<1> HIDE DEF n
<1>3. Book(f[n], e) \in Balances
  <2>1. f[n] \in Balances
    BY <1>1, <1>2
  <2> QED BY <2>1, BookFacts
<1>4. g \in [0 .. n + 1 -> Balances] /\ g[0] = Zero /\ g[n + 1] = Book(f[n], e)
  BY <1>1, <1>2, <1>3
<1>5. \A k \in 1 .. n + 1 : g[k] = Book(g[k - 1], more[k])
  <2> TAKE k \in 1 .. n + 1
  <2>1. k \in 0 .. n + 1 /\ k - 1 \in 0 .. n + 1 /\ k - 1 # n + 1
    BY <1>1
  <2>2. g[k - 1] = f[k - 1]
    BY <2>1
  <2>3. CASE k = n + 1
    <3>1. g[k] = Book(f[n], e) /\ k - 1 = n
      BY <1>1, <2>1, <2>3
    <3> HIDE DEF g
    <3> QED BY <1>1, <2>2, <2>3, <3>1
  <2>4. CASE k # n + 1
    <3>1. k \in 1 .. n /\ g[k] = f[k]
      BY <1>1, <2>1, <2>4
    <3> HIDE DEF g
    <3> QED BY <1>1, <1>2, <2>2, <3>1
  <2> QED BY <2>3, <2>4
<1> HIDE DEF g
<1>6. RunOf(g, more) /\ g[Len(more)] = Book(f[n], e)
  BY <1>1, <1>4, <1>5 DEF RunOf
<1> QED BY <1>6 DEF more, n

(* Where no points were adjusted, the balances make nothing together.       *)
LEMMA NothingMade ==
    ASSUME rules \in OfcConfs, NEW entries \in Seq(Entry), NEW f, RunOf(f, entries),
           \A k \in 1 .. Len(entries) : entries[k].type # "adjust"
    PROVE  Total(f[Len(entries)]) = 0
<1> DEFINE n == Len(entries)
           T == {k \in 0 .. n : Total(f[k]) # 0}
<1>1. n \in Nat /\ \A k \in 1 .. n : entries[k] \in Entry
  OBVIOUS
<1>2. SUFFICES ASSUME T # {} PROVE FALSE
  BY <1>1
<1>3. PICK k \in T : \A m \in T : k <= m
  <2>1. T \subseteq Nat
    BY <1>1
  <2> HIDE DEF T
  <2> QED BY <1>2, <2>1, LeastNat
<1>4. k \in 0 .. n /\ Total(f[k]) # 0
  OBVIOUS
<1>5. f \in [0 .. n -> Balances] /\ f[0] = Zero
  BY DEF RunOf
<1>6. k \in 1 .. n /\ k - 1 \in 0 .. n /\ ~(k <= k - 1)
  <2>1. Total(Zero) = 0
    BY RulesFacts DEF Total, OverSeats, Zero
  <2> HIDE DEF n
  <2> QED BY <1>1, <1>4, <1>5, <2>1
<1>7. Total(f[k - 1]) = 0
  <2> HIDE DEF n
  <2>1. k - 1 \notin T
    <3> HIDE DEF T
    <3> QED BY <1>3, <1>6
  <2> QED BY <1>6, <2>1
<1>8. f[k] = Book(f[k - 1], entries[k]) /\ entries[k] \in Entry /\ entries[k].type # "adjust"
  BY <1>1, <1>6 DEF RunOf
<1>9. f[k - 1] \in Balances
  <2> HIDE DEF n
  <2> QED BY <1>5, <1>6
<1>10. Total(f[k]) = Total(f[k - 1])
  BY <1>8, <1>9, BookFacts
<1> QED BY <1>4, <1>7, <1>10

Prefix(entries, i) == SubSeq(entries, 1, i)

(* What is left of a ledger is a ledger, and so is what came before an entry. *)
LEMMA PartsFacts ==
    ASSUME NEW entries \in Seq(Entry)
    PROVE  /\ SinceSettlement(entries) \in Seq(Entry)
           /\ \A i \in 0 .. Len(entries) : Prefix(entries, i) \in Seq(Entry)
<1> DEFINE n == Len(entries)
           settled == {i \in DOMAIN entries : entries[i].type = "settlement"}
           S == settled \cup {0}
<1>1. n \in Nat /\ DOMAIN entries = 1 .. n /\ entries \in Seq(Entry)
  BY LenProperties
<1>2. Max(S) \in 0 .. n
  <2> DEFINE T == {n - x : x \in S}
  <2>1. S \subseteq 0 .. n /\ 0 \in S
    BY <1>1
  <2> HIDE DEF S
  <2>2. T \subseteq Nat /\ T # {}
    BY <1>1, <2>1
  <2>3. PICK y \in T : \A z \in T : y <= z
    <3> HIDE DEF T
    <3> QED BY <2>2, LeastNat
  <2>4. PICK x \in S : y = n - x
    OBVIOUS
  <2>5. \A z \in S : x >= z
    <3> TAKE z \in S
    <3>1. n - x <= n - z
      BY <2>3, <2>4
    <3> QED BY <1>1, <2>1, <3>1
  <2>6. (CHOOSE m \in S : \A z \in S : m >= z) \in S
    BY <2>5
  <2> QED BY <2>1, <2>6 DEF Max
<1>3. ASSUME NEW i \in 1 .. n + 1, NEW j \in 0 .. n PROVE SubSeq(entries, i, j) \in Seq(Entry)
  <2>1. \A k \in i .. j : entries[k] \in Entry
    BY <1>1
  <2> QED BY <1>1, <1>3, <2>1, SubSeqProperties
<1>4. SinceSettlement(entries) = SubSeq(entries, 1 + Max(S), n)
  BY DEF SinceSettlement
<1> HIDE DEF S, n
<1>5. 1 + Max(S) \in 1 .. n + 1 /\ n \in 0 .. n
  BY <1>1, <1>2
<1>6. \A i \in 0 .. n : Prefix(entries, i) \in Seq(Entry)
  <2>1. 1 \in 1 .. n + 1
    BY <1>1
  <2> QED BY <1>3, <2>1 DEF Prefix
<1> QED BY <1>3, <1>4, <1>5, <1>6 DEF n

Longer(more, entries, e) ==
    /\ more \in Seq(Entry) /\ Len(more) = Len(entries) + 1 /\ Len(entries) \in Nat
    /\ more[Len(entries) + 1] = e /\ Prefix(more, Len(entries)) = entries
    /\ \A i \in 1 .. Len(entries) :
          more[i] = entries[i] /\ Prefix(more, i - 1) = Prefix(entries, i - 1)

(* One more entry, and what came before the others.                         *)
LEMMA PrefixFacts ==
    ASSUME NEW entries \in Seq(Entry), NEW e \in Entry, NEW more, more = Append(entries, e)
    PROVE  Longer(more, entries, e)
<1> DEFINE n == Len(entries)
<1>1. /\ more \in Seq(Entry) /\ Len(more) = n + 1 /\ n \in Nat /\ more[n + 1] = e
      /\ DOMAIN more = 1 .. n + 1 /\ DOMAIN entries = 1 .. n
      /\ \A k \in 1 .. n : more[k] = entries[k]
  <2>1. /\ more \in Seq(Entry) /\ Len(more) = n + 1 /\ n \in Nat /\ more[n + 1] = e
        /\ DOMAIN more = 1 .. n + 1
        /\ DOMAIN entries = 1 .. n /\ \A k \in DOMAIN entries : more[k] = entries[k]
    BY AppendFacts
  <2> QED BY <2>1
<1>2. ASSUME NEW i \in 0 .. n PROVE Prefix(more, i) = Prefix(entries, i)
  <2>1. /\ i \in Nat /\ Len(SubSeq(more, 1, i)) = i /\ Len(SubSeq(entries, 1, i)) = i
        /\ SubSeq(more, 1, i) \in Seq(Entry) /\ SubSeq(entries, 1, i) \in Seq(Entry)
        /\ \A k \in 1 .. i : SubSeq(more, 1, i)[k] = SubSeq(entries, 1, i)[k]
    BY <1>1
  <2> QED BY <2>1, SeqEqual DEF Prefix
<1>3. Prefix(entries, n) = entries
  <2>1. /\ Len(SubSeq(entries, 1, n)) = n
        /\ SubSeq(entries, 1, n) \in Seq(Entry)
        /\ \A k \in 1 .. n : SubSeq(entries, 1, n)[k] = entries[k]
    BY <1>1
  <2> QED BY <1>1, <2>1, SeqEqual DEF Prefix
<1>4. n \in 0 .. n /\ \A i \in 1 .. n : i - 1 \in 0 .. n
  BY <1>1
<1> QED BY <1>1, <1>2, <1>3, <1>4 DEF Longer

(* A settlement that leaves nobody owing or owed, unless points were adjusted. *)
Squared(open, transfers) ==
    \/ \E k \in 1 .. Len(open) : open[k].type = "adjust"
    \/ \E f : RunOf(f, open) /\ Pay(f[Len(open)], Reversed(transfers)) = Zero

(* A ledger that tells some balances.                                       *)
BooksKept(entries, balances) ==
    /\ entries \in Seq(Entry)
    /\ \E f : RunOf(f, entries) /\ f[Len(entries)] = balances
    /\ \A i \in 1 .. Len(entries) : entries[i].type = "settlement" =>
          Squared(SinceSettlement(Prefix(entries, i - 1)), entries[i].transfers)

(* It tells them after one more entry.                                      *)
LEMMA BooksGrow ==
    ASSUME rules \in OfcConfs, NEW entries, NEW balances, BooksKept(entries, balances),
           NEW e \in Entry,
           e.type = "settlement" => Squared(SinceSettlement(entries), e.transfers)
    PROVE  BooksKept(Append(entries, e), Book(balances, e))
<1> DEFINE more == Append(entries, e)
           n == Len(entries)
<1>1. entries \in Seq(Entry)
  BY DEF BooksKept
<1>2. more = Append(entries, e)
  OBVIOUS
<1> HIDE DEF more
<1>3. Longer(more, entries, e)
  BY <1>1, <1>2, PrefixFacts
<1>4. /\ more \in Seq(Entry) /\ Len(more) = n + 1 /\ n \in Nat
      /\ more[n + 1] = e /\ Prefix(more, n) = entries
      /\ \A i \in 1 .. n : more[i] = entries[i] /\ Prefix(more, i - 1) = Prefix(entries, i - 1)
  BY <1>3 DEF Longer
<1>5. PICK f : RunOf(f, entries) /\ f[n] = balances
  BY DEF BooksKept
<1>6. \E g : RunOf(g, more) /\ g[Len(more)] = Book(balances, e)
  BY <1>1, <1>2, <1>5, RunMore
<1>7. ASSUME NEW i \in 1 .. Len(more), more[i].type = "settlement"
      PROVE  Squared(SinceSettlement(Prefix(more, i - 1)), more[i].transfers)
  <2>1. CASE i = n + 1
    <3>1. i - 1 = n
      BY <1>4, <2>1
    <3> QED BY <1>4, <1>7, <2>1, <3>1
  <2>2. CASE i # n + 1
    <3>1. i \in 1 .. n
      BY <1>4, <2>2
    <3>2. more[i] = entries[i] /\ Prefix(more, i - 1) = Prefix(entries, i - 1)
      BY <1>4, <3>1
    <3>3. entries[i].type = "settlement" =>
             Squared(SinceSettlement(Prefix(entries, i - 1)), entries[i].transfers)
      BY <3>1 DEF BooksKept
    <3> QED BY <1>7, <3>2, <3>3
  <2> QED BY <2>1, <2>2
<1>8. BooksKept(more, Book(balances, e))
  BY <1>4, <1>6, <1>7 DEF BooksKept
<1> QED BY <1>8 DEF more

(* Such a ledger says what it should.                                       *)
LEMMA BooksTell ==
    ASSUME rules \in OfcConfs, BooksKept(ledger, scores)
    PROVE  LedgerTellsAll
<1>1. ledger \in Seq(Entry) /\ DOMAIN ledger = 1 .. Len(ledger)
  BY LenProperties DEF BooksKept
<1>2. scores = Booked(ledger)
  <2>1. PICK f : RunOf(f, ledger) /\ f[Len(ledger)] = scores
    BY DEF BooksKept
  <2> QED BY <1>1, <2>1, BookedFacts
<1>3. ASSUME NEW i \in DOMAIN ledger, ledger[i].type = "settlement", NEW open,
             open = SinceSettlement(SubSeq(ledger, 1, i - 1))
      PROVE  \/ Pay(Booked(open), Reversed(ledger[i].transfers)) = Zero
             \/ \E k \in DOMAIN open : open[k].type = "adjust"
  <2>1. open \in Seq(Entry)
    <3>1. i - 1 \in 0 .. Len(ledger)
      BY <1>1
    <3>2. Prefix(ledger, i - 1) \in Seq(Entry)
      BY <1>1, <3>1, PartsFacts
    <3> QED BY <1>3, <3>2, PartsFacts DEF Prefix
  <2>2. Squared(open, ledger[i].transfers)
    BY <1>1, <1>3 DEF BooksKept, Prefix
  <2>3. CASE \E k \in 1 .. Len(open) : open[k].type = "adjust"
    BY <2>1, <2>3, LenProperties
  <2>4. ASSUME NEW f, RunOf(f, open), Pay(f[Len(open)], Reversed(ledger[i].transfers)) = Zero
        PROVE  Pay(Booked(open), Reversed(ledger[i].transfers)) = Zero
    <3>1. Booked(open) = f[Len(open)]
      BY <2>1, <2>4, BookedFacts
    <3> QED BY <2>4, <3>1
  <2> QED BY <2>2, <2>3, <2>4 DEF Squared
<1> QED BY Zenon, <1>2, <1>3 DEF LedgerTellsAll, Reversed

-----------------------------------------------------------------------------
(* Settling. *)

(* The pairs of seats, each of which is settled once.                       *)
LEMMA PairsFacts ==
    ASSUME rules \in OfcConfs
    PROVE  /\ rules.n * rules.n \in Nat
           /\ \A k \in 1 .. rules.n * rules.n :
                 Pairs[k] = <<Pairs[k][1], Pairs[k][2]>> /\ Pairs[k][1] \in Seats /\ Pairs[k][2] \in Seats
           /\ \A s, t \in Seats : \E k \in 1 .. rules.n * rules.n : Pairs[k] = <<s, t>>
           /\ \A j, k \in 1 .. rules.n * rules.n :
                 j # k => Pairs[j][1] # Pairs[k][1] \/ Pairs[j][2] # Pairs[k][2]
<1>1. Pairs = [k \in 1 .. rules.n * rules.n |-> <<(k - 1) \div rules.n, (k - 1) % rules.n>>]
  BY DEF Pairs
<1>2. CASE rules.n = 2
  <2>1. Seats = 0 .. 1 /\ rules.n * rules.n = 4
    BY <1>2 DEF Seats
  <2>2. Pairs[1] = <<0, 0>> /\ Pairs[2] = <<0, 1>> /\ Pairs[3] = <<1, 0>> /\ Pairs[4] = <<1, 1>>
    BY <1>1, <1>2, <2>1
  <2>3. \A k \in 1 .. 4 : k = 1 \/ k = 2 \/ k = 3 \/ k = 4
    OBVIOUS
  <2>4. \A s \in 0 .. 1 : s = 0 \/ s = 1
    OBVIOUS
  <2> QED BY <2>1, <2>2, <2>3, <2>4
<1>3. CASE rules.n = 3
  <2>1. Seats = 0 .. 2 /\ rules.n * rules.n = 9
    BY <1>3 DEF Seats
  <2>2. /\ Pairs[1] = <<0, 0>> /\ Pairs[2] = <<0, 1>> /\ Pairs[3] = <<0, 2>>
        /\ Pairs[4] = <<1, 0>> /\ Pairs[5] = <<1, 1>> /\ Pairs[6] = <<1, 2>>
        /\ Pairs[7] = <<2, 0>> /\ Pairs[8] = <<2, 1>> /\ Pairs[9] = <<2, 2>>
    BY <1>1, <1>3, <2>1
  <2>3. \A k \in 1 .. 9 : \/ k = 1 \/ k = 2 \/ k = 3 \/ k = 4 \/ k = 5
                          \/ k = 6 \/ k = 7 \/ k = 8 \/ k = 9
    OBVIOUS
  <2>4. \A s \in 0 .. 2 : s = 0 \/ s = 1 \/ s = 2
    OBVIOUS
  <2> QED BY <2>1, <2>2, <2>3, <2>4
<1> QED BY <1>2, <1>3, RulesFacts

OneMore(now, paid, a, b, points) ==
    a # b /\ paid[a, b] = 0 /\ now = [paid EXCEPT ![<<a, b>>] = points]

(* What one seat has of payments, of which one more is made.                *)
LEMMA PayOne ==
    ASSUME rules \in OfcConfs, NEW balances \in Balances, NEW paid \in PairPoints,
           NEW a \in Seats, NEW b \in Seats, NEW points \in Int, NEW now,
           OneMore(now, paid, a, b, points)
    PROVE  /\ now \in PairPoints
           /\ \A s \in Seats : Pay(balances, Reversed(now))[s] =
                 IF s = a THEN Pay(balances, Reversed(paid))[s] + points
                 ELSE IF s = b THEN Pay(balances, Reversed(paid))[s] - points
                 ELSE Pay(balances, Reversed(paid))[s]
<1>1. now \in PairPoints
  BY Zenon DEF PairPoints, OneMore
<1>2. /\ a # b /\ paid[a, b] = 0 /\ now[a, b] = points
      /\ \A s, t \in Seats : s # a \/ t # b => now[s, t] = paid[s, t]
  BY Zenon DEF PairPoints, OneMore
<1>3. \A s, t \in Seats : paid[s, t] \in Int /\ now[s, t] \in Int
  BY Zenon, <1>1 DEF PairPoints
<1> DEFINE gets(x, s) == [t \in Seats |-> Reversed(x)[t, s] - Reversed(x)[s, t]]
           sum(f) == OverSeats(LAMBDA t : f[t])
<1>4. ASSUME NEW x \in {paid, now}, NEW s \in Seats
      PROVE  /\ gets(x, s) \in [Seats -> Int]
             /\ \A t \in Seats : gets(x, s)[t] = x[s, t] - x[t, s]
             /\ Pay(balances, Reversed(x))[s] = balances[s] + sum(gets(x, s))
  <2>1. \A t \in Seats : Reversed(x)[t, s] = x[s, t] /\ Reversed(x)[s, t] = x[t, s]
    BY Zenon DEF Reversed
  <2>2. \A t \in Seats : gets(x, s)[t] = Reversed(x)[t, s] - Reversed(x)[s, t]
    OBVIOUS
  <2>3. \A t \in Seats : x[s, t] \in Int /\ x[t, s] \in Int
    BY Zenon, <1>3
  <2>4. gets(x, s) \in [Seats -> Int]
    <3>1. \A t \in Seats : gets(x, s)[t] \in Int
      <4> SUFFICES ASSUME NEW t \in Seats PROVE gets(x, s)[t] \in Int
        BY Zenon
      <4> DEFINE u == x[s, t]
                 v == x[t, s]
      <4>1. u \in Int /\ v \in Int /\ gets(x, s)[t] = u - v
        BY Zenon, <2>1, <2>2, <2>3
      <4> HIDE DEF u, v, gets
      <4> QED BY <4>1
    <3>2. gets(x, s) = [t \in Seats |-> gets(x, s)[t]]
      OBVIOUS
    <3> HIDE DEF gets
    <3> QED BY <3>1, <3>2
  <2>5. sum(gets(x, s)) = OverSeats(LAMBDA t : Reversed(x)[t, s] - Reversed(x)[s, t])
    <3> HIDE DEF gets
    <3> QED BY Zenon, <2>2, RulesFacts DEF OverSeats
  <2>6. Pay(balances, Reversed(x))[s]
           = balances[s] + OverSeats(LAMBDA t : Reversed(x)[t, s] - Reversed(x)[s, t])
    BY Zenon DEF Pay
  <2> HIDE DEF gets, sum
  <2> QED BY Zenon, <2>1, <2>2, <2>4, <2>5, <2>6
<1> HIDE DEF gets
<1>5. ASSUME NEW s \in Seats
      PROVE  Pay(balances, Reversed(now))[s] =
                IF s = a THEN Pay(balances, Reversed(paid))[s] + points
                ELSE IF s = b THEN Pay(balances, Reversed(paid))[s] - points
                ELSE Pay(balances, Reversed(paid))[s]
  <2>1. /\ gets(paid, s) \in [Seats -> Int] /\ gets(now, s) \in [Seats -> Int]
        /\ \A t \in Seats : /\ gets(paid, s)[t] = paid[s, t] - paid[t, s]
                            /\ gets(now, s)[t] = now[s, t] - now[t, s]
        /\ Pay(balances, Reversed(paid))[s] = balances[s] + sum(gets(paid, s))
        /\ Pay(balances, Reversed(now))[s] = balances[s] + sum(gets(now, s))
    BY Zenon, <1>4
  <2>2. \A u \in Seats : (\A t \in Seats : t # u => gets(now, s)[t] = gets(paid, s)[t]) =>
           /\ Pay(balances, Reversed(paid))[s] \in Int
           /\ gets(paid, s)[u] \in Int /\ gets(now, s)[u] \in Int
           /\ Pay(balances, Reversed(now))[s]
                 = Pay(balances, Reversed(paid))[s] - gets(paid, s)[u] + gets(now, s)[u]
    <3> TAKE u \in Seats
    <3> HAVE \A t \in Seats : t # u => gets(now, s)[t] = gets(paid, s)[t]
    <3> DEFINE sp == sum(gets(paid, s))
               sn == sum(gets(now, s))
               xp == gets(paid, s)[u]
               xn == gets(now, s)[u]
               pp == Pay(balances, Reversed(paid))[s]
               pn == Pay(balances, Reversed(now))[s]
               bs == balances[s]
    <3>1. sp \in Int /\ sn = sp - xp + xn
      BY Zenon, <2>1, SumFacts
    <3>2. bs \in Int /\ pp = bs + sp /\ pn = bs + sn
      BY Zenon, <2>1 DEF Balances
    <3>3. xp \in Int /\ xn \in Int
      BY Zenon, <2>1
    <3> HIDE DEF sp, sn, xp, xn, pp, pn, bs
    <3>4. pp \in Int /\ pn = pp - xp + xn
      BY <3>1, <3>2, <3>3
    <3> QED BY <3>3, <3>4 DEF xp, xn, pp, pn
  <2> HIDE DEF sum
  <2> DEFINE pp == Pay(balances, Reversed(paid))[s]
             pn == Pay(balances, Reversed(now))[s]
             r == paid[b, a]
  <2>3. r \in Int
    BY Zenon, <1>3
  <2>4. CASE s = a
    <3>1. \A t \in Seats : t # b => gets(now, s)[t] = gets(paid, s)[t]
      <4> TAKE t \in Seats
      <4> HAVE t # b
      <4>1. now[s, t] = paid[s, t] /\ now[t, s] = paid[t, s]
        BY Zenon, <1>2, <2>4
      <4> QED BY Zenon, <2>1, <4>1
    <3>2. gets(paid, s)[b] = 0 - r /\ gets(now, s)[b] = points - r
      <4>1. now[s, b] = points /\ now[b, s] = r /\ paid[s, b] = 0 /\ paid[b, s] = r
        BY Zenon, <1>2, <2>4
      <4> QED BY Zenon, <2>1, <4>1
    <3>3. pp \in Int /\ pn = pp - (0 - r) + (points - r)
      BY Zenon, <2>2, <3>1, <3>2
    <3> HIDE DEF pp, pn, r
    <3>4. pn = pp + points
      BY <2>3, <3>3
    <3> QED BY <2>4, <3>4 DEF pp, pn
  <2>5. CASE s = b
    <3>1. \A t \in Seats : t # a => gets(now, s)[t] = gets(paid, s)[t]
      <4> TAKE t \in Seats
      <4> HAVE t # a
      <4>1. now[s, t] = paid[s, t] /\ now[t, s] = paid[t, s]
        BY Zenon, <1>2, <2>5
      <4> QED BY Zenon, <2>1, <4>1
    <3>2. gets(paid, s)[a] = r - 0 /\ gets(now, s)[a] = r - points
      <4>1. now[a, s] = points /\ now[s, a] = r /\ paid[a, s] = 0 /\ paid[s, a] = r
        BY Zenon, <1>2, <2>5
      <4> QED BY Zenon, <2>1, <4>1
    <3>3. pp \in Int /\ pn = pp - (r - 0) + (r - points)
      BY Zenon, <2>2, <3>1, <3>2
    <3> HIDE DEF pp, pn, r
    <3>4. pn = pp - points
      BY <2>3, <3>3
    <3> QED BY Zenon, <1>2, <2>5, <3>4 DEF pp, pn
  <2>6. CASE s # a /\ s # b
    <3>1. \A t \in Seats : gets(now, s)[t] = gets(paid, s)[t]
      <4> TAKE t \in Seats
      <4>1. now[s, t] = paid[s, t] /\ now[t, s] = paid[t, s]
        BY Zenon, <1>2, <2>6
      <4> QED BY Zenon, <2>1, <4>1
    <3> DEFINE x == gets(paid, s)[a]
    <3>2. pp \in Int /\ x \in Int /\ pn = pp - x + x
      BY <2>2, <3>1
    <3> HIDE DEF pp, pn, x
    <3>3. pn = pp
      BY <3>2
    <3> QED BY <2>6, <3>3 DEF pp, pn
  <2> QED BY <2>4, <2>5, <2>6
<1> QED BY <1>1, <1>5

PlanState == [left : Balances, plan : PairPoints]

(* What is left of the balances follows from the payments planned so far.   *)
Tallies(bal, balances) == bal \in PlanState /\ bal.left = Pay(balances, Reversed(bal.plan))

Unplanned(bal, a, b) == bal.plan[a, b] = 0

PairSettled(before, after, a, b, balances) ==
    /\ Tallies(after, balances)
    /\ ~(after.left[a] < 0 /\ after.left[b] > 0)
    /\ \A s \in Seats : /\ after.left[s] < 0 => before.left[s] < 0
                        /\ after.left[s] > 0 => before.left[s] > 0
    /\ \A s, t \in Seats : s # a \/ t # b => after.plan[s, t] = before.plan[s, t]

(* Settling a pair leaves it settled, and turns no debtor into a creditor.  *)
LEMMA PairSettles ==
    ASSUME rules \in OfcConfs, NEW balances \in Balances, NEW bal, Tallies(bal, balances),
           NEW a \in Seats, NEW b \in Seats, Unplanned(bal, a, b)
    PROVE  PairSettled(bal, SettleUp(bal, <<a, b>>), a, b, balances)
<1> DEFINE points == Smaller(-bal.left[a], bal.left[b])
           la == bal.left[a]
           lb == bal.left[b]
<1>1. bal \in PlanState /\ bal.left \in Balances /\ bal.plan \in PairPoints
  BY DEF Tallies, PlanState
<1>2. la \in Int /\ lb \in Int /\ \A s \in Seats : bal.left[s] \in Int
  BY <1>1 DEF Balances
<1>3. /\ points \in Int /\ points <= -la /\ points <= lb /\ (points = -la \/ points = lb)
      /\ points = Smaller(-la, lb)
  BY <1>2 DEF Smaller
<1>4. SettleUp(bal, <<a, b>>) =
         IF points <= 0 THEN bal
         ELSE [left |-> [bal.left EXCEPT ![a] = @ + points, ![b] = @ - points],
               plan |-> [bal.plan EXCEPT ![<<a, b>>] = points]]
  BY DEF SettleUp
<1> HIDE DEF points
<1>5. CASE points <= 0
  <2>1. ~(la < 0 /\ lb > 0)
    <3> HIDE DEF la, lb
    <3> QED BY <1>2, <1>3, <1>5
  <2> QED BY Zenon, <1>4, <1>5, <2>1 DEF PairSettled
<1>6. CASE points > 0
  <2> DEFINE left == [bal.left EXCEPT ![a] = @ + points, ![b] = @ - points]
             plan == [bal.plan EXCEPT ![<<a, b>>] = points]
  <2>1. SettleUp(bal, <<a, b>>) = [left |-> left, plan |-> plan]
    BY <1>3, <1>4, <1>6
  <2>2. la < 0 /\ lb > 0
    <3> HIDE DEF la, lb
    <3> QED BY <1>2, <1>3, <1>6
  <2>3. a # b
    <3>1. a = b => la = lb
      OBVIOUS
    <3> HIDE DEF la, lb
    <3> QED BY <1>2, <2>2, <3>1
  <2>4. /\ left \in Balances /\ left[a] = la + points /\ left[b] = lb - points
        /\ \A s \in Seats : s # a /\ s # b => left[s] = bal.left[s]
    BY <1>1, <1>2, <1>3, <2>3 DEF Balances
  <2>5. OneMore(plan, bal.plan, a, b, points)
    BY Zenon, <2>3 DEF OneMore, Unplanned
  <2>6. /\ plan \in PairPoints
        /\ \A s \in Seats : Pay(balances, Reversed(plan))[s] =
              IF s = a THEN Pay(balances, Reversed(bal.plan))[s] + points
              ELSE IF s = b THEN Pay(balances, Reversed(bal.plan))[s] - points
              ELSE Pay(balances, Reversed(bal.plan))[s]
    <3> HIDE DEF plan
    <3> QED BY <1>1, <1>3, <2>5, PayOne
  <2>7. \A s, t \in Seats : s # a \/ t # b => plan[s, t] = bal.plan[s, t]
    BY Zenon, <1>1 DEF PairPoints
  <2> HIDE DEF left, plan
  <2>8. left = Pay(balances, Reversed(plan))
    <3>1. bal.left = Pay(balances, Reversed(bal.plan))
      BY DEF Tallies
    <3>2. \A s \in Seats : left[s] = Pay(balances, Reversed(plan))[s]
      BY <2>4, <2>6, <3>1
    <3>3. DOMAIN left = Seats /\ left = [s \in Seats |-> left[s]]
      BY <2>4 DEF Balances
    <3>4. Pay(balances, Reversed(plan)) = [s \in Seats |-> Pay(balances, Reversed(plan))[s]]
      BY Zenon DEF Pay
    <3> QED BY <3>2, <3>3, <3>4
  <2>9. /\ left[a] <= 0 /\ left[b] >= 0 /\ ~(left[a] < 0 /\ left[b] > 0)
    <3> DEFINE ma == left[a]
               mb == left[b]
    <3>1. ma = la + points /\ mb = lb - points
      BY <2>4
    <3> HIDE DEF ma, mb, la, lb
    <3>2. ma <= 0 /\ mb >= 0 /\ ~(ma < 0 /\ mb > 0)
      BY <1>2, <1>3, <3>1
    <3> QED BY <3>2 DEF ma, mb
  <2>10. \A s \in Seats : /\ left[s] < 0 => bal.left[s] < 0
                          /\ left[s] > 0 => bal.left[s] > 0
    <3> TAKE s \in Seats
    <3>1. CASE s = a
      <4>1. left[s] \in Int /\ left[s] <= 0 /\ bal.left[s] < 0
        BY <2>2, <2>4, <2>9, <3>1 DEF Balances
      <4> QED BY <4>1
    <3>2. CASE s = b
      <4>1. left[s] \in Int /\ left[s] >= 0 /\ bal.left[s] > 0
        BY <2>2, <2>4, <2>9, <3>2 DEF Balances
      <4> QED BY <4>1
    <3> QED BY <2>4, <3>1, <3>2
  <2> DEFINE after == [left |-> left, plan |-> plan]
  <2>11. after.left = left /\ after.plan = plan /\ after \in PlanState
    BY <2>4, <2>6 DEF PlanState
  <2>12. SettleUp(bal, <<a, b>>) = after
    BY <2>1
  <2> HIDE DEF after
  <2> QED BY Zenon, <2>7, <2>8, <2>9, <2>10, <2>11, <2>12 DEF PairSettled, Tallies
<1> QED BY <1>3, <1>5, <1>6

(* Balances that make nothing together are none, when no debtor is left with a
   creditor.                                                                *)
LEMMA NobodyOwes ==
    ASSUME rules \in OfcConfs, NEW left \in Balances, Total(left) = 0,
           \A s, t \in Seats : ~(left[s] < 0 /\ left[t] > 0)
    PROVE  left = Zero
<1>1. \A s \in Seats : left[s] \in Int
  BY DEF Balances
<1>2. \A s \in Seats : left[s] = 0
  <2> DEFINE x == left[0]
             y == left[1]
             z == left[2]
  <2>1. /\ x \in Int /\ y \in Int /\ ~(x < 0 /\ y > 0) /\ ~(y < 0 /\ x > 0)
        /\ x + y + (IF rules.n = 3 THEN z ELSE 0) = 0
    BY <1>1, RulesFacts DEF Total, OverSeats
  <2>2. rules.n = 3 => /\ z \in Int /\ ~(x < 0 /\ z > 0) /\ ~(z < 0 /\ x > 0)
                       /\ ~(y < 0 /\ z > 0) /\ ~(z < 0 /\ y > 0)
    BY <1>1, RulesFacts
  <2>3. \A s \in Seats : (s = 0 /\ left[s] = x) \/ (s = 1 /\ left[s] = y)
                         \/ (s = 2 /\ rules.n = 3 /\ left[s] = z)
    BY RulesFacts
  <2> HIDE DEF x, y, z
  <2>4. x = 0 /\ y = 0 /\ (rules.n = 3 => z = 0)
    <3>1. CASE rules.n = 3
      <4>1. x + y + z = 0
        BY <2>1, <3>1
      <4> QED BY <2>1, <2>2, <3>1, <4>1
    <3>2. CASE rules.n # 3
      <4>1. x + y + 0 = 0
        BY <2>1, <3>2
      <4> QED BY <2>1, <3>2, <4>1
    <3> QED BY <3>1, <3>2
  <2> QED BY <2>3, <2>4
<1> QED BY <1>2 DEF Zero, Balances

(* Before any pair is settled nothing is paid.                              *)
LEMMA NothingPaid ==
    ASSUME rules \in OfcConfs, NEW balances \in Balances
    PROVE  Tallies([left |-> balances, plan |-> NoTransfers], balances)
<1>1. NoTransfers \in PairPoints /\ \A s, t \in Seats : NoTransfers[s, t] = 0
  <2>1. NoTransfers \in PairPoints
    BY DEF NoTransfers, PairPoints
  <2>2. \A p \in Seats \X Seats : NoTransfers[p] = 0
    BY DEF NoTransfers
  <2> QED BY Zenon, <2>1, <2>2
<1>2. \A s, t \in Seats : Reversed(NoTransfers)[s, t] = 0
  BY Zenon, <1>1 DEF Reversed
<1>3. \A s \in Seats : Pay(balances, Reversed(NoTransfers))[s] = balances[s]
  <2> TAKE s \in Seats
  <2>1. Pay(balances, Reversed(NoTransfers))[s] = balances[s] + OverSeats(
           LAMBDA t : Reversed(NoTransfers)[t, s] - Reversed(NoTransfers)[s, t])
    BY Zenon DEF Pay
  <2>2. OverSeats(LAMBDA t : Reversed(NoTransfers)[t, s] - Reversed(NoTransfers)[s, t]) = 0
    <3> DEFINE d(t) == Reversed(NoTransfers)[t, s] - Reversed(NoTransfers)[s, t]
    <3>1. d(0) = 0 /\ d(1) = 0 /\ (rules.n = 3 => d(2) = 0)
      <4>1. ASSUME NEW t \in Seats PROVE d(t) = 0
        <5>1. Reversed(NoTransfers)[t, s] = 0 /\ Reversed(NoTransfers)[s, t] = 0
          BY Zenon, <1>2
        <5>2. d(t) = 0 - 0
          BY Zenon, <5>1
        <5> HIDE DEF d
        <5> QED BY <5>2
      <4> HIDE DEF d
      <4> QED BY <4>1, RulesFacts
    <3>2. OverSeats(LAMBDA t : Reversed(NoTransfers)[t, s] - Reversed(NoTransfers)[s, t])
             = d(0) + d(1) + IF rules.n = 3 THEN d(2) ELSE 0
      BY DEF OverSeats
    <3> DEFINE e == OverSeats(LAMBDA t : Reversed(NoTransfers)[t, s] - Reversed(NoTransfers)[s, t])
    <3>3. e = d(0) + d(1) + IF rules.n = 3 THEN d(2) ELSE 0
      BY Zenon, <3>2
    <3> HIDE DEF d, e
    <3>4. e = 0
      BY <3>1, <3>3
    <3> QED BY Zenon, <3>4 DEF e
  <2> DEFINE b == balances[s]
             x == Pay(balances, Reversed(NoTransfers))[s]
  <2>3. b \in Int /\ x = b + 0
    BY Zenon, <2>1, <2>2 DEF Balances
  <2> HIDE DEF b, x
  <2>4. x = b
    BY <2>3
  <2> QED BY <2>4 DEF b, x
<1>4. balances = [s \in Seats |-> balances[s]]
  BY DEF Balances
<1>5. Pay(balances, Reversed(NoTransfers))
         = [s \in Seats |-> Pay(balances, Reversed(NoTransfers))[s]]
  BY Zenon DEF Pay
<1>6. balances = Pay(balances, Reversed(NoTransfers))
  BY <1>3, <1>4, <1>5
<1> QED BY Zenon, <1>1, <1>6 DEF Tallies, PlanState

PairsLeft == rules.n * rules.n

(* The plan after its first k pairs.                                        *)
PlanUpTo(bal, k, balances) ==
    /\ Tallies(bal, balances)
    /\ \A j \in 1 .. k : ~(bal.left[Pairs[j][1]] < 0 /\ bal.left[Pairs[j][2]] > 0)
    /\ \A j \in k + 1 .. PairsLeft : Unplanned(bal, Pairs[j][1], Pairs[j][2])

(* It is right after each.                                                  *)
LEMMA PlanGrows ==
    ASSUME rules \in OfcConfs, NEW balances \in Balances, NEW k \in 1 .. PairsLeft,
           NEW bal, PlanUpTo(bal, k - 1, balances)
    PROVE  PlanUpTo(SettleUp(bal, Pairs[k]), k, balances)
<1> DEFINE a == Pairs[k][1]
           b == Pairs[k][2]
           next == SettleUp(bal, <<a, b>>)
<1>1. PairsLeft \in Nat /\ a \in Seats /\ b \in Seats /\ Pairs[k] = <<a, b>>
  BY PairsFacts DEF PairsLeft
<1>2. Tallies(bal, balances) /\ Unplanned(bal, a, b)
  <2>1. k \in (k - 1) + 1 .. PairsLeft
    BY <1>1
  <2> QED BY <2>1 DEF PlanUpTo
<1>3. PairSettled(bal, next, a, b, balances)
  <2> HIDE DEF a, b
  <2> QED BY <1>1, <1>2, PairSettles
<1> HIDE DEF next
<1>4. Tallies(next, balances)
  BY Zenon, <1>3 DEF PairSettled
<1>5. ASSUME NEW j \in 1 .. k
      PROVE  ~(next.left[Pairs[j][1]] < 0 /\ next.left[Pairs[j][2]] > 0)
  <2>1. CASE j = k
    BY Zenon, <1>3, <2>1 DEF PairSettled
  <2>2. CASE j # k
    <3>1. j \in 1 .. k - 1 /\ j \in 1 .. PairsLeft
      BY <1>1, <2>2
    <3>2. ~(bal.left[Pairs[j][1]] < 0 /\ bal.left[Pairs[j][2]] > 0)
      BY <3>1 DEF PlanUpTo
    <3>3. Pairs[j][1] \in Seats /\ Pairs[j][2] \in Seats
      BY <3>1, PairsFacts DEF PairsLeft
    <3> QED BY Zenon, <1>3, <3>2, <3>3 DEF PairSettled
  <2> QED BY <2>1, <2>2
<1>6. ASSUME NEW j \in k + 1 .. PairsLeft
      PROVE  Unplanned(next, Pairs[j][1], Pairs[j][2])
  <2>1. j \in (k - 1) + 1 .. PairsLeft /\ j \in 1 .. PairsLeft /\ j # k
    BY <1>1
  <2>2. Unplanned(bal, Pairs[j][1], Pairs[j][2])
    BY <2>1 DEF PlanUpTo
  <2>3. /\ Pairs[j][1] \in Seats /\ Pairs[j][2] \in Seats
        /\ Pairs[j][1] # Pairs[k][1] \/ Pairs[j][2] # Pairs[k][2]
    BY <2>1, PairsFacts DEF PairsLeft
  <2>4. next.plan[Pairs[j][1], Pairs[j][2]] = bal.plan[Pairs[j][1], Pairs[j][2]]
    BY Zenon, <1>3, <2>3 DEF PairSettled
  <2> QED BY Zenon, <2>2, <2>4 DEF Unplanned
<1> HIDE DEF a, b
<1>7. SettleUp(bal, Pairs[k]) = next
  BY <1>1 DEF next
<1> QED BY <1>4, <1>5, <1>6, <1>7 DEF PlanUpTo

(* The plan of a settlement is payments between the seats, and leaves nobody owing
   or owed when the balances make nothing together.                         *)
LEMMA PlanSettles ==
    ASSUME rules \in OfcConfs, NEW balances \in Balances
    PROVE  /\ SettlementPlan(balances) \in PairPoints
           /\ Total(balances) = 0 => Pay(balances, Reversed(SettlementPlan(balances))) = Zero
<1> DEFINE m == PairsLeft
           first == [left |-> balances, plan |-> NoTransfers]
           step == [k \in 1 .. m |-> [bal \in PlanState |-> SettleUp(bal, Pairs[k])]]
           Runs(h) == h = [k \in 0 .. m |-> IF k = 0 THEN first ELSE SettleUp(h[k - 1], Pairs[k])]
           after == CHOOSE h : Runs(h)
<1>1. m \in Nat /\ Tallies(first, balances) /\ first \in PlanState
  BY PairsFacts, NothingPaid DEF PairsLeft, Tallies
<1>2. SettlementPlan(balances) = after[m].plan
  BY DEF SettlementPlan, PairsLeft
<1>3. step \in [1 .. m -> [PlanState -> PlanState]]
  <2>1. ASSUME NEW k \in 1 .. m, NEW bal \in PlanState PROVE SettleUp(bal, Pairs[k]) \in PlanState
    <3>1. /\ bal.left \in Balances /\ bal.plan \in PairPoints
          /\ Pairs[k] = <<Pairs[k][1], Pairs[k][2]>>
          /\ Pairs[k][1] \in Seats /\ Pairs[k][2] \in Seats
      BY PairsFacts DEF PlanState, PairsLeft
    <3>2. ASSUME NEW points \in Int
          PROVE  /\ [bal.left EXCEPT ![Pairs[k][1]] = @ + points, ![Pairs[k][2]] = @ - points]
                       \in Balances
                 /\ [bal.plan EXCEPT ![Pairs[k]] = points] \in PairPoints
      <4> DEFINE p == Pairs[k]
      <4>1. p \in Seats \X Seats
        BY <3>1
      <4>2. [bal.plan EXCEPT ![p] = points] \in PairPoints
        <5> HIDE DEF p
        <5> QED BY <3>1, <4>1 DEF PairPoints
      <4>3. [bal.left EXCEPT ![Pairs[k][1]] = @ + points, ![Pairs[k][2]] = @ - points]
               \in Balances
        BY <3>1 DEF Balances
      <4> QED BY <4>2, <4>3
    <3>3. Smaller(-bal.left[Pairs[k][1]], bal.left[Pairs[k][2]]) \in Int
      BY <3>1 DEF Balances, Smaller
    <3> QED BY <3>2, <3>3 DEF SettleUp, PlanState
  <2> QED BY <2>1
<1>4. \A k \in 1 .. m : \A bal \in PlanState : step[k][bal] = SettleUp(bal, Pairs[k])
  OBVIOUS
<1> HIDE DEF m, first, step
<1>5. PICK f : Iterates(f, m, PlanState, first, step)
  BY <1>1, <1>3, Iterated
<1>6. Runs(f)
  <2>1. f \in [0 .. m -> PlanState] /\ f[0] = first
    BY <1>5 DEF Iterates
  <2>2. \A k \in 1 .. m : f[k] = SettleUp(f[k - 1], Pairs[k])
    <3> TAKE k \in 1 .. m
    <3>1. f[k - 1] \in PlanState /\ f[k] = step[k][f[k - 1]]
      BY <1>1, <1>5, <2>1 DEF Iterates
    <3> QED BY <1>4, <3>1
  <2>3. \A k \in 0 .. m : f[k] = IF k = 0 THEN first ELSE SettleUp(f[k - 1], Pairs[k])
    BY <1>1, <2>1, <2>2
  <2> QED BY <2>1, <2>3
<1>7. Runs(after)
  <2> HIDE DEF Runs
  <2> QED BY <1>6
<1>8. after[0] = first /\ \A k \in 1 .. m : after[k] = SettleUp(after[k - 1], Pairs[k])
  <2> HIDE DEF after
  <2> QED BY <1>1, <1>7
<1> HIDE DEF after, Runs
<1>9. PlanUpTo(after[m], m, balances)
  <2> DEFINE T == {k \in 0 .. m : ~PlanUpTo(after[k], k, balances)}
  <2>1. SUFFICES ASSUME T # {} PROVE FALSE
    BY <1>1
  <2>2. PICK k \in T : \A j \in T : k <= j
    <3>1. T \subseteq Nat
      BY <1>1
    <3> HIDE DEF T
    <3> QED BY <2>1, <3>1, LeastNat
  <2>3. k \in 0 .. m /\ ~PlanUpTo(after[k], k, balances)
    OBVIOUS
  <2>4. PlanUpTo(first, 0, balances)
    <3>1. ASSUME NEW j \in 1 .. PairsLeft PROVE Unplanned(first, Pairs[j][1], Pairs[j][2])
      <4>1. Pairs[j][1] \in Seats /\ Pairs[j][2] \in Seats
        BY PairsFacts DEF PairsLeft
      <4>2. NoTransfers[Pairs[j][1], Pairs[j][2]] = 0
        BY Zenon, <4>1 DEF NoTransfers
      <4> QED BY Zenon, <4>2 DEF first, Unplanned
    <3> QED BY <1>1, <3>1 DEF PlanUpTo
  <2>5. k \in 1 .. m
    <3>1. k # 0
      BY <1>8, <2>3, <2>4
    <3> QED BY <1>1, <2>3, <3>1
  <2>6. PlanUpTo(after[k - 1], k - 1, balances)
    <3>1. k - 1 \in 0 .. m /\ ~(k <= k - 1)
      BY <1>1, <2>5
    <3>2. k - 1 \notin T
      <4> HIDE DEF T
      <4> QED BY <2>2, <3>1
    <3> QED BY <3>1, <3>2
  <2>7. PlanUpTo(SettleUp(after[k - 1], Pairs[k]), k, balances)
    BY <2>5, <2>6, PlanGrows DEF m
  <2> QED BY <1>8, <2>3, <2>5, <2>7
<1> DEFINE left == after[m].left
           plan == after[m].plan
<1>10. /\ left \in Balances /\ plan \in PairPoints /\ left = Pay(balances, Reversed(plan))
  BY <1>9 DEF PlanUpTo, Tallies, PlanState
<1>11. \A s, t \in Seats : ~(left[s] < 0 /\ left[t] > 0)
  <2> TAKE s, t \in Seats
  <2>1. PICK j \in 1 .. m : Pairs[j] = <<s, t>>
    BY PairsFacts DEF m, PairsLeft
  <2>2. Pairs[j][1] = s /\ Pairs[j][2] = t
    BY <2>1
  <2>3. ~(left[Pairs[j][1]] < 0 /\ left[Pairs[j][2]] > 0)
    BY <1>9 DEF PlanUpTo
  <2> QED BY <2>2, <2>3
<1>12. Reversed(plan) \in PairPoints
  BY Zenon, <1>10 DEF Reversed, PairPoints
<1> HIDE DEF left, plan
<1>13. Total(balances) = 0 => left = Zero
  <2>1. Total(left) = Total(balances)
    BY <1>10, <1>12, PayFacts
  <2> QED BY <1>10, <1>11, <2>1, NobodyOwes
<1> QED BY <1>2, <1>10, <1>13 DEF plan

-----------------------------------------------------------------------------
(* Steps. *)

(* The points of a hand are what its transfers bring.                       *)
LEMMA HandBooked ==
    ASSUME rules \in OfcConfs, scores \in Balances, NEW result \in Showdowns,
           Len(result) = rules.n, NEW e, e = HandEntry(Transfers(result))
    PROVE  e \in Entry /\ e.type = "hand" /\ Book(scores, e) = ScoredUp(result)
<1> DEFINE T == Transfers(result)
           w(s, t) == Won(result, s, t)
<1>1. \A s, t \in Seats : /\ w(s, t) \in Int /\ w(t, s) = -w(s, t)
                          /\ T[s, t] = IF w(t, s) > 0 THEN w(t, s) ELSE 0
  <2> SUFFICES ASSUME NEW s \in Seats, NEW t \in Seats
               PROVE  /\ w(s, t) \in Int /\ w(t, s) = -w(s, t)
                      /\ T[s, t] = IF w(t, s) > 0 THEN w(t, s) ELSE 0
    BY Zenon
  <2>1. w(s, t) \in Int /\ w(t, s) = -w(s, t)
    BY WonFacts
  <2>2. T = [p \in Seats \X Seats |-> IF w(p[2], p[1]) > 0 THEN w(p[2], p[1]) ELSE 0]
    BY DEF Transfers
  <2> HIDE DEF T, w
  <2>3. T[s, t] = IF w(t, s) > 0 THEN w(t, s) ELSE 0
    BY Zenon, <2>2
  <2> QED BY Zenon, <2>1, <2>3
<1>2. T \in PairPoints
  <2>1. T = [p \in Seats \X Seats |-> IF w(p[2], p[1]) > 0 THEN w(p[2], p[1]) ELSE 0]
    BY DEF Transfers
  <2> HIDE DEF T, w
  <2>2. \A p \in Seats \X Seats : (IF w(p[2], p[1]) > 0 THEN w(p[2], p[1]) ELSE 0) \in Int
    <3> TAKE p \in Seats \X Seats
    <3>1. p[1] \in Seats /\ p[2] \in Seats
      OBVIOUS
    <3>2. w(p[2], p[1]) \in Int
      BY Zenon, <1>1, <3>1
    <3> QED BY <3>2
  <2> QED BY <2>1, <2>2 DEF PairPoints
<1>3. e = [type |-> "hand", transfers |-> T, seat |-> 0, points |-> 0]
  BY DEF HandEntry
<1>4. e \in Entry /\ e.type = "hand" /\ e.transfers = T
  <2> HIDE DEF T
  <2> QED BY <1>2, <1>3, RulesFacts DEF Entry
<1>5. \A s \in Seats : Pay(scores, T)[s] = scores[s] + OverSeats(LAMBDA t : Won(result, s, t))
  <2> TAKE s \in Seats
  <2>1. \A t \in Seats : T[t, s] - T[s, t] = w(s, t)
    <3> SUFFICES ASSUME NEW t \in Seats PROVE T[t, s] - T[s, t] = w(s, t)
      BY Zenon
    <3> DEFINE x == T[t, s]
               y == T[s, t]
               u == w(s, t)
               v == w(t, s)
    <3>1. /\ u \in Int /\ v = -u /\ x = (IF u > 0 THEN u ELSE 0) /\ y = (IF v > 0 THEN v ELSE 0)
      <4> HIDE DEF T, w
      <4> QED BY Zenon, <1>1
    <3> HIDE DEF x, y, u, v
    <3>2. x - y = u
      BY <3>1
    <3> QED BY Zenon, <3>2 DEF x, y, u
  <2>2. Pay(scores, T)[s] = scores[s] + OverSeats(LAMBDA t : T[t, s] - T[s, t])
    <3> HIDE DEF T
    <3> QED BY Zenon DEF Pay
  <2>3. OverSeats(LAMBDA t : T[t, s] - T[s, t]) = OverSeats(LAMBDA t : w(s, t))
    <3> HIDE DEF T, w
    <3> QED BY Zenon, <2>1, RulesFacts DEF OverSeats
  <2> HIDE DEF T
  <2> QED BY Zenon, <2>2, <2>3
<1>6. Pay(scores, T) = ScoredUp(result)
  <2> HIDE DEF T, w
  <2>1. Pay(scores, T) = [s \in Seats |-> Pay(scores, T)[s]]
    BY Zenon DEF Pay
  <2> QED BY <1>5, <2>1 DEF ScoredUp
<1> QED BY <1>4, <1>6 DEF Book

(* A settlement is squared.                                                 *)
LEMMA SettlementBooked ==
    ASSUME rules \in OfcConfs, NEW entries \in Seq(Entry), NEW balances \in Balances, NEW e,
           e = Settlement(SettlementPlan(Unsettled(entries)))
    PROVE  /\ e \in Entry /\ Squared(SinceSettlement(entries), e.transfers)
           /\ Book(balances, e) = balances
<1> DEFINE open == SinceSettlement(entries)
           plan == SettlementPlan(Booked(open))
<1>1. open \in Seq(Entry)
  BY PartsFacts
<1>2. PICK f : /\ RunOf(f, open) /\ Booked(open) = f[Len(open)]
               /\ Booked(open) \in Balances
  BY <1>1, BookedAll
<1>3. /\ plan \in PairPoints
      /\ Total(Booked(open)) = 0 => Pay(Booked(open), Reversed(plan)) = Zero
  BY <1>2, PlanSettles
<1>4. e = [type |-> "settlement", transfers |-> plan, seat |-> 0, points |-> 0]
  BY DEF Settlement, Unsettled
<1> HIDE DEF plan, open
<1>5. e \in Entry /\ e.transfers = plan /\ e.type = "settlement"
  BY <1>3, <1>4, RulesFacts DEF Entry
<1>6. Squared(open, plan)
  <2>1. CASE \E k \in 1 .. Len(open) : open[k].type = "adjust"
    BY <2>1 DEF Squared
  <2>2. CASE \A k \in 1 .. Len(open) : open[k].type # "adjust"
    <3>1. Total(f[Len(open)]) = 0
      BY <1>1, <1>2, <2>2, NothingMade
    <3> QED BY <1>2, <1>3, <3>1 DEF Squared
  <2> QED BY <2>1, <2>2
<1> QED BY <1>5, <1>6 DEF Book, open

(* Points adjusted by hand are booked.                                      *)
LEMMA AdjustmentBooked ==
    ASSUME rules \in OfcConfs, NEW balances \in Balances, NEW s \in Seats, NEW points \in Int,
           NEW e, e = AdjustEntry(s, points)
    PROVE  /\ e \in Entry /\ e.type = "adjust"
           /\ Book(balances, e) = [balances EXCEPT ![s] = @ + points]
<1>1. e = [type |-> "adjust", transfers |-> NoTransfers, seat |-> s, points |-> points]
  BY DEF AdjustEntry
<1>2. NoTransfers \in PairPoints
  BY DEF NoTransfers, PairPoints
<1>3. e \in Entry /\ e.type = "adjust" /\ e.seat = s /\ e.points = points
  BY <1>1, <1>2 DEF Entry
<1> QED BY <1>3 DEF Book

(* The rules stay, and so what the ledger tells does.                       *)
LEMMA BooksStay ==
    ASSUME rules' = rules, BooksKept(ledger', scores')
    PROVE  BooksKept(ledger, scores)'
<1>1. Seats' = Seats
  BY DEF Seats
<1>2. Zero' = Zero /\ Balances' = Balances /\ PairPoints' = PairPoints
  BY <1>1 DEF Zero, Balances, PairPoints
<1>3. Entry' = Entry
  BY <1>1, <1>2 DEF Entry
<1>4. \A b, p : Pay(b, p)' = Pay(b, p)
  BY <1>1 DEF Pay, OverSeats
<1>5. \A b, e : Book(b, e)' = Book(b, e)
  BY <1>4 DEF Book
<1>6. \A f, s : RunOf(f, s)' <=> RunOf(f, s)
  BY <1>2, <1>5 DEF RunOf
<1>7. \A p : Reversed(p)' = Reversed(p)
  BY <1>1 DEF Reversed
<1>8. \A o, p : Squared(o, p)' <=> Squared(o, p)
  BY <1>2, <1>4, <1>6, <1>7 DEF Squared
<1> QED BY <1>3, <1>6, <1>8 DEF BooksKept

(* Every step keeps a ledger that tells the scores.                         *)
LEMMA BooksGoOn ==
    PlayInv /\ BooksKept(ledger, scores) /\ [OfcNext]_ofcVars => BooksKept(ledger, scores)'
<1> SUFFICES ASSUME PlayInv, BooksKept(ledger, scores), [OfcNext]_ofcVars
             PROVE  BooksKept(ledger, scores)'
  OBVIOUS
<1>1. rules \in OfcConfs /\ scores \in Balances /\ ledger \in Seq(Entry)
  BY DEF PlayInv, Balances, BooksKept
<1>2. ASSUME UNCHANGED <<rules, scores, ledger>> PROVE BooksKept(ledger, scores)'
  <2>1. BooksKept(ledger', scores')
    BY <1>2
  <2> QED BY <1>2, <2>1, BooksStay
<1>3. CASE Start
  BY <1>2, <1>3 DEF Start
<1>4. CASE Settle
  <2> DEFINE e == Settlement(SettlementPlan(Unsettled(ledger)))
  <2>1. ledger' = Append(ledger, e) /\ scores' = scores /\ rules' = rules
    BY <1>4 DEF Settle
  <2>2. /\ e \in Entry /\ Squared(SinceSettlement(ledger), e.transfers)
        /\ Book(scores, e) = scores
    BY <1>1, SettlementBooked
  <2> HIDE DEF e
  <2>3. BooksKept(ledger', scores')
    BY <1>1, <2>1, <2>2, BooksGrow
  <2> QED BY <2>1, <2>3, BooksStay
<1>5. ASSUME NEW s \in Seats, Place(s) PROVE BooksKept(ledger, scores)'
  <2>1. PICK put, seats, turn, dealt :
           LeadsTo([hand EXCEPT !.seats = seats, !.toAct = turn], seats, turn, dealt)
    BY Zenon, <1>5, PlaceCases
  <2>2. rules' = rules
    BY Zenon, <1>5 DEF Place
  <2>3. CASE Shows([hand EXCEPT !.seats = seats, !.toAct = turn], seats)
    <3>1. PICK result \in Showdowns :
             /\ Len(result) = rules.n
             /\ Showdown([hand EXCEPT !.seats = seats, !.toAct = turn], result)
      BY <2>3 DEF Shows
    <3> DEFINE e == HandEntry(Transfers(result))
    <3>2. ledger' = Append(ledger, e) /\ scores' = ScoredUp(result)
      BY <3>1 DEF Showdown
    <3>3. e \in Entry /\ e.type = "hand" /\ Book(scores, e) = ScoredUp(result)
      BY <1>1, <3>1, HandBooked
    <3> HIDE DEF e
    <3>4. BooksKept(ledger', scores')
      BY <1>1, <3>2, <3>3, BooksGrow
    <3> QED BY <2>2, <3>4, BooksStay
  <2>4. CASE \/ Deals([hand EXCEPT !.seats = seats, !.toAct = turn], seats, turn, dealt)
             \/ Passes([hand EXCEPT !.seats = seats, !.toAct = turn], seats, turn, dealt)
    BY <1>2, <2>2, <2>4 DEF Deals, Passes
  <2> QED BY <2>1, <2>3, <2>4 DEF LeadsTo
<1>6. ASSUME NEW s \in Seats, Adjust(s) PROVE BooksKept(ledger, scores)'
  <2>1. PICK points \in {-2, 2} : /\ scores' = [scores EXCEPT ![s] = @ + points]
                                  /\ ledger' = Append(ledger, AdjustEntry(s, points))
    BY <1>6 DEF Adjust
  <2> DEFINE e == AdjustEntry(s, points)
  <2>2. e \in Entry /\ e.type = "adjust" /\ Book(scores, e) = [scores EXCEPT ![s] = @ + points]
    <3>1. points \in Int
      OBVIOUS
    <3> QED BY <1>1, <3>1, AdjustmentBooked
  <2>3. rules' = rules /\ ledger' = Append(ledger, e)
    BY <1>6, <2>1 DEF Adjust
  <2> HIDE DEF e
  <2>4. BooksKept(Append(ledger, e), Book(scores, e))
    <3>1. e.type # "settlement"
      BY <2>2
    <3> QED BY <1>1, <2>2, <3>1, BooksGrow
  <2>5. BooksKept(ledger', scores')
    BY <2>1, <2>2, <2>3, <2>4
  <2> QED BY <2>3, <2>5, BooksStay
<1>7. ASSUME NEW s \in Seats, SettleRequest(s) PROVE BooksKept(ledger, scores)'
  BY <1>2, <1>7 DEF SettleRequest
<1>8. CASE UNCHANGED ofcVars
  BY <1>2, <1>8 DEF ofcVars
<1> QED BY <1>3, <1>4, <1>5, <1>6, <1>7, <1>8 DEF OfcNext

(* A ledger tells the scores, always, and every settlement brings each seat back
   to its baseline, unless points were adjusted: the transfers of the hands, pair by
   pair, are the points the seats were given, and no debtor of a settlement is left
   with a creditor.                                                         *)
THEOREM BooksBalance ==
    OfcSpec => []LedgerTellsAll
<1>1. OfcInit => BooksKept(ledger, scores)
  <2> SUFFICES ASSUME OfcInit PROVE BooksKept(ledger, scores)
    OBVIOUS
  <2>1. rules \in OfcConfs /\ ledger = << >> /\ scores = Zero
    BY DEF OfcInit
  <2>2. ledger \in Seq(Entry) /\ Len(ledger) = 0
    BY <2>1
  <2>3. PICK f : RunOf(f, ledger)
    BY <2>1, <2>2, RunExists
  <2>4. f[Len(ledger)] = scores
    BY <2>1, <2>2, <2>3 DEF RunOf
  <2> QED BY <2>2, <2>3, <2>4 DEF BooksKept
<1>2. PlayInv /\ BooksKept(ledger, scores) /\ [OfcNext]_ofcVars => BooksKept(ledger, scores)'
  BY BooksGoOn
<1>3. PlayInv /\ BooksKept(ledger, scores) => LedgerTellsAll
  BY BooksTell DEF PlayInv
<1> QED BY <1>1, <1>2, <1>3, PlayAlways, PTL DEF OfcSpec
=============================================================================
