------------------------------ MODULE ClubDoor ------------------------------
(***************************************************************************)
(* The door of a club (packages/club ClubServer and its domain): connections *)
(* are challenged and become members' devices, by an invite or as the club's *)
(* membership allows; admins invite, approve, ban and change roles, mint     *)
(* chips from certificates and answer requests for chips; a newcomer gets a  *)
(* welcome grant.  What is written on the ledger is signed first: the writer *)
(* waits, and then stores what it read before with the entry added.          *)
(*                                                                         *)
(* Chips are counted in grants: a certificate mints one, a welcome or a      *)
(* request takes one from the reserve.                                     *)
(***************************************************************************)
EXTENDS Naturals, Sequences, FiniteSets, SequencesExt

CONSTANTS
    Doors,       \* connections, each used once, numbered as they come
    Visitors,    \* who may connect: [id, key]
    Founder,     \* the visitor that owns the club at first
    Invites, Certificates, ChipRequests,
    NoVisitor, NoInvite, NoMember, NoBook,
    DoorConfs    \* the situations considered, a subset of DoorConf

Persons == {v.id : v \in Visitors}

(* The policy (membership, a welcome grant or none), the devices a member may have,
   the uses of an invite and whether it approves at once.  overlap: other things
   may happen while something is being signed; then no member has too many devices.
   visitors, kinds: who comes, and what admins do.  Bounds: the connections, the
   admins' acts, connections that break, restarts.                          *)
AdminActs == {"mint", "resolve", "invite", "revoke", "approve", "ban", "role"}
DoorConf == [doors : Doors, visitors : SUBSET Visitors, kinds : SUBSET AdminActs,
             membership : {"open", "request", "invite"}, welcome : BOOLEAN, cap : Nat \ {0},
             uses : Nat \ {0}, auto : BOOLEAN, overlap : BOOLEAN,
             acts : Nat, breaks : Nat, restarts : Nat]
ASSUME DoorAssumption ==
    /\ Doors \subseteq Nat /\ DoorConfs \subseteq DoorConf /\ Founder \in Visitors
    /\ \A d \in DoorConfs : d.overlap => d.cap >= d.doors

VARIABLES
    door,        \* the situation, its bounds being used up
    book,        \* the state of the club, which is persisted
    entrance,    \* the connections
    inside,      \* devices: a member's connections, and how many were admitted after each
    ledgerLine,  \* what waits to be written on the ledger; the first is being signed
    granting,    \* the requests whose grant is written, and not yet marked
    inviting     \* the state an invite being signed will be added to

doorVars == <<door, book, entrance, inside, ledgerLine, granting, inviting>>

Member == [key : {v.key : v \in Visitors}, role : {"owner", "admin", "member"},
           status : {"active", "pending", "banned"}, by : Invites \cup {NoInvite}]
ASSUME RosterAssumption ==
    IsFiniteSet(Persons) /\ NoInvite \notin Invites /\ NoMember \notin Member
Founded == [key |-> Founder.key, role |-> "owner", status |-> "active", by |-> NoInvite]
NewBook == [members |-> [m \in Persons |-> IF m = Founder.id THEN Founded ELSE NoMember],
            invites |-> [i \in Invites |-> [issued |-> FALSE, revoked |-> FALSE, uses |-> 0]],
            requests |-> [r \in ChipRequests |-> [who |-> NoMember, status |-> "none"]],
            ledger |-> << >>]
NoEntrance == [phase |-> "off", who |-> NoVisitor, invite |-> NoInvite]

TakesOne(bound) == door[bound] > 0 /\ door' = [door EXCEPT ![bound] = @ - 1]
NothingSigned == door.overlap \/ (ledgerLine = << >> /\ granting = {} /\ inviting = NoBook)
Active(b, m) == b.members[m] # NoMember /\ b.members[m].status = "active"
Administers(m) == Active(book, m) /\ book.members[m].role \in {"owner", "admin"}

-----------------------------------------------------------------------------
(* Connections. *)

DevicesOf(m) == {a.conn : a \in inside[m]}

(* closeConnection, of those that are not closed yet, and detach.           *)
Leave(e, gone) == [c \in Doors |-> IF c \in gone THEN [e[c] EXCEPT !.phase = "closed"] ELSE e[c]]
CloseAll(gone) ==
    LET open == {c \in gone : entrance[c].phase # "closed"}
    IN  /\ entrance' = Leave(entrance, open)
        /\ inside' = [m \in Persons |-> {a \in inside[m] : a.conn \notin open}]

(* handleHello, once the invite's signature is verified: the challenge.     *)
Introduces(c, v, i) ==
    LET known == book.members[v.id]
        unwelcome == IF known = NoMember THEN i = NoInvite /\ door.membership = "invite"
                     ELSE known.key # v.key
    IN  /\ NothingSigned /\ entrance[c].phase = "off" /\ v \in door.visitors /\ c <= door.doors
        /\ \A d \in Doors : d < c => entrance[d].phase # "off"
        /\ i # NoInvite => book.invites[i].issued
        /\ entrance' = [entrance EXCEPT ![c] =
              [who |-> v, invite |-> i, phase |-> IF unwelcome THEN "closed" ELSE "asked"]]
        /\ UNCHANGED <<door, book, inside, ledgerLine, granting, inviting>>

(* The answer arrives; its signature is checked.                            *)
Auth(c) ==
    /\ NothingSigned /\ entrance[c].phase = "asked"
    /\ entrance' = [entrance EXCEPT ![c].phase = "verifying"]
    /\ UNCHANGED <<door, book, inside, ledgerLine, granting, inviting>>

(* The peer goes, or is out of time; the key is not the one that signed.    *)
Disconnects(c) ==
    /\ NothingSigned /\ TakesOne("breaks")
    /\ entrance[c].phase \in {"asked", "verifying", "joining", "in"}
    /\ CloseAll({c})
    /\ UNCHANGED <<book, ledgerLine, granting, inviting>>

(* The member's devices with the new one, without the oldest when there are too
   many.  Whether the connection is still there is not looked at.           *)
Oldest(admitted) == CHOOSE a \in admitted : \A b \in admitted : b.age <= a.age
Admit(c) ==
    LET m == entrance[c].who.id
        now == {[a EXCEPT !.age = @ + 1] : a \in inside[m]} \cup {[conn |-> c, age |-> 0]}
        gone == IF Cardinality(now) > door.cap THEN {Oldest(now)} ELSE {}
        came == [entrance EXCEPT ![c].phase = IF @ = "closed" THEN @ ELSE "in"]
    IN  /\ entrance' = Leave(came, {a.conn : a \in gone})
        /\ inside' = [inside EXCEPT ![m] = now \ gone]

(* consumeInvite and requestJoin: who is refused, and the roster with a newcomer.
   (LastUse, CheckedAtHello: mutations, one use too many and only what hello asks.)  *)
LastUse(i) == LET n == book.invites[i] IN ~n.issued \/ n.revoked \/ n.uses > door.uses
UsedUp(i)  == LET n == book.invites[i] IN ~n.issued \/ n.revoked \/ n.uses >= door.uses
Newcomer(c) == book.members[entrance[c].who.id] = NoMember
CheckedAtHello(c) ==
    /\ Newcomer(c)
    /\ IF entrance[c].invite = NoInvite THEN door.membership = "invite"
       ELSE UsedUp(entrance[c].invite)
Refused(c) ==
    LET v == entrance[c].who  i == entrance[c].invite
    IN  IF ~Newcomer(c) THEN book.members[v.id].key # v.key
        ELSE IF i = NoInvite THEN door.membership = "invite" ELSE UsedUp(i)
Enrolled(c) ==
    LET v == entrance[c].who  i == entrance[c].invite
        approved == IF i = NoInvite THEN door.membership = "open" ELSE door.auto
    IN  [book EXCEPT !.members[v.id] = [key |-> v.key, role |-> "member", by |-> i,
                                        status |-> IF approved THEN "active" ELSE "pending"],
                     !.invites = [j \in Invites |->
                                    [book.invites[j] EXCEPT
                                        !.uses = IF j = i THEN @ + 1 ELSE @]]]

(* append: what is to be written, whom it pays, and the connection that waits. *)
Write(kind, for, payee, c) ==
    ledgerLine' = Append(ledgerLine, [kind |-> kind, for |-> for, payee |-> payee, at |-> c,
                                      base |-> NoBook])

(* handleAuth and joinRoster, when the signature is verified: a newcomer waits for
   its welcome grant.                                                       *)
Verified(c) ==
    /\ NothingSigned /\ entrance[c].phase = "verifying"
    /\ book' = IF Newcomer(c) /\ ~Refused(c) THEN Enrolled(c) ELSE book
    /\ IF Refused(c) \/ ~Active(book', entrance[c].who.id)
       THEN CloseAll({c}) /\ UNCHANGED ledgerLine
       ELSE IF Newcomer(c) /\ door.welcome
       THEN /\ entrance' = [entrance EXCEPT ![c].phase = "joining"]
            /\ Write("welcome", entrance[c].who.id, entrance[c].who.id, c)
            /\ UNCHANGED inside
       ELSE Admit(c) /\ UNCHANGED ledgerLine
    /\ UNCHANGED <<door, granting, inviting>>

(* request-chips: a member's request; whoever is no longer one is sent away. *)
Requesting(c, r) ==
    LET m == entrance[c].who.id
    IN  /\ NothingSigned /\ entrance[c].phase = "in" /\ book.requests[r].status = "none"
        /\ IF Active(book, m)
           THEN /\ book' = [book EXCEPT !.requests[r] = [who |-> m, status |-> "pending"]]
                /\ UNCHANGED <<entrance, inside>>
           ELSE CloseAll({c}) /\ UNCHANGED book
        /\ UNCHANGED <<door, ledgerLine, granting, inviting>>

-----------------------------------------------------------------------------
(* The ledger. *)

EntriesOf(b, kinds) == Cardinality({n \in DOMAIN b.ledger : b.ledger[n].kind \in kinds})
Covered(b) == EntriesOf(b, {"mint"}) > EntriesOf(b, {"welcome", "request"})

(* validateDraft; for a certificate, that it was not minted before.         *)
Valid(job) ==
    CASE job.kind = "mint" -> \A n \in DOMAIN book.ledger :
                                 ~(book.ledger[n].kind = "mint" /\ book.ledger[n].for = job.for)
      [] job.kind # "mint" -> Covered(book) /\ Active(book, job.payee)

(* The first in line is valid and is being signed: the state was read.      *)
Signs ==
    /\ ledgerLine # << >> /\ Head(ledgerLine).base = NoBook /\ Valid(Head(ledgerLine))
    /\ ledgerLine' = [ledgerLine EXCEPT ![1].base = book]
    /\ UNCHANGED <<door, book, entrance, inside, granting, inviting>>

(* It is signed and stored, or was not valid; its caller goes on.  A newcomer is
   let in without the grant of a club that cannot pay.                      *)
Signed ==
    LET job == Head(ledgerLine)
        signed == job.base # NoBook
    IN  /\ ledgerLine # << >> /\ (signed \/ ~Valid(job))
        /\ book' = IF signed
                   THEN [job.base EXCEPT !.ledger =
                                        Append(@, [kind |-> job.kind, for |-> job.for])]
                   ELSE book
        /\ granting' = granting \cup (IF signed /\ job.kind = "request" THEN {job.for} ELSE {})
        /\ IF job.kind = "welcome" THEN Admit(job.at) ELSE UNCHANGED <<entrance, inside>>
        /\ ledgerLine' = Tail(ledgerLine)
        /\ UNCHANGED <<door, inviting>>

-----------------------------------------------------------------------------
(* Admins. *)

Acting(by, kind) == NothingSigned /\ kind \in door.kinds /\ Administers(by) /\ TakesOne("acts")

Mint(by, certificate) ==
    /\ Acting(by, "mint") /\ Write("mint", certificate, NoMember, NoEntrance)
    /\ UNCHANGED <<book, entrance, inside, granting, inviting>>

(* requests.resolve: a request that is granted is marked after the grant.   *)
Resolve(by, r, decision) ==
    /\ Acting(by, "resolve") /\ book.requests[r].status = "pending"
    /\ IF decision = "granted"
       THEN Write("request", r, book.requests[r].who, NoEntrance) /\ UNCHANGED book
       ELSE book' = [book EXCEPT !.requests[r].status = "declined"] /\ UNCHANGED ledgerLine
    /\ UNCHANGED <<entrance, inside, granting, inviting>>
Resolved(r) ==
    /\ r \in granting /\ granting' = granting \ {r}
    /\ book' = [book EXCEPT !.requests[r].status = IF @ = "none" THEN @ ELSE "granted"]
    /\ UNCHANGED <<door, entrance, inside, ledgerLine, inviting>>

(* createInvite: it is added to the state that was read before it was signed.  An
   invite is new: nobody has shown it yet.                                  *)
CreateInvite(by) ==
    /\ Acting(by, "invite") /\ inviting = NoBook /\ inviting' = book
    /\ UNCHANGED <<book, entrance, inside, ledgerLine, granting>>
InviteSigned(i) ==
    /\ inviting # NoBook /\ ~inviting.invites[i].issued /\ ~book.invites[i].issued
    /\ \A c \in Doors : entrance[c].invite # i
    /\ book' = [inviting EXCEPT !.invites[i].issued = TRUE] /\ inviting' = NoBook
    /\ UNCHANGED <<door, entrance, inside, ledgerLine, granting>>
RevokeInvite(by, i) ==
    /\ Acting(by, "revoke") /\ book.invites[i].issued
    /\ book' = [book EXCEPT !.invites[i].revoked = TRUE]
    /\ UNCHANGED <<entrance, inside, ledgerLine, granting, inviting>>

Approve(by, m) ==
    /\ Acting(by, "approve") /\ book.members[m] # NoMember /\ ~Active(book, m)
    /\ book' = [book EXCEPT !.members[m].status = "active"]
    /\ UNCHANGED <<entrance, inside, ledgerLine, granting, inviting>>

(* banMember: not the owner, and an admin only by the owner; its devices go. *)
MayBan(by, m) == /\ book.members[m] # NoMember /\ book.members[m].role # "owner"
                 /\ book.members[m].role = "admin" => book.members[by].role = "owner"
Ban(by, m) ==
    /\ Acting(by, "ban") /\ MayBan(by, m)
    /\ book' = [book EXCEPT !.members[m].status = "banned"]
    /\ CloseAll(DevicesOf(m))
    /\ UNCHANGED <<ledgerLine, granting, inviting>>

(* setRole: ownership is handed over by the owner only, who becomes an admin.  *)
SetRole(by, m, role) ==
    LET own == book.members[by].role = "owner"  old == book.members[m].role
    IN  /\ Acting(by, "role") /\ book.members[m] # NoMember /\ role # old
        /\ role = "owner" => own
        /\ old # "owner" /\ (old = "admin" => own)
        /\ book' = IF role = "owner"
                   THEN [book EXCEPT !.members[m].role = "owner", !.members[by].role = "admin"]
                   ELSE [book EXCEPT !.members[m].role = role]
        /\ UNCHANGED <<entrance, inside, ledgerLine, granting, inviting>>

(* The process stops, and another starts with what was persisted.           *)
Restarts ==
    /\ NothingSigned /\ TakesOne("restarts")
    /\ entrance' = Leave(entrance, {c \in Doors : entrance[c].phase # "off"})
    /\ inside' = [m \in Persons |-> {}]
    /\ ledgerLine' = << >> /\ granting' = {} /\ inviting' = NoBook
    /\ UNCHANGED book

-----------------------------------------------------------------------------
DoorInit ==
    /\ door \in DoorConfs /\ book = NewBook
    /\ entrance = [c \in Doors |-> NoEntrance] /\ inside = [m \in Persons |-> {}]
    /\ ledgerLine = << >> /\ granting = {} /\ inviting = NoBook

DoorNext ==
    \/ \E c \in Doors :
          \/ \E v \in Visitors, i \in Invites \cup {NoInvite} : Introduces(c, v, i)
          \/ Auth(c) \/ Disconnects(c) \/ Verified(c) \/ \E r \in ChipRequests : Requesting(c, r)
    \/ Signs \/ Signed \/ Restarts
    \/ \E r \in ChipRequests : Resolved(r)
    \/ \E i \in Invites : InviteSigned(i)
    \/ \E by \in Persons :
          \/ CreateInvite(by)
          \/ \E x \in Certificates : Mint(by, x)
          \/ \E r \in ChipRequests, d \in {"granted", "declined"} : Resolve(by, r, d)
          \/ \E i \in Invites : RevokeInvite(by, i)
          \/ \E m \in Persons : Approve(by, m) \/ Ban(by, m)
          \/ \E m \in Persons, role \in {"owner", "admin", "member"} : SetRole(by, m, role)

DoorSpec == DoorInit /\ [][DoorNext]_doorVars

-----------------------------------------------------------------------------
(* Properties. *)

DoorTypeOK ==
    /\ \A m \in Persons : book.members[m] \in Member \cup {NoMember}
    /\ \A m \in Persons : DevicesOf(m) \subseteq Doors
    /\ \A c \in Doors : entrance[c].phase \in
                           {"off", "asked", "verifying", "joining", "in", "closed"}

(* Writers store what they read before a signature, and lose what others wrote
   meanwhile; what is stored is legal nevertheless: the club has one owner, a
   certificate is minted once ("certificate-used"), "grants and adjustments cannot
   overdraw" the reserve, and an invite has as many members as uses, and no more
   than it allows.  Nobody is welcomed twice, when nothing happens during a
   signature: a newcomer whom a writer has lost is a newcomer again.        *)
BooksLegal ==
    /\ Cardinality({m \in Persons :
                       book.members[m] # NoMember /\ book.members[m].role = "owner"}) = 1
    /\ \A n, k \in DOMAIN book.ledger :
          (/\ book.ledger[n] = book.ledger[k]
           /\ book.ledger[n].kind \in (IF door.overlap THEN {"mint"} ELSE {"mint", "welcome"}))
              => n = k
    /\ EntriesOf(book, {"welcome", "request"}) <= EntriesOf(book, {"mint"})
    /\ \A i \in Invites :
          LET guests == {m \in Persons : book.members[m] # NoMember /\ book.members[m].by = i}
          IN  Cardinality(guests) = book.invites[i].uses /\ book.invites[i].uses <= door.uses

(* When nothing happens while something is being signed: a member's devices are
   the open connections it was admitted on, no more than allowed, each of which
   proved the key the roster has for it, and a banned member has none; and a
   request is paid once, if it is granted.                                  *)
DoorKept ==
    /\ \A c \in Doors : entrance[c].phase = "in" => c \in DevicesOf(entrance[c].who.id)
    /\ ~door.overlap =>
        /\ \A m \in Persons :
              /\ Cardinality(inside[m]) <= door.cap
              /\ \A c \in DevicesOf(m) :
                    /\ entrance[c].phase = "in" /\ entrance[c].who.id = m
                    /\ Active(book, m) /\ book.members[m].key = entrance[c].who.key
        /\ NothingSigned => \A r \in ChipRequests :
              Cardinality({n \in DOMAIN book.ledger :
                             book.ledger[n] = [kind |-> "request", for |-> r]})
                 = IF book.requests[r].status = "granted" THEN 1 ELSE 0
=============================================================================
