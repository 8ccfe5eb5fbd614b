------------------------------- MODULE Grants -------------------------------
(***************************************************************************)
(* Devices that act for a player: apps/web/src/session pairing, grants and   *)
(* revocations, packages/wallet, and the published list of signed-out devices. *)
(* A device that holds the player's own key (a root) vouches for others: it  *)
(* gives each a grant with a serial and an end, renews it when they meet, and  *)
(* signs a device out by no longer renewing its grant and by publishing its  *)
(* serial on a list that tables read.  Every pairing is made with a fresh key, *)
(* so a device is its key.                                                 *)
(*                                                                         *)
(* Days are counted in tens, moments are the order of what Date.now() tells  *)
(* apart: sign-outs, signatures and publications.                          *)
(***************************************************************************)
EXTENDS Integers, FiniteSets, FiniteSetsExt

CONSTANTS
    Roots,          \* devices that hold the player's own key
    Paired,         \* keys of the devices to be paired
    NoRoot,
    Publishers,     \* publications that may be under way
    GrantConfs      \* the situations considered, a subset of GrantConf

(* roots: the player's own devices, of which hosts pair others; keys: the devices
   they pair.  overlap: two pairings, renewals or publications may be under way
   at once, and what they read may change meanwhile.  Bounds: devices signed out;
   times the settings are opened; requests that fail; connections left; days. *)
GrantConf == [roots : SUBSET Roots, hosts : SUBSET Roots, keys : SUBSET Paired, overlap : BOOLEAN,
              outs : Nat, opens : Nat, fails : Nat, leaves : Nat, days : Nat]
ASSUME GrantAssumption ==
    /\ GrantConfs \subseteq GrantConf /\ \A d \in GrantConfs : d.hosts \subseteq d.roots
    /\ NoRoot \notin Roots /\ IsFiniteSet(Roots)

Lasts == 3          \* DEVICE_GRANT_MS
RenewWithin == 2    \* RENEW_WITHIN_MS

VARIABLES
    vouch,      \* the situation, its bounds being used up
    day, moment,
    listed,     \* record.devices of a root
    published,  \* record.revocationsPublishedAt of a root
    pairing,    \* the pairing of a device
    held,       \* the grant a device holds
    renewing,   \* the renewal of a device's grant under way
    pubs,       \* the publications under way
    revoked,    \* the list at /api/revocations
    cached,     \* what a root last read of it, while that is fresh
    signedOut   \* history: the sign-outs, with the date the person was told

grantVars == <<vouch, day, moment, listed, published, pairing, held, renewing, pubs, revoked,
               cached, signedOut>>

NoGrant == [serial |-> 0, expires |-> 0]
NoPairing == [root |-> NoRoot, phase |-> "none", serial |-> 0, at |-> 0]
NoRenewal == [root |-> NoRoot, pc |-> "idle", at |-> 0, known |-> FALSE]
NoPub == [root |-> NoRoot, pc |-> "idle", serials |-> {}, at |-> 0]
NoList == [serials |-> {}, at |-> 0]
Unread == [serials |-> {}, at |-> -1]

Uses(bound) == vouch[bound] > 0 /\ vouch' = [vouch EXCEPT ![bound] = @ - 1]
Entry(r, serial) == {e \in listed[r] : e.serial = serial}
RevokedAt(r) == {e.at : e \in {d \in listed[r] : d.at # 0}}

(* Nothing is under way at a root, or several things may be.                *)
AtRest(r) ==
    \/ vouch.overlap
    \/ /\ \A k \in Paired : /\ renewing[k].root # r
                            /\ pairing[k].root = r => pairing[k].phase \notin {"answering", "left"}
       /\ \A i \in Publishers : pubs[i].root # r

-----------------------------------------------------------------------------
(* profiles.ts: the devices a root has paired. *)

NextSerial(r) == Max({e.serial : e \in listed[r]} \cup {0}) + 1
RecordPaired(r, serial, key, expires) ==
    listed' = [listed EXCEPT ![r] =
        (@ \ Entry(r, serial))
            \cup {[serial |-> serial, key |-> key, expires |-> expires, at |-> 0]}]
MarkRevoked(r, serial) ==
    listed' = [listed EXCEPT ![r] =
        {IF e.serial = serial THEN [e EXCEPT !.at = moment'] ELSE e : e \in @}]
SignedOutAt(r) == {e.serial : e \in {d \in listed[r] : d.at # 0}}
Unpublished(r) == \E at \in RevokedAt(r) : at > published[r]

(* verifyGrant and verifyDelegated, for a table that read the list, or could not
   (NoList).                                                                *)
Authorized(k, list) ==
    /\ held[k] # NoGrant
    /\ day < held[k].expires
    /\ held[k].serial \notin list.serials

-----------------------------------------------------------------------------
(* Pairing. *)

(* joinPairing on the code a root shows: connected, and its request sent.   *)
Requests(k, r) ==
    /\ pairing[k].phase = "none" /\ k \in vouch.keys /\ r \in vouch.hosts
    /\ pairing' = [pairing EXCEPT ![k] = [NoPairing EXCEPT !.root = r, !.phase = "asked"]]
    /\ UNCHANGED <<vouch, day, moment, listed, published, held, renewing, pubs, revoked,
                   cached, signedOut>>

(* The person approves: the serial is chosen before the grant is signed.    *)
Approves(k) ==
    /\ pairing[k].phase = "asked" /\ AtRest(pairing[k].root)
    /\ pairing' = [pairing EXCEPT ![k].phase = "answering", ![k].at = day,
                                  ![k].serial = NextSerial(pairing[k].root)]
    /\ UNCHANGED <<vouch, day, moment, listed, published, held, renewing, pubs, revoked,
                   cached, signedOut>>

(* The grant is signed: the device is listed, and told if it is still there. *)
Granted(k) ==
    LET p == pairing[k]
    IN  /\ p.phase \in {"answering", "left"} /\ p.serial # 0
        /\ RecordPaired(p.root, p.serial, k, p.at + Lasts)
        /\ pairing' = [pairing EXCEPT ![k].phase = IF p.phase = "left" THEN "failed" ELSE "sent"]
        /\ UNCHANGED <<vouch, day, moment, published, held, renewing, pubs, revoked, cached,
                       signedOut>>

(* The device checks the grant and becomes the player.                      *)
Accepts(k) ==
    LET p == pairing[k]
    IN  /\ p.phase = "sent"
        /\ IF day < p.at + Lasts
           THEN /\ held' = [held EXCEPT ![k] = [serial |-> p.serial, expires |-> p.at + Lasts]]
                /\ pairing' = [pairing EXCEPT ![k].phase = "paired"]
           ELSE pairing' = [pairing EXCEPT ![k].phase = "failed"] /\ UNCHANGED held
        /\ UNCHANGED <<vouch, day, moment, listed, published, renewing, pubs, revoked, cached,
                       signedOut>>

(* Either side leaves: declined, cancelled, the offer closed or run out.     *)
Withdraws(k) ==
    /\ pairing[k].phase \in {"asked", "answering", "sent"} /\ Uses("leaves")
    /\ pairing' = [pairing EXCEPT ![k].phase = IF @ = "answering" THEN "left" ELSE "failed"]
    /\ UNCHANGED <<day, moment, listed, published, held, renewing, pubs, revoked, cached,
                   signedOut>>

-----------------------------------------------------------------------------
(* The list of signed-out devices, functions/api/revocations. *)

(* A list revokes what the stored one does, and is not older.               *)
StillRevokes(next, old) == next.at >= old.at /\ old.serials \subseteq next.serials

(* lookupRevocation: what was read within 30 seconds, or what the site says. *)
Reads(r) == IF cached[r] # Unread THEN cached[r] ELSE revoked
Ages(r) ==
    /\ cached[r] # Unread
    /\ cached' = [cached EXCEPT ![r] = Unread]
    /\ UNCHANGED <<vouch, day, moment, listed, published, pairing, held, renewing, pubs,
                   revoked, signedOut>>

(* publishRevocations starts from what is signed out here, and not from what was
   read of the list before.                                                 *)
Publishes(r, i, serials) ==
    /\ pubs[i].pc = "idle"
    /\ pubs' = [pubs EXCEPT ![i] = [root |-> r, pc |-> "looking", serials |-> serials, at |-> 0]]
    /\ cached' = [cached EXCEPT ![r] = Unread]

(* signOutDevice: marked here, then published.  The settings list the devices
   that are not signed out and say by when this one stops.                  *)
SignsOut(r, e) ==
    /\ r \in vouch.roots /\ e.at = 0 /\ AtRest(r) /\ Uses("outs")
    /\ moment' = moment + 1
    /\ MarkRevoked(r, e.serial)
    /\ signedOut' = signedOut \cup
                       {[key |-> e.key, serial |-> e.serial, root |-> r, by |-> e.expires]}
    /\ \E i \in Publishers : Publishes(r, i, SignedOutAt(r) \cup {e.serial})
    /\ UNCHANGED <<day, published, pairing, held, renewing, revoked>>

(* The settings are opened: what could not be published is published again. *)
CatchesUp(r) ==
    /\ r \in vouch.roots /\ Unpublished(r) /\ AtRest(r) /\ Uses("opens")
    /\ \E i \in Publishers : Publishes(r, i, SignedOutAt(r))
    /\ UNCHANGED <<day, moment, listed, published, pairing, held, renewing, revoked, signedOut>>

(* The list as it is, with what is signed out here, is signed.              *)
Looks(i) ==
    LET p == pubs[i]
    IN  /\ p.pc = "looking"
        /\ moment' = moment + 1
        /\ cached' = [cached EXCEPT ![p.root] = Reads(p.root)]
        /\ pubs' = [pubs EXCEPT ![i].pc = "putting", ![i].at = moment',
                                ![i].serials = @ \cup Reads(p.root).serials]
        /\ UNCHANGED <<vouch, day, listed, published, pairing, held, renewing, revoked,
                       signedOut>>

(* onRequestPut: a list must revoke what the stored one does; then it is stored. *)
Checks(i) ==
    LET p == pubs[i]
    IN  /\ p.pc = "putting"
        /\ \/ vouch.overlap \/ \A j \in Publishers : pubs[j].pc # "storing"
        /\ pubs' = [pubs EXCEPT ![i] =
              IF StillRevokes([serials |-> p.serials, at |-> p.at], revoked)
              THEN [p EXCEPT !.pc = "storing"] ELSE NoPub]
        /\ UNCHANGED <<vouch, day, moment, listed, published, pairing, held, renewing, revoked,
                       cached, signedOut>>
Stores(i) ==
    /\ pubs[i].pc = "storing"
    /\ revoked' = [serials |-> pubs[i].serials, at |-> pubs[i].at]
    /\ pubs' = [pubs EXCEPT ![i].pc = "stored"]
    /\ UNCHANGED <<vouch, day, moment, listed, published, pairing, held, renewing, cached,
                   signedOut>>

(* The answer: from now on, nothing signed out so far waits to be published. *)
PublicationEnds(i) ==
    /\ pubs[i].pc = "stored"
    /\ moment' = moment + 1
    /\ published' = [published EXCEPT ![pubs[i].root] = moment']
    /\ cached' = [cached EXCEPT ![pubs[i].root] = Unread]
    /\ pubs' = [pubs EXCEPT ![i] = NoPub]
    /\ UNCHANGED <<vouch, day, listed, pairing, held, renewing, revoked, signedOut>>

(* Mutation: marked as published whatever the answer was. *)
FailureMarked(i) ==
    /\ pubs[i].pc \in {"looking", "putting", "stored"} /\ Uses("fails")
    /\ moment' = moment + 1
    /\ published' = [published EXCEPT ![pubs[i].root] = moment']
    /\ pubs' = [pubs EXCEPT ![i] = NoPub]
    /\ UNCHANGED <<day, listed, pairing, held, renewing, revoked, cached, signedOut>>

(* A request fails, or its answer is lost.                                  *)
PublicationFails(i) ==
    /\ pubs[i].pc \in {"looking", "putting", "stored"} /\ Uses("fails")
    /\ pubs' = [pubs EXCEPT ![i] = NoPub]
    /\ UNCHANGED <<day, moment, listed, published, pairing, held, renewing, revoked, cached,
                   signedOut>>

-----------------------------------------------------------------------------
(* Renewal, when a paired device and a root meet. *)

(* renewGrant looks at what is known here before it reads the list (as SoonOver, it
   would not: a mutation).                                                  *)
SoonOver(k, r) == held[k].expires - day <= RenewWithin
Renewable(k, r) == /\ SoonOver(k, r)
                   /\ \A e \in Entry(r, held[k].serial) : e.at = 0 /\ e.key = k
Shows(k, r) ==
    /\ renewing[k].pc = "idle" /\ r \in vouch.roots /\ AtRest(r)
    /\ held[k] # NoGrant /\ Renewable(k, r)
    /\ renewing' = [renewing EXCEPT ![k] = [root |-> r, pc |-> "looking", at |-> day,
                                           known |-> Entry(r, held[k].serial) # {}]]
    /\ UNCHANGED <<vouch, day, moment, listed, published, pairing, held, pubs, revoked, cached,
                   signedOut>>

(* The list is read: one that names the serial is learned from; without it, only
   a device that was known when this began is renewed.                      *)
Learns(k) ==
    LET w == renewing[k]  list == Reads(w.root)
    IN  /\ w.pc = "looking"
        /\ \/ /\ cached' = [cached EXCEPT ![w.root] = list]
              /\ IF held[k].serial \in list.serials
                 THEN /\ IF w.known
                         THEN moment' = moment + 1 /\ MarkRevoked(w.root, held[k].serial)
                         ELSE UNCHANGED <<moment, listed>>
                      /\ renewing' = [renewing EXCEPT ![k] = NoRenewal]
                 ELSE renewing' = [renewing EXCEPT ![k].pc = "signing"] /\ UNCHANGED <<moment,
                                                                                       listed>>
              /\ UNCHANGED vouch
           \/ /\ cached[w.root] = Unread /\ Uses("fails")
              /\ renewing' = [renewing EXCEPT ![k] =
                    IF w.known THEN [w EXCEPT !.pc = "signing"] ELSE NoRenewal]
              /\ UNCHANGED <<cached, moment, listed>>
        /\ UNCHANGED <<day, published, pairing, held, pubs, revoked, signedOut>>

(* The fresh grant is recorded and sent; acceptGrant takes one that lasts longer. *)
Renews(k) ==
    LET w == renewing[k]  until == w.at + Lasts
    IN  /\ w.pc = "signing"
        /\ RecordPaired(w.root, held[k].serial, k, until)
        /\ renewing' = [renewing EXCEPT ![k] = NoRenewal]
        /\ \/ /\ day < until /\ until > held[k].expires
              /\ held' = [held EXCEPT ![k].expires = until] /\ UNCHANGED vouch
           \/ /\ IF day < until /\ until > held[k].expires THEN Uses("leaves") ELSE UNCHANGED vouch
              /\ UNCHANGED held
        /\ UNCHANGED <<day, moment, published, pairing, pubs, revoked, cached, signedOut>>

DayPasses ==
    /\ Uses("days") /\ day' = day + 1
    /\ cached' = [r \in Roots |-> Unread]
    /\ UNCHANGED <<moment, listed, published, pairing, held, renewing, pubs, revoked, signedOut>>

-----------------------------------------------------------------------------
GrantInit ==
    /\ vouch \in GrantConfs
    /\ day = 0 /\ moment = 0 /\ revoked = NoList /\ signedOut = {}
    /\ listed = [r \in Roots |-> {}] /\ published = [r \in Roots |-> 0]
    /\ pairing = [k \in Paired |-> NoPairing] /\ held = [k \in Paired |-> NoGrant]
    /\ renewing = [k \in Paired |-> NoRenewal]
    /\ pubs = [i \in Publishers |-> NoPub] /\ cached = [r \in Roots |-> Unread]

GrantNext ==
    \/ \E k \in Paired :
          \/ \E r \in Roots : Requests(k, r) \/ Shows(k, r)
          \/ Approves(k) \/ Granted(k) \/ Accepts(k) \/ Withdraws(k)
          \/ Learns(k) \/ Renews(k)
    \/ \E r \in Roots : Ages(r) \/ CatchesUp(r) \/ \E e \in listed[r] : SignsOut(r, e)
    \/ \E i \in Publishers :
          Looks(i) \/ Checks(i) \/ Stores(i) \/ PublicationEnds(i) \/ PublicationFails(i)
    \/ DayPasses

GrantSpec == GrantInit /\ [][GrantNext]_grantVars

-----------------------------------------------------------------------------
(* Properties. *)

GrantTypeOK ==
    /\ \A r \in Roots : \A e \in listed[r] : e.serial > 0 /\ e.key \in Paired /\ e.at <= moment
    /\ \A k \in Paired : held[k].serial > 0 <=> held[k] # NoGrant
    /\ \A i \in Publishers : pubs[i].at <= moment

(* "Publishing again later catches up" (revocations.ts): when the settings find
   nothing left to publish, everything signed out here is on the list.      *)
CaughtUp ==
    ~vouch.overlap => \A r \in vouch.roots :
        Unpublished(r) \/ SignedOutAt(r) \subseteq revoked.serials

(* "It stops working by {date} regardless" (SettingsScreen.tsx): a device signed
   out by the player's one root is let in nowhere from the day the person was told,
   whatever became of the list; and every device that holds a grant is listed with
   its serial, so that it can be signed out.  Not kept with two roots, which do not
   know of each other's devices, nor when a renewal or a second pairing overlaps. *)
StopsByDate ==
    ~vouch.overlap /\ Cardinality(vouch.roots) = 1 =>
        /\ \A o \in signedOut : day >= o.by => ~Authorized(o.key, NoList)
        /\ \A k \in Paired : held[k] # NoGrant =>
              \E e \in Entry(pairing[k].root, held[k].serial) :
                  e.key = k /\ held[k].expires <= e.expires
=============================================================================
