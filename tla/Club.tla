------------------------------- MODULE Club -------------------------------
(***************************************************************************)
(* A club's books: packages/club/src/ClubServer.ts with domain/ledger.ts,  *)
(* domain/commitments.ts and domain/idempotency.ts.                        *)
(*                                                                         *)
(* The state is copied on write.  A ledger entry is signed before it is    *)
(* stored, and signing is an await: what is stored then is the state read  *)
(* before, plus the entry.  "serialised" queues the calls that append; not *)
(* everything that writes the state goes through it.  A call may be        *)
(* retried with its operation id, and the process may die between writes,  *)
(* each of which is persisted at once.                                     *)
(***************************************************************************)
EXTENDS Integers, Sequences, FiniteSets, FiniteSetsExt

CONSTANTS
    Members,
    House,       \* the account of the club itself
    Tables,
    Calls,       \* slots for the calls made, each used once
    Requests,    \* what may be called: see Request
    Confs,       \* club configurations considered
    Opening,     \* chips of each member when the club is opened
    Reserve,     \* chips of the house
    Staked0,     \* the stake of everybody who sits when it is opened
    RakeBps,     \* PLATFORM_MIN_RAKE_BPS, in basis points
    MaxCrashes,  \* bound: times the process dies
    MaxTicks     \* bound: commitments that pass a deadline

Accounts == {House} \cup Members \cup (Tables \X Members)

(* What a call is about; id is its operation id, which the operations that go
   through mutate need, and 0 for the others.  A hand's transfers are between
   two players.                                                             *)
Request == [op : {"sit", "leave", "settle", "transfer", "result", "grant", "lobby",
                  "invite"},
            who : Members, to : Members, table : Tables, amount : Nat, rake : Nat, id : Nat]

(* mode: when chips move; transfers: members may pay each other; admins: bans
   and invites happen; clock: stakes expire and are pruned; dies: the process
   may die; sat: the club is opened on a stored state in which everybody sits;
   calls: bound on the calls made in it.                                    *)
Conf == [calls : Nat, mode : {"immediate", "deferred"}, transfers : BOOLEAN, admins : BOOLEAN,
         clock : BOOLEAN, dies : BOOLEAN, sat : BOOLEAN]

ASSUME RequestsAssumption ==
    /\ Requests \subseteq Request /\ Confs \subseteq Conf
    /\ \A r \in Requests : r.id # 0 <=> r.op \in {"sit", "leave", "settle", "transfer"}
    /\ \A r \in Requests : r.op = "result" => r.who # r.to
ASSUME FiniteAssumption == IsFiniteSet(Members) /\ IsFiniteSet(Tables)
ASSUME AccountsAssumption ==
    /\ House \notin Members \cup (Tables \X Members)
    /\ Members \cap (Tables \X Members) = {}
ASSUME AmountsAssumption == /\ Opening \in Nat /\ Reserve \in Nat /\ Staked0 \in Nat
                            /\ RakeBps \in Nat /\ MaxCrashes \in Nat /\ MaxTicks \in Nat
(* A deferred club is opened on a state that seatMember let come about: whoever
   sits has the chips of every stake.                                       *)
ASSUME OpeningAssumption ==
    \A f \in Confs : f.sat /\ f.mode = "deferred" => Staked0 * Cardinality(Tables) <= Opening

VARIABLES
    conf,
    club,      \* this.state, and what persist was last given
    call,      \* every call: how far it is, and its locals
    line,      \* ledgerChain: the calls that wait for it; the first one runs
    late,      \* nonces of commitments whose expiresAt has passed
    aged,      \* nonces of commitments closed more than keepMs ago
    issued,    \* commitments issued: nonces are 1..issued
    crashes

vars == <<conf, club, call, line, late, aged, issued, crashes>>

-----------------------------------------------------------------------------
(* The club's state. *)

Fates == {"open", "settled", "left", "expired"}
Stake == [nonce : Nat, who : Members, table : Tables, amount : Nat, id : Nat, fate : Fates]

(* Who appended an entry, for which operation, settling which commitments, and
   whether its call appends nothing after it.                               *)
Kinds == {"buy-in", "cash-out", "result", "burn", "transfer", "grant"}
Entry == [kind : Kinds, by : Calls, id : Nat, nonces : SUBSET Nat, last : BOOLEAN]

(* bal: balances(ledger); ops: the operations remembered, with their
   arguments.                                                               *)
Op        == [id : Nat, args : Request, nonces : SUBSET Nat]
ClubState == [ledger : Seq(Entry), bal : [Accounts -> Nat], stakes : SUBSET Stake,
              ops : SUBSET Op, banned : SUBSET Members, invites : Nat]

Deferred == conf.mode = "deferred"

(* The commitments of a member at a table.                                  *)
Stakes(m, t) == {s \in club.stakes : s.who = m /\ s.table = t}

Stack(base, t, m) == base.bal[<<t, m>>]

(* closeCommitments: only those still open.                                 *)
Close(base, nonces, fate) ==
    [base EXCEPT !.stakes =
        {IF s.nonce \in nonces /\ s.fate = "open" THEN [s EXCEPT !.fate = fate] ELSE s :
            s \in base.stakes}]

(* Mutation: every closed commitment is forgotten at once. *)
PruneAll(base) ==
    [base EXCEPT !.stakes = {s \in base.stakes : s.fate = "open"}]

(* pruneCommitments *)
Prune(base) ==
    [base EXCEPT !.stakes = {s \in base.stakes : s.fate = "open" \/ s.nonce \notin aged}]

(* encumbered: what live commitments have promised of a balance.            *)
Encumbered(base, m) ==
    MapThenSumSet(LAMBDA s : s.amount,
                  {s \in base.stakes : s.who = m /\ s.fate = "open" /\ s.nonce \notin late})

(* Mutation: stakes at other tables do not count. *)
BalanceOf(base, m) == base.bal[m]

(* What seatMember lets a member stake.                                     *)
Available(base, m) == base.bal[m] - IF Deferred THEN Encumbered(base, m) ELSE 0

(* A draft moves chips between accounts, or (a burn) takes them from one.    *)
Draft == [kind : Kinds, lines : [Accounts -> Int]]
Pay(kind, from, to, amount) ==
    [kind |-> kind, lines |-> [a \in Accounts |-> (IF a = to THEN amount ELSE 0)
                                                  - (IF a = from THEN amount ELSE 0)]]
Burn(from, amount) ==
    [kind |-> "burn", lines |-> [a \in Accounts |-> IF a = from THEN -amount ELSE 0]]

(* validateDraft, for the kinds that are drafted here.                      *)
Valid(draft, base) ==
    \A a \in Accounts : draft.lines[a] # 0 =>
        /\ base.bal[a] + draft.lines[a] >= 0
        /\ a \notin base.banned

(* appendEntry, for the first of the drafts a call has left.                *)
Entered(base, todo, c) ==
    [base EXCEPT
        !.ledger = Append(@, [kind |-> Head(todo).kind, by |-> c,
                              last |-> Tail(todo) = << >>, nonces |-> call[c].nonces,
                              id |-> IF call[c].reclaim = {} THEN call[c].req.id ELSE 0]),
        !.bal = [a \in Accounts |-> @[a] + Head(todo).lines[a]]]

OpOf(c) == [id |-> call[c].req.id, args |-> call[c].req, nonces |-> call[c].nonces]

(* recordOp *)
RecordOp(base, c) == [base EXCEPT !.ops = @ \cup {OpOf(c)}]

-----------------------------------------------------------------------------
(* Calls. *)

(* new: not made yet; reclaiming: in tables.leave for an expired stake;
   standing: in tables.leave; queued: waits for the ledger; seating: in
   tables.sit; signing: an entry is being signed; staking: a commitment is;
   unseating: in tables.leave after a refused buy-in; inviting: an invite is
   being signed; lost: the process died.                                    *)
PCs == {"new", "reclaiming", "standing", "queued", "seating", "signing", "staking",
        "unseating", "inviting", "ok", "failed", "lost"}

Ended == {"new", "ok", "failed", "lost"}

NoRequest == [op |-> "none"]
NoState   == [ledger |-> << >>]
NewCall   == [pc |-> "new", req |-> NoRequest, nonces |-> {}, todo |-> << >>,
              reclaim |-> {}, next |-> NoState]

At(c, pc) == call[c].pc = pc

(* Mutation: calls do not wait for each other. *)
AnyTurn(c) == \E i \in DOMAIN line : line[i] = c

Turn(c) == line # << >> /\ Head(line) = c

Goes(c, pc) == call' = [call EXCEPT ![c].pc = pc]

(* The call is answered, and the ledger goes to the next in line.           *)
Answer(c, pc) ==
    /\ call' = [call EXCEPT ![c] = [NewCall EXCEPT !.pc = pc]]
    /\ line' = Tail(line)

(* The stake that expired stakes are reclaimed from first: they are issued, and
   kept, in the order of their nonces.                                      *)
Oldest(stakes) == CHOOSE s \in stakes : \A r \in stakes : s.nonce <= r.nonce
Rest(c)        == call[c].reclaim \ {Oldest(call[c].reclaim)}

(* reclaimExpired, after one stake: the next one, or what the call is about.  *)
Reclaims(c, rest, others) ==
    LET sits == rest = {} /\ call[c].req.op = "sit"
        pc   == CASE rest # {} -> "reclaiming" [] sits -> "queued" [] OTHER -> "ok"
    IN  /\ call' = [call EXCEPT ![c] =
                       IF pc = "ok" THEN [NewCall EXCEPT !.pc = "ok"]
                       ELSE [@ EXCEPT !.pc = pc, !.reclaim = rest, !.todo = << >>,
                                      !.next = NoState]]
        /\ line' = IF sits THEN Append(others, c) ELSE others

-----------------------------------------------------------------------------
(* A call that holds the ledger goes on until the next await. *)

(* What a mutation does once its entries are in.                            *)
Finished(c, base) ==
    CASE call[c].req.op = "settle"
           -> RecordOp(Prune(Close(base, call[c].nonces, "settled")), c)
      [] call[c].req.op \in {"leave", "transfer"} -> RecordOp(base, c)
      [] OTHER                                    -> base

(* A refused entry: a failed cash-out of a reclaimed stake is ignored, a
   refused buy-in gives the seat back, anything else fails the call.         *)
Refused(c) ==
    \/ call[c].reclaim # {} /\ Reclaims(c, Rest(c), Tail(line))
    \/ call[c].reclaim = {} /\ call[c].req.op = "sit" /\ Goes(c, "unseating")
         /\ UNCHANGED line
    \/ call[c].reclaim = {} /\ call[c].req.op # "sit" /\ Answer(c, "failed")

Completed(c, base) ==
    \/ /\ call[c].reclaim # {}
       /\ club' = base
       /\ Reclaims(c, Rest(c), Tail(line))
    \/ /\ call[c].reclaim = {} /\ call[c].req.op = "sit"
       /\ club' = base
       /\ Goes(c, "staking") /\ UNCHANGED line
    \/ /\ call[c].reclaim = {} /\ call[c].req.op # "sit"
       /\ club' = Finished(c, base)
       /\ Answer(c, "ok")

(* appendNow for the first draft left to do: it is checked against the state
   of now, and what will be stored is that state with the entry.            *)
Proceed(c, base, todo) ==
    \/ /\ todo # << >> /\ Valid(Head(todo), base)
       /\ club' = base
       /\ call' = [call EXCEPT ![c] = [@ EXCEPT !.pc = "signing", !.todo = Tail(todo),
                                                !.next = Entered(base, todo, c)]]
       /\ UNCHANGED line
    \/ /\ todo # << >> /\ ~Valid(Head(todo), base)
       /\ club' = base
       /\ Refused(c)
    \/ todo = << >> /\ Completed(c, base)

frame == <<conf, late, aged, crashes>>

(* The signature is there: the state with the entry replaces whatever the
   state is by now, and the call goes on.                                   *)
Signed(c) ==
    /\ At(c, "signing")
    /\ Proceed(c, call[c].next, call[c].todo)
    /\ UNCHANGED issued /\ UNCHANGED frame

-----------------------------------------------------------------------------
(* The ledger's turn comes. *)

Ready(c) == Turn(c) /\ At(c, "queued")

(* The seat stack, read now, as a draft.                                    *)
CashOut(base, t, m) ==
    IF Stack(base, t, m) > 0 THEN <<Pay("cash-out", <<t, m>>, m, Stack(base, t, m))>>
                             ELSE << >>

(* cashOut for a reclaimed stake.                                           *)
EnterReclaim(c) ==
    /\ Ready(c) /\ call[c].reclaim # {}
    /\ LET stake == Oldest(call[c].reclaim)
       IN Proceed(c, club, CashOut(club, stake.table, stake.who))
    /\ UNCHANGED issued /\ UNCHANGED frame

(* Mutation: no operation is remembered. *)
KnownNever(c) == FALSE

(* replayOf *)
Known(c) == \E o \in club.ops : o.id = call[c].req.id

(* mutate: an operation done already is answered as before, or is a conflict. *)
Replayed(c) ==
    /\ Ready(c) /\ call[c].reclaim = {} /\ Known(c)
    /\ Answer(c, IF OpOf(c) \in club.ops THEN "ok" ELSE "failed")
    /\ UNCHANGED <<club, issued>> /\ UNCHANGED frame

Enters(c, op) ==
    /\ Ready(c) /\ call[c].reclaim = {} /\ ~Known(c) /\ call[c].req.op = op
    /\ UNCHANGED issued /\ UNCHANGED frame

(* seatMember up to tables.sit.                                             *)
EnterSit(c) ==
    /\ Enters(c, "sit")
    /\ LET r == call[c].req
       IN IF Available(club, r.who) < r.amount THEN Answer(c, "failed")
                                               ELSE Goes(c, "seating") /\ UNCHANGED line
    /\ UNCHANGED club

(* leave, holding the ledger.                                               *)
EnterLeave(c) ==
    /\ Enters(c, "leave")
    /\ LET r    == call[c].req
           mine == {s.nonce : s \in {x \in Stakes(r.who, r.table) : x.nonce \notin late}}
           base == Close(club, mine, "left")
       IN Proceed(c, base, CashOut(base, r.table, r.who))

(* Where a tally moves chips: balances, or the stacks at the table.         *)
Account(t, m) == IF Deferred THEN m ELSE <<t, m>>

MinRake(moved) == (moved * RakeBps) \div 10000

Hand(r, from, to, rake) ==
    (IF r.amount > 0 THEN <<Pay("result", from, to, r.amount)>> ELSE << >>)
    \o (IF rake > 0 THEN <<Burn(to, rake)>> ELSE << >>)

(* Mutation: closed commitments are good for another tally. *)
TallyOkAgain(c) ==
    LET r     == call[c].req
        named == {s \in club.stakes : s.nonce \in call[c].nonces}
    IN  /\ r.who # r.to
        /\ call[c].nonces = {s.nonce : s \in named}
        /\ \A s \in named : s.who = r.who => r.amount <= s.amount
        /\ \A s \in named : s.who = r.to => r.rake - r.amount <= s.amount
        /\ r.rake >= MinRake(r.amount)

(* settle's checks, checkTally among them: a member has one entry, the named
   commitments are known and open, nobody loses more than they staked, the rake
   is enough.                                                               *)
TallyOk(c) ==
    LET r     == call[c].req
        named == {s \in club.stakes : s.nonce \in call[c].nonces}
    IN  /\ r.who # r.to
        /\ \A s \in named : s.fate = "open"
        /\ call[c].nonces = {s.nonce : s \in named}
        /\ \A s \in named : s.who = r.who => r.amount <= s.amount
        /\ \A s \in named : s.who = r.to => r.rake - r.amount <= s.amount
        /\ r.rake >= MinRake(r.amount)

EnterSettle(c) ==
    /\ Enters(c, "settle")
    /\ LET r == call[c].req
       IN \/ ~TallyOk(c) /\ Answer(c, "failed") /\ UNCHANGED club
          \/ /\ TallyOk(c)
             /\ Proceed(c, club, Hand(r, Account(r.table, r.who), Account(r.table, r.to),
                                      r.rake))

(* recordResult: result and rake in one go.                                 *)
EnterResult(c) ==
    /\ Enters(c, "result")
    /\ LET r == call[c].req
       IN Proceed(c, club, Hand(r, <<r.table, r.who>>, <<r.table, r.to>>, MinRake(r.amount)))

EnterTransfer(c) ==
    /\ Enters(c, "transfer")
    /\ LET r == call[c].req
           bad == r.amount = 0 \/ r.to = r.who \/ r.to \in club.banned
       IN \/ bad /\ Answer(c, "failed") /\ UNCHANGED club
          \/ ~bad /\ Proceed(c, club, <<Pay("transfer", r.who, r.to, r.amount)>>)

EnterGrant(c) ==
    /\ Enters(c, "grant")
    /\ LET r == call[c].req IN Proceed(c, club, <<Pay("grant", House, r.who, r.amount)>>)

-----------------------------------------------------------------------------
(* The other awaits. *)

(* tables.sit answered: the buy-in, in immediate mode.                      *)
Seated(c) ==
    /\ At(c, "seating")
    /\ LET r == call[c].req
       IN Proceed(c, club, IF Deferred \/ r.amount = 0 THEN << >>
                           ELSE <<Pay("buy-in", r.who, <<r.table, r.who>>, r.amount)>>)
    /\ UNCHANGED issued /\ UNCHANGED frame

(* tables.sit threw, or the seat of a refused buy-in was given back.        *)
NotSeated(c) ==
    /\ At(c, "seating") \/ At(c, "unseating")
    /\ Answer(c, "failed")
    /\ UNCHANGED <<club, issued>> /\ UNCHANGED frame

(* The commitment is signed; it joins whatever the state is now.            *)
Staked(c) ==
    /\ At(c, "staking")
    /\ LET r    == call[c].req
           with == [club EXCEPT !.stakes = @ \cup
                      {[nonce |-> issued + 1, who |-> r.who, table |-> r.table,
                        amount |-> r.amount, id |-> r.id, fate |-> "open"]}]
       IN club' = RecordOp(with, c)
    /\ issued' = issued + 1
    /\ Answer(c, "ok")
    /\ UNCHANGED frame

(* tables.leave answered, for a leave: the rest needs the ledger.           *)
StoodUp(c) ==
    /\ At(c, "standing")
    /\ Goes(c, "queued") /\ line' = Append(line, c)
    /\ UNCHANGED <<club, issued>> /\ UNCHANGED frame

(* tables.leave answered, for an expired stake.                             *)
Reclaimed(c) ==
    /\ At(c, "reclaiming")
    /\ \/ Deferred /\ Reclaims(c, Rest(c), line)
       \/ ~Deferred /\ Goes(c, "queued") /\ line' = Append(line, c)
    /\ UNCHANGED <<club, issued>> /\ UNCHANGED frame

(* createInvite: the state it was issued from, with the invite.             *)
Invited(c) ==
    /\ At(c, "inviting")
    /\ club' = call[c].next
    /\ call' = [call EXCEPT ![c] = [NewCall EXCEPT !.pc = "ok"]]
    /\ UNCHANGED <<line, issued>> /\ UNCHANGED frame

-----------------------------------------------------------------------------
(* Calls come in. *)

New(c) == At(c, "new") /\ Cardinality({d \in Calls : ~At(d, "new")}) < conf.calls

Made(c, r, nonces, pc) ==
    call' = [call EXCEPT ![c] = [@ EXCEPT !.pc = pc, !.req = r, !.nonces = nonces]]

Sits(m, t) == \E s \in Stakes(m, t) : s.fate = "open"

(* Straight to the ledger.  A tally names the stakes its table was given, one
   of each player; hands are played by those who sit, with chips on the table. *)
Direct(c, r) ==
    /\ New(c) /\ r.op \in {"settle", "transfer", "result", "grant"}
    /\ r.op = "transfer" => conf.transfers /\ r.who \notin club.banned
    /\ r.op = "grant" => conf.admins /\ r.amount > 0
    /\ r.op = "result" => ~Deferred /\ Sits(r.who, r.table) /\ Sits(r.to, r.table)
    /\ \E nonces \in IF r.op # "settle" THEN {{}}
                     ELSE {{s.nonce, o.nonce} : s \in Stakes(r.who, r.table),
                                                o \in Stakes(r.to, r.table)} :
         Made(c, r, nonces, "queued")
    /\ line' = Append(line, c)
    /\ UNCHANGED <<club, issued>> /\ UNCHANGED frame

(* sit and lobby reclaim what has expired first: the stakes are closed at
   once, without waiting for the ledger.                                    *)
Arriving(c, r) ==
    /\ New(c) /\ r.op \in {"sit", "lobby"} /\ r.who \notin club.banned
    /\ LET expired == {s \in club.stakes : s.fate = "open" /\ s.nonce \in late}
       IN \/ /\ expired = {}
             /\ Made(c, r, {}, IF r.op = "sit" THEN "queued" ELSE "ok")
             /\ line' = IF r.op = "sit" THEN Append(line, c) ELSE line
             /\ UNCHANGED club
          \/ /\ expired # {}
             /\ club' = Close(club, {s.nonce : s \in expired}, "expired")
             /\ call' = [call EXCEPT ![c] = [@ EXCEPT !.pc = "reclaiming", !.req = r,
                                                      !.reclaim = expired]]
             /\ UNCHANGED line
    /\ UNCHANGED issued /\ UNCHANGED frame

(* leave before the ledger: done already, never sat, or standing up.        *)
Leaving(c, r) ==
    /\ New(c) /\ r.op = "leave" /\ r.who \notin club.banned
    /\ LET done == \E o \in club.ops : o.id = r.id /\ o.args = r
       IN Made(c, r, {}, IF done THEN "ok"
                         ELSE IF Stakes(r.who, r.table) # {} THEN "standing" ELSE "failed")
    /\ UNCHANGED <<club, line, issued>> /\ UNCHANGED frame

Inviting(c, r) ==
    /\ New(c) /\ r.op = "invite" /\ conf.admins
    /\ call' = [call EXCEPT ![c] = [@ EXCEPT !.pc = "inviting", !.req = r,
                                             !.next = [club EXCEPT !.invites = @ + 1]]]
    /\ UNCHANGED <<club, line, issued>> /\ UNCHANGED frame

-----------------------------------------------------------------------------
(* What happens without a call. *)

(* admin.ban and admin.approve write the state at once.                     *)
Ban(m) ==
    /\ conf.admins /\ m \notin club.banned
    /\ club' = [club EXCEPT !.banned = @ \cup {m}]
    /\ UNCHANGED <<call, line, issued>> /\ UNCHANGED frame

Approve(m) ==
    /\ conf.admins /\ m \in club.banned
    /\ club' = [club EXCEPT !.banned = @ \ {m}]
    /\ UNCHANGED <<call, line, issued>> /\ UNCHANGED frame

Ticks == conf.clock /\ Cardinality(late) + Cardinality(aged) < MaxTicks

Expire(n) ==
    /\ Ticks /\ n \notin late
    /\ \E s \in club.stakes : s.nonce = n /\ s.fate = "open"
    /\ late' = late \cup {n}
    /\ UNCHANGED <<conf, club, call, line, aged, issued, crashes>>

Age(n) ==
    /\ Ticks /\ n \notin aged
    /\ \E s \in club.stakes : s.nonce = n /\ s.fate # "open"
    /\ aged' = aged \cup {n}
    /\ UNCHANGED <<conf, club, call, line, late, issued, crashes>>

(* The process dies and is started again on what was persisted last.        *)
Crash ==
    /\ conf.dies /\ crashes < MaxCrashes
    /\ crashes' = crashes + 1
    /\ call' = [c \in Calls |->
                  IF call[c].pc \in Ended THEN call[c]
                  ELSE [NewCall EXCEPT !.pc = "lost"]]
    /\ line' = << >>
    /\ UNCHANGED <<conf, club, late, aged, issued>>

-----------------------------------------------------------------------------
(* The specification. *)

(* Balances and commitments as the stored state has them; the ledger is what
   is appended from now on.                                                 *)
OpenedBal ==
    [a \in Accounts |-> CASE a = House     -> Reserve
                          [] a \in Members -> Opening
                          [] OTHER -> IF conf.sat /\ ~Deferred THEN Staked0 ELSE 0]

OpenedStakes ==
    LET seats == Members \X Tables
        nonce == CHOOSE f \in [seats -> 1..Cardinality(seats)] :
                     \A p, q \in seats : f[p] = f[q] => p = q
    IN  IF ~conf.sat THEN {}
        ELSE {[nonce |-> nonce[p], who |-> p[1], table |-> p[2],
               amount |-> Staked0, id |-> 0, fate |-> "open"] : p \in seats}

Init ==
    /\ conf \in Confs
    /\ club = [ledger |-> << >>, bal |-> OpenedBal, stakes |-> OpenedStakes, ops |-> {},
               banned |-> {}, invites |-> 0]
    /\ call = [c \in Calls |-> NewCall]
    /\ line = << >> /\ late = {} /\ aged = {} /\ crashes = 0
    /\ issued = IF conf.sat THEN Cardinality(Members \X Tables) ELSE 0

Enter(c) == \/ EnterReclaim(c) \/ Replayed(c) \/ EnterSit(c) \/ EnterLeave(c)
            \/ EnterSettle(c) \/ EnterResult(c) \/ EnterTransfer(c) \/ EnterGrant(c)
Resume(c) == \/ Signed(c) \/ Seated(c) \/ NotSeated(c) \/ Staked(c) \/ StoodUp(c)
             \/ Reclaimed(c) \/ Invited(c)
Next ==
    \/ \E c \in Calls :
         \/ Enter(c) \/ Resume(c)
         \/ \E r \in Requests :
              Direct(c, r) \/ Arriving(c, r) \/ Leaving(c, r) \/ Inviting(c, r)
    \/ \E m \in Members : Ban(m) \/ Approve(m)
    \/ \E n \in 1..issued : Expire(n) \/ Age(n)
    \/ Crash

Spec == Init /\ [][Next]_vars

-----------------------------------------------------------------------------
(* Properties. *)

CallState == [pc : PCs, req : Request \cup {NoRequest}, nonces : SUBSET Nat,
              todo : Seq(Draft),
              reclaim : SUBSET Stake, next : ClubState \cup {NoState}]

(* Every variable has its type; no account is ever overdrawn (validateDraft).  *)
TypeOK ==
    /\ conf \in Confs /\ club \in ClubState
    /\ call \in [Calls -> CallState]
    /\ line \in Seq(Calls)
    /\ late \subseteq Nat /\ aged \subseteq Nat /\ issued \in Nat /\ crashes \in Nat

Result(i) == club.ledger[i].kind = "result"

(* "Two concurrent appends reading the same base state would otherwise lose one
   of the entries" (serialised): an entry that was stored is never lost.     *)
EntriesKept ==
    [][/\ Len(club'.ledger) >= Len(club.ledger)
       /\ SubSeq(club'.ledger, 1, Len(club.ledger)) = club.ledger]_vars

(* "The result and its rake burn are one serialised step" (recordResult, and
   settle): nothing comes between them, unless the call failed midway.      *)
HandWhole ==
    ~conf.admins =>
        \A i \in DOMAIN club.ledger :
            (/\ Result(i) /\ i < Len(club.ledger)
             /\ call[club.ledger[i].by].pc # "lost" /\ ~club.ledger[i].last)
                => /\ club.ledger[i + 1].kind = "burn"
                   /\ club.ledger[i + 1].by = club.ledger[i].by

(* "The same id returns the original answer and moves no chips a second time":
   an operation id has at most one entry of a kind, and one commitment.     *)
MovedOnce ==
    /\ \A i, j \in DOMAIN club.ledger :
          (/\ club.ledger[i].id # 0 /\ club.ledger[i].id = club.ledger[j].id
           /\ club.ledger[i].kind = club.ledger[j].kind) => i = j
    /\ \A r, s \in club.stakes : (r.id # 0 /\ r.id = s.id) => r = s

(* The same, as long as the process lives and no admin interferes.          *)
OpOnce == (crashes = 0 /\ ~conf.admins) => MovedOnce

Settling == line # << >> /\ call[Head(line)].pc = "signing"

(* No account is overdrawn (the type of the balances), and a deferred club never
   promises the same chips twice: what live commitments may cost a member is in
   the balance, so that an honest tally can be paid (the check of seatMember,
   made while holding the ledger).                                          *)
StakesCovered ==
    /\ TypeOK
    /\ (/\ Deferred /\ ~conf.admins /\ ~conf.transfers /\ ~conf.clock /\ crashes = 0
        /\ ~Settling)
       => \A m \in Members : Encumbered(club, m) <= club.bal[m]

(* Chips on a table can be taken off it: whoever has a stack has a commitment,
   which leave asks for, or is being seated.                                *)
NothingStranded ==
    (crashes = 0 /\ ~conf.admins /\ ~conf.clock) =>
        \A t \in Tables, m \in Members :
            Stack(club, t, m) > 0 =>
                \/ Stakes(m, t) # {}
                \/ \E c \in Calls : At(c, "staking") /\ call[c].req.who = m

(* "A settled commitment cannot be settled again": no two results name the same
   one, whatever calls overlap or stakes expire meanwhile.                  *)
SettledOnce ==
    (crashes = 0 /\ ~conf.admins) =>
        \A i, j \in DOMAIN club.ledger :
            (Result(i) /\ Result(j) /\ i # j)
                => club.ledger[i].nonces \cap club.ledger[j].nonces = {}
=============================================================================
